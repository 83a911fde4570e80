--------------------------------- MODULE Anchor ---------------------------------
(***************************************************************************)
(* The anchor's records of people and payments: SEP-12 customers, SEP-31   *)
(* transactions, and the two privacy requests that read and erase them.    *)
(*                                                                         *)
(* A customer is an object of the process: a data-access request that has  *)
(* collected objects keeps them across its awaits, whatever happens to     *)
(* them in between, and erasure rewrites them in place.  A field is only   *)
(* "absent", "plain" or "erased".  The audit log is a database: a write    *)
(* may fail, and the logger then carries on.                               *)
(***************************************************************************)
EXTENDS Integers, Sequences, FiniteSets

CONSTANTS
    Account,        \* authenticated Stellar accounts
    Memo,           \* memos that tell the customers of one account apart
    Field,          \* required SEP-9 fields
    Request,        \* privacy requests; each is made once
    MaxCustomers,   \* bound: customer objects ever created
    MaxTransactions \* bound: transactions ever created

VARIABLES
    objects,       \* customer objects, in order of creation
    customers,     \* those the store holds
    transactions,  \* SEP-31 transactions
    pc,            \* privacy request -> where it is
    task,          \* privacy request -> what it does, for whom, on what
    audit,         \* privacy requests with an entry in the audit log
    \* History.
    lost,          \* privacy requests whose audit write failed
    churned,       \* privacy requests overlapped by a creation or a deletion
    export         \* privacy request -> what its answer shows

requests == <<pc, task, audit, lost, churned, export>>
records  == <<objects, customers, transactions>>
vars     == <<records, requests>>

NoTask == [kind |-> "none"]

Init ==
    /\ objects = <<>>
    /\ customers = {}
    /\ transactions = <<>>
    /\ pc = [q \in Request |-> "new"]
    /\ task = [q \in Request |-> NoTask]
    /\ audit = {} /\ lost = {} /\ churned = {}
    /\ export = [q \in Request |-> NoTask]

-----------------------------------------------------------------------------
(* SEP-12. *)

\* findCustomer by account and memo: one object at most.
Found(a, m) == {i \in customers : objects[i].account = a /\ objects[i].memo = m}

Missing(i) == {f \in Field : objects[i].fields[f] = "absent"}

\* GET /customer.
CustomerStatus(i) == IF Missing(i) = {} THEN "ACCEPTED" ELSE "NEEDS_INFO"

Overlapped == {q \in Request : pc[q] \in {"audit", "answer"}}

PutCustomer(a, m, given) ==
    /\ \/ \E i \in Found(a, m) :
            /\ objects' = [objects EXCEPT ![i].fields =
                             [f \in Field |-> IF f \in given THEN "plain" ELSE @[f]]]
            /\ UNCHANGED <<customers, churned>>
       \/ /\ Found(a, m) = {} /\ Len(objects) < MaxCustomers
          /\ objects' = Append(objects, [account |-> a, memo |-> m, fields |->
                           [f \in Field |-> IF f \in given THEN "plain" ELSE "absent"]])
          /\ customers' = customers \cup {Len(objects) + 1}
          /\ churned' = churned \cup Overlapped
    /\ UNCHANGED <<transactions, pc, task, audit, lost, export>>

DeleteCustomer(a, m) ==
    /\ Found(a, m) # {}
    /\ customers' = customers \ Found(a, m)
    /\ churned' = churned \cup Overlapped
    /\ UNCHANGED <<objects, transactions, pc, task, audit, lost, export>>

-----------------------------------------------------------------------------
(* SEP-31. *)

\* An erased value is a value: an erased customer is still accepted.
CustomerAccepted(i) == i \in customers /\ CustomerStatus(i) = "ACCEPTED"

PostTransaction(creator, sender, receiver) ==
    /\ CustomerAccepted(sender) /\ CustomerAccepted(receiver)
    /\ Len(transactions) < MaxTransactions
    /\ transactions' = Append(transactions, [creator |-> creator, status |-> "pending_sender"])
    /\ UNCHANGED <<objects, customers, requests>>

\* Operators ask for more information; nothing under src/ does.
RequestInfo(t) ==
    /\ transactions[t].status = "pending_sender"
    /\ transactions' = [transactions EXCEPT ![t].status = "pending_transaction_info_update"]
    /\ UNCHANGED <<objects, customers, requests>>

PatchTransaction(a, t) ==
    /\ transactions[t].creator = a
    /\ transactions[t].status = "pending_transaction_info_update"
    /\ transactions' = [transactions EXCEPT ![t].status = "pending_receiver"]
    /\ UNCHANGED <<objects, customers, requests>>

-----------------------------------------------------------------------------
(* Privacy requests. *)

\* For a mutant: customers are matched by anything but the account.
CustomersOfAnyone(a) == customers

CustomersOf(a) == {i \in customers : objects[i].account = a}
TransactionsOf(a) == {t \in DOMAIN transactions : transactions[t].creator = a}

\* Data-access request: collect, then wait for the audit log.
Dsar(q, a) ==
    /\ pc[q] = "new"
    /\ pc' = [pc EXCEPT ![q] = "audit"]
    /\ task' = [task EXCEPT ![q] = [kind |-> "dsar", account |-> a, on |-> CustomersOf(a)]]
    /\ UNCHANGED <<records, audit, lost, churned, export>>

\* pseudonymizeFields: a value once, an erased one left as it is.
Erased(fields) == [f \in Field |-> IF fields[f] = "absent" THEN "absent" ELSE "erased"]

\* Erasure: rewrite every customer of the account, then wait for the log.
Erase(q, a) ==
    /\ pc[q] = "new" /\ CustomersOf(a) # {}
    /\ pc' = [pc EXCEPT ![q] = "audit"]
    /\ task' = [task EXCEPT ![q] = [kind |-> "erasure", account |-> a, on |-> CustomersOf(a)]]
    /\ objects' = [i \in DOMAIN objects |->
                     IF i \in CustomersOf(a)
                     THEN [objects[i] EXCEPT !.fields = Erased(@)] ELSE objects[i]]
    /\ UNCHANGED <<customers, transactions, audit, lost, churned, export>>

\* For a mutant: the entry is written after the answer, if at all.
AuditWriteDeferred(q) ==
    /\ pc[q] = "audit"
    /\ pc' = [pc EXCEPT ![q] = "answer"]
    /\ UNCHANGED <<records, task, audit, lost, churned, export>>

\* record(): the insert succeeds, or its failure is logged and forgotten.
AuditWrite(q) ==
    /\ pc[q] = "audit"
    /\ pc' = [pc EXCEPT ![q] = "answer"]
    /\ \/ audit' = audit \cup {q} /\ UNCHANGED lost
       \/ lost' = lost \cup {q} /\ UNCHANGED audit
    /\ UNCHANGED <<records, task, churned, export>>

\* getEntriesForSubject.
EntriesOf(a) == {r \in audit : task[r].account = a}

\* buildDsarExport: the objects collected, as they are by now, and the audit
\* entries.  Kept of it: the customers it shows or misses by mistake.
Export(on, now, log) ==
    [kind |-> "dsar", stale |-> (on \ now) \cup (now \ on), log |-> log]

AnswerDsar(q) ==
    /\ pc[q] = "answer" /\ task[q].kind = "dsar"
    /\ pc' = [pc EXCEPT ![q] = "answered"]
    /\ LET a == task[q].account
       IN  export' = [export EXCEPT ![q] = Export(task[q].on, CustomersOf(a), EntriesOf(a))]
    /\ UNCHANGED <<records, task, audit, lost, churned>>

\* The answer counts the transactions that erasure retains.
AnswerErasure(q) ==
    /\ pc[q] = "answer" /\ task[q].kind = "erasure"
    /\ pc' = [pc EXCEPT ![q] = "answered"]
    /\ export' = [export EXCEPT ![q] = [kind |-> "erasure",
                     hold |-> TransactionsOf(task[q].account) # {}]]
    /\ UNCHANGED <<records, task, audit, lost, churned>>

Next ==
    \/ \E a \in Account, m \in Memo :
         \/ \E given \in SUBSET Field : PutCustomer(a, m, given)
         \/ DeleteCustomer(a, m)
    \/ \E a \in Account, i, j \in customers : PostTransaction(a, i, j)
    \/ \E t \in DOMAIN transactions :
         RequestInfo(t) \/ \E a \in Account : PatchTransaction(a, t)
    \/ \E q \in Request :
         \/ \E a \in Account : Dsar(q, a) \/ Erase(q, a)
         \/ AuditWrite(q) \/ AnswerDsar(q) \/ AnswerErasure(q)

Spec == Init /\ [][Next]_vars

-----------------------------------------------------------------------------
(* Properties. *)

\* Nothing is erased without a trace: behind every erased value there is an
\* erasure of its account that is in the audit log, or about to be, or whose
\* write the database refused.  A later PUT or DELETE does not disturb it.
ErasureIsAudited ==
    \A i \in DOMAIN objects : \A f \in Field :
        objects[i].fields[f] = "erased" =>
            \E q \in Request : /\ task[q].kind = "erasure"
                               /\ task[q].account = objects[i].account
                               /\ q \in audit \cup lost \/ pc[q] = "audit"

\* An export is the account's own records as they are when it is sent, its
\* own audit entry among them.  It differs (shows a deleted customer, misses a
\* new one, lacks its entry) only if one was created or deleted while the
\* request waited for the log, or the write failed.
ExportHasCause ==
    \A q \in Request : export[q].kind = "dsar" =>
        /\ \A i \in task[q].on : objects[i].account = task[q].account
        /\ export[q].stale # {} => q \in churned
        /\ q \in export[q].log \/ q \in lost
===============================================================================
