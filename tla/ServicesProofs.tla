---------------------------- MODULE ServicesProofs -----------------------------
(***************************************************************************)
(* Proofs about the API's services, for any accounts, users, fans,         *)
(* verifications, rates and calls.  The services share nothing: a step of  *)
(* one leaves the variables of the others alone, so that each has an       *)
(* inductive invariant of its own.                                         *)
(***************************************************************************)
EXTENDS MCServices, TLAPS, SequenceTheorems, FiniteSetTheorems, WellFoundedInduction

\* What a step of the system can be for each service.
LEMMA ServiceSteps ==
    ASSUME [Next]_vars
    PROVE  /\ People!Next \/ UNCHANGED privacy
           /\ Notices!Next \/ UNCHANGED consent
           /\ Tiers!Next \/ UNCHANGED creators
           /\ Gate!Next \/ UNCHANGED kyc
           /\ Fx!Next \/ UNCHANGED fx
BY DEF Next, vars

-------------------------------------------------------------------------------
\* SEP-12 customers and the privacy requests.

Customer == [account: Account, memo: Memo, fields: [Field -> {"absent", "plain", "erased"}]]
Task == [kind: {"dsar", "erasure"}, account: Account, on: SUBSET Nat]

PeopleTypeOK ==
    /\ objects \in Seq(Customer)
    /\ customers \subseteq DOMAIN objects
    /\ pc \in [Request -> {"new", "audit", "answer", "answered"}]
    /\ task \in [Request -> {People!NoTask} \cup Task]
    /\ DOMAIN export = Request

\* A request has its task from its first step, and is in the log, or its entry is
\* lost, from its second.
Progress ==
    \A q \in Request :
        /\ pc[q] # "new" => task[q] \in Task
        /\ pc[q] = "new" => task[q] = People!NoTask
        /\ pc[q] \in {"answer", "answered"} => q \in audit \cup lost
        /\ export[q].kind = "dsar" => pc[q] = "answered"

\* What a request has collected are objects of its account, all of them and no others
\* while nothing was created or deleted since.
Collected ==
    \A q \in Request : pc[q] # "new" =>
        /\ \A i \in task[q].on :
              i \in DOMAIN objects /\ objects[i].account = task[q].account
        /\ pc[q] \in {"audit", "answer"} /\ q \notin churned =>
              People!CustomersOf(task[q].account) = task[q].on

Exported ==
    \A q \in Request : export[q].kind = "dsar" =>
        /\ export[q].stale # {} => q \in churned
        /\ q \in export[q].log \/ q \in lost

PeopleInv ==
    PeopleTypeOK /\ Progress /\ Collected /\ Exported /\ People!ErasureIsAudited

\* The anchor starts in its invariant.
LEMMA PeopleInitially == Init => PeopleInv
<1> SUFFICES ASSUME People!Init PROVE PeopleInv
  BY DEF Init
<1> USE DEF People!Init, People!NoTask
<1>1. PeopleTypeOK
  BY DEF PeopleTypeOK
<1>2. Progress /\ Collected /\ Exported
  BY DEF Progress, Collected, Exported
<1>3. People!ErasureIsAudited
  BY DEF People!ErasureIsAudited
<1>4. QED
  BY <1>1, <1>2, <1>3 DEF PeopleInv

\* The tasks do not read as objects of each other: a task that is set is no NoTask.
LEMMA TasksDiffer == People!NoTask \notin Task
BY DEF People!NoTask, Task

\* What PUT and erasure do to the objects: accounts stay, and a field becomes erased
\* only by an erasure of its account.
ObjectsKept ==
    /\ objects' \in Seq(Customer) /\ DOMAIN objects \subseteq DOMAIN objects'
    /\ \A i \in DOMAIN objects : objects'[i].account = objects[i].account

\* PUT of a customer keeps the store well formed.
LEMMA PutKeeps ==
    ASSUME PeopleTypeOK, NEW a \in Account, NEW m \in Memo, NEW given \in SUBSET Field,
           People!PutCustomer(a, m, given)
    PROVE  /\ ObjectsKept
           /\ \A i \in DOMAIN objects' : \A f \in Field : objects'[i].fields[f] = "erased" =>
                 i \in DOMAIN objects /\ objects[i].fields[f] = "erased"
           /\ \/ customers' = customers /\ DOMAIN objects' = DOMAIN objects /\ churned' = churned
              \/ churned' = churned \cup People!Overlapped
           /\ customers' \subseteq DOMAIN objects'
<1> USE DEF PeopleTypeOK
<1>1. ASSUME NEW i \in People!Found(a, m),
             objects' = [objects EXCEPT ![i].fields =
                            [f \in Field |-> IF f \in given THEN "plain" ELSE @[f]]]
      PROVE  /\ ObjectsKept /\ DOMAIN objects' = DOMAIN objects
             /\ \A j \in DOMAIN objects' : \A f \in Field : objects'[j].fields[f] = "erased" =>
                   objects[j].fields[f] = "erased"
  <2>1. i \in DOMAIN objects /\ objects[i] \in Customer
    BY DEF People!Found
  <2> DEFINE new == [f \in Field |-> IF f \in given THEN "plain" ELSE objects[i].fields[f]]
             updated == [objects[i] EXCEPT !.fields = new]
  <2>2. new \in [Field -> {"absent", "plain", "erased"}]
    BY <2>1 DEF Customer
  <2>3. /\ updated \in Customer /\ updated.account = objects[i].account
        /\ updated.fields = new
    BY <2>1, <2>2 DEF Customer
  <2>4. objects' = [objects EXCEPT ![i] = updated]
    BY <1>1
  <2> HIDE DEF new, updated
  <2>5. DOMAIN objects' = DOMAIN objects /\ objects' \in Seq(Customer)
    BY <2>1, <2>3, <2>4
  <2>6. objects'[i] = updated /\ \A j \in DOMAIN objects \ {i} : objects'[j] = objects[j]
    BY <2>1, <2>4
  <2>7. \A f \in Field : new[f] = "erased" => objects[i].fields[f] = "erased"
    BY DEF new
  <2>8. QED
    BY <2>3, <2>5, <2>6, <2>7 DEF ObjectsKept
<1>2. ASSUME objects' = Append(objects, [account |-> a, memo |-> m, fields |->
                           [f \in Field |-> IF f \in given THEN "plain" ELSE "absent"]]),
             customers' = customers \cup {Len(objects) + 1}
      PROVE  /\ ObjectsKept /\ customers' \subseteq DOMAIN objects'
             /\ \A j \in DOMAIN objects' : \A f \in Field : objects'[j].fields[f] = "erased" =>
                   j \in DOMAIN objects /\ objects[j].fields[f] = "erased"
  <2> DEFINE new == [account |-> a, memo |-> m, fields |->
                        [f \in Field |-> IF f \in given THEN "plain" ELSE "absent"]]
  <2>1. new \in Customer /\ \A f \in Field : new.fields[f] # "erased"
    BY DEF Customer
  <2> HIDE DEF new
  <2>2. objects' = Append(objects, new)
    BY <1>2 DEF new
  <2>3. /\ objects' \in Seq(Customer) /\ DOMAIN objects' = DOMAIN objects \cup {Len(objects) + 1}
        /\ objects'[Len(objects) + 1] = new
        /\ \A j \in DOMAIN objects : objects'[j] = objects[j]
    BY <2>1, <2>2
  <2>4. QED
    BY <1>2, <2>1, <2>3 DEF ObjectsKept
<1>3. QED
  BY <1>1, <1>2 DEF People!PutCustomer

\* The last step of an erasure keeps the store well formed.
LEMMA EraseKeeps ==
    ASSUME PeopleTypeOK, NEW q \in Request, NEW a \in Account, People!Erase(q, a)
    PROVE  /\ ObjectsKept /\ DOMAIN objects' = DOMAIN objects
           /\ \A i \in DOMAIN objects \ People!CustomersOf(a) : objects'[i] = objects[i]
<1> USE DEF PeopleTypeOK
<1>1. objects' = [i \in DOMAIN objects |->
                     IF i \in People!CustomersOf(a)
                     THEN [objects[i] EXCEPT !.fields = People!Erased(objects[i].fields)]
                     ELSE objects[i]]
  BY DEF People!Erase
<1>2. ASSUME NEW i \in DOMAIN objects
      PROVE  /\ objects'[i] \in Customer /\ objects'[i].account = objects[i].account
             /\ i \notin People!CustomersOf(a) => objects'[i] = objects[i]
  <2>1. objects[i] \in Customer
    OBVIOUS
  <2>2. People!Erased(objects[i].fields) \in [Field -> {"absent", "plain", "erased"}]
    BY <2>1 DEF Customer, People!Erased
  <2>3. [objects[i] EXCEPT !.fields = People!Erased(objects[i].fields)] \in Customer
        /\ [objects[i] EXCEPT !.fields = People!Erased(objects[i].fields)].account
              = objects[i].account
    BY <2>1, <2>2 DEF Customer
  <2>4. QED
    BY <1>1, <2>1, <2>3
<1>3. DOMAIN objects = 1..Len(objects) /\ Len(objects) \in Nat
  OBVIOUS
<1>4. objects' \in Seq(Customer) /\ DOMAIN objects' = DOMAIN objects
  BY <1>1, <1>2, <1>3
<1>5. QED
  BY <1>2, <1>4 DEF ObjectsKept
\* While the objects keep their accounts, an account has the same customers as before.
LEMMA SameCustomers ==
    ASSUME PeopleTypeOK, ObjectsKept, customers' = customers, NEW a
    PROVE  People!CustomersOf(a)' = People!CustomersOf(a)
BY DEF PeopleTypeOK, ObjectsKept, People!CustomersOf

\* Writes to the store of customers, that leave the requests where they are.
LEMMA StoreStep ==
    ASSUME PeopleInv, ObjectsKept, customers' \subseteq DOMAIN objects',
           \A i \in DOMAIN objects' : \A f \in Field : objects'[i].fields[f] = "erased" =>
              i \in DOMAIN objects /\ objects[i].fields[f] = "erased",
           \/ customers' = customers /\ churned' = churned
           \/ churned' = churned \cup People!Overlapped,
           UNCHANGED <<pc, task, audit, lost, export>>
    PROVE  PeopleInv'
<1> USE DEF PeopleInv
<1>1. PeopleTypeOK'
  BY DEF PeopleTypeOK, ObjectsKept
<1>2. Progress'
  BY DEF Progress
<1>3. Collected'
  <2> SUFFICES ASSUME NEW q \in Request, pc[q] # "new"
               PROVE  /\ \A i \in task[q].on :
                            i \in DOMAIN objects' /\ objects'[i].account = task[q].account
                      /\ pc[q] \in {"audit", "answer"} /\ q \notin churned' =>
                            People!CustomersOf(task[q].account)' = task[q].on
    BY DEF Collected, People!CustomersOf
  <2>1. \A i \in task[q].on : i \in DOMAIN objects' /\ objects'[i].account = task[q].account
    BY DEF Collected, ObjectsKept
  <2>2. ASSUME pc[q] \in {"audit", "answer"}, q \notin churned'
        PROVE  customers' = customers /\ q \notin churned
    BY <2>2 DEF People!Overlapped
  <2>3. QED
    BY <2>1, <2>2, SameCustomers DEF Collected
<1>4. Exported'
  BY DEF Exported
<1>5. People!ErasureIsAudited'
  <2> SUFFICES ASSUME NEW i \in DOMAIN objects', NEW f \in Field,
                      objects'[i].fields[f] = "erased"
               PROVE  \E q \in Request : /\ task[q].kind = "erasure"
                                         /\ task[q].account = objects'[i].account
                                         /\ q \in audit \cup lost \/ pc[q] = "audit"
    BY DEF People!ErasureIsAudited
  <2>1. i \in DOMAIN objects /\ objects[i].fields[f] = "erased"
        /\ objects'[i].account = objects[i].account
    BY DEF ObjectsKept
  <2>2. QED
    BY <2>1 DEF People!ErasureIsAudited
<1>6. QED
  BY <1>1, <1>2, <1>3, <1>4, <1>5

\* The first step of a request: it collects the customers of its account, and may
\* erase them.
LEMMA CollectStep ==
    ASSUME PeopleInv, NEW q \in Request, NEW a \in Account,
           People!Dsar(q, a) \/ People!Erase(q, a)
    PROVE  PeopleInv'
<1> USE DEF PeopleInv
<1> DEFINE on == People!CustomersOf(a)
<1>1. PICK k \in {"dsar", "erasure"} :
        /\ task' = [task EXCEPT ![q] = [kind |-> k, account |-> a, on |-> on]]
        /\ k = "dsar" => objects' = objects
        /\ k = "erasure" => People!Erase(q, a)
  BY DEF People!Dsar, People!Erase, People!records
<1>2. /\ pc[q] = "new" /\ pc' = [pc EXCEPT ![q] = "audit"]
      /\ UNCHANGED <<customers, transactions, audit, lost, churned, export>>
  BY DEF People!Dsar, People!Erase, People!records
<1>3. ObjectsKept /\ DOMAIN objects' = DOMAIN objects
  BY <1>1, EraseKeeps DEF ObjectsKept, PeopleTypeOK
<1>4. on \subseteq DOMAIN objects /\ \A i \in on : objects[i].account = a
  BY DEF PeopleTypeOK, People!CustomersOf
<1>5. DOMAIN objects \subseteq Nat
  BY DEF PeopleTypeOK
<1>6. /\ \A r \in Request \ {q} : task'[r] = task[r] /\ pc'[r] = pc[r]
      /\ task'[q].kind = k /\ task'[q].account = a /\ task'[q].on = on
      /\ task'[q] \in Task /\ pc'[q] = "audit"
  BY <1>1, <1>2, <1>4, <1>5 DEF PeopleTypeOK, Task
<1>7. PeopleTypeOK'
  BY <1>1, <1>2, <1>3, <1>6 DEF PeopleTypeOK, ObjectsKept
<1>8. Progress'
  BY <1>2, <1>6 DEF Progress
<1>9. Collected'
  <2>1. \A c : {i \in customers' : objects'[i].account = c}
                  = {i \in customers : objects[i].account = c}
    BY <1>2, <1>3 DEF ObjectsKept, PeopleTypeOK
  <2>2. \A c : People!CustomersOf(c) = {i \in customers : objects[i].account = c}
    BY DEF People!CustomersOf
  <2>3. ASSUME NEW r \in Request, pc'[r] # "new"
        PROVE  /\ \A i \in task'[r].on :
                     i \in DOMAIN objects' /\ objects'[i].account = task'[r].account
               /\ pc'[r] \in {"audit", "answer"} /\ r \notin churned' =>
                     {i \in customers' : objects'[i].account = task'[r].account} = task'[r].on
    <3>1. CASE r = q
      <4>1. task'[r].on = on /\ task'[r].account = a
        BY <3>1, <1>6
      <4>2. \A i \in on : i \in DOMAIN objects' /\ objects'[i].account = a
        BY <1>3, <1>4 DEF ObjectsKept
      <4>3. {i \in customers' : objects'[i].account = a} = on
        BY <2>1, <2>2
      <4> HIDE DEF on
      <4>4. QED
        BY <4>1, <4>2, <4>3
    <3>2. CASE r # q
      <4>1. pc[r] = pc'[r] /\ task'[r] = task[r] /\ churned' = churned
        BY <3>2, <1>2, <1>6
      <4>2. QED
        BY <4>1, <2>1, <2>2, <2>3, <1>3 DEF Collected, ObjectsKept
    <3>3. QED
      BY <3>1, <3>2
  <2>4. QED
    BY <2>3 DEF Collected, People!CustomersOf
<1>10. Exported'
  BY <1>2 DEF Exported
<1>11. People!ErasureIsAudited'
  <2> SUFFICES ASSUME NEW i \in DOMAIN objects', NEW f \in Field,
                      objects'[i].fields[f] = "erased"
               PROVE  \E r \in Request : /\ task'[r].kind = "erasure"
                                         /\ task'[r].account = objects'[i].account
                                         /\ r \in audit' \cup lost' \/ pc'[r] = "audit"
    BY DEF People!ErasureIsAudited
  <2>1. CASE k = "erasure" /\ i \in on
    BY <2>1, <1>3, <1>4, <1>6 DEF ObjectsKept
  <2>2. CASE ~(k = "erasure" /\ i \in on)
    <3>1. objects'[i] = objects[i] /\ i \in DOMAIN objects
      BY <2>2, <1>1, <1>3, EraseKeeps
    <3>2. PICK r \in Request : /\ task[r].kind = "erasure"
                               /\ task[r].account = objects[i].account
                               /\ r \in audit \cup lost \/ pc[r] = "audit"
      BY <3>1 DEF People!ErasureIsAudited
    <3>3. r # q
      BY <3>2, <1>2 DEF Progress, People!NoTask
    <3>4. QED
      BY <3>1, <3>2, <3>3, <1>2, <1>6
  <2>3. QED
    BY <2>1, <2>2
<1>12. QED
  BY <1>7, <1>8, <1>9, <1>10, <1>11

\* The next steps of a request: its audit entry, then its answer.
LEMMA RequestStep ==
    ASSUME PeopleInv, NEW q \in Request,
           People!AuditWrite(q) \/ People!AnswerDsar(q) \/ People!AnswerErasure(q)
    PROVE  PeopleInv'
<1> USE DEF PeopleInv
<1>1. UNCHANGED <<objects, customers, transactions, task, churned>>
  BY DEF People!AuditWrite, People!AnswerDsar, People!AnswerErasure, People!records
<1>2. PICK to \in {"answer", "answered"} :
        /\ pc' = [pc EXCEPT ![q] = to] /\ pc[q] \in {"audit", "answer"}
        /\ to = "answered" => pc[q] = "answer" /\ UNCHANGED <<audit, lost>>
        /\ to = "answer" => UNCHANGED export /\ pc[q] = "audit" /\ q \in (audit \cup lost)'
        /\ audit \subseteq audit' /\ lost \subseteq lost'
  BY DEF People!AuditWrite, People!AnswerDsar, People!AnswerErasure
<1>3. \A r \in Request \ {q} : pc'[r] = pc[r]
  BY <1>2 DEF PeopleTypeOK
<1>4. pc'[q] = to
  BY <1>2 DEF PeopleTypeOK
<1>5. DOMAIN export' = Request /\ \A r \in Request \ {q} : export'[r] = export[r]
  BY DEF People!AuditWrite, People!AnswerDsar, People!AnswerErasure, PeopleTypeOK
<1>6. ASSUME export'[q].kind = "dsar"
      PROVE  /\ to = "answered"
             /\ export'[q] = People!Export(task[q].on, People!CustomersOf(task[q].account),
                                           People!EntriesOf(task[q].account))
  <2>1. CASE People!AuditWrite(q)
    <3>1. export' = export /\ pc[q] = "audit"
      BY <2>1 DEF People!AuditWrite
    <3>2. QED
      BY <3>1, <1>6 DEF Progress
  <2>2. CASE People!AnswerDsar(q)
    <3>1. pc' = [pc EXCEPT ![q] = "answered"]
      BY <2>2 DEF People!AnswerDsar
    <3>2. QED
      BY <2>2, <3>1, <1>4 DEF People!AnswerDsar, PeopleTypeOK
  <2>3. CASE People!AnswerErasure(q)
    <3>1. export'[q] = [kind |-> "erasure", hold |-> People!TransactionsOf(task[q].account) # {}]
      BY <2>3 DEF People!AnswerErasure, PeopleTypeOK
    <3>2. QED
      BY <3>1, <1>6
  <2>4. QED
    BY <2>1, <2>2, <2>3
<1>7. PeopleTypeOK'
  BY <1>1, <1>2, <1>5 DEF PeopleTypeOK
<1>8. Progress'
  <2> SUFFICES ASSUME NEW r \in Request
               PROVE  /\ pc'[r] # "new" => task'[r] \in Task
                      /\ pc'[r] = "new" => task'[r] = People!NoTask
                      /\ pc'[r] \in {"answer", "answered"} => r \in audit' \cup lost'
                      /\ export'[r].kind = "dsar" => pc'[r] = "answered"
    BY DEF Progress, People!NoTask
  <2>1. CASE r = q
    BY <2>1, <1>1, <1>2, <1>4, <1>6 DEF Progress
  <2>2. CASE r # q
    BY <2>2, <1>1, <1>2, <1>3, <1>5 DEF Progress
  <2>3. QED
    BY <2>1, <2>2
<1>9. Collected'
  <2>1. \A r \in Request : pc'[r] # "new" => pc[r] # "new"
    BY <1>2, <1>3
  <2>2. \A r \in Request : pc'[r] \in {"audit", "answer"} => pc[r] \in {"audit", "answer"}
    BY <1>2, <1>3
  <2>3. QED
    BY <2>1, <2>2, <1>1 DEF Collected, People!CustomersOf
<1>10. Exported'
  <2> SUFFICES ASSUME NEW r \in Request, export'[r].kind = "dsar"
               PROVE  /\ export'[r].stale # {} => r \in churned'
                      /\ r \in export'[r].log \/ r \in lost'
    BY DEF Exported
  <2>1. CASE r # q
    BY <2>1, <1>1, <1>2, <1>5 DEF Exported
  <2>2. CASE r = q
    <3>1. /\ export'[q].stale = (task[q].on \ People!CustomersOf(task[q].account))
                                   \cup (People!CustomersOf(task[q].account) \ task[q].on)
          /\ export'[q].log = People!EntriesOf(task[q].account)
      BY <2>2, <1>6 DEF People!Export
    <3>2. pc[q] = "answer" /\ UNCHANGED <<audit, lost>>
      BY <2>2, <1>2, <1>6
    <3>3. q \in audit \cup lost
      BY <3>2 DEF Progress
    <3>4. q \in churned \/ People!CustomersOf(task[q].account) = task[q].on
      BY <3>2 DEF Collected
    <3>5. QED
      BY <2>2, <1>1, <3>1, <3>2, <3>3, <3>4 DEF People!EntriesOf
  <2>3. QED
    BY <2>1, <2>2
<1>11. People!ErasureIsAudited'
  <2> SUFFICES ASSUME NEW i \in DOMAIN objects, NEW f \in Field,
                      objects[i].fields[f] = "erased"
               PROVE  \E r \in Request : /\ task[r].kind = "erasure"
                                         /\ task[r].account = objects[i].account
                                         /\ r \in audit' \cup lost' \/ pc'[r] = "audit"
    BY <1>1 DEF People!ErasureIsAudited
  <2>1. PICK r \in Request : /\ task[r].kind = "erasure"
                             /\ task[r].account = objects[i].account
                             /\ r \in audit \cup lost \/ pc[r] = "audit"
    BY DEF People!ErasureIsAudited
  <2>2. r \in audit' \cup lost' \/ pc'[r] = "audit"
    BY <2>1, <1>2, <1>3
  <2>3. QED
    BY <2>1, <2>2
<1>12. QED
  BY <1>7, <1>8, <1>9, <1>10, <1>11

\* Every step of the anchor and its privacy requests keeps their invariant.
LEMMA PeopleStep == PeopleInv /\ (People!Next \/ UNCHANGED privacy) => PeopleInv'
<1> SUFFICES ASSUME PeopleInv, People!Next \/ UNCHANGED privacy PROVE PeopleInv'
  OBVIOUS
<1>1. ASSUME NEW a \in Account, NEW m \in Memo, NEW given \in SUBSET Field,
             People!PutCustomer(a, m, given)
      PROVE  PeopleInv'
  <2>1. UNCHANGED <<pc, task, audit, lost, export>>
    BY <1>1 DEF People!PutCustomer
  <2>2. QED
    BY <1>1, <2>1, PutKeeps, StoreStep DEF PeopleInv
<1>2. ASSUME NEW a \in Account, NEW m \in Memo, People!DeleteCustomer(a, m)
      PROVE  PeopleInv'
  <2>1. /\ UNCHANGED <<objects, pc, task, audit, lost, export>>
        /\ customers' \subseteq customers /\ churned' = churned \cup People!Overlapped
    BY <1>2 DEF People!DeleteCustomer
  <2>2. ObjectsKept /\ customers' \subseteq DOMAIN objects'
    BY <2>1 DEF ObjectsKept, PeopleInv, PeopleTypeOK
  <2>3. QED
    BY <2>1, <2>2, StoreStep
<1>3. ASSUME UNCHANGED <<objects, customers, pc, task, audit, lost, churned, export>>
      PROVE  PeopleInv'
  <2>1. ObjectsKept /\ customers' \subseteq DOMAIN objects'
    BY <1>3 DEF ObjectsKept, PeopleInv, PeopleTypeOK
  <2>2. QED
    BY <1>3, <2>1, StoreStep
<1>4. ASSUME NEW a, NEW i, NEW j, People!PostTransaction(a, i, j)
      PROVE  PeopleInv'
  BY <1>3, <1>4 DEF People!PostTransaction, People!requests
<1>5. ASSUME NEW t, People!RequestInfo(t) \/ \E a \in Account : People!PatchTransaction(a, t)
      PROVE  PeopleInv'
  BY <1>3, <1>5 DEF People!RequestInfo, People!PatchTransaction, People!requests
<1>6. CASE UNCHANGED privacy
  BY <1>3, <1>6 DEF privacy
<1>7. CASE People!Next
  BY <1>1, <1>2, <1>4, <1>5, <1>7, CollectStep, RequestStep DEF People!Next
<1>8. QED
  BY <1>6, <1>7

\* The inductive invariant of customers and privacy requests holds, for any accounts,
\* fields and requests.
THEOREM PeopleInvariantHolds == Spec => []PeopleInv
<1>1. PeopleInv /\ [Next]_vars => PeopleInv'
  BY PeopleStep, ServiceSteps
<1>2. QED
  BY PeopleInitially, <1>1, PTL DEF Spec

\* Nothing is erased without a trace: behind every erased field there is an erasure
\* of its account that is in the audit log, about to be, or refused by the database.
THEOREM ErasuresAreAudited == Spec => []ErasureIsAudited
<1>1. PeopleInv => ErasureIsAudited
  BY DEF PeopleInv, ErasureIsAudited
<1>2. QED
  BY PeopleInvariantHolds, <1>1, PTL

\* An export shows the account's own records as they are when it is sent, unless a
\* customer came or went while the request waited, or its audit write was lost.
THEOREM ExportsHaveCause == Spec => []ExportHasCause
<1>1. PeopleInv => ExportHasCause
  BY DEF PeopleInv, Progress, Collected, Exported, ExportHasCause, People!ExportHasCause
<1>2. QED
  BY PeopleInvariantHolds, <1>1, PTL
-------------------------------------------------------------------------------
\* Privacy notices and consent.

\* Every nonempty set of naturals has a least element.
LEMMA LeastNatural ==
    ASSUME NEW T, T \subseteq Nat, T # {}
    PROVE  \E n \in T : \A m \in T : n <= m
<1>1. PICK n \in T : \A m \in Nat : <<m, n>> \in OpToRel(<, Nat) => m \notin T
  BY NatLessThanWellFounded, WFMin, Zenon
<1>2. \A m \in T : ~(m < n)
  BY <1>1 DEF OpToRel
<1>3. QED
  BY <1>2

\* A nonempty set of naturals with a bound has a greatest element.
LEMMA GreatestNatural ==
    ASSUME NEW n \in Nat, NEW S \in SUBSET (0 .. n), S # {}
    PROVE  \E x \in S : \A y \in S : x >= y
<1> DEFINE T == {m \in Nat : n - m \in S}
<1>1. \A v \in S : n - v \in T
  <2> SUFFICES ASSUME NEW v \in S PROVE n - v \in T
    OBVIOUS
  <2>1. n - v \in Nat /\ n - (n - v) = v
    OBVIOUS
  <2>2. QED
    BY <2>1
<1>2. PICK m \in T : \A k \in T : m <= k
  BY <1>1, LeastNatural
<1>3. n - m \in S /\ m \in Nat
  OBVIOUS
<1>4. \A v \in S : n - m >= v
  <2> SUFFICES ASSUME NEW v \in S PROVE n - m >= v
    OBVIOUS
  <2>1. m <= n - v
    BY <1>1, <1>2
  <2>2. QED
    BY <1>3, <2>1
<1>5. QED
  BY <1>3, <1>4

\* The highest of a set of versions: 0 for none, else the one none exceeds.
LEMMA Highest ==
    ASSUME NEW S \in SUBSET Notices!Version
    PROVE  /\ Notices!HighestOf(S) \in Nat
           /\ S = {} => Notices!HighestOf(S) = 0
           /\ S # {} => Notices!HighestOf(S) \in S
           /\ \A v \in S : v \in Nat \ {0} /\ v <= Notices!HighestOf(S)
<1>1. MaxVersion \in Nat /\ S \subseteq 1 .. MaxVersion
  BY ServicesAssumption DEF Notices!Version
<1>2. CASE S = {}
  BY <1>2 DEF Notices!HighestOf, Notices!None
<1>3. CASE S # {}
  <2> DEFINE h == Notices!Max(S)
  <2>1. \E x \in S : \A y \in S : x >= y
    <3>1. S \in SUBSET (0 .. MaxVersion)
      BY <1>1
    <3>2. QED
      BY <1>1, <1>3, <3>1, GreatestNatural
  <2>2. h \in S /\ \A v \in S : h >= v
    BY <2>1 DEF Notices!Max
  <2>3. Notices!HighestOf(S) = h
    BY <1>3 DEF Notices!HighestOf
  <2> HIDE DEF h
  <2>4. \A v \in S : v \in Nat \ {0} /\ v <= h
    BY <1>1, <2>2
  <2>5. QED
    BY <1>3, <2>2, <2>3, <2>4
<1>4. QED
  BY <1>2, <1>3

\* A larger set has no lower highest version.
LEMMA HighestGrows ==
    ASSUME NEW S \in SUBSET Notices!Version, NEW T \in SUBSET Notices!Version, S \subseteq T
    PROVE  Notices!HighestOf(S) <= Notices!HighestOf(T)
<1>1. /\ Notices!HighestOf(S) \in Nat /\ Notices!HighestOf(T) \in Nat
      /\ S = {} => Notices!HighestOf(S) = 0
      /\ S # {} => Notices!HighestOf(S) \in S
  BY Highest
<1>2. \A v \in T : v <= Notices!HighestOf(T)
  BY Highest
<1>3. QED
  BY <1>1, <1>2

Reply == [user: User, open: SUBSET Notices!Question,
          answer: [Notices!Question -> Nat], due: BOOLEAN]

\* Only published versions are consented to.
ConsentTypeOK ==
    /\ notices \subseteq Notices!Version
    /\ consents \in [User -> SUBSET notices]
    /\ accepting \in [User -> SUBSET notices]
    /\ asks \in [Ask -> {Notices!NotAsked} \cup Reply]
    /\ DOMAIN moved = Ask

\* What the answers given so far still say of the present: they are true of it,
\* unless something moved that could change them.
Coherent(g) ==
    /\ "has" \notin asks[g].open =>
          /\ asks[g].answer["has"] # 0 /\ "published" \notin moved[g] =>
                ~Notices!NeedsConsent(asks[g].user)
          /\ asks[g].answer["has"] = 0 /\ "consented" \notin moved[g] =>
                Notices!NeedsConsent(asks[g].user) \/ notices = {}
    /\ "current" \notin asks[g].open =>
          /\ asks[g].answer["current"] = 0 /\ "published" \notin moved[g] => notices = {}
          /\ asks[g].answer["current"] # 0 => notices # {}

ConsentInv ==
    /\ ConsentTypeOK
    /\ \A g \in Ask : asks[g].open # {} => Coherent(g)
    /\ Notices!ConsentReplyHasCause

\* Notices and consents start in their invariant.
LEMMA ConsentInitially == Init => ConsentInv
<1> SUFFICES ASSUME Notices!Init PROVE ConsentInv
  BY DEF Init
<1>1. \A g \in Ask : asks[g] = Notices!NotAsked
  BY DEF Notices!Init
<1>2. ConsentTypeOK
  BY DEF Notices!Init, ConsentTypeOK
<1>3. QED
  BY <1>1, <1>2 DEF ConsentInv, Notices!ConsentReplyHasCause, Notices!Answered, Notices!NotAsked

\* What the notices say of consent: nothing is due before the first notice, and the
\* server's test says what the law asks once there is one.
LEMMA DueConsent ==
    ASSUME ConsentTypeOK, NEW u \in User
    PROVE  /\ notices = {} => ~Notices!NeedsConsent(u) /\ ~Notices!HasConsentedToCurrentVersion(u)
           /\ notices # {} =>
                 (Notices!NeedsConsent(u) <=> ~Notices!HasConsentedToCurrentVersion(u))
<1>1. consents[u] \subseteq notices /\ notices \in SUBSET Notices!Version
      /\ consents[u] \in SUBSET Notices!Version
  BY DEF ConsentTypeOK
<1> DEFINE h == Notices!HighestOf(notices)
           m == Notices!HighestOf(consents[u])
<1>2. /\ m \in Nat /\ (consents[u] = {} => m = 0) /\ (consents[u] # {} => m \in consents[u])
      /\ \A v \in consents[u] : v \in Nat \ {0} /\ v <= m
  BY <1>1, Highest
<1>3. h \in Nat /\ (notices = {} => h = 0) /\ (notices # {} => h \in notices /\ h # 0)
  BY <1>1, Highest
<1>4. /\ Notices!NeedsConsent(u) <=> m < h
      /\ Notices!HasConsentedToCurrentVersion(u) <=> notices # {} /\ \E v \in consents[u] : v >= h
  BY DEF Notices!NeedsConsent, Notices!HasConsentedToCurrentVersion
<1> HIDE DEF h, m
<1>5. QED
  BY <1>1, <1>2, <1>3, <1>4

\* A step that changes no request keeps what the sent responses say.
LEMMA RepliesStay ==
    ASSUME ConsentInv, asks' = asks, NEW what, NEW users, Notices!Note(what, users)
    PROVE  /\ Notices!ConsentReplyHasCause'
           /\ DOMAIN moved' = Ask
           /\ \A g \in Ask : moved[g] \subseteq moved'[g]
           /\ \A g \in Ask : asks[g].open # {} /\ asks[g].user \in users => what \in moved'[g]
<1>1. /\ DOMAIN moved' = Ask
      /\ \A g \in Ask : moved'[g] = IF asks[g].open # {} /\ asks[g].user \in users
                                    THEN moved[g] \cup {what} ELSE moved[g]
  BY DEF Notices!Note
<1>2. QED
  BY <1>1 DEF ConsentInv, Notices!ConsentReplyHasCause, Notices!Answered, Notices!Required

\* A request with open queries asks about a user.
LEMMA OpenHasUser ==
    ASSUME ConsentTypeOK, NEW g \in Ask, asks[g].open # {}
    PROVE  asks[g] \in Reply /\ asks[g].user \in User
BY DEF ConsentTypeOK, Reply, Notices!NotAsked

\* A published notice keeps the invariant.
LEMMA PublishStep ==
    ASSUME ConsentInv, NEW v \in Notices!Version, Notices!PublishNotice(v)
    PROVE  ConsentInv'
<1>1. /\ notices' = notices \cup {v} /\ UNCHANGED <<consents, accepting, asks>>
      /\ Notices!Note("published", User)
  BY DEF Notices!PublishNotice
<1>2. /\ Notices!ConsentReplyHasCause' /\ DOMAIN moved' = Ask
      /\ \A g \in Ask : moved[g] \subseteq moved'[g]
      /\ \A g \in Ask : asks[g].open # {} => "published" \in moved'[g]
  BY <1>1, RepliesStay, OpenHasUser DEF ConsentInv
<1>3. ConsentTypeOK'
  BY <1>1, <1>2 DEF ConsentInv, ConsentTypeOK
<1>4. ASSUME NEW g \in Ask, asks[g].open # {}
      PROVE  Coherent(g)'
  <2> DEFINE u == asks[g].user
  <2>1. u \in User /\ Coherent(g)
    BY <1>4, OpenHasUser DEF ConsentInv
  <2>2. consents[u] \subseteq notices /\ notices \in SUBSET Notices!Version
        /\ notices' \in SUBSET Notices!Version /\ notices' # {}
    BY <2>1, <1>1, <1>3 DEF ConsentInv, ConsentTypeOK
  <2>3. ASSUME Notices!NeedsConsent(u) \/ notices = {}
        PROVE  Notices!HighestOf(consents[u]) < Notices!HighestOf(notices')
    <3>1. Notices!HighestOf(notices) <= Notices!HighestOf(notices')
      BY <2>2, <1>1, HighestGrows
    <3>2. /\ Notices!HighestOf(notices) \in Nat /\ Notices!HighestOf(notices') \in Nat \ {0}
          /\ Notices!HighestOf(consents[u]) \in Nat
          /\ consents[u] = {} => Notices!HighestOf(consents[u]) = 0
      BY <2>2, Highest
    <3>3. QED
      BY <2>2, <2>3, <3>1, <3>2 DEF Notices!NeedsConsent
  <2>4. (Notices!NeedsConsent(u) \/ notices = {}) =>
           Notices!HighestOf(consents'[u]) < Notices!HighestOf(notices')
    BY <2>3, <1>1
  <2>5. asks'[g] = asks[g] /\ "published" \in moved'[g] /\ moved[g] \subseteq moved'[g]
    BY <1>1, <1>2, <1>4
  <2>6. QED
    BY <2>1, <2>2, <2>4, <2>5 DEF Coherent, Notices!NeedsConsent
<1>5. QED
  BY <1>1, <1>2, <1>3, <1>4 DEF ConsentInv

\* A recorded consent keeps the invariant.
LEMMA RecordStep ==
    ASSUME ConsentInv, NEW u \in User, NEW v \in Notices!Version, Notices!RecordConsent(u, v)
    PROVE  ConsentInv'
<1>1. /\ v \in accepting[u] /\ UNCHANGED <<notices, asks>>
      /\ accepting' = [accepting EXCEPT ![u] = accepting[u] \ {v}]
      /\ consents' = [consents EXCEPT ![u] = consents[u] \cup {v}]
      /\ Notices!Note("consented", {u})
  BY DEF Notices!RecordConsent
<1>2. /\ Notices!ConsentReplyHasCause' /\ DOMAIN moved' = Ask
      /\ \A g \in Ask : moved[g] \subseteq moved'[g]
      /\ \A g \in Ask : asks[g].open # {} /\ asks[g].user = u => "consented" \in moved'[g]
  BY <1>1, RepliesStay
<1>3. ConsentTypeOK'
  BY <1>1, <1>2 DEF ConsentInv, ConsentTypeOK
<1>4. ASSUME NEW g \in Ask, asks[g].open # {}
      PROVE  Coherent(g)'
  <2> DEFINE w == asks[g].user
  <2>1. w \in User /\ Coherent(g)
    BY <1>4, OpenHasUser DEF ConsentInv
  <2>2. /\ consents[w] \subseteq consents'[w]
        /\ consents[w] \in SUBSET Notices!Version /\ consents'[w] \in SUBSET Notices!Version
        /\ w # u => consents'[w] = consents[w]
    BY <2>1, <1>1, <1>3 DEF ConsentInv, ConsentTypeOK
  <2>3. Notices!HighestOf(consents[w]) <= Notices!HighestOf(consents'[w])
    BY <2>2, HighestGrows
  <2>4. /\ Notices!HighestOf(consents[w]) \in Nat /\ Notices!HighestOf(consents'[w]) \in Nat
        /\ Notices!HighestOf(notices) \in Nat
    BY <2>2, Highest DEF ConsentInv, ConsentTypeOK
  <2>5. Notices!HighestOf(consents'[w]) < Notices!HighestOf(notices') => Notices!NeedsConsent(w)
    BY <2>3, <2>4, <1>1 DEF Notices!NeedsConsent
  <2>6. w # u => (Notices!NeedsConsent(w) =>
                     Notices!HighestOf(consents'[w]) < Notices!HighestOf(notices'))
    BY <2>2, <1>1 DEF Notices!NeedsConsent
  <2>7. /\ asks'[g] = asks[g] /\ notices' = notices /\ moved[g] \subseteq moved'[g]
        /\ w = u => "consented" \in moved'[g]
    BY <1>1, <1>2, <1>4
  <2>8. QED
    <3> DEFINE now1 == Notices!HighestOf(consents'[w]) < Notices!HighestOf(notices)
    <3>1. /\ now1 => Notices!NeedsConsent(w)
          /\ w # u => (Notices!NeedsConsent(w) => now1)
      BY <2>5, <2>6, <2>7
    <3> HIDE DEF now1
    <3>2. /\ "has" \notin asks[g].open =>
                /\ asks[g].answer["has"] # 0 /\ "published" \notin moved'[g] => ~now1
                /\ asks[g].answer["has"] = 0 /\ "consented" \notin moved'[g] =>
                      now1 \/ notices = {}
          /\ "current" \notin asks[g].open =>
                /\ asks[g].answer["current"] = 0 /\ "published" \notin moved'[g] => notices = {}
                /\ asks[g].answer["current"] # 0 => notices # {}
      BY <2>1, <2>7, <3>1 DEF Coherent
    <3>3. QED
      BY <3>2, <2>7 DEF Coherent, Notices!NeedsConsent, now1
<1>5. QED
  BY <1>1, <1>2, <1>3, <1>4 DEF ConsentInv

\* A new request for the consent state keeps the invariant.
LEMMA AskStep ==
    ASSUME ConsentInv, NEW g \in Ask, NEW u \in User, Notices!GetConsent(g, u)
    PROVE  ConsentInv'
<1> DEFINE new == [user |-> u, open |-> Notices!Question,
                   answer |-> [x \in Notices!Question |-> 0], due |-> FALSE]
<1>1. asks' = [asks EXCEPT ![g] = new] /\ UNCHANGED <<notices, consents, accepting, moved>>
  BY DEF Notices!GetConsent, Notices!None
<1>2. new \in Reply /\ new.open = {"current", "latest", "has"}
  BY DEF Reply, Notices!Question
<1> HIDE DEF new
<1>3. asks'[g] = new /\ \A h \in Ask \ {g} : asks'[h] = asks[h]
  BY <1>1 DEF ConsentInv, ConsentTypeOK
<1>4. ConsentTypeOK'
  BY <1>1, <1>2 DEF ConsentInv, ConsentTypeOK
<1>5. ASSUME NEW h \in Ask, asks'[h].open # {}
      PROVE  Coherent(h)'
  <2>1. CASE h = g
    BY <2>1, <1>2, <1>3 DEF Coherent
  <2>2. CASE h # g
    BY <2>2, <1>1, <1>3, <1>5 DEF ConsentInv, Coherent, Notices!NeedsConsent
  <2>3. QED
    BY <2>1, <2>2
<1>6. Notices!ConsentReplyHasCause'
  BY <1>1, <1>2, <1>3 DEF ConsentInv, Notices!ConsentReplyHasCause, Notices!Answered,
     Notices!Required
<1>7. QED
  BY <1>4, <1>5, <1>6 DEF ConsentInv

\* One answered query changes its own part of the reply and of the open queries only.
LEMMA Replied ==
    ASSUME NEW r \in Reply, NEW o \in SUBSET Notices!Question,
           NEW a \in [Notices!Question -> Nat], NEW d \in BOOLEAN
    PROVE  LET new == [r EXCEPT !.open = o, !.answer = a, !.due = d]
           IN  /\ new \in Reply
               /\ new.user = r.user /\ new.open = o /\ new.answer = a /\ new.due = d
<1> DEFINE one == [r EXCEPT !.open = o]
           two == [one EXCEPT !.answer = a]
           three == [two EXCEPT !.due = d]
<1>1. one \in Reply /\ one.user = r.user /\ one.open = o
  BY DEF Reply
<1>2. two \in Reply /\ two.user = r.user /\ two.open = o /\ two.answer = a
  <2> HIDE DEF one
  <2>1. QED
    BY <1>1 DEF Reply
<1>3. /\ three \in Reply /\ three.user = r.user /\ three.open = o /\ three.answer = a
      /\ three.due = d
  <2> HIDE DEF two
  <2>1. QED
    BY <1>2 DEF Reply
<1>4. QED
  BY <1>3

\* The answer of one of the three queries keeps the invariant.
LEMMA AnswerStep ==
    ASSUME ConsentInv, NEW g \in Ask, NEW x \in Notices!Question, Notices!Answer(g, x)
    PROVE  ConsentInv'
<1> DEFINE u == asks[g].user
           a == Notices!AnswerTo(x, u)
           open == asks[g].open \ {x}
           answer == [asks[g].answer EXCEPT ![x] = a]
           due == Notices!NeedsConsent(u)
           new == [asks[g] EXCEPT !.open = open, !.answer = answer, !.due = due]
<1>1. x \in asks[g].open /\ UNCHANGED <<notices, consents, accepting, moved>>
  BY DEF Notices!Answer
<1>2. asks[g] \in Reply /\ u \in User /\ Coherent(g)
  BY <1>1, OpenHasUser DEF ConsentInv
<1>3. asks' = [asks EXCEPT ![g] = new]
  BY DEF Notices!Answer
<1>5. asks'[g] = new /\ \A h \in Ask \ {g} : asks'[h] = asks[h]
  BY <1>3 DEF ConsentInv, ConsentTypeOK
<1>6. /\ x = "current" => a = Notices!HighestOf(notices)
      /\ x = "has" => a = IF Notices!HasConsentedToCurrentVersion(u) THEN 1 ELSE 0
      /\ x = "latest" => a = Notices!HighestOf(consents[u])
      /\ x \in {"current", "has", "latest"}
  BY DEF Notices!AnswerTo, Notices!None, Notices!Question
<1>7. /\ notices \in SUBSET Notices!Version /\ consents[u] \in SUBSET Notices!Version
  BY <1>2 DEF ConsentInv, ConsentTypeOK
<1>8. /\ Notices!HighestOf(notices) \in Nat /\ Notices!HighestOf(consents[u]) \in Nat
      /\ notices = {} <=> Notices!HighestOf(notices) = 0
  BY <1>7, Highest
<1>9. a \in Nat
  BY <1>6, <1>8
<1>10. /\ answer \in [Notices!Question -> Nat] /\ answer[x] = a
       /\ \A y \in Notices!Question \ {x} : answer[y] = asks[g].answer[y]
  BY <1>2, <1>9 DEF Reply
<1>11. Notices!NeedsConsent(u) \in BOOLEAN
  BY DEF Notices!NeedsConsent
<1>12. new \in Reply /\ new.user = u /\ new.open = open /\ new.answer = answer /\ new.due = due
  BY <1>2, <1>10, <1>11, Replied DEF Reply
<1>13. /\ notices = {} => ~Notices!NeedsConsent(u) /\ ~Notices!HasConsentedToCurrentVersion(u)
       /\ notices # {} =>
             (Notices!NeedsConsent(u) <=> ~Notices!HasConsentedToCurrentVersion(u))
  BY <1>2, DueConsent DEF ConsentInv
<1>14. /\ "has" \notin open =>
             /\ answer["has"] # 0 /\ "published" \notin moved[g] => ~Notices!NeedsConsent(u)
             /\ answer["has"] = 0 /\ "consented" \notin moved[g] =>
                   Notices!NeedsConsent(u) \/ notices = {}
       /\ "current" \notin open =>
             /\ answer["current"] = 0 /\ "published" \notin moved[g] => notices = {}
             /\ answer["current"] # 0 => notices # {}
  <2>1. {"has", "current"} \subseteq Notices!Question
    BY DEF Notices!Question
  <2>2. CASE x = "has"
    BY <2>1, <2>2, <1>2, <1>6, <1>10, <1>13 DEF Coherent
  <2>3. CASE x = "current"
    BY <2>1, <2>3, <1>2, <1>6, <1>8, <1>10 DEF Coherent
  <2>4. CASE x = "latest"
    BY <2>1, <2>4, <1>2, <1>10 DEF Coherent
  <2>5. QED
    BY <2>2, <2>3, <2>4, <1>6
<1>15. ConsentTypeOK'
  BY <1>1, <1>3, <1>12 DEF ConsentInv, ConsentTypeOK
<1> HIDE DEF new, open, answer, a
<1>17. ASSUME NEW h \in Ask, asks'[h].open # {}
       PROVE  Coherent(h)'
  <2>1. CASE h = g
    BY <2>1, <1>1, <1>5, <1>14, <1>12 DEF Coherent, Notices!NeedsConsent
  <2>2. CASE h # g
    BY <2>2, <1>1, <1>5, <1>17 DEF ConsentInv, Coherent, Notices!NeedsConsent
  <2>3. QED
    BY <2>1, <2>2
<1>18. Notices!ConsentReplyHasCause'
  <2> SUFFICES ASSUME NEW h \in Ask, asks'[h].user # "nobody", asks'[h].open = {}
      PROVE  LET required == asks'[h].answer["current"] # 0 /\ asks'[h].answer["has"] = 0
             IN  /\ ~required /\ asks'[h].due => "published" \in moved'[h]
                 /\ required /\ ~asks'[h].due => "consented" \in moved'[h]
    BY DEF Notices!ConsentReplyHasCause, Notices!Answered, Notices!Required, Notices!None
  <2>1. CASE h = g
    BY <2>1, <1>1, <1>5, <1>13, <1>14, <1>12
  <2>2. CASE h # g
    BY <2>2, <1>1, <1>5 DEF ConsentInv, Notices!ConsentReplyHasCause, Notices!Answered,
       Notices!Required, Notices!None
  <2>3. QED
    BY <2>1, <2>2
<1>19. QED
  BY <1>15, <1>17, <1>18 DEF ConsentInv

\* Every step of notices and consents keeps their invariant.
LEMMA ConsentStep == ConsentInv /\ (Notices!Next \/ UNCHANGED consent) => ConsentInv'
<1> SUFFICES ASSUME ConsentInv, Notices!Next \/ UNCHANGED consent PROVE ConsentInv'
  OBVIOUS
<1>1. ASSUME NEW u \in User, NEW v, Notices!PostConsent(u, v)
      PROVE  ConsentInv'
  <2>1. /\ v \in notices /\ accepting' = [accepting EXCEPT ![u] = accepting[u] \cup {v}]
        /\ UNCHANGED <<notices, consents, asks, moved>>
    BY <1>1 DEF Notices!PostConsent
  <2>2. ConsentTypeOK'
    BY <2>1 DEF ConsentInv, ConsentTypeOK
  <2>3. QED
    BY <2>1, <2>2 DEF ConsentInv, Coherent, Notices!ConsentReplyHasCause, Notices!Answered,
       Notices!Required, Notices!NeedsConsent
<1>2. CASE UNCHANGED consent
  BY <1>2 DEF consent, ConsentInv, ConsentTypeOK, Coherent, Notices!ConsentReplyHasCause,
     Notices!Answered, Notices!Required, Notices!NeedsConsent
<1>3. CASE Notices!Next
  BY <1>1, <1>3, PublishStep, RecordStep, AskStep, AnswerStep DEF Notices!Next
<1>4. QED
  BY <1>2, <1>3

\* A consent reply that is wrong when it is sent has a reason: it spares a consent
\* that is due only if a notice was published meanwhile, and asks for one that is not
\* due only if that user consented meanwhile.
THEOREM ConsentRepliesHaveCause == Spec => []ConsentReplyHasCause
<1>1. ConsentInv /\ [Next]_vars => ConsentInv'
  BY ConsentStep, ServiceSteps
<1>2. ConsentInv => ConsentReplyHasCause
  BY DEF ConsentInv, ConsentReplyHasCause
<1>3. QED
  BY ConsentInitially, <1>1, <1>2, PTL DEF Spec
-------------------------------------------------------------------------------
\* The KYC gate and the verifications behind its cache.

Ordered == {w \in Verification : order[w] > 0}

KycTypeOK ==
    /\ verifying \in [Verification -> {"idle", "evict", "ask", "set", "done"}]
    /\ DOMAIN found = Verification
    /\ order \in [Verification -> Nat]

\* The provider's answers are numbered as they come: those that have one are set or
\* done, and no number is above their count.
Ranked ==
    \A v \in Verification :
        /\ order[v] <= Cardinality(Ordered)
        /\ verifying[v] \in {"idle", "evict", "ask"} => order[v] = 0
        /\ verifying[v] = "set" => order[v] > 0

\* The verification with the highest number found the newest answer.
NewestFound ==
    \A v \in Verification : order[v] > 0 /\ Gate!IsNewest(v) => found[v] = newest

KycInv == KycTypeOK /\ Ranked /\ NewestFound /\ Gate!GateHasCause

\* Verification and gate start in their invariant.
LEMMA KycInitially == Init => KycInv
<1> SUFFICES ASSUME Gate!Init PROVE KycInv
  BY DEF Init
<1>1. KycTypeOK /\ Ordered = {}
  BY DEF Gate!Init, KycTypeOK, Ordered
<1>2. Ranked
  BY <1>1, FS_EmptySet DEF Gate!Init, Ranked
<1>3. QED
  BY <1>1, <1>2 DEF Gate!Init, KycInv, NewestFound, Gate!GateHasCause

\* The gate counts as everyone does.
LEMMA GateCardinality ==
    ASSUME NEW S
    PROVE  Gate!Cardinality(S) = Cardinality(S)
BY DEF Gate!Cardinality, Cardinality, Gate!IsFiniteSet, IsFiniteSet

\* A number one above the count of those given is above every one of them.
LEMMA ProviderAnswerStep ==
    ASSUME KycInv, NEW v \in Verification, Gate!ProviderAnswer(v)
    PROVE  KycInv'
<1> USE DEF KycInv
<1> DEFINE n == 1 + Cardinality(Ordered)
<1>1. /\ verifying[v] = "ask" /\ verifying' = [verifying EXCEPT ![v] = "set"]
      /\ found' = [found EXCEPT ![v] = standing] /\ newest' = standing
      /\ order' = [order EXCEPT ![v] = n]
      /\ blame' # {} /\ UNCHANGED <<cache, verdict>>
  <2>1. /\ verifying[v] = "ask" /\ verifying' = [verifying EXCEPT ![v] = "set"]
        /\ found' = [found EXCEPT ![v] = standing] /\ newest' = standing
        /\ UNCHANGED <<cache, verdict>>
    BY DEF Gate!ProviderAnswer, Gate!redis
  <2>2. order' = [order EXCEPT ![v] = n]
    BY GateCardinality DEF Gate!ProviderAnswer, Ordered
  <2>3. blame' # {}
    BY DEF Gate!ProviderAnswer
  <2>4. QED
    BY <2>1, <2>2, <2>3
<1>2. v \notin Ordered /\ IsFiniteSet(Ordered) /\ Cardinality(Ordered) \in Nat
  <2>1. IsFiniteSet(Verification) /\ Ordered \subseteq Verification
    BY ServicesAssumption DEF Ordered
  <2>2. QED
    BY <2>1, <1>1, FS_Subset, FS_CardinalityType DEF Ranked, Ordered
<1>3. n \in Nat \ {0} /\ n = 1 + Cardinality(Ordered)
  BY <1>2
<1>4. /\ order'[v] = n /\ verifying'[v] = "set" /\ found'[v] = standing
      /\ \A w \in Verification \ {v} :
            order'[w] = order[w] /\ verifying'[w] = verifying[w] /\ found'[w] = found[w]
  BY <1>1 DEF KycTypeOK
<1>5. Ordered' = Ordered \cup {v}
  BY <1>3, <1>4 DEF Ordered
<1>6. Cardinality(Ordered') = n
  BY <1>2, <1>3, <1>5, FS_AddElement
<1> HIDE DEF n
<1>7. KycTypeOK'
  BY <1>1, <1>3 DEF KycTypeOK
<1>8. \A w \in Verification \ {v} : order'[w] < n /\ order[w] \in Nat
  BY <1>2, <1>3, <1>4 DEF Ranked, KycTypeOK
<1>9. Ranked'
  BY <1>3, <1>4, <1>6, <1>8 DEF Ranked
<1>10. NewestFound'
  <2>1. ASSUME NEW w \in Verification, w # v
        PROVE  ~(order'[w] >= order'[v])
    BY <2>1, <1>3, <1>4, <1>8
  <2>2. \A w \in Verification : Gate!IsNewest(w)' => w = v
    BY <2>1, <1>3, <1>4, <1>8 DEF Gate!IsNewest
  <2>3. QED
    BY <2>2, <1>1, <1>4 DEF NewestFound
<1>11. Gate!GateHasCause'
  BY <1>1 DEF Gate!GateHasCause
<1>12. QED
  BY <1>7, <1>9, <1>10, <1>11

\* A step of one verification that gives no number.
LEMMA VerificationStep ==
    ASSUME KycInv, NEW v \in Verification, NEW to \in {"evict", "ask", "done"},
           verifying' = [verifying EXCEPT ![v] = to],
           to # "done" => verifying[v] \in {"idle", "evict", "ask"},
           DOMAIN found' = Verification,
           \A w \in Verification : order[w] > 0 => found'[w] = found[w],
           UNCHANGED <<order, newest>>
    PROVE  KycTypeOK' /\ Ranked' /\ NewestFound'
<1> USE DEF KycInv
<1>1. KycTypeOK' /\ Ordered' = Ordered
  BY DEF KycTypeOK, Ordered
<1>2. /\ verifying'[v] = to
      /\ \A w \in Verification \ {v} : verifying'[w] = verifying[w]
  BY DEF KycTypeOK
<1>3. Ranked'
  BY <1>1, <1>2 DEF Ranked
<1>4. NewestFound'
  BY DEF NewestFound, Gate!IsNewest
<1>5. QED
  BY <1>1, <1>3, <1>4

\* A step of the cache or of the gate.
LEMMA GateStays ==
    ASSUME KycInv, UNCHANGED <<verifying, found, order, newest>>
    PROVE  KycTypeOK' /\ Ranked' /\ NewestFound'
BY DEF KycInv, KycTypeOK, Ranked, NewestFound, Gate!IsNewest, Ordered

\* A write to the cache keeps the invariant.
LEMMA WriteCacheStep ==
    ASSUME KycInv, NEW v \in Verification, Gate!WriteCache(v)
    PROVE  KycInv'
<1> USE DEF KycInv
<1>1. /\ verifying[v] = "set" /\ verifying' = [verifying EXCEPT ![v] = "done"]
      /\ UNCHANGED <<found, order, newest, verdict>>
  BY DEF Gate!WriteCache
<1>2. KycTypeOK' /\ Ranked' /\ NewestFound'
  BY <1>1, VerificationStep DEF KycTypeOK
<1>3. CASE UNCHANGED <<cache, blame>>
  BY <1>1, <1>2, <1>3 DEF Gate!GateHasCause
<1>4. CASE cache' = found[v]
           /\ blame' = IF Gate!IsNewest(v) THEN {} ELSE blame \cup {"overlap"}
  <2>1. Gate!IsNewest(v) => found[v] = newest
    BY <1>1 DEF Ranked, NewestFound
  <2>2. blame' = {} => cache' = newest'
    BY <1>1, <1>4, <2>1
  <2>3. QED
    BY <1>1, <1>2, <2>2 DEF Gate!GateHasCause
<1>5. QED
  BY <1>3, <1>4 DEF Gate!WriteCache

\* A verdict of the gate keeps the invariant.
LEMMA GateStep ==
    ASSUME KycInv, NEW t, Gate!Gate(t)
    PROVE  KycInv'
<1> USE DEF KycInv
<1>1. UNCHANGED <<verifying, found, order, newest, cache, blame>>
  BY DEF Gate!Gate, Gate!redis, Gate!work
<1>2. CASE UNCHANGED verdict
  BY <1>1, <1>2, GateStays DEF Gate!GateHasCause
<1>3. CASE verdict' = Gate!Verdict(cache, {})
  <2>1. /\ verdict'.blame = blame /\ verdict'.newest = newest
        /\ verdict'.admitted <=> cache = "enhanced"
    BY <1>3 DEF Gate!Verdict
  <2>2. QED
    BY <1>1, <2>1, GateStays DEF Gate!GateHasCause
<1>4. CASE verdict' = Gate!Verdict("absent", {"refused"})
  <2>1. verdict'.blame # {}
    BY <1>4 DEF Gate!Verdict
  <2>2. QED
    BY <1>1, <2>1, GateStays DEF Gate!GateHasCause
<1>5. QED
  BY <1>2, <1>3, <1>4 DEF Gate!Gate

\* Every step of verification and gate keeps their invariant.
LEMMA KycStep == KycInv /\ (Gate!Next \/ UNCHANGED kyc) => KycInv'
<1> SUFFICES ASSUME KycInv, Gate!Next \/ UNCHANGED kyc PROVE KycInv'
  OBVIOUS
<1> USE DEF KycInv
<1>1. ASSUME UNCHANGED <<verifying, found, order, newest, cache, blame, verdict>>
      PROVE  KycInv'
  BY <1>1, GateStays DEF Gate!GateHasCause
<1>2. ASSUME NEW t, Gate!Review(t)
      PROVE  KycInv'
  BY <1>1, <1>2 DEF Gate!Review, Gate!redis, Gate!work
<1>3. ASSUME NEW v \in Verification, Gate!Look(v)
      PROVE  KycInv'
  <2>1. /\ verifying[v] = "idle" /\ order[v] = 0
        /\ UNCHANGED <<order, newest, cache, blame, verdict>>
    BY <1>3 DEF Gate!Look, Gate!redis, Ranked
  <2>2. PICK to \in {"evict", "ask", "done"} :
          /\ verifying' = [verifying EXCEPT ![v] = to]
          /\ UNCHANGED found \/ found' = [found EXCEPT ![v] = cache]
    BY <1>3 DEF Gate!Look
  <2>3. /\ DOMAIN found' = Verification
        /\ \A w \in Verification : order[w] > 0 => found'[w] = found[w]
    BY <2>1, <2>2 DEF KycTypeOK
  <2>4. KycTypeOK' /\ Ranked' /\ NewestFound'
    BY <2>1, <2>2, <2>3, VerificationStep
  <2>5. QED
    BY <2>1, <2>4 DEF Gate!GateHasCause
<1>4. ASSUME NEW v \in Verification, Gate!Evict(v)
      PROVE  KycInv'
  <2>1. /\ verifying[v] = "evict" /\ verifying' = [verifying EXCEPT ![v] = "ask"]
        /\ UNCHANGED <<found, order, newest, verdict>>
        /\ UNCHANGED <<cache, blame>> \/ blame' # {}
    BY <1>4 DEF Gate!Evict, Gate!Deleted
  <2>2. KycTypeOK' /\ Ranked' /\ NewestFound'
    BY <2>1, VerificationStep DEF KycTypeOK
  <2>3. QED
    BY <2>1, <2>2 DEF Gate!GateHasCause
<1>5. ASSUME NEW v \in Verification, Gate!ProviderFailure(v)
      PROVE  KycInv'
  <2>1. /\ verifying' = [verifying EXCEPT ![v] = "done"]
        /\ UNCHANGED <<found, order, newest, cache, blame, verdict>>
    BY <1>5 DEF Gate!ProviderFailure, Gate!redis
  <2>2. KycTypeOK' /\ Ranked' /\ NewestFound'
    BY <2>1, VerificationStep DEF KycTypeOK
  <2>3. QED
    BY <2>1, <2>2 DEF Gate!GateHasCause
<1>6. CASE Gate!Expire \/ Gate!Invalidate \/ Gate!Corrupt
  <2>1. /\ UNCHANGED <<verifying, found, order, newest, verdict>> /\ blame' # {}
    BY <1>6 DEF Gate!Expire, Gate!Invalidate, Gate!Corrupt, Gate!Evicted, Gate!work
  <2>2. QED
    BY <2>1, GateStays DEF Gate!GateHasCause
<1>7. CASE Gate!GateEvict
  <2>1. /\ UNCHANGED <<verifying, found, order, newest>>
        /\ UNCHANGED <<cache, blame>> \/ blame' # {}
        /\ verdict' = Gate!Verdict("absent", {"corrupt"})
    BY <1>7 DEF Gate!GateEvict, Gate!Deleted, Gate!work
  <2>2. verdict'.blame # {}
    BY <2>1 DEF Gate!Verdict
  <2>3. QED
    BY <2>1, <2>2, GateStays DEF Gate!GateHasCause
<1>8. CASE UNCHANGED kyc
  BY <1>1, <1>8 DEF kyc
<1>9. CASE Gate!Next
  BY <1>2, <1>3, <1>4, <1>5, <1>6, <1>7, <1>9, ProviderAnswerStep, WriteCacheStep, GateStep
     DEF Gate!Next
<1>10. QED
  BY <1>8, <1>9

\* A verdict of the KYC gate that differs from the provider's newest answer has a
\* reason, and without one the cache holds exactly that answer.
THEOREM GateVerdictsHaveCause == Spec => []GateHasCause
<1>1. KycInv /\ [Next]_vars => KycInv'
  BY KycStep, ServiceSteps
<1>2. KycInv => GateHasCause
  BY DEF KycInv, GateHasCause
<1>3. QED
  BY KycInitially, <1>1, <1>2, PTL DEF Spec
-------------------------------------------------------------------------------
\* Encrypted content and the keys of its tiers.

TierKey == [tier: Tier, keyVersion: Nat, key: Nat, rotated: BOOLEAN]

KeyCount == Cardinality(tierContentKeys)

\* The keys are numbered as they are generated, and a version names one key of its tier.
KeysDiffer ==
    \A j, k \in tierContentKeys :
        /\ k.key <= KeyCount
        /\ j.key = k.key => j = k
        /\ j.tier = k.tier /\ j.keyVersion = k.keyVersion => j = k

\* Every content is sealed with the key of its tier and version, which is the latest
\* of its tier as long as that was not rotated since.
SealedWell ==
    \A c \in creatorContents :
        /\ \E k \in tierContentKeys :
              k.tier = c.tier /\ k.keyVersion = c.keyVersion /\ k.key = c.sealed
        /\ \/ c \in rotatedPast
           \/ \A k \in Tiers!KeysOf(c.tier) : k.keyVersion <= c.keyVersion

\* A fan holds only keys there are, and only those its passes are for.
HeldWell ==
    \A f \in Fan :
        /\ \A n \in held[f] : n <= KeyCount
        /\ \A k \in tierContentKeys : k.key \in held[f] => <<f, k.tier>> \in passes

ShownWell ==
    \A c \in shown.contents : c.sealed = shown.key \/ c \in rotatedPast

ContentInv ==
    /\ IsFiniteSet(tierContentKeys) /\ tierContentKeys \subseteq TierKey
    /\ held \in [Fan -> SUBSET Nat]
    /\ KeysDiffer /\ SealedWell /\ HeldWell /\ ShownWell

\* Tiers and contents start in their invariant.
LEMMA ContentInitially == Init => ContentInv
<1> SUFFICES ASSUME Tiers!Init PROVE ContentInv
  BY DEF Init
<1>1. IsFiniteSet(tierContentKeys) /\ tierContentKeys \subseteq TierKey
  BY FS_EmptySet DEF Tiers!Init
<1>2. held \in [Fan -> SUBSET Nat] /\ KeysDiffer /\ SealedWell /\ HeldWell
  BY DEF Tiers!Init, KeysDiffer, SealedWell, HeldWell
<1>3. ShownWell
  BY DEF Tiers!Init, ShownWell, Tiers!NoAnswer
<1>4. QED
  BY <1>1, <1>2, <1>3 DEF ContentInv

\* The content module counts as everyone does.
LEMMA TiersCardinality ==
    ASSUME NEW S
    PROVE  Tiers!Cardinality(S) = Cardinality(S)
BY DEF Tiers!Cardinality, Cardinality

\* A key is fresh: its number is one above the count of the keys there are.
LEMMA FreshKeyIsNext ==
    ASSUME ContentInv
    PROVE  Tiers!FreshKey = KeyCount + 1 /\ KeyCount \in Nat
BY TiersCardinality, FS_CardinalityType DEF ContentInv, Tiers!FreshKey, KeyCount

\* CreateTier and RotateKey: one key is added with the next number, above every version
\* of its tier, one may be marked as rotated, and the contents of the tier are counted
\* as rotated past, if there are any.
LEMMA KeyAdded ==
    ASSUME ContentInv, NEW t \in Tier, NEW new \in TierKey,
           new.tier = t, new.key = KeyCount + 1,
           \A j \in Tiers!KeysOf(t) : j.keyVersion < new.keyVersion,
           DOMAIN held = Fan,
           NEW kept \in SUBSET TierKey, IsFiniteSet(kept), Cardinality(kept) = KeyCount,
           \A j \in kept : \E i \in tierContentKeys :
              i.tier = j.tier /\ i.keyVersion = j.keyVersion /\ i.key = j.key,
           \A i \in tierContentKeys : \E j \in kept :
              i.tier = j.tier /\ i.keyVersion = j.keyVersion /\ i.key = j.key,
           \A i, j \in kept : i.key = j.key => i = j,
           tierContentKeys' = kept \cup {new},
           rotatedPast \subseteq rotatedPast', Tiers!ContentsOf(t) \subseteq rotatedPast',
           UNCHANGED <<creatorContents, passes, held, shown>>
    PROVE  ContentInv'
<1> USE DEF ContentInv
<1>1. KeyCount \in Nat
  BY FreshKeyIsNext
<1>2. \A j \in kept : j.key \in Nat /\ j.keyVersion \in Nat /\ j.key <= KeyCount
  <2> SUFFICES ASSUME NEW j \in kept PROVE j.key <= KeyCount
    BY DEF TierKey
  <2>1. PICK i \in tierContentKeys : i.key = j.key
    OBVIOUS
  <2>2. QED
    BY <2>1 DEF KeysDiffer
<1>3. new \notin kept
  BY <1>1, <1>2
<1>4. /\ IsFiniteSet(tierContentKeys') /\ KeyCount' = KeyCount + 1
  BY <1>3, FS_AddElement DEF KeyCount
<1>5. new.key \in Nat /\ new.keyVersion \in Nat
  BY DEF TierKey
<1>6. \A j \in kept : j.tier = t => j.keyVersion < new.keyVersion
  <2> SUFFICES ASSUME NEW j \in kept, j.tier = t PROVE j.keyVersion < new.keyVersion
    OBVIOUS
  <2>1. PICK i \in tierContentKeys : i.tier = t /\ i.keyVersion = j.keyVersion
    OBVIOUS
  <2>2. QED
    BY <2>1 DEF Tiers!KeysOf
<1>7. \A i, j \in kept : i.tier = j.tier /\ i.keyVersion = j.keyVersion => i = j
  <2> SUFFICES ASSUME NEW i \in kept, NEW j \in kept,
                      i.tier = j.tier, i.keyVersion = j.keyVersion
               PROVE  i = j
    OBVIOUS
  <2>1. PICK x \in tierContentKeys :
          x.tier = i.tier /\ x.keyVersion = i.keyVersion /\ x.key = i.key
    OBVIOUS
  <2>2. PICK y \in tierContentKeys :
          y.tier = j.tier /\ y.keyVersion = j.keyVersion /\ y.key = j.key
    OBVIOUS
  <2>3. x = y
    BY <2>1, <2>2 DEF KeysDiffer
  <2>4. QED
    BY <2>1, <2>2, <2>3
<1>8. KeysDiffer'
  <2> SUFFICES ASSUME NEW i \in kept \cup {new}, NEW j \in kept \cup {new}
               PROVE  /\ j.key <= KeyCount + 1
                      /\ i.key = j.key => i = j
                      /\ i.tier = j.tier /\ i.keyVersion = j.keyVersion => i = j
    BY <1>4 DEF KeysDiffer
  <2>1. j.key <= KeyCount + 1
    BY <1>1, <1>2
  <2>2. ASSUME NEW a \in kept
        PROVE  a.key # new.key /\ (a.tier = t => a.keyVersion # new.keyVersion)
    BY <1>1, <1>2, <1>5, <1>6
  <2>3. QED
    BY <2>1, <2>2, <1>7
<1>9. SealedWell'
  <2> SUFFICES ASSUME NEW c \in creatorContents
               PROVE  /\ \E k \in kept \cup {new} :
                            k.tier = c.tier /\ k.keyVersion = c.keyVersion /\ k.key = c.sealed
                      /\ \/ c \in rotatedPast'
                         \/ \A k \in kept \cup {new} :
                               k.tier = c.tier => k.keyVersion <= c.keyVersion
    BY DEF SealedWell, Tiers!KeysOf
  <2>1. PICK i \in tierContentKeys :
          i.tier = c.tier /\ i.keyVersion = c.keyVersion /\ i.key = c.sealed
    BY DEF SealedWell
  <2>2. CASE c.tier = t
    BY <2>1, <2>2 DEF Tiers!ContentsOf
  <2>3. CASE c.tier # t
    <3>1. c \in rotatedPast \/ \A k \in Tiers!KeysOf(c.tier) : k.keyVersion <= c.keyVersion
      BY DEF SealedWell
    <3>2. ASSUME NEW k \in kept, k.tier = c.tier, c \notin rotatedPast
          PROVE  k.keyVersion <= c.keyVersion
      BY <3>1, <3>2 DEF Tiers!KeysOf
    <3>3. QED
      BY <2>1, <2>3, <3>2
  <2>4. QED
    BY <2>2, <2>3
<1>10. HeldWell'
  <2> SUFFICES ASSUME NEW f \in Fan
               PROVE  /\ \A n \in held[f] : n <= KeyCount + 1
                      /\ \A k \in kept \cup {new} : k.key \in held[f] => <<f, k.tier>> \in passes
    BY <1>4 DEF HeldWell
  <2>1. \A n \in held[f] : n \in Nat /\ n <= KeyCount
    BY DEF HeldWell
  <2>2. new.key \notin held[f]
    BY <2>1, <1>1
  <2>3. ASSUME NEW k \in kept, k.key \in held[f]
        PROVE  <<f, k.tier>> \in passes
    <3>1. PICK i \in tierContentKeys : i.tier = k.tier /\ i.key = k.key
      OBVIOUS
    <3>2. QED
      BY <2>3, <3>1 DEF HeldWell
  <2>4. QED
    BY <2>1, <2>2, <2>3, <1>1
<1>11. ShownWell'
  BY DEF ShownWell
<1>12. QED
  BY <1>4, <1>8, <1>9, <1>10, <1>11

\* A new tier keeps the invariant.
LEMMA CreateTierStep ==
    ASSUME ContentInv, NEW t \in Tier, Tiers!CreateTier(t)
    PROVE  ContentInv'
<1> USE DEF ContentInv
<1> DEFINE new == [tier |-> t, keyVersion |-> 1, key |-> KeyCount + 1, rotated |-> FALSE]
<1>1. KeyCount \in Nat /\ Tiers!FreshKey = KeyCount + 1
  BY FreshKeyIsNext
<1>2. /\ Tiers!KeysOf(t) = {} /\ tierContentKeys' = tierContentKeys \cup {new}
      /\ UNCHANGED <<creatorContents, passes, held, rotatedPast, shown>>
  BY <1>1 DEF Tiers!CreateTier
<1>3. new \in TierKey /\ new.tier = t /\ new.key = KeyCount + 1 /\ new.keyVersion = 1
  BY <1>1 DEF TierKey
<1> HIDE DEF new
<1>4. Tiers!ContentsOf(t) = {}
  BY <1>2 DEF SealedWell, Tiers!KeysOf, Tiers!ContentsOf
<1>5. /\ DOMAIN held = Fan /\ Cardinality(tierContentKeys) = KeyCount
      /\ \A i, j \in tierContentKeys : i.key = j.key => i = j
  BY DEF KeyCount, KeysDiffer
<1>6. QED
  BY <1>2, <1>3, <1>4, <1>5, KeyAdded

\* A rotation of a tier's key keeps the invariant.
LEMMA RotateStep ==
    ASSUME ContentInv, NEW t \in Tier, Tiers!RotateKey(t)
    PROVE  ContentInv'
<1> USE DEF ContentInv
<1>1. KeyCount \in Nat /\ Tiers!FreshKey = KeyCount + 1
  BY FreshKeyIsNext
<1>2. PICK k \in Tiers!KeysOf(t) :
        /\ Tiers!IsLatest(k, t)
        /\ tierContentKeys' = (tierContentKeys \ {k}) \cup
              {[k EXCEPT !.rotated = TRUE],
               [tier |-> t, keyVersion |-> k.keyVersion + 1, key |-> KeyCount + 1,
                rotated |-> FALSE]}
  BY <1>1 DEF Tiers!RotateKey
<1>3. /\ rotatedPast' = rotatedPast \cup Tiers!ContentsOf(t)
      /\ UNCHANGED <<creatorContents, passes, held, shown>>
  BY DEF Tiers!RotateKey
<1> DEFINE old == [k EXCEPT !.rotated = TRUE]
           new == [tier |-> t, keyVersion |-> k.keyVersion + 1, key |-> KeyCount + 1,
                   rotated |-> FALSE]
           rest == tierContentKeys \ {k}
           kept == rest \cup {old}
<1>4. k \in tierContentKeys /\ k \in TierKey /\ k.tier = t
  BY DEF Tiers!KeysOf
<1>5. old \in TierKey /\ old.tier = t /\ old.keyVersion = k.keyVersion /\ old.key = k.key
  BY <1>4 DEF TierKey
<1>6. k.keyVersion \in Nat
  BY <1>4 DEF TierKey
<1>7. new \in TierKey /\ new.tier = t /\ new.key = KeyCount + 1
      /\ new.keyVersion = k.keyVersion + 1
  BY <1>1, <1>6 DEF TierKey
<1>8. tierContentKeys' = kept \cup {new}
  BY <1>2
<1> HIDE DEF old, new
<1>9. \A j \in Tiers!KeysOf(t) : j.keyVersion < new.keyVersion
  <2> SUFFICES ASSUME NEW j \in Tiers!KeysOf(t) PROVE j.keyVersion < new.keyVersion
    OBVIOUS
  <2>1. j.keyVersion <= k.keyVersion
    BY <1>2 DEF Tiers!IsLatest
  <2>2. j.keyVersion \in Nat
    BY DEF Tiers!KeysOf, TierKey
  <2>3. QED
    BY <2>1, <2>2, <1>6, <1>7
<1>10. IsFiniteSet(rest) /\ Cardinality(rest) = KeyCount - 1
  BY <1>4, FS_RemoveElement DEF KeyCount
<1>11. old \notin rest
  BY <1>4, <1>5 DEF KeysDiffer
<1>12. IsFiniteSet(kept) /\ Cardinality(kept) = KeyCount
  <2> HIDE DEF rest
  <2>1. IsFiniteSet(kept) /\ Cardinality(kept) = Cardinality(rest) + 1
    BY <1>10, <1>11, FS_AddElement
  <2>2. QED
    BY <2>1, <1>1, <1>10
<1>13. /\ \A j \in kept : \E i \in tierContentKeys :
              i.tier = j.tier /\ i.keyVersion = j.keyVersion /\ i.key = j.key
       /\ \A i \in tierContentKeys : \E j \in kept :
              i.tier = j.tier /\ i.keyVersion = j.keyVersion /\ i.key = j.key
  BY <1>4, <1>5
<1>14. \A i, j \in kept : i.key = j.key => i = j
  BY <1>4, <1>5 DEF KeysDiffer
<1>15. kept \in SUBSET TierKey /\ DOMAIN held = Fan
  BY <1>5
<1> HIDE DEF kept
<1>16. QED
  BY <1>3, <1>7, <1>8, <1>9, <1>12, <1>13, <1>14, <1>15, KeyAdded

\* A key handed to a fan keeps the invariant.
LEMMA GetKeyStep ==
    ASSUME ContentInv, NEW f \in Fan, NEW t \in Tier, Tiers!GetContentKey(f, t)
    PROVE  ContentInv'
<1> USE DEF ContentInv
<1>1. PICK k \in Tiers!KeysOf(t) :
        /\ Tiers!IsLatest(k, t)
        /\ held' = [held EXCEPT ![f] = held[f] \cup {k.key}]
        /\ shown' = [key |-> k.key, contents |-> Tiers!ContentsOf(t)]
  BY DEF Tiers!GetContentKey
<1>2. /\ <<f, t>> \in passes
      /\ UNCHANGED <<tierContentKeys, creatorContents, passes, rotatedPast>>
  BY DEF Tiers!GetContentKey
<1>3. k \in tierContentKeys /\ k.tier = t /\ k.key \in Nat
  BY DEF Tiers!KeysOf, TierKey
<1>4. held' \in [Fan -> SUBSET Nat]
  BY <1>1, <1>3
<1>5. KeysDiffer' /\ SealedWell'
  BY <1>2 DEF KeysDiffer, SealedWell, KeyCount, Tiers!KeysOf
<1>6. /\ held'[f] = held[f] \cup {k.key}
      /\ \A g \in Fan \ {f} : held'[g] = held[g]
  BY <1>1
<1>7. HeldWell'
  <2> SUFFICES ASSUME NEW g \in Fan
               PROVE  /\ \A n \in held'[g] : n <= KeyCount
                      /\ \A j \in tierContentKeys : j.key \in held'[g] => <<g, j.tier>> \in passes
    BY <1>2 DEF HeldWell, KeyCount
  <2>1. k.key <= KeyCount /\ \A j \in tierContentKeys : j.key = k.key => j = k
    BY <1>3 DEF KeysDiffer
  <2>2. QED
    BY <2>1, <1>2, <1>3, <1>6 DEF HeldWell
<1>8. ShownWell'
  <2> SUFFICES ASSUME NEW c \in Tiers!ContentsOf(t), c \notin rotatedPast
               PROVE  c.sealed = k.key
    BY <1>1, <1>2 DEF ShownWell
  <2>1. c \in creatorContents /\ c.tier = t
    BY DEF Tiers!ContentsOf
  <2>2. PICK i \in tierContentKeys :
          i.tier = c.tier /\ i.keyVersion = c.keyVersion /\ i.key = c.sealed
    BY <2>1 DEF SealedWell
  <2>3. k.keyVersion <= c.keyVersion
    BY <2>1 DEF SealedWell
  <2>4. i.keyVersion <= k.keyVersion
    BY <2>1, <2>2, <1>1 DEF Tiers!IsLatest, Tiers!KeysOf
  <2>5. i.keyVersion \in Nat /\ k.keyVersion \in Nat
    BY <1>3 DEF TierKey
  <2>6. i.keyVersion = k.keyVersion
    BY <2>2, <2>3, <2>4, <2>5
  <2>7. i = k
    BY <2>1, <2>2, <2>6, <1>3 DEF KeysDiffer
  <2>8. QED
    BY <2>2, <2>7
<1>9. QED
  BY <1>2, <1>4, <1>5, <1>7, <1>8

\* An upload keeps the invariant.
LEMMA UploadStep ==
    ASSUME ContentInv, NEW t \in Tier, Tiers!UploadContent(t)
    PROVE  ContentInv'
<1> USE DEF ContentInv
<1>1. PICK k \in Tiers!KeysOf(t) :
        /\ Tiers!IsLatest(k, t)
        /\ creatorContents' = creatorContents \cup
             {[id |-> Tiers!Cardinality(creatorContents) + 1, tier |-> t,
               keyVersion |-> k.keyVersion, sealed |-> k.key]}
  BY DEF Tiers!UploadContent
<1>2. UNCHANGED <<tierContentKeys, passes, held, rotatedPast, shown>>
  BY DEF Tiers!UploadContent
<1> DEFINE new == [id |-> Tiers!Cardinality(creatorContents) + 1, tier |-> t,
                   keyVersion |-> k.keyVersion, sealed |-> k.key]
<1>3. new.tier = t /\ new.keyVersion = k.keyVersion /\ new.sealed = k.key
  OBVIOUS
<1>4. creatorContents' = creatorContents \cup {new}
  BY <1>1
<1> HIDE DEF new
<1>5. KeysDiffer' /\ HeldWell' /\ ShownWell'
  BY <1>2 DEF KeysDiffer, HeldWell, ShownWell, KeyCount
<1>6. SealedWell'
  <2> SUFFICES ASSUME NEW c \in creatorContents \cup {new}
               PROVE  /\ \E i \in tierContentKeys :
                            i.tier = c.tier /\ i.keyVersion = c.keyVersion /\ i.key = c.sealed
                      /\ \/ c \in rotatedPast
                         \/ \A i \in Tiers!KeysOf(c.tier) : i.keyVersion <= c.keyVersion
    BY <1>2, <1>4 DEF SealedWell, Tiers!KeysOf
  <2>1. CASE c \in creatorContents
    BY <2>1 DEF SealedWell
  <2>2. CASE c = new
    BY <2>2, <1>1, <1>3 DEF Tiers!KeysOf, Tiers!IsLatest
  <2>3. QED
    BY <2>1, <2>2
<1>7. QED
  BY <1>2, <1>5, <1>6

\* Every step of tiers and contents keeps their invariant.
LEMMA ContentStep == ContentInv /\ (Tiers!Next \/ UNCHANGED creators) => ContentInv'
<1> SUFFICES ASSUME ContentInv, Tiers!Next \/ UNCHANGED creators PROVE ContentInv'
  OBVIOUS
<1>1. ASSUME UNCHANGED <<tierContentKeys, creatorContents, held, rotatedPast, shown>>,
             passes \subseteq passes'
      PROVE  ContentInv'
  BY <1>1 DEF ContentInv, KeysDiffer, SealedWell, HeldWell, ShownWell, KeyCount, Tiers!KeysOf
<1>2. ASSUME NEW f, NEW t, Tiers!CreatePass(f, t)
      PROVE  ContentInv'
  BY <1>1, <1>2 DEF Tiers!CreatePass
<1>3. CASE UNCHANGED creators
  BY <1>1, <1>3 DEF creators
<1>4. CASE Tiers!Next
  BY <1>2, <1>4, CreateTierStep, UploadStep, RotateStep, GetKeyStep DEF Tiers!Next
<1>5. QED
  BY <1>3, <1>4

\* The invariant says that what is stored stays readable.
LEMMA ContentReadable == ContentInv => ContentStaysReadable
<1> SUFFICES ASSUME ContentInv PROVE ContentStaysReadable
  OBVIOUS
<1>1. ASSUME NEW c \in creatorContents
      PROVE  LET K == {k \in Tiers!KeysOf(c.tier) : k.keyVersion = c.keyVersion}
             IN  Tiers!Cardinality(K) = 1 /\ \A k \in K : Tiers!Opens(k.key, c)
  <2> DEFINE K == {k \in Tiers!KeysOf(c.tier) : k.keyVersion = c.keyVersion}
  <2>1. PICK i \in tierContentKeys :
          i.tier = c.tier /\ i.keyVersion = c.keyVersion /\ i.key = c.sealed
    BY DEF ContentInv, SealedWell
  <2>2. K = {i}
    BY <2>1 DEF ContentInv, KeysDiffer, Tiers!KeysOf
  <2>3. Cardinality({i}) = 1
    BY FS_Singleton
  <2>4. QED
    BY <2>1, <2>2, <2>3, TiersCardinality DEF Tiers!Opens
<1>2. QED
  BY <1>1 DEF ContentInv, ShownWell, HeldWell, ContentStaysReadable,
     Tiers!ContentStaysReadable, Tiers!Opens

\* Whatever the rotations, every content opens with the one key kept under its tier and
\* version, an answer's key fails only on a content its tier was rotated past, and a fan
\* holds no key of a tier it has no pass for.
THEOREM ContentsStayReadable == Spec => []ContentStaysReadable
<1>1. ContentInv /\ [Next]_vars => ContentInv'
  BY ContentStep, ServiceSteps
<1>2. QED
  BY ContentInitially, <1>1, ContentReadable, PTL DEF Spec
-------------------------------------------------------------------------------
\* The FX oracle.

\* The oracle counts as everyone does.
LEMMA FxCardinality ==
    ASSUME NEW S
    PROVE  Fx!Cardinality(S) = Cardinality(S)
BY DEF Fx!Cardinality, Cardinality

\* Of finitely many quotes one is the highest, and one the lowest.
LEMMA HighestQuote ==
    ASSUME NEW S, IsFiniteSet(S), S # {}, NEW q, \A p \in S : q[p] \in Int
    PROVE  \E p \in S : \A o \in S : q[o] <= q[p]
<1> DEFINE Above(p) == {o \in S : q[o] > q[p]}
           T == {n \in Nat : \E p \in S : n = Cardinality(Above(p))}
<1>1. \A p \in S : IsFiniteSet(Above(p)) /\ Cardinality(Above(p)) \in Nat
  BY FS_Subset, FS_CardinalityType
<1>2. T # {}
  BY <1>1
<1>3. PICK n \in T : \A m \in T : n <= m
  BY <1>2, LeastNatural
<1>4. PICK p \in S : n = Cardinality(Above(p))
  BY <1>3
<1>5. ASSUME NEW o \in S, q[o] > q[p]
      PROVE  FALSE
  <2>1. Above(o) \subseteq Above(p) /\ o \in Above(p) /\ o \notin Above(o)
    BY <1>5
  <2>2. Cardinality(Above(o)) <= Cardinality(Above(p))
        /\ Cardinality(Above(o)) # Cardinality(Above(p))
    BY <1>1, <2>1, FS_Subset
  <2>3. Cardinality(Above(o)) \in T
    BY <1>1
  <2>4. n <= Cardinality(Above(o))
    BY <1>3, <2>3
  <2>5. QED
    BY <1>1, <1>4, <2>2, <2>4
<1>6. QED
  BY <1>5

\* Every nonempty set of quotes has a lowest one.
LEMMA LowestQuote ==
    ASSUME NEW S, IsFiniteSet(S), S # {}, NEW q, \A p \in S : q[p] \in Int
    PROVE  \E p \in S : \A o \in S : q[p] <= q[o]
<1> DEFINE r == [p \in S |-> 0 - q[p]]
<1>1. \A p \in S : r[p] \in Int
  OBVIOUS
<1>2. PICK p \in S : \A o \in S : r[o] <= r[p]
  <2> HIDE DEF r
  <2>1. QED
    BY <1>1, HighestQuote
<1>3. QED
  BY <1>2

\* The lower median is a quote; no more than the middle are below it, and more than
\* the middle are not above it.
LEMMA MedianSplits ==
    ASSUME NEW S, IsFiniteSet(S), S # {}, NEW q, \A p \in S : q[p] \in Int
    PROVE  LET m == Fx!LowerMedian(q, S)
               mid == (Cardinality(S) - 1) \div 2
           IN  /\ \E p \in S : q[p] = m
               /\ Cardinality({p \in S : q[p] < m}) <= mid
               /\ Cardinality({p \in S : q[p] <= m}) > mid
<1> DEFINE Upto(r) == {p \in S : q[p] <= r}
           Under(r) == {p \in S : q[p] < r}
           mid == (Cardinality(S) - 1) \div 2
           Good(r) == Cardinality(Upto(r)) > mid
           T == {n \in Nat : n > mid /\ \E p \in S : n = Cardinality(Upto(q[p]))}
<1>1. Cardinality(S) \in Nat \ {0}
  BY FS_CardinalityType, FS_EmptySet
<1>2. mid \in Nat /\ mid < Cardinality(S)
  BY <1>1
<1>3. \A r : /\ IsFiniteSet(Upto(r)) /\ Cardinality(Upto(r)) \in Nat
             /\ IsFiniteSet(Under(r)) /\ Cardinality(Under(r)) \in Nat
  <2> TAKE r
  <2>1. Upto(r) \subseteq S /\ Under(r) \subseteq S
    OBVIOUS
  <2>2. QED
    BY <2>1, FS_Subset, FS_CardinalityType
<1> HIDE DEF mid
<1>4. T # {}
  <2>1. PICK p \in S : \A o \in S : q[o] <= q[p]
    BY HighestQuote
  <2>2. Upto(q[p]) = S
    BY <2>1
  <2>3. QED
    BY <2>2, <1>1, <1>2
<1>5. PICK n \in T : \A m \in T : n <= m
  BY <1>4, LeastNatural
<1>6. PICK p \in S : n = Cardinality(Upto(q[p])) /\ n > mid
  BY <1>5
<1>7. ~(Cardinality(Under(q[p])) > mid)
  <2> SUFFICES ASSUME Cardinality(Under(q[p])) > mid PROVE FALSE
    OBVIOUS
  <2>1. Under(q[p]) # {}
    BY <1>2, FS_EmptySet
  <2>2. PICK o \in Under(q[p]) : \A x \in Under(q[p]) : q[x] <= q[o]
    BY <1>3, <2>1, HighestQuote
  <2>3. o \in S /\ q[o] < q[p] /\ Upto(q[o]) = Under(q[p])
    BY <2>2
  <2>4. Cardinality(Upto(q[o])) \in T
    BY <2>3, <1>3
  <2>5. n <= Cardinality(Under(q[p]))
    BY <2>3, <2>4, <1>5
  <2>6. Under(q[p]) \subseteq Upto(q[p]) /\ p \in Upto(q[p]) /\ p \notin Under(q[p])
    OBVIOUS
  <2>7. /\ Cardinality(Under(q[p])) <= Cardinality(Upto(q[p]))
        /\ Cardinality(Under(q[p])) # Cardinality(Upto(q[p]))
    BY <2>6, <1>3, FS_Subset
  <2>8. QED
    BY <1>3, <1>6, <2>5, <2>7
<1>8. Cardinality(Under(q[p])) <= mid /\ Cardinality(Upto(q[p])) > mid
  BY <1>2, <1>3, <1>6, <1>7
<1>9. Fx!LowerMedian(q, S) = CHOOSE r \in {q[o] : o \in S} :
        Cardinality(Under(r)) <= mid /\ Cardinality(Upto(r)) > mid
  BY FxCardinality DEF Fx!LowerMedian, mid
<1> DEFINE m == CHOOSE r \in {q[o] : o \in S} :
                  Cardinality(Under(r)) <= mid /\ Cardinality(Upto(r)) > mid
<1>10. m \in {q[o] : o \in S} /\ Cardinality(Under(m)) <= mid /\ Cardinality(Upto(m)) > mid
  BY <1>8
<1> HIDE DEF m
<1>11. QED
  BY <1>9, <1>10 DEF m, mid

\* The quotes of more than half of the providers have the lower median between them.
LEMMA MajorityHoldsMedian ==
    ASSUME NEW S, IsFiniteSet(S), NEW q, \A p \in S : q[p] \in Int,
           NEW H \in SUBSET S, 2 * Cardinality(H) > Cardinality(S)
    PROVE  /\ \E p \in H : q[p] <= Fx!LowerMedian(q, S)
           /\ \E p \in H : q[p] >= Fx!LowerMedian(q, S)
           /\ Fx!LowerMedian(q, S) \in Int /\ S # {}
<1> DEFINE m == Fx!LowerMedian(q, S)
           mid == (Cardinality(S) - 1) \div 2
<1>1. /\ IsFiniteSet(H) /\ Cardinality(H) \in Nat /\ Cardinality(S) \in Nat
      /\ Cardinality(H) <= Cardinality(S)
  BY FS_Subset, FS_CardinalityType
<1>2. Cardinality(S) > 0 /\ Cardinality(H) > 0 /\ S # {}
  BY <1>1, FS_EmptySet
<1>3. /\ \E p \in S : q[p] = m
      /\ Cardinality({p \in S : q[p] < m}) <= mid
      /\ Cardinality({p \in S : q[p] <= m}) > mid
  BY <1>2, MedianSplits
<1> HIDE DEF m
<1>4. m \in Int
  BY <1>3
<1>5. /\ 2 * mid <= Cardinality(S) - 1 /\ Cardinality(S) - 1 <= 2 * mid + 1
      /\ mid \in Nat
  BY <1>1, <1>2
<1> HIDE DEF mid
<1>6. \E p \in H : q[p] >= m
  <2> SUFFICES ASSUME \A p \in H : q[p] < m PROVE FALSE
    BY <1>4
  <2>1. H \subseteq {p \in S : q[p] < m} /\ {p \in S : q[p] < m} \subseteq S
    OBVIOUS
  <2>2. IsFiniteSet({p \in S : q[p] < m}) /\ Cardinality({p \in S : q[p] < m}) \in Nat
    BY <2>1, FS_Subset, FS_CardinalityType
  <2>3. Cardinality(H) <= Cardinality({p \in S : q[p] < m})
    BY <2>1, <2>2, FS_Subset
  <2>4. QED
    BY <2>2, <2>3, <1>1, <1>3, <1>5
<1>7. \E p \in H : q[p] <= m
  <2> SUFFICES ASSUME \A p \in H : ~(q[p] <= m) PROVE FALSE
    OBVIOUS
  <2> DEFINE L == {p \in S : q[p] <= m}
  <2>1. L \subseteq S \ H
    OBVIOUS
  <2>2. IsFiniteSet(S \ H) /\ Cardinality(S \ H) = Cardinality(S) - Cardinality(H)
    <3>1. IsFiniteSet(S \ H) /\ Cardinality(S \ H) = Cardinality(S) - Cardinality(S \cap H)
      BY FS_Difference, <1>1
    <3>2. S \cap H = H
      OBVIOUS
    <3>3. QED
      BY <3>1, <3>2
  <2>3. IsFiniteSet(L) /\ Cardinality(L) \in Nat /\ Cardinality(L) <= Cardinality(S \ H)
    BY <2>1, <2>2, FS_Subset, FS_CardinalityType
  <2>4. Cardinality(L) > mid
    BY <1>3
  <2> HIDE DEF L
  <2>5. QED
    BY <2>2, <2>3, <2>4, <1>1, <1>5
<1>8. QED
  BY <1>2, <1>4, <1>6, <1>7 DEF m

\* A rate is in place: the quotes are finitely many integers, and the rate is the
\* median of those that are kept.
IsAggregate(quotes, rate) ==
    /\ IsFiniteSet(DOMAIN quotes)
    /\ \A p \in DOMAIN quotes : quotes[p] \in Int
    /\ DOMAIN quotes # {} => rate = Fx!LowerMedian(quotes, Fx!Kept(quotes))

\* Fewer than half of the quotes move no rate more than 2 % out of the others' range.
LEMMA MajorityBounds ==
    ASSUME NEW q, NEW r, IsAggregate(q, r), NEW H \in SUBSET DOMAIN q,
           2 * Cardinality(H) > Cardinality(DOMAIN q),
           Fx!Min({q[p] : p \in H}) > 0
    PROVE  /\ 98 * Fx!Min({q[p] : p \in H}) <= 100 * r
           /\ 100 * r <= 102 * Fx!Max({q[p] : p \in H})
<1> DEFINE S == DOMAIN q
           m == Fx!LowerMedian(q, S)
           K == Fx!Kept(q)
           honest == {q[p] : p \in H}
           low == Fx!Min(honest)
           high == Fx!Max(honest)
<1>1. IsFiniteSet(S) /\ \A p \in S : q[p] \in Int
  BY DEF IsAggregate
<1>2. /\ \E p \in H : q[p] <= m
      /\ \E p \in H : q[p] >= m
      /\ m \in Int /\ S # {}
  BY <1>1, MajorityHoldsMedian
<1>3. IsFiniteSet(H) /\ H # {} /\ \A p \in H : q[p] \in Int
  BY <1>1, <1>2, FS_Subset
<1>4. low \in honest /\ \A x \in honest : low <= x
  <2>1. PICK p \in H : \A o \in H : q[p] <= q[o]
    BY <1>3, LowestQuote
  <2>2. \E x \in honest : \A y \in honest : x <= y
    BY <2>1
  <2>3. QED
    BY <2>2 DEF Fx!Min
<1>5. high \in honest /\ \A x \in honest : high >= x
  <2>1. PICK p \in H : \A o \in H : q[o] <= q[p]
    BY <1>3, HighestQuote
  <2>2. \E x \in honest : \A y \in honest : x >= y
    BY <2>1, <1>3
  <2>3. QED
    BY <2>2 DEF Fx!Max
<1>6. honest \subseteq Int
  BY <1>3
<1>7. \A p \in H : q[p] \in honest
  OBVIOUS
<1> HIDE DEF m, low, high, honest
<1>8. low \in Int /\ high \in Int /\ low <= m /\ m <= high
  BY <1>2, <1>3, <1>4, <1>5, <1>6, <1>7
<1>9. low > 0
  BY DEF low, honest
<1>10. K = {p \in S : ~Fx!IsOutlier(q[p], m)}
  BY DEF Fx!Kept, m
<1>11. K # {}
  <2>1. PICK p \in S : q[p] = m
    BY <1>1, <1>2, MedianSplits DEF m
  <2>2. ~Fx!IsOutlier(m, m)
    BY <1>2 DEF Fx!IsOutlier, Fx!Distance
  <2>3. QED
    BY <2>1, <2>2, <1>10
<1>12. PICK p \in K : q[p] = Fx!LowerMedian(q, K)
  <2>1. IsFiniteSet(K) /\ \A o \in K : q[o] \in Int
    BY <1>1, <1>10, FS_Subset
  <2>2. QED
    BY <2>1, <1>11, MedianSplits
<1>13. r = q[p] /\ q[p] \in Int /\ ~Fx!IsOutlier(q[p], m)
  <2>1. r = Fx!LowerMedian(q, K)
    BY <1>2 DEF IsAggregate
  <2>2. QED
    BY <2>1, <1>1, <1>10, <1>12
<1>14. r \in Int /\ ~(Fx!Distance(r, m) * 50 > m)
  BY <1>2, <1>8, <1>9, <1>13 DEF Fx!IsOutlier
<1>15. Fx!Distance(r, m) = IF r < m THEN m - r ELSE r - m
  BY DEF Fx!Distance
<1>16. 98 * m <= 100 * r /\ 100 * r <= 102 * m
  BY <1>2, <1>14, <1>15
<1>17. 98 * low <= 100 * r /\ 100 * r <= 102 * high
  BY <1>2, <1>8, <1>14, <1>16
<1>18. QED
  BY <1>17 DEF low, high, honest

OracleTypeOK ==
    /\ now \in Nat
    /\ calls \in [Call -> {"idle", "fetching", "served", "threw"}]
    /\ lastKnown.fetchedAt \in Nat
    /\ answers \in [Call -> Nat]
    /\ began \in [Call -> Nat]
    /\ known \in [Call -> Nat]

\* Nothing was taken in the future.
Past ==
    /\ lastKnown.fetchedAt <= now
    /\ \A c \in Call : answers[c] <= now /\ known[c] <= began[c] /\ began[c] <= now

\* Until calls overlap, one fetches at a time, and what is kept is the newest of what
\* was served: nothing comes in between while a call is fetching.
Alone ==
    /\ \A c \in Call : answers[c] <= lastKnown.fetchedAt
    /\ \A c \in Fx!Fetching :
          /\ known[c] <= lastKnown.fetchedAt
          /\ \A d \in Fx!Fetching : d = c
          /\ \A d \in Call : answers[d] <= known[c]

OracleInv ==
    /\ OracleTypeOK /\ Past /\ (~overlap => Alone)
    /\ IsAggregate(last.quotes, last.rate)
    /\ Fx!NeverOlder

\* No quotes make no rate.
LEMMA NoQuotesAggregate == IsAggregate(Fx!NoQuotes.quotes, Fx!NoQuotes.rate)
<1>1. DOMAIN Fx!NoQuotes.quotes = {}
  BY DEF Fx!NoQuotes
<1>2. QED
  BY <1>1, FS_EmptySet DEF IsAggregate

\* The rate cache starts in its invariant.
LEMMA OracleInitially == Init => OracleInv
<1> SUFFICES ASSUME Fx!Init PROVE OracleInv
  BY DEF Init
<1>1. OracleTypeOK /\ Past
  BY DEF Fx!Init, OracleTypeOK, Past, Fx!NoRate
<1>2. Alone /\ Fx!NeverOlder
  BY DEF Fx!Init, Alone, Fx!NoRate, Fx!Fetching, Fx!NeverOlder
<1>3. IsAggregate(last.quotes, last.rate)
  BY NoQuotesAggregate DEF Fx!Init
<1>4. QED
  BY <1>1, <1>2, <1>3 DEF OracleInv

\* A call that asks for the rate keeps the invariant.
LEMMA GetRateStep ==
    ASSUME OracleInv, NEW c \in Call, Fx!GetRate(c)
    PROVE  OracleInv'
<1> USE DEF OracleInv
<1> DEFINE S == {answers[d] : d \in Call}
           k == Fx!Max(S)
<1>1. /\ calls[c] = "idle" /\ calls' = [calls EXCEPT ![c] = "fetching"]
      /\ began' = [began EXCEPT ![c] = now]
      /\ known' = [known EXCEPT ![c] = k]
      /\ last' = Fx!NoQuotes /\ UNCHANGED <<now, lastKnown, answers>>
  BY DEF Fx!GetRate
<1>2. ~overlap' => ~overlap /\ Fx!Fetching = {}
  BY Zenon DEF Fx!GetRate
<1>3. S \in SUBSET (0 .. now) /\ S # {} /\ now \in Nat
  BY DEF OracleTypeOK, Past
<1>4. \E x \in S : \A y \in S : x >= y
  BY <1>3, GreatestNatural
<1>5. k \in S /\ \A y \in S : k >= y
  BY <1>4 DEF Fx!Max
<1>6. k \in Nat /\ k <= now /\ \A d \in Call : answers[d] <= k
  <2>1. \A d \in Call : answers[d] \in S
    OBVIOUS
  <2> HIDE DEF S, k
  <2>2. \A y \in S : y \in Nat /\ y <= now
    BY <1>3
  <2>3. \A y \in S : y <= k
    BY <1>5, <2>2
  <2>4. QED
    BY <1>5, <2>1, <2>2, <2>3
<1>7. \E d \in Call : k = answers[d]
  BY <1>5
<1> HIDE DEF k
<1>8. /\ calls'[c] = "fetching" /\ began'[c] = now /\ known'[c] = k
      /\ \A d \in Call \ {c} :
            calls'[d] = calls[d] /\ began'[d] = began[d] /\ known'[d] = known[d]
  BY <1>1 DEF OracleTypeOK
<1>9. OracleTypeOK'
  BY <1>1, <1>6 DEF OracleTypeOK
<1>10. Past'
  BY <1>1, <1>6, <1>8 DEF Past, OracleTypeOK
<1>11. ~overlap' => Alone'
  <2> SUFFICES ASSUME ~overlap, Fx!Fetching = {} PROVE Alone'
    BY <1>2
  <2>1. Fx!Fetching' = {c}
    BY <1>8 DEF Fx!Fetching
  <2>2. k <= lastKnown.fetchedAt
    BY <1>7 DEF Alone
  <2>3. QED
    BY <2>1, <2>2, <1>1, <1>6, <1>8 DEF Alone
<1>12. Fx!NeverOlder'
  BY <1>1, <1>2, <1>8 DEF Fx!NeverOlder
<1>13. QED
  BY <1>1, <1>9, <1>10, <1>11, <1>12, NoQuotesAggregate

\* A call ends: with a rate of its own time, or with the one that is kept.
LEMMA CallEnds ==
    ASSUME OracleInv, NEW c \in Call, calls[c] = "fetching",
           NEW to \in {"served", "threw"}, calls' = [calls EXCEPT ![c] = to],
           NEW at \in Nat, answers' = [answers EXCEPT ![c] = at],
           lastKnown'.fetchedAt = at, at <= now,
           at >= began[c] \/ at = lastKnown.fetchedAt,
           UNCHANGED <<now, began, known, overlap>>
    PROVE  OracleTypeOK' /\ Past' /\ (~overlap' => Alone') /\ Fx!NeverOlder'
<1> USE DEF OracleInv
<1>1. /\ calls'[c] = to /\ answers'[c] = at
      /\ \A d \in Call \ {c} : calls'[d] = calls[d] /\ answers'[d] = answers[d]
  BY DEF OracleTypeOK
<1>2. OracleTypeOK'
  BY DEF OracleTypeOK
<1>3. Past'
  BY <1>1 DEF Past, OracleTypeOK
<1>4. ASSUME ~overlap
      PROVE  Alone' /\ at >= known[c]
  <2>1. /\ c \in Fx!Fetching /\ \A d \in Fx!Fetching : d = c
        /\ known[c] <= lastKnown.fetchedAt
        /\ \A d \in Call : answers[d] <= known[c]
    BY <1>4 DEF Alone, Fx!Fetching
  <2>2. known[c] <= began[c] /\ {at, known[c], began[c], lastKnown.fetchedAt} \subseteq Nat
    BY DEF Past, OracleTypeOK
  <2>3. at >= known[c]
    BY <2>1, <2>2
  <2>4. \A d \in Call : answers'[d] <= at
    BY <1>1, <2>1, <2>2, <2>3 DEF OracleTypeOK
  <2>5. Fx!Fetching' = {}
    BY <2>1, <1>1 DEF Fx!Fetching
  <2>6. QED
    BY <2>3, <2>4, <2>5 DEF Alone
<1>5. Fx!NeverOlder'
  BY <1>1, <1>4 DEF Fx!NeverOlder
<1>6. QED
  BY <1>2, <1>3, <1>4, <1>5

\* A call that ends with fresh quotes keeps the invariant.
LEMMA FreshStep ==
    ASSUME OracleInv, NEW c \in Call, NEW q \in Fx!Quotes, NEW at \in began[c] .. now,
           Fx!Fresh(c, q, at)
    PROVE  OracleInv'
<1> USE DEF OracleInv
<1>1. /\ calls[c] = "fetching" /\ DOMAIN q # {}
      /\ lastKnown' = Fx!Aggregate(q, at)
      /\ answers' = [answers EXCEPT ![c] = at]
      /\ calls' = [calls EXCEPT ![c] = "served"]
      /\ last' = [quotes |-> q, rate |-> lastKnown'.rate]
      /\ UNCHANGED <<now, began, known, overlap>>
  BY DEF Fx!Fresh
<1>2. /\ lastKnown'.fetchedAt = at
      /\ lastKnown'.rate = Fx!LowerMedian(q, Fx!Kept(q))
  BY <1>1 DEF Fx!Aggregate
<1>3. at \in Nat /\ at >= began[c] /\ at <= now
  BY DEF OracleTypeOK
<1>4. PICK S \in SUBSET {"cbn", "flutterwave", "stellarDex"} : q \in [S -> Rate]
  <2>1. DOMAIN Fx!Answers = {"cbn", "flutterwave", "stellarDex"}
    BY DEF Fx!Answers
  <2>2. QED
    BY <2>1 DEF Fx!Quotes
<1>5. IsFiniteSet({"cbn", "flutterwave", "stellarDex"})
  <2>1. IsFiniteSet({"cbn"} \cup {"flutterwave"} \cup {"stellarDex"})
    <3>1. IsFiniteSet({"cbn"})
      BY FS_Singleton
    <3>2. IsFiniteSet({"cbn"} \cup {"flutterwave"})
      BY <3>1, FS_AddElement
    <3>3. QED
      BY <3>2, FS_AddElement
  <2>2. {"cbn"} \cup {"flutterwave"} \cup {"stellarDex"} = {"cbn", "flutterwave", "stellarDex"}
    OBVIOUS
  <2>3. QED
    BY <2>1, <2>2
<1>6. IsAggregate(q, lastKnown'.rate)
  <2>1. DOMAIN q = S /\ \A p \in S : q[p] \in Int
    BY <1>4, ServicesAssumption
  <2>2. IsFiniteSet(S)
    BY <1>5, FS_Subset
  <2>3. QED
    BY <2>1, <2>2, <1>2 DEF IsAggregate
<1>7. IsAggregate(last'.quotes, last'.rate)
  BY <1>1, <1>6
<1>8. OracleTypeOK' /\ Past' /\ (~overlap' => Alone') /\ Fx!NeverOlder'
  BY <1>1, <1>2, <1>3, CallEnds
<1>9. QED
  BY <1>7, <1>8 DEF IsAggregate

\* A call that falls back on the cache keeps the invariant.
LEMMA FallbackStep ==
    ASSUME OracleInv, NEW c \in Call, Fx!Fallback(c)
    PROVE  OracleInv'
<1> USE DEF OracleInv
<1>1. PICK to \in {"served", "threw"} :
        /\ calls[c] = "fetching" /\ calls' = [calls EXCEPT ![c] = to]
        /\ answers' = [answers EXCEPT ![c] = lastKnown.fetchedAt]
        /\ last' = Fx!NoQuotes
        /\ UNCHANGED <<now, lastKnown, began, known, overlap>>
  BY DEF Fx!Fallback
<1>2. lastKnown.fetchedAt \in Nat /\ lastKnown.fetchedAt <= now
  BY DEF OracleTypeOK, Past
<1>3. OracleTypeOK' /\ Past' /\ (~overlap' => Alone') /\ Fx!NeverOlder'
  BY <1>1, <1>2, CallEnds
<1>4. QED
  BY <1>1, <1>3, NoQuotesAggregate

\* Every step of the oracle keeps its invariant.
LEMMA OracleStep == OracleInv /\ (Fx!Next \/ UNCHANGED fx) => OracleInv'
<1> SUFFICES ASSUME OracleInv, Fx!Next \/ UNCHANGED fx PROVE OracleInv'
  OBVIOUS
<1> USE DEF OracleInv
<1>1. ASSUME UNCHANGED <<calls, lastKnown, answers, began, known, overlap>>,
             now' \in Nat, now' >= now
      PROVE  OracleTypeOK' /\ Past' /\ (~overlap' => Alone') /\ Fx!NeverOlder'
  BY <1>1 DEF OracleTypeOK, Past, Alone, Fx!NeverOlder, Fx!Fetching
<1>2. CASE Fx!Tick
  <2>1. /\ UNCHANGED <<calls, lastKnown, answers, began, known, overlap>>
        /\ now' = now + 1 /\ last' = Fx!NoQuotes
    BY <1>2 DEF Fx!Tick
  <2>2. now' \in Nat /\ now' >= now
    BY <2>1 DEF OracleTypeOK
  <2>3. QED
    BY <1>1, <2>1, <2>2, NoQuotesAggregate
<1>3. CASE UNCHANGED fx
  <2>1. UNCHANGED <<now, calls, lastKnown, answers, began, known, overlap, last>>
    BY <1>3 DEF fx
  <2>2. now' \in Nat /\ now' >= now
    BY <2>1 DEF OracleTypeOK
  <2>3. QED
    BY <1>1, <2>1, <2>2
<1>4. CASE Fx!Next
  BY <1>2, <1>4, GetRateStep, FallbackStep, FreshStep DEF Fx!Next
<1>5. QED
  BY <1>3, <1>4

\* The FX rate stays within 2 % of the range of any majority of the quotes, however
\* wrong the others are, and one older than a rate served before the call began comes
\* from calls that overlapped.
THEOREM ServedRatesHaveCause == Spec => []ServedRateHasCause
<1>1. OracleInv /\ [Next]_vars => OracleInv'
  BY OracleStep, ServiceSteps
<1>2. OracleInv => Fx!MajorityBoundsRate
  BY MajorityBounds, FxCardinality DEF OracleInv, Fx!MajorityBoundsRate
<1>3. OracleInv => ServedRateHasCause
  BY <1>2 DEF OracleInv, ServedRateHasCause, Fx!ServedRateHasCause
<1>4. QED
  BY OracleInitially, <1>1, <1>3, PTL DEF Spec
===============================================================================
