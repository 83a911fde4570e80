-------------------------------- MODULE Relayer --------------------------------
(***************************************************************************)
(* services/relayer: Relayer.submitPayment (submit.ts) under the Redis     *)
(* lock of SequenceManager (sequenceManager.ts), for one sender account:   *)
(* the lock key is scoped to the account, so accounts do not interact.     *)
(* Calls run in any number of processes and interleave at every await.     *)
(* Redis, Horizon and the Stellar network are external.                    *)
(***************************************************************************)
EXTENDS Integers

CONSTANTS
    Call,           \* invocations of submitPayment
    Payment,        \* payment ids
    PaymentOf,      \* the payment each call is for
    None,
    MaxOutside      \* bound: operations on the account outside the relayer

Result == {"Success", "BadSequence", "Duplicate", "Error"}

ASSUME RelayerAssumption ==
    /\ PaymentOf \in [Call -> Payment]
    /\ None \notin Call \cup Result
    /\ MaxOutside \in Nat

VARIABLES
    stage,          \* how far a call has come
    result,         \* what it returns or throws, None while undecided
    lock,           \* the call whose SET created the account's key, None: no key
    seq,            \* the sequence number loadAccount returned to a call
    tx,             \* what became of the transaction a call built
    netSeq,         \* the account's sequence number on the network
    outside,        \* operations made outside the relayer so far
    lapsed          \* history: a key expired under a call that was still running

callVars == <<stage, result>>
netVars == <<tx, netSeq, outside>>
vars == <<callVars, lock, seq, netVars, lapsed>>

Stage == {"idle", "reserved", "loaded", "sent", "answered", "done", "crashed"}
TxStatus == {"none", "pending", "applied", "badSeq", "dropped"}

Init ==
    /\ stage = [c \in Call |-> "idle"]
    /\ result = [c \in Call |-> None]
    /\ lock = None
    /\ seq = [c \in Call |-> 0]
    /\ tx = [c \in Call |-> "none"]
    /\ netSeq = 0 /\ outside = 0
    /\ lapsed = FALSE

\* withLock is running the call's callback or about to release.
Running(c) == stage[c] \in {"reserved", "loaded", "sent", "answered"}

\* What README's usage example lets a caller try again: a rejected duplicate,
\* and a bad sequence, `safe to retry`.
Retryable == {"BadSequence", "Duplicate"}

\* Callers deduplicate: a payment is submitted again only after its earlier
\* submissions were all turned down in a way that is safe to retry.
MayCall(c) ==
    /\ stage[c] = "idle"
    /\ \A d \in Call \ {c} : PaymentOf[d] = PaymentOf[c] =>
          stage[d] = "idle" \/ (stage[d] = "done" /\ result[d] \in Retryable)

KeyIgnored == TRUE                                             \* mutant: SET without NX
KeyFree == lock = None

\* SET with PX: any key goes in the end.
KeyExpires == lock # None

FinishSwapped(c, r) ==                                         \* mutant
    /\ stage' = [stage EXCEPT ![c] = r]
    /\ result' = [result EXCEPT ![c] = "done"]

Finish(c, r) ==
    /\ stage' = [stage EXCEPT ![c] = "done"]
    /\ result' = [result EXCEPT ![c] = r]

Answer(c, r) ==
    /\ stage' = [stage EXCEPT ![c] = "answered"]
    /\ result' = [result EXCEPT ![c] = r]

Advance(c, from, to) ==
    /\ stage[c] = from
    /\ stage' = [stage EXCEPT ![c] = to]
    /\ UNCHANGED result

-------------------------------------------------------------------------------
\* reserve: SET key paymentId PX ttl NX.

Reserve(c) ==
    /\ MayCall(c) /\ KeyFree
    /\ Advance(c, "idle", "reserved")
    /\ lock' = c
    /\ UNCHANGED <<seq, netVars, lapsed>>

RejectDuplicate(c) ==
    /\ MayCall(c) /\ ~KeyFree
    /\ Finish(c, "Duplicate")
    /\ UNCHANGED <<lock, seq, netVars, lapsed>>

\* The command or its reply is lost: the call fails before withLock's try, and a
\* key that was created stays behind.
ReserveFails(c) ==
    /\ MayCall(c)
    /\ Finish(c, "Error")
    /\ lock' \in {lock, IF lock = None THEN c ELSE lock}
    /\ UNCHANGED <<seq, netVars, lapsed>>

-------------------------------------------------------------------------------
\* The callback of submitPayment.

LoadAccount(c) ==
    /\ Advance(c, "reserved", "loaded")
    /\ seq' = [seq EXCEPT ![c] = netSeq]
    /\ UNCHANGED <<lock, netVars, lapsed>>

LoadFails(c) ==
    /\ stage[c] = "reserved"
    /\ Answer(c, "Error")
    /\ UNCHANGED <<lock, seq, netVars, lapsed>>

\* The transaction is built for the next sequence number, signed and sent.
SubmitTransaction(c) ==
    /\ Advance(c, "loaded", "sent")
    /\ tx' = [tx EXCEPT ![c] = "pending"]
    /\ UNCHANGED <<lock, seq, netSeq, outside, lapsed>>

AnswerSuccess(c) ==
    /\ stage[c] = "sent" /\ tx[c] = "applied"
    /\ Answer(c, "Success")
    /\ UNCHANGED <<lock, seq, netVars, lapsed>>

\* tx_bad_seq is the one rejection that is told apart.
AnyRejection(c) == tx[c] # "applied"                           \* mutant
BadSequence(c) == tx[c] = "badSeq"

AnswerBadSequence(c) ==
    /\ stage[c] = "sent" /\ BadSequence(c)
    /\ Answer(c, "BadSequence")
    /\ UNCHANGED <<lock, seq, netVars, lapsed>>

\* Another rejection, Horizon's own timeout or a lost answer: the error goes up
\* as it is, whatever becomes of the transaction.
AnswerFailure(c) ==
    /\ stage[c] = "sent"
    /\ Answer(c, "Error")
    /\ UNCHANGED <<lock, seq, netVars, lapsed>>

-------------------------------------------------------------------------------
\* release, in the finally of withLock: DEL key, whoever created it.

ReleaseOnSuccess(c) ==                                         \* mutant: no finally
    /\ result[c] = "Success"
    /\ Advance(c, "answered", "done")
    /\ lock' = None
    /\ UNCHANGED <<seq, netVars, lapsed>>

Release(c) ==
    /\ Advance(c, "answered", "done")
    /\ lock' = None
    /\ UNCHANGED <<seq, netVars, lapsed>>

\* A failing DEL throws out of the finally and replaces the call's own outcome.
ReleaseFails(c) ==
    /\ stage[c] = "answered"
    /\ Finish(c, "Error")
    /\ lock' \in {lock, None}
    /\ UNCHANGED <<seq, netVars, lapsed>>

Crash(c) ==
    /\ Running(c)
    /\ stage' = [stage EXCEPT ![c] = "crashed"]
    /\ UNCHANGED <<result, lock, seq, netVars, lapsed>>

-------------------------------------------------------------------------------
\* Redis and the network.

\* The TTL is 10 s; nothing bounds how long a call takes.
Expire ==
    /\ KeyExpires
    /\ lapsed' = (lapsed \/ Running(lock))
    /\ lock' = None
    /\ UNCHANGED <<callVars, seq, netVars>>

\* A transaction applies when its sequence number is the next one.
Apply(c) ==
    /\ tx[c] = "pending" /\ seq[c] = netSeq
    /\ tx' = [tx EXCEPT ![c] = "applied"]
    /\ netSeq' = netSeq + 1
    /\ UNCHANGED <<callVars, lock, seq, outside, lapsed>>

RejectSequence(c) ==
    /\ tx[c] = "pending" /\ seq[c] # netSeq
    /\ tx' = [tx EXCEPT ![c] = "badSeq"]
    /\ UNCHANGED <<callVars, lock, seq, netSeq, outside, lapsed>>

\* Past its time bounds, invalid, or never received.
Drop(c) ==
    /\ tx[c] = "pending"
    /\ tx' = [tx EXCEPT ![c] = "dropped"]
    /\ UNCHANGED <<callVars, lock, seq, netSeq, outside, lapsed>>

OutsideOperation ==
    /\ outside < MaxOutside
    /\ outside' = outside + 1 /\ netSeq' = netSeq + 1
    /\ UNCHANGED <<callVars, lock, seq, tx, lapsed>>

CallStep(c) ==
    \/ Reserve(c) \/ RejectDuplicate(c) \/ ReserveFails(c)
    \/ LoadAccount(c) \/ LoadFails(c) \/ SubmitTransaction(c)
    \/ AnswerSuccess(c) \/ AnswerBadSequence(c) \/ AnswerFailure(c)
    \/ Release(c) \/ ReleaseFails(c) \/ Crash(c)

Environment ==
    \/ Expire
    \/ OutsideOperation
    \/ \E c \in Call : Apply(c) \/ RejectSequence(c) \/ Drop(c)

Next == Environment \/ \E c \in Call : CallStep(c)

Spec == Init /\ [][Next]_vars

\* Until it answers, a call makes a request to Horizon at a time, and each comes back
\* with an answer or an error; then it sends its DEL.  The TTL need not run out.
Working(c) ==
    \/ LoadAccount(c) \/ LoadFails(c) \/ SubmitTransaction(c)
    \/ AnswerSuccess(c) \/ AnswerBadSequence(c) \/ AnswerFailure(c)

FairSpec == Spec /\ \A c \in Call : WF_vars(Working(c)) /\ WF_vars(Release(c))

-------------------------------------------------------------------------------
\* Properties.

TypeOK ==
    /\ stage \in [Call -> Stage]
    /\ result \in [Call -> Result \cup {None}]
    /\ lock \in Call \cup {None}
    /\ seq \in [Call -> Nat]
    /\ tx \in [Call -> TxStatus]
    /\ netSeq \in Nat /\ outside \in 0..MaxOutside
    /\ lapsed \in BOOLEAN

\* `Serialises all submissions for a given sender` holds until a TTL runs out
\* under a running call: before that, whoever runs owns the key, alone, whatever
\* crashed, failed to release or lost a reply before.
SerialisedUntilLapse ==
    ~lapsed => \A c \in Call : Running(c) => lock = c

\* What the caller is told agrees with the network: success means applied; after
\* a duplicate or a bad sequence the transaction is not applied and never will be.
OutcomeIsTruthful ==
    \A c \in Call :
        /\ result[c] = "Success" => tx[c] = "applied"
        /\ result[c] \in Retryable => tx[c] \notin {"pending", "applied"}

\* A caller that retries only what is safe to retry never pays twice, even when
\* locks lapse, answers are lost and processes crash.
PaidAtMostOnce ==
    \A c, d \in Call :
        tx[c] = "applied" /\ tx[d] = "applied" /\ PaymentOf[c] = PaymentOf[d] => c = d

\* A transaction applied although its call had given up on it or crashed.
Orphan(c) ==
    /\ stage[c] \in {"answered", "done", "crashed"}
    /\ result[c] # "Success" /\ tx[c] = "applied"

\* `The fetch is always accurate` has just three exceptions: a lapsed lock, an
\* operation outside the relayer, and a late transaction of an earlier call.
StaleFetchHasCause ==
    \A c \in Call : stage[c] = "loaded" /\ seq[c] # netSeq =>
        lapsed \/ outside > 0 \/ \E d \in Call : Orphan(d)

\* withLock `guarantees the lock is always released even when fn throws`: whatever a
\* call meets, its key is deleted without waiting for the TTL, unless its process
\* dies or Redis fails the SET or the DEL.
LockReleased ==
    \A c \in Call :
        lock = c ~> (lock # c \/ stage[c] = "crashed" \/ (stage[c] = "done" /\ result[c] = "Error"))
===============================================================================
