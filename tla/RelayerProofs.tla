---------------------------- MODULE RelayerProofs ----------------------------
(***************************************************************************)
(* Proofs about Relayer for every set of calls and payments.  To the       *)
(* checked invariants the inductive one adds how far a call's transaction  *)
(* and result can have come at each stage, and that no payment has two     *)
(* live calls: calls whose transaction is or may yet be applied.           *)
(***************************************************************************)
EXTENDS Relayer, TLAPS

\* A call has no result before its answer, and no transaction before it is sent.
StagesAgree ==
    \A c \in Call :
        /\ stage[c] \in {"idle", "reserved", "loaded", "sent"} => result[c] = None
        /\ stage[c] \in {"idle", "reserved", "loaded"} => tx[c] = "none"

Live(c) == stage[c] # "idle" /\ ~(stage[c] = "done" /\ result[c] \in Retryable)

OneLivePerPayment ==
    \A c, d \in Call : Live(c) /\ Live(d) /\ PaymentOf[c] = PaymentOf[d] => c = d

IInv ==
    /\ TypeOK
    /\ StagesAgree
    /\ OneLivePerPayment
    /\ SerialisedUntilLapse
    /\ OutcomeIsTruthful
    /\ StaleFetchHasCause

-------------------------------------------------------------------------------
LEMMA Initially ==
    Init => IInv
<1> SUFFICES ASSUME Init PROVE IInv
  OBVIOUS
<1>1. lapsed \in BOOLEAN
  BY Zenon DEF Init
<1>2. TypeOK
  BY <1>1, RelayerAssumption DEF Init, TypeOK, Stage, Result, TxStatus
<1>3. StagesAgree /\ OneLivePerPayment
  BY DEF Init, StagesAgree, OneLivePerPayment, Live
<1>4. SerialisedUntilLapse /\ OutcomeIsTruthful /\ StaleFetchHasCause
  BY RelayerAssumption
     DEF Init, SerialisedUntilLapse, OutcomeIsTruthful, StaleFetchHasCause, Running,
         Retryable, Result
<1>5. QED
  BY <1>2, <1>3, <1>4 DEF IInv

LEMMA TypeStep ==
    ASSUME TypeOK, [Next]_vars
    PROVE  TypeOK'
<1> USE RelayerAssumption DEF TypeOK, Stage, Result, TxStatus, callVars, netVars,
        Advance, Answer, Finish
<1>1. CASE Expire
  <2>1. lapsed' \in BOOLEAN
    BY <1>1, Zenon DEF Expire
  <2>2. QED
    BY <1>1, <2>1 DEF Expire
<1>2. CASE OutsideOperation
  BY <1>2 DEF OutsideOperation
<1>3. ASSUME NEW c \in Call, Apply(c) \/ RejectSequence(c) \/ Drop(c)
      PROVE  TypeOK'
  BY <1>3 DEF Apply, RejectSequence, Drop
<1>4. ASSUME NEW c \in Call, Reserve(c) \/ RejectDuplicate(c) \/ ReserveFails(c)
      PROVE  TypeOK'
  BY <1>4 DEF Reserve, RejectDuplicate, ReserveFails
<1>5. ASSUME NEW c \in Call, LoadAccount(c) \/ LoadFails(c) \/ SubmitTransaction(c)
      PROVE  TypeOK'
  BY <1>5 DEF LoadAccount, LoadFails, SubmitTransaction
<1>6. ASSUME NEW c \in Call, AnswerSuccess(c) \/ AnswerBadSequence(c) \/ AnswerFailure(c)
      PROVE  TypeOK'
  BY <1>6 DEF AnswerSuccess, AnswerBadSequence, AnswerFailure
<1>7. ASSUME NEW c \in Call, Release(c) \/ ReleaseFails(c) \/ Crash(c)
      PROVE  TypeOK'
  BY <1>7 DEF Release, ReleaseFails, Crash
<1>8. CASE UNCHANGED vars
  BY <1>8 DEF vars
<1>9. QED
  BY <1>1, <1>2, <1>3, <1>4, <1>5, <1>6, <1>7, <1>8 DEF Next, Environment, CallStep

\* Each kind of step, on the stage, the result and the transaction of its call.
LEMMA StagesStep ==
    ASSUME TypeOK, StagesAgree, OutcomeIsTruthful, [Next]_vars
    PROVE  StagesAgree' /\ OutcomeIsTruthful'
<1> USE RelayerAssumption DEF TypeOK, StagesAgree, OutcomeIsTruthful, Stage, Result, TxStatus,
        Retryable, callVars, netVars, Advance, Answer, Finish
<1>1. CASE Expire \/ OutsideOperation
  BY <1>1 DEF Expire, OutsideOperation
<1>2. ASSUME NEW c \in Call, Apply(c) \/ RejectSequence(c) \/ Drop(c)
      PROVE  StagesAgree' /\ OutcomeIsTruthful'
  BY <1>2 DEF Apply, RejectSequence, Drop
<1>3. ASSUME NEW c \in Call, Reserve(c) \/ RejectDuplicate(c) \/ ReserveFails(c)
      PROVE  StagesAgree' /\ OutcomeIsTruthful'
  BY <1>3 DEF Reserve, RejectDuplicate, ReserveFails, MayCall
<1>4. ASSUME NEW c \in Call, LoadAccount(c) \/ LoadFails(c) \/ SubmitTransaction(c)
      PROVE  StagesAgree' /\ OutcomeIsTruthful'
  BY <1>4 DEF LoadAccount, LoadFails, SubmitTransaction
<1>5. ASSUME NEW c \in Call, AnswerSuccess(c) \/ AnswerBadSequence(c) \/ AnswerFailure(c)
      PROVE  StagesAgree' /\ OutcomeIsTruthful'
  BY <1>5 DEF AnswerSuccess, AnswerBadSequence, AnswerFailure, BadSequence
<1>6. ASSUME NEW c \in Call, Release(c) \/ ReleaseFails(c) \/ Crash(c)
      PROVE  StagesAgree' /\ OutcomeIsTruthful'
  BY <1>6 DEF Release, ReleaseFails, Crash, Running
<1>7. CASE UNCHANGED vars
  BY <1>7 DEF vars
<1>8. QED
  BY <1>1, <1>2, <1>3, <1>4, <1>5, <1>6, <1>7 DEF Next, Environment, CallStep

\* A call goes live only when no other call of its payment is.
LEMMA LiveStep ==
    ASSUME TypeOK, OneLivePerPayment, [Next]_vars
    PROVE  OneLivePerPayment'
<1> USE DEF TypeOK, Stage, Result, callVars, netVars, Advance, Answer, Finish
\* A step that makes no call live keeps the invariant.
<1>1. ASSUME \A d \in Call : Live(d)' => Live(d)
      PROVE  OneLivePerPayment'
  BY <1>1 DEF OneLivePerPayment
<1>2. CASE Expire \/ OutsideOperation
  BY <1>1, <1>2 DEF Expire, OutsideOperation, Live
<1>3. ASSUME NEW c \in Call, Apply(c) \/ RejectSequence(c) \/ Drop(c)
      PROVE  OneLivePerPayment'
  BY <1>1, <1>3 DEF Apply, RejectSequence, Drop, Live
<1>4. ASSUME NEW c \in Call, Reserve(c) \/ RejectDuplicate(c) \/ ReserveFails(c)
      PROVE  OneLivePerPayment'
  <2>1. \A d \in Call \ {c} : Live(d)' => Live(d)
    BY <1>4 DEF Reserve, RejectDuplicate, ReserveFails, Live
  <2>2. \A d \in Call \ {c} : PaymentOf[d] = PaymentOf[c] => ~Live(d)
    BY <1>4 DEF Reserve, RejectDuplicate, ReserveFails, MayCall, Live
  <2>3. QED
    BY <2>1, <2>2 DEF OneLivePerPayment
<1>5. ASSUME NEW c \in Call, LoadAccount(c) \/ LoadFails(c) \/ SubmitTransaction(c)
      PROVE  OneLivePerPayment'
  BY <1>1, <1>5 DEF LoadAccount, LoadFails, SubmitTransaction, Live
<1>6. ASSUME NEW c \in Call, AnswerSuccess(c) \/ AnswerBadSequence(c) \/ AnswerFailure(c)
      PROVE  OneLivePerPayment'
  BY <1>1, <1>6 DEF AnswerSuccess, AnswerBadSequence, AnswerFailure, Live
<1>7. ASSUME NEW c \in Call, Release(c) \/ ReleaseFails(c) \/ Crash(c)
      PROVE  OneLivePerPayment'
  BY <1>1, <1>7 DEF Release, ReleaseFails, Crash, Running, Live
<1>8. CASE UNCHANGED vars
  BY <1>1, <1>8 DEF vars, Live
<1>9. QED
  BY <1>2, <1>3, <1>4, <1>5, <1>6, <1>7, <1>8 DEF Next, Environment, CallStep

\* Only the holder of the key runs, so only its own release takes the key away.
LEMMA SerialisedStep ==
    ASSUME TypeOK, SerialisedUntilLapse, [Next]_vars
    PROVE  SerialisedUntilLapse'
<1> USE RelayerAssumption DEF TypeOK, Stage, SerialisedUntilLapse, Running, callVars, netVars,
        Advance, Answer, Finish
<1>1. CASE Expire
  <2>1. CASE Running(lock)
    BY <1>1, <2>1 DEF Expire
  <2>2. CASE ~Running(lock)
    BY <1>1, <2>2 DEF Expire, KeyExpires
  <2>3. QED
    BY <2>1, <2>2
<1>2. CASE OutsideOperation
  BY <1>2 DEF OutsideOperation
<1>3. ASSUME NEW c \in Call, Apply(c) \/ RejectSequence(c) \/ Drop(c)
      PROVE  SerialisedUntilLapse'
  BY <1>3 DEF Apply, RejectSequence, Drop
<1>4. ASSUME NEW c \in Call, Reserve(c) \/ RejectDuplicate(c) \/ ReserveFails(c)
      PROVE  SerialisedUntilLapse'
  BY <1>4 DEF Reserve, RejectDuplicate, ReserveFails, MayCall, KeyFree
<1>5. ASSUME NEW c \in Call, LoadAccount(c) \/ LoadFails(c) \/ SubmitTransaction(c)
      PROVE  SerialisedUntilLapse'
  BY <1>5 DEF LoadAccount, LoadFails, SubmitTransaction
<1>6. ASSUME NEW c \in Call, AnswerSuccess(c) \/ AnswerBadSequence(c) \/ AnswerFailure(c)
      PROVE  SerialisedUntilLapse'
  BY <1>6 DEF AnswerSuccess, AnswerBadSequence, AnswerFailure
<1>7. ASSUME NEW c \in Call, Release(c) \/ ReleaseFails(c) \/ Crash(c)
      PROVE  SerialisedUntilLapse'
  BY <1>7 DEF Release, ReleaseFails, Crash
<1>8. CASE UNCHANGED vars
  BY <1>8 DEF vars
<1>9. QED
  BY <1>1, <1>2, <1>3, <1>4, <1>5, <1>6, <1>7, <1>8 DEF Next, Environment, CallStep

\* A late transaction of an earlier call stays on record as the cause.
LEMMA StaleStep ==
    ASSUME IInv, [Next]_vars
    PROVE  StaleFetchHasCause'
<1> USE DEF IInv, TypeOK, Stage, Result, callVars, netVars, Advance, Answer, Finish
\* A step of the calls alone: whoever has loaded did so before, or just now.
<1>1. ASSUME netSeq' = netSeq, outside' = outside, lapsed' = lapsed,
             \A c \in Call : stage'[c] = "loaded" =>
                 (stage[c] = "loaded" /\ seq'[c] = seq[c]) \/ seq'[c] = netSeq,
             \A d \in Call : Orphan(d) => Orphan(d)'
      PROVE  StaleFetchHasCause'
  BY <1>1 DEF StaleFetchHasCause
<1>2. CASE Expire \/ OutsideOperation
  BY <1>2 DEF Expire, OutsideOperation, StaleFetchHasCause, Orphan
<1>3. ASSUME NEW d \in Call, Apply(d)
      PROVE  StaleFetchHasCause'
  <2>1. /\ tx[d] = "pending" /\ tx' = [tx EXCEPT ![d] = "applied"]
        /\ UNCHANGED <<stage, result, lock, seq, outside, lapsed>>
    BY <1>3 DEF Apply
  <2>2. \A e \in Call : Orphan(e) => Orphan(e)'
    BY <2>1 DEF Orphan
  <2>3. ASSUME NEW c \in Call, stage[c] = "loaded", ~lapsed, ~Orphan(d)'
        PROVE  FALSE
    <3>1. tx[c] = "none" /\ c # d
      BY <2>1, <2>3 DEF StagesAgree
    <3>2. stage[d] \notin {"idle", "reserved", "loaded"} /\ result[d] # "Success"
      BY <2>1 DEF StagesAgree, OutcomeIsTruthful
    <3>3. stage[d] = "sent"
      BY <2>1, <2>3, <3>2 DEF Orphan
    <3>4. QED
      BY <2>3, <3>1, <3>3 DEF SerialisedUntilLapse, Running
  <2>4. QED
    BY <2>1, <2>2, <2>3 DEF StaleFetchHasCause
<1>4. ASSUME NEW c \in Call, RejectSequence(c) \/ Drop(c)
      PROVE  StaleFetchHasCause'
  BY <1>1, <1>4 DEF RejectSequence, Drop, Orphan
<1>5. ASSUME NEW c \in Call, Reserve(c) \/ RejectDuplicate(c) \/ ReserveFails(c)
      PROVE  StaleFetchHasCause'
  BY <1>1, <1>5 DEF Reserve, RejectDuplicate, ReserveFails, MayCall, Orphan
<1>6. ASSUME NEW c \in Call, LoadAccount(c) \/ LoadFails(c) \/ SubmitTransaction(c)
      PROVE  StaleFetchHasCause'
  BY <1>1, <1>6 DEF LoadAccount, LoadFails, SubmitTransaction, Orphan
<1>7. ASSUME NEW c \in Call, AnswerSuccess(c) \/ AnswerBadSequence(c) \/ AnswerFailure(c)
      PROVE  StaleFetchHasCause'
  BY <1>1, <1>7 DEF AnswerSuccess, AnswerBadSequence, AnswerFailure, Orphan
<1>8. ASSUME NEW c \in Call, Release(c) \/ ReleaseFails(c) \/ Crash(c)
      PROVE  StaleFetchHasCause'
  BY <1>1, <1>8 DEF Release, ReleaseFails, Crash, Running, Orphan, StagesAgree
<1>9. CASE UNCHANGED vars
  BY <1>1, <1>9 DEF vars, Orphan
<1>10. QED
  BY <1>2, <1>3, <1>4, <1>5, <1>6, <1>7, <1>8, <1>9 DEF Next, Environment, CallStep

LEMMA Inductive ==
    IInv /\ [Next]_vars => IInv'
BY TypeStep, StagesStep, LiveStep, SerialisedStep, StaleStep DEF IInv

\* The inductive invariant of the relayer holds, for any calls and payments.
THEOREM InvariantHolds ==
    Spec => []IInv
<1>1. QED
  BY Initially, Inductive, PTL DEF Spec

\* Every variable keeps its type.
THEOREM TypeCorrect ==
    Spec => []TypeOK
<1>1. IInv => TypeOK
  BY DEF IInv
<1>2. QED
  BY <1>1, InvariantHolds, PTL

\* Until a lock lapses under a running call, calls run one at a time.
THEOREM Serialised ==
    Spec => []SerialisedUntilLapse
<1>1. IInv => SerialisedUntilLapse
  BY DEF IInv
<1>2. QED
  BY <1>1, InvariantHolds, PTL

\* What a caller is told of its payment is true of the network.
THEOREM OutcomesAreTruthful ==
    Spec => []OutcomeIsTruthful
<1>1. IInv => OutcomeIsTruthful
  BY DEF IInv
<1>2. QED
  BY <1>1, InvariantHolds, PTL

\* No payment of a caller that retries only what is safe to retry is made twice:
\* a call whose transaction is applied is live.
THEOREM NeverPaidTwice ==
    Spec => []PaidAtMostOnce
<1>1. ASSUME IInv PROVE PaidAtMostOnce
  <2>1. \A c \in Call : tx[c] = "applied" => Live(c)
    BY <1>1 DEF IInv, StagesAgree, OutcomeIsTruthful, Live
  <2>2. QED
    BY <1>1, <2>1 DEF IInv, OneLivePerPayment, PaidAtMostOnce
<1>2. QED
  BY <1>1, InvariantHolds, PTL

\* A fetch made under the lock is stale for one of three reasons only.
THEOREM StaleFetchesAreExplained ==
    Spec => []StaleFetchHasCause
<1>1. IInv => StaleFetchHasCause
  BY DEF IInv
<1>2. QED
  BY <1>1, InvariantHolds, PTL
===============================================================================
