--------------------------- MODULE VaultCredsProofs ----------------------------
(***************************************************************************)
(* Proofs about VaultCreds for any leases, concurrent calls, lease         *)
(* durations, faults and clients: one call rotates at a time, what it      *)
(* replaces is never what is current, and a stop() that no call ran beside *)
(* takes back what is left.                                                *)
(***************************************************************************)
EXTENDS VaultCreds, TLAPS, WellFoundedInduction

Rotation == {"fetch", "issued", "verify", "drain", "revoke"}
Rotates(c) == job[c].stage \in Rotation
Replaces(c) == job[c].stage \in {"verify", "drain", "revoke"}

\* One call rotates at a time.
OneRotation ==
    /\ \A c \in Check : Rotates(c) => rotating
    /\ \A c, d \in Check : Rotates(c) /\ Rotates(d) => c = d

\* A lease loses its name only when a renewal is answered after stop() is done.
Named ==
    /\ currentLease = Nameless => stopping = "done"
    /\ \A c \in Check : job[c].stage = "renew" => job[c].lease # None
    /\ \A c \in Check : job[c].stage \in {"renew", "renewed"} /\ currentLease = None
                           => stopping = "done"
    /\ \A c \in Check : job[c].stage = "issued" => job[c].lease \in Lease

\* Before stop(): what is current is one open pool with its own lease, and a
\* rotation touches only what is not yet, or no longer, current.
InUse ==
    stopping = "no" =>
        /\ currentLease = currentPool
        /\ currentPool # None => currentPool \in open \ revoked
        /\ \A c \in Check : job[c].stage = "issued" =>
              job[c].lease \notin revoked \cup {currentPool}
        /\ \A c \in Check : Replaces(c) =>
              job[c].oldLease = job[c].oldPool /\ job[c].oldPool # currentPool

\* A stop() that no call ran beside finds everything at rest and keeps it so.
StopsAlone ==
    stopping # "no" /\ ~raced =>
        /\ AllIdle /\ ~timer
        /\ stopping = "draining" =>
              /\ stopped \in Lease \ (open \cup revoked)
              /\ currentPool = stopped /\ currentLease = stopped
        /\ stopping # "draining" => currentPool = None
        /\ stopping = "revoking" => stopped \in Lease \ busy /\ currentLease = stopped

\* Every open pool and valid lease is current, new, or about to be taken back.
Accounted ==
    ~raced /\ ~broken =>
        \A l \in Lease :
            /\ l \in open =>
                  /\ stopping = "no"
                  /\ \/ l = currentPool
                     \/ \E c \in Check : job[c].stage \in {"verify", "drain"} /\ job[c].oldPool = l
            /\ left[l] > 0 =>
                  \/ l = currentLease /\ stopping \notin {"revoked", "done"}
                  \/ \E c \in Check : \/ job[c].stage = "issued" /\ job[c].lease = l
                                      \/ Replaces(c) /\ job[c].oldLease = l

IInv == TypeOK /\ OneRotation /\ Named /\ InUse /\ StopsAlone /\ DrainBeforeRevoke /\ Accounted
-------------------------------------------------------------------------------
\* The name of a new lease.

\* Every nonempty set of naturals has a least element.
LEMMA LeastNatural ==
    ASSUME NEW T \in SUBSET Nat, T # {}
    PROVE  \E x \in T : \A y \in T : x <= y
<1>1. PICK x \in T : \A y \in T : ~(<<y, x>> \in OpToRel(<, Nat))
  BY NatLessThanWellFounded, WFMin, Zenon
<1>2. \A y \in T : ~(y < x)
  BY <1>1 DEF OpToRel
<1>3. QED
  BY <1>2

\* While a name is unused, the next lease takes an unused one.
LEMMA NewName ==
    ASSUME \E l \in Lease : Unused(l)
    PROVE  Min({m \in Lease : Unused(m)}) \in {m \in Lease : Unused(m)}
<1> DEFINE S == {m \in Lease : Unused(m)}
<1>1. S \in SUBSET Nat /\ S # {}
  BY VaultAssumption
<1> HIDE DEF S
<1>2. \E x \in S : \A y \in S : x =< y
  BY <1>1, LeastNatural
<1>3. Min(S) \in S
  BY <1>2 DEF Min
<1>4. QED
  BY <1>3 DEF S

Job == [stage: {"idle", "renew", "renewed", "fetch", "issued", "verify", "drain", "revoke"},
        lease: Lease \cup {None, Nameless},
        oldPool: Lease \cup {None},
        oldLease: Lease \cup {None, Nameless}]

\* The model values differ.
LEMMA Constants ==
    /\ None \notin Lease /\ Nameless \notin Lease /\ None # Nameless /\ None \notin Check
    /\ Ttl \in Nat /\ Threshold \in Nat
    /\ MaxFaults \in Nat /\ MaxSlow \in Nat /\ Ttl \in 0..Ttl /\ 0 \in 0..Ttl
<1>1. Nameless \in Int /\ Nameless \notin Nat
  BY DEF Nameless
<1>2. None \notin Lease /\ Nameless \notin Lease /\ None \notin Check
  <2>1. Lease \subseteq Nat /\ None \notin Int /\ None \notin Check
    BY VaultAssumption, Zenon
  <2>2. Nat \subseteq Int
    OBVIOUS
  <2>3. QED
    BY <1>1, <2>1, <2>2, Zenon
<1>3. None # Nameless
  BY <1>1, VaultAssumption
<1>4. /\ Ttl \in Nat /\ Threshold \in Nat /\ MaxFaults \in Nat /\ MaxSlow \in Nat
      /\ Ttl \in 0..Ttl /\ 0 \in 0..Ttl
  BY VaultAssumption
<1>5. QED
  BY <1>2, <1>3, <1>4

\* A call that is not under way has the type of a call.
LEMMA IdleTyped == Idle \in Job
BY DEF Idle, Job

\* The steps of a call leave the other calls alone.
CallStep(c) == Begin(c) \/ CheckStep(c) \/ CheckFails(c)

\* A step of one call leaves the other calls alone.
LEMMA OtherCalls ==
    ASSUME TypeOK, NEW c \in Check, CallStep(c)
    PROVE  \A d \in Check \ {c} : job'[d] = job[d]
BY DEF TypeOK, CallStep, Begin, CheckStep, CheckFails, Start, ForceRotation, StartRenewal, VaultRenews,
       RenewAnswered, RenewRefused, RenewFails, Rotate, VaultIssues, FetchFails, Abandon,
       SwitchPool, Verified, VerifyFails, EndOldPool, EndRejects, RevokeOldLease, RevokeFails,
       FinishRotation, Goto

\* A call that moves on keeps the type of the calls.
LEMMA NewJob ==
    ASSUME TypeOK, NEW c \in Check, NEW j \in Job, job' = [job EXCEPT ![c] = j]
    PROVE  job' \in [Check -> Job] /\ job'[c] = j
BY DEF TypeOK, Job

\* The manager starts in its invariant.
LEMMA Initially == Init => IInv
<1> SUFFICES ASSUME Init PROVE IInv
  OBVIOUS
<1> USE Constants DEF Init, Idle
<1>1. TypeOK
  <2>1. job \in [Check -> Job]
    BY IdleTyped DEF Idle
  <2>2. left \in [Lease -> 0..Ttl] /\ faults \in 0..MaxFaults /\ slow \in 0..MaxSlow
    OBVIOUS
  <2>3. QED
    BY <2>1, <2>2 DEF TypeOK, Job
<1>2. OneRotation /\ Named /\ InUse /\ StopsAlone
  BY DEF OneRotation, Named, InUse, StopsAlone, Rotates, Rotation, Replaces
<1>3. DrainBeforeRevoke /\ Accounted
  BY DEF DrainBeforeRevoke, Accounted
<1>4. QED
  BY <1>1, <1>2, <1>3 DEF IInv

\* Every step keeps the types.
LEMMA TypesStep ==
    ASSUME TypeOK, Named, [Next]_vars
    PROVE  TypeOK'
<1> USE Constants DEF TypeOK, Job, vaultVars, poolVars, currentVars, stopVars, boundVars, historyVars
<1>1. CASE UNCHANGED vars
  BY <1>1 DEF vars
<1>2. ASSUME NEW c \in Check, Rotate(c)
      PROVE  job' \in [Check -> Job] /\ rotating' \in BOOLEAN
  <2>1. [Idle EXCEPT !.stage = "fetch"] \in Job
    BY DEF Idle
  <2>2. job' = [job EXCEPT ![c] = Idle] \/ job' = [job EXCEPT ![c] = [Idle EXCEPT !.stage = "fetch"]]
    BY <1>2 DEF Rotate
  <2>3. job' \in [Check -> Job]
    BY <2>1, <2>2, IdleTyped, NewJob DEF TypeOK
  <2>4. rotating' \in BOOLEAN
    BY <1>2, Zenon DEF Rotate
  <2>5. QED
    BY <2>3, <2>4
<1>3. ASSUME NEW c \in Check, Begin(c)
      PROVE  TypeOK'
  <2>1. CASE Start(c)
    BY <1>2, <2>1 DEF Start
  <2>2. CASE ForceRotation(c)
    BY <1>2, <2>2 DEF ForceRotation
  <2>3. CASE StartRenewal(c)
    BY <2>3 DEF StartRenewal, Idle
  <2>4. QED
    BY <1>3, <2>1, <2>2, <2>3 DEF Begin
<1>4. ASSUME NEW c \in Check, NEW s \in {"renewed", "drain", "revoke"}, Goto(c, s)
      PROVE  job' \in [Check -> Job]
  BY <1>4 DEF Goto
<1>5. ASSUME NEW c \in Check, Abandon(c) \/ FinishRotation(c)
      PROVE  job' \in [Check -> Job] /\ rotating' \in BOOLEAN /\ starter' \in Check \cup {None}
  BY <1>5, IdleTyped, NewJob DEF Abandon, FinishRotation
<1>6. ASSUME Fault
      PROVE  faults' \in 0..MaxFaults /\ slow' \in 0..MaxSlow
  BY <1>6 DEF Fault
<1>7. ASSUME NEW l, Revoke(l)
      PROVE  left' \in [Lease -> 0..Ttl] /\ revoked' \subseteq Lease
  BY <1>7 DEF Revoke
<1>8. ASSUME NEW c \in Check, CheckStep(c)
      PROVE  TypeOK'
  <2>1. CASE VaultRenews(c)
    <3>1. left' \in [Lease -> 0..Ttl]
      BY <2>1 DEF VaultRenews
    <3>2. job' \in [Check -> Job]
      BY <1>4, <2>1 DEF VaultRenews
    <3>3. QED
      BY <2>1, <3>1, <3>2 DEF VaultRenews
  <2>2. CASE RenewAnswered(c)
    BY <2>2 DEF RenewAnswered, RenewedLease, RenewedRemaining, Idle
  <2>3. CASE RenewRefused(c)
    BY <1>2, <2>3 DEF RenewRefused
  <2>4. CASE VaultIssues(c)
    <3>1. PICK l \in Lease : /\ left' = [left EXCEPT ![l] = Ttl] /\ revoked' = revoked \ {l}
                             /\ job' = [job EXCEPT ![c].stage = "issued", ![c].lease = l]
      BY <2>4, NewName DEF VaultIssues
    <3>2. [job[c] EXCEPT !.stage = "issued", !.lease = l] \in Job
      OBVIOUS
    <3>4. job' = [job EXCEPT ![c] = [job[c] EXCEPT !.stage = "issued", !.lease = l]]
      BY <3>1
    <3>5. job' \in [Check -> Job]
      BY <3>2, <3>4, NewJob
    <3>3. QED
      BY <2>4, <3>1, <3>5 DEF VaultIssues
  <2>5. CASE SwitchPool(c)
    <3>1. job[c].lease \in Lease
      BY <2>5 DEF SwitchPool, At, Named
    <3>2. job' = [job EXCEPT ![c].stage = "verify",
                             ![c].oldPool = currentPool, ![c].oldLease = currentLease]
      BY <2>5 DEF SwitchPool
    <3>3. [job[c] EXCEPT !.stage = "verify", !.oldPool = currentPool, !.oldLease = currentLease]
             \in Job
      OBVIOUS
    <3>4. job' = [job EXCEPT ![c] = [job[c] EXCEPT !.stage = "verify",
                             !.oldPool = currentPool, !.oldLease = currentLease]]
      BY <3>2
    <3>5. job' \in [Check -> Job]
      BY <3>3, <3>4, NewJob
    <3>6. QED
      BY <2>5, <3>1, <3>5 DEF SwitchPool, CreatePool
  <2>6. CASE Verified(c)
    BY <1>4, <2>6 DEF Verified
  <2>7. CASE VerifyFails(c)
    BY <1>5, <1>6, <2>7 DEF VerifyFails, Break
  <2>8. CASE EndOldPool(c)
    BY <1>4, <2>8 DEF EndOldPool
  <2>9. CASE EndRejects(c)
    BY <1>5, <2>9 DEF EndRejects, Break
  <2>10. CASE RevokeOldLease(c)
    <3>1. timer' \in BOOLEAN
      BY <2>10 DEF RevokeOldLease, FinishRotation
    <3>2. QED
      BY <1>5, <1>7, <2>10, <3>1 DEF RevokeOldLease
  <2>11. QED
    BY <1>8, <2>1, <2>2, <2>3, <2>4, <2>5, <2>6, <2>7, <2>8, <2>9, <2>10 DEF CheckStep
<1>9. ASSUME NEW c \in Check, CheckFails(c)
      PROVE  TypeOK'
  <2>1. CASE RenewFails(c)
    BY <1>2, <1>6, <2>1 DEF RenewFails, Break
  <2>2. CASE FetchFails(c)
    BY <1>5, <1>6, <2>2 DEF FetchFails, Break
  <2>3. CASE RevokeFails(c)
    <3>1. timer' \in BOOLEAN
      BY <2>3 DEF RevokeFails, FinishRotation
    <3>2. QED
      BY <1>5, <1>6, <2>3, <3>1 DEF RevokeFails, Break
  <2>4. QED
    BY <1>9, <2>1, <2>2, <2>3 DEF CheckFails
<1>10. CASE Stop
  <2>1. currentLease # Nameless
    BY <1>10 DEF Stop, Named
  <2>2. raced' \in BOOLEAN
    BY <1>10 DEF Stop
  <2>3. QED
    BY <1>10, <2>1, <2>2 DEF Stop, RevokeLast
<1>11. CASE StopDrained
  <2>1. currentLease # Nameless
    BY <1>11 DEF StopDrained, Named
  <2>2. QED
    BY <1>11, <2>1 DEF StopDrained, RevokeLast
<1>12. CASE StopRevokes
  BY <1>6, <1>7, <1>12 DEF StopRevokes, Break
<1>13. CASE StopFinishes
  BY <1>13 DEF StopFinishes
<1>14. CASE CheckOut \/ \E p \in Lease : CheckIn(p)
  BY <1>14 DEF CheckOut, CheckIn
<1>15. CASE Elapse
  <2>1. \A n \in 0..Ttl : Less(n) \in 0..Ttl
    BY DEF Less
  <2>2. slow' \in 0..MaxSlow
    BY <1>15 DEF Elapse
  <2>3. QED
    BY <1>15, <2>1, <2>2 DEF Elapse
<1>16. QED
  BY <1>1, <1>3, <1>8, <1>9, <1>10, <1>11, <1>12, <1>13, <1>14, <1>15 DEF Next, StopStep

-------------------------------------------------------------------------------
\* One rotation at a time, and leases that keep their names.

\* A renewal goes through its own stages and never rotates.
LEMMA RenewalStages ==
    ASSUME TypeOK, NEW c \in Check, StartRenewal(c) \/ VaultRenews(c) \/ RenewAnswered(c)
    PROVE  job'[c].stage \in {"idle", "renew", "renewed"}
<1> USE DEF TypeOK
<1>1. CASE StartRenewal(c)
  BY <1>1 DEF StartRenewal
<1>2. CASE VaultRenews(c)
  BY <1>2 DEF VaultRenews, Goto
<1>3. CASE RenewAnswered(c)
  BY <1>3 DEF RenewAnswered, Idle
<1>4. QED
  BY <1>1, <1>2, <1>3

\* The flag `rotating` lets one call rotate at a time.
LEMMA RotationStep ==
    ASSUME TypeOK, OneRotation, [Next]_vars
    PROVE  OneRotation'
<1> USE DEF Rotates, Rotation, At
<1>1. ASSUME UNCHANGED <<job, rotating>>
      PROVE  OneRotation'
  BY <1>1 DEF OneRotation
<1>2. ASSUME NEW c \in Check, CallStep(c)
      PROVE  OneRotation'
  <2>1. \A d \in Check \ {c} : job'[d] = job[d]
    BY <1>2, OtherCalls
  <2>2. ASSUME rotating' = rotating, Rotates(c)' => Rotates(c)
        PROVE  OneRotation'
    BY <2>1, <2>2 DEF OneRotation
  <2>3. ASSUME Rotate(c)
        PROVE  OneRotation'
    <3>1. CASE rotating
      <4>1. rotating' /\ job' = [job EXCEPT ![c] = Idle]
        BY <2>3, <3>1, Zenon DEF Rotate
      <4>2. ~Rotates(c)'
        BY <4>1 DEF TypeOK, Idle
      <4>3. QED
        BY <2>1, <4>1, <4>2 DEF OneRotation
    <3>2. CASE ~rotating
      <4>1. rotating' = TRUE
        BY <2>3, <3>2, Zenon DEF Rotate
      <4>2. \A d \in Check \ {c} : ~Rotates(d)'
        BY <2>1, <3>2 DEF OneRotation
      <4>3. QED
        BY <4>1, <4>2 DEF OneRotation
    <3>3. QED
      BY <3>1, <3>2
  <2>4. ASSUME Rotates(c), rotating' = FALSE, job' = [job EXCEPT ![c] = Idle]
        PROVE  OneRotation'
    <3>1. ~Rotates(c)'
      BY <2>4 DEF TypeOK, Idle
    <3>2. \A d \in Check \ {c} : ~Rotates(d)'
      BY <2>1, <2>4 DEF OneRotation
    <3>3. QED
      BY <3>1, <3>2 DEF OneRotation
  <2>5. CASE Start(c) \/ ForceRotation(c) \/ RenewRefused(c) \/ RenewFails(c)
    BY <2>3, <2>5 DEF Start, ForceRotation, RenewRefused, RenewFails
  <2>6. CASE StartRenewal(c) \/ VaultRenews(c) \/ RenewAnswered(c)
    <3>1. job'[c].stage \in {"idle", "renew", "renewed"}
      BY <2>6, RenewalStages
    <3>2. rotating' = rotating
      BY <2>6 DEF StartRenewal, VaultRenews, RenewAnswered
    <3>3. QED
      BY <2>2, <3>1, <3>2
  <2>7. CASE VaultIssues(c) \/ SwitchPool(c) \/ Verified(c) \/ EndOldPool(c)
    BY <2>2, <2>7 DEF VaultIssues, SwitchPool, Verified, EndOldPool, Goto
  <2>8. CASE FetchFails(c) \/ VerifyFails(c) \/ EndRejects(c)
    BY <2>4, <2>8 DEF FetchFails, VerifyFails, EndRejects, Abandon
  <2>9. CASE RevokeOldLease(c) \/ RevokeFails(c)
    BY <2>4, <2>9 DEF RevokeOldLease, RevokeFails, FinishRotation
  <2>10. QED
    BY <1>2, <2>5, <2>6, <2>7, <2>8, <2>9 DEF CallStep, Begin, CheckStep, CheckFails
<1>3. QED
  BY <1>1, <1>2 DEF Next, CallStep, StopStep, vars, Stop, StopDrained, StopRevokes, StopFinishes,
                    CheckOut, CheckIn, Elapse

\* A call that starts to renew has a lease to renew.
LEMMA NamedStep ==
    ASSUME TypeOK, Named, [Next]_vars
    PROVE  Named'
<1> USE Constants DEF Named, At, currentVars, stopVars
<1>1. ASSUME UNCHANGED <<job, currentLease, stopping>>
      PROVE  Named'
  BY <1>1
<1>2. ASSUME NEW c \in Check, CallStep(c)
      PROVE  Named'
  <2>1. \A d \in Check \ {c} : job'[d] = job[d]
    BY <1>2, OtherCalls
  <2>2. ASSUME UNCHANGED <<currentLease, stopping>>, job'[c].stage \notin {"renew", "renewed", "issued"}
        PROVE  Named'
    BY <2>1, <2>2
  <2>3. ASSUME Rotate(c)
        PROVE  job'[c].stage \notin {"renew", "renewed", "issued"}
    BY <2>3 DEF Rotate, Idle, TypeOK
  <2>4. CASE Start(c) \/ ForceRotation(c) \/ RenewRefused(c) \/ RenewFails(c)
    BY <2>2, <2>3, <2>4 DEF Start, ForceRotation, RenewRefused, RenewFails
  <2>5. CASE StartRenewal(c)
    BY <2>1, <2>5 DEF StartRenewal, TypeOK
  <2>6. CASE VaultRenews(c)
    BY <2>1, <2>6 DEF VaultRenews, Goto, TypeOK
  <2>7. CASE RenewAnswered(c)
    <3>1. /\ stopping' = stopping /\ job'[c].stage = "idle"
          /\ currentLease' = IF currentLease = None THEN Nameless ELSE currentLease
      BY <2>7 DEF RenewAnswered, RenewedLease, Idle, TypeOK
    <3>2. currentLease = None => stopping = "done"
      BY <2>7 DEF RenewAnswered
    <3>3. QED
      BY <2>1, <3>1, <3>2
  <2>8. CASE VaultIssues(c)
    <3>1. PICK l \in Lease : job' = [job EXCEPT ![c].stage = "issued", ![c].lease = l]
      BY <2>8, NewName DEF VaultIssues
    <3>2. job'[c].stage = "issued" /\ job'[c].lease = l
      BY <3>1 DEF TypeOK
    <3>3. UNCHANGED <<currentLease, stopping>>
      BY <2>8 DEF VaultIssues
    <3>4. QED
      BY <2>1, <3>2, <3>3
  <2>9. CASE SwitchPool(c)
    <3>1. job'[c].stage = "verify" /\ currentLease' = job[c].lease /\ stopping' = stopping
      BY <2>9 DEF SwitchPool, TypeOK
    <3>2. currentLease' \in Lease
      BY <2>9, <3>1 DEF SwitchPool
    <3>3. QED
      BY <2>1, <3>1, <3>2
  <2>10. CASE Verified(c) \/ EndOldPool(c)
    BY <2>2, <2>10 DEF Verified, EndOldPool, Goto, TypeOK
  <2>11. CASE FetchFails(c) \/ VerifyFails(c) \/ EndRejects(c)
    BY <2>2, <2>11 DEF FetchFails, VerifyFails, EndRejects, Abandon, Idle, TypeOK
  <2>12. CASE RevokeOldLease(c) \/ RevokeFails(c)
    BY <2>2, <2>12 DEF RevokeOldLease, RevokeFails, FinishRotation, Idle, TypeOK
  <2>13. QED
    BY <1>2, <2>4, <2>5, <2>6, <2>7, <2>8, <2>9, <2>10, <2>11, <2>12
       DEF CallStep, Begin, CheckStep, CheckFails
<1>3. CASE Stop \/ StopDrained \/ StopRevokes
  BY <1>3 DEF Stop, StopDrained, StopRevokes, RevokeLast
<1>4. CASE StopFinishes
  BY <1>4 DEF StopFinishes
<1>5. QED
  BY <1>1, <1>2, <1>3, <1>4
     DEF Next, CallStep, StopStep, vars, CheckOut, CheckIn, Elapse

-------------------------------------------------------------------------------
\* Before stop().

\* Every step leaves the current pool open and its lease the current one.
LEMMA InUseStep ==
    ASSUME TypeOK, OneRotation, Named, InUse, [Next]_vars
    PROVE  InUse'
<1> SUFFICES ASSUME stopping' = "no"
             PROVE  InUse'
  BY DEF InUse
<1> USE Constants DEF At, Replaces, vaultVars, poolVars, currentVars, stopVars
<1>1. stopping = "no"
  BY DEF Next, Begin, CheckStep, CheckFails, StopStep, vars, Start, ForceRotation, StartRenewal,
         VaultRenews, RenewAnswered, RenewRefused, RenewFails, VaultIssues, FetchFails, SwitchPool,
         Verified, VerifyFails, EndOldPool, EndRejects, RevokeOldLease, RevokeFails, Stop,
         RevokeLast, StopDrained, StopRevokes, StopFinishes, CheckOut, CheckIn, Elapse
<1> USE <1>1 DEF InUse
<1>2. ASSUME UNCHANGED <<job, currentLease, currentPool, open, revoked>>
      PROVE  InUse'
  BY <1>2
<1>3. ASSUME NEW c \in Check, CallStep(c)
      PROVE  InUse'
  <2>1. \A d \in Check \ {c} : job'[d] = job[d]
    BY <1>3, OtherCalls
  <2>2. ASSUME UNCHANGED <<currentLease, currentPool, open, revoked>>,
               job'[c].stage \in {"idle", "renew", "renewed", "fetch"}
        PROVE  InUse'
    BY <2>1, <2>2
  <2>3. ASSUME Rotate(c)
        PROVE  job'[c].stage \in {"idle", "fetch"}
    BY <2>3 DEF Rotate, Idle, TypeOK
  <2>4. CASE Start(c) \/ ForceRotation(c) \/ RenewRefused(c) \/ RenewFails(c)
    BY <2>2, <2>3, <2>4 DEF Start, ForceRotation, RenewRefused, RenewFails
  <2>5. CASE StartRenewal(c) \/ VaultRenews(c)
    <3>1. job'[c].stage \in {"idle", "renew", "renewed"}
      BY <2>5, RenewalStages
    <3>2. UNCHANGED <<currentLease, currentPool, open, revoked>>
      BY <2>5 DEF StartRenewal, VaultRenews
    <3>3. QED
      BY <2>2, <3>1, <3>2
  <2>6. CASE RenewAnswered(c)
    <3>1. currentLease # None
      BY <2>6 DEF RenewAnswered, Named
    <3>2. QED
      BY <2>2, <2>6, <3>1 DEF RenewAnswered, RenewedLease, Idle, TypeOK
  <2>7. CASE VaultIssues(c)
    <3>1. PICK l \in Lease : /\ Unused(l) /\ revoked' = revoked \ {l}
                             /\ job' = [job EXCEPT ![c].stage = "issued", ![c].lease = l]
      BY <2>7, NewName DEF VaultIssues
    <3>2. job'[c].stage = "issued" /\ job'[c].lease = l
      BY <3>1 DEF TypeOK
    <3>3. l # currentPool
      BY <3>1 DEF Unused
    <3>4. UNCHANGED <<currentLease, currentPool, open>>
      BY <2>7 DEF VaultIssues
    <3>5. ASSUME NEW d \in Check, job'[d].stage = "issued"
          PROVE  job'[d].lease \notin revoked' \cup {currentPool'}
      <4>1. CASE d = c
        BY <3>1, <3>2, <3>3, <3>4, <4>1
      <4>2. CASE d # c
        <5>1. job[d].stage = "issued" /\ job'[d].lease = job[d].lease
          BY <2>1, <3>5, <4>2
        <5>2. job[d].lease \notin revoked \cup {currentPool}
          BY <5>1
        <5>3. QED
          BY <3>1, <3>4, <5>1, <5>2
      <4>3. QED
        BY <4>1, <4>2
    <3>6. \A d \in Check : Replaces(d)' => d # c
      BY <3>2
    <3>7. \A d \in Check : Replaces(d)' =>
              job'[d].oldLease = job'[d].oldPool /\ job'[d].oldPool # currentPool'
      BY <2>1, <3>4, <3>6
    <3>8. QED
      BY <3>1, <3>4, <3>5, <3>7
  <2>8. CASE SwitchPool(c)
    <3> DEFINE l == job[c].lease
    <3>1. /\ l \in Lease /\ l \notin revoked /\ l # currentPool
      BY <2>8 DEF SwitchPool, Named
    <3>2. /\ currentPool' = l /\ currentLease' = l /\ open' = open \cup {l} /\ revoked' = revoked
          /\ job'[c].stage = "verify" /\ job'[c].oldPool = currentPool
          /\ job'[c].oldLease = currentLease
      BY <2>8 DEF SwitchPool, CreatePool, TypeOK
    <3>3. \A d \in Check \ {c} : ~Rotates(d)'
      BY <2>1, <2>8 DEF SwitchPool, OneRotation, Rotates, Rotation
    <3>4. QED
      BY <3>1, <3>2, <3>3 DEF Rotates, Rotation
  <2>9. CASE Verified(c)
    BY <2>1, <2>9 DEF Verified, Goto, TypeOK
  <2>10. CASE EndOldPool(c)
    <3>1. /\ job'[c].stage = "revoke" /\ job'[c].oldPool = job[c].oldPool
          /\ job'[c].oldLease = job[c].oldLease
          /\ open' = open \ {job[c].oldPool}
          /\ UNCHANGED <<currentLease, currentPool, revoked>>
      BY <2>10 DEF EndOldPool, Goto, TypeOK
    <3>2. job[c].oldPool # currentPool /\ job[c].oldLease = job[c].oldPool
      BY <2>10 DEF EndOldPool
    <3>3. QED
      BY <2>1, <3>1, <3>2
  <2>11. CASE FetchFails(c) \/ VerifyFails(c) \/ EndRejects(c)
    BY <2>2, <2>11 DEF FetchFails, VerifyFails, EndRejects, Abandon, Idle, TypeOK
  <2>12. CASE RevokeOldLease(c)
    <3>1. /\ job'[c].stage = "idle" /\ revoked' \subseteq revoked \cup {job[c].oldLease}
          /\ UNCHANGED <<currentLease, currentPool, open>>
      BY <2>12 DEF RevokeOldLease, FinishRotation, Revoke, Idle, TypeOK
    <3>2. job[c].oldLease # currentPool
      BY <2>12 DEF RevokeOldLease
    <3>3. \A d \in Check \ {c} : ~Rotates(d)'
      BY <2>1, <2>12 DEF RevokeOldLease, OneRotation, Rotates, Rotation
    <3>4. QED
      BY <3>1, <3>2, <3>3 DEF Rotates, Rotation
  <2>13. CASE RevokeFails(c)
    BY <2>2, <2>13 DEF RevokeFails, FinishRotation, Idle, TypeOK
  <2>14. QED
    BY <1>3, <2>4, <2>5, <2>6, <2>7, <2>8, <2>9, <2>10, <2>11, <2>12, <2>13
       DEF CallStep, Begin, CheckStep, CheckFails
<1>4. ~Stop /\ ~StopStep
  BY DEF Stop, StopStep, RevokeLast, StopDrained, StopRevokes, StopFinishes
<1>5. QED
  BY <1>2, <1>3, <1>4 DEF Next, CallStep, vars, CheckOut, CheckIn, Elapse

-------------------------------------------------------------------------------
\* From stop() on.

\* Once stop() runs alone no call is under way.
LEMMA NoCalls ==
    ASSUME StopsAlone, stopping # "no", ~raced, NEW c \in Check
    PROVE  ~CallStep(c)
<1>1. At(c, "idle") /\ ~timer
  BY DEF StopsAlone, AllIdle
<1>2. job[c].stage = "idle"
  BY <1>1 DEF At
<1>3. ~Begin(c)
  BY <1>1 DEF Begin, Start, ForceRotation, StartRenewal
<1>4. ~CheckStep(c) /\ ~CheckFails(c)
  BY <1>2 DEF CheckStep, CheckFails, At, VaultRenews, RenewAnswered, RenewRefused, RenewFails,
              VaultIssues, FetchFails, SwitchPool, Verified, VerifyFails, EndOldPool, EndRejects,
              RevokeOldLease, RevokeFails
<1>5. QED
  BY <1>3, <1>4 DEF CallStep

\* What raced and broken record stays recorded, and stop() is called once.
LEMMA HistoryKept ==
    ASSUME TypeOK, [Next]_vars
    PROVE  /\ raced => raced'
           /\ broken => broken'
           /\ stopping = stopping' \/ Stop \/ StopStep
<1> USE DEF TypeOK, historyVars, stopVars
<1>1. CASE Stop
  <2>1. raced' = (raced \/ ~AllIdle) /\ broken' = broken
    BY <1>1 DEF Stop
  <2>2. QED
    BY <1>1, <2>1, Zenon
<1>2. CASE StopStep
  <2>1. raced' = raced /\ (broken' = broken \/ broken' = TRUE)
    BY <1>2 DEF StopStep, StopDrained, StopRevokes, StopFinishes, Break
  <2>2. QED
    BY <1>2, <2>1, Zenon
<1>3. ASSUME NEW c \in Check, CallStep(c)
      PROVE  raced' = raced /\ (broken' = broken \/ broken' = TRUE) /\ stopping' = stopping
  BY <1>3 DEF CallStep, Begin, CheckStep, CheckFails, Start, ForceRotation, StartRenewal,
         VaultRenews, RenewAnswered, RenewRefused, RenewFails, VaultIssues, FetchFails, SwitchPool,
         Verified, VerifyFails, EndOldPool, EndRejects, RevokeOldLease, RevokeFails, Break
<1>4. CASE UNCHANGED <<historyVars, stopping>>
  BY <1>4
<1>5. QED
  BY <1>1, <1>2, <1>3, <1>4, Zenon
     DEF Next, CallStep, vars, CheckOut, CheckIn, Elapse

\* A stop() that began with no call under way goes on alone.
LEMMA StopsAloneStep ==
    ASSUME TypeOK, Named, InUse, StopsAlone, [Next]_vars
    PROVE  StopsAlone'
<1> SUFFICES ASSUME stopping' # "no", ~raced'
             PROVE  StopsAlone'
  BY DEF StopsAlone
<1> USE Constants DEF TypeOK, poolVars, vaultVars, currentVars, stopVars, historyVars
<1>1. ~raced
  BY HistoryKept
<1>2. CASE stopping = "no"
  <2>1. Stop
    BY <1>2, HistoryKept DEF StopStep, StopDrained, StopRevokes, StopFinishes
  <2>2. raced' = (raced \/ ~AllIdle) /\ timer' = FALSE /\ job' = job
    BY <2>1 DEF Stop
  <2>3. AllIdle
    BY <2>2, Zenon
  <2>4. AllIdle' /\ ~timer'
    BY <2>2, <2>3 DEF AllIdle, At
  <2>5. CASE currentPool = None
    BY <1>2, <2>1, <2>4, <2>5 DEF Stop, RevokeLast, InUse, StopsAlone
  <2>6. CASE currentPool # None
    <3>1. /\ stopping' = "draining" /\ stopped' = currentPool /\ open' = open \ {currentPool}
          /\ UNCHANGED <<revoked, currentPool, currentLease>>
      BY <2>1, <2>6 DEF Stop
    <3>2. currentPool \in Lease \ revoked /\ currentLease = currentPool
      BY <1>2, <2>6 DEF InUse
    <3>3. QED
      BY <2>4, <3>1, <3>2 DEF StopsAlone
  <2>7. QED
    BY <2>5, <2>6
<1>3. CASE stopping # "no"
  <2>1. AllIdle /\ ~timer
    BY <1>1, <1>3 DEF StopsAlone
  <2>2. ASSUME job' = job, timer' = timer
        PROVE  AllIdle' /\ ~timer'
    BY <2>1, <2>2, Zenon DEF AllIdle, At
  <2>3. \A c \in Check : ~CallStep(c)
    BY <1>1, <1>3, NoCalls
  <2>4. ~Stop
    BY <1>3 DEF Stop
  <2>5. CASE StopDrained
    <3>1. /\ currentPool = stopped /\ currentLease = stopped /\ stopped \in Lease
          /\ stopped \notin busy
      BY <1>1, <1>3, <2>5 DEF StopDrained, StopsAlone, Drained
    <3>2. /\ currentPool' = None /\ stopping' = "revoking" /\ stopped' = currentLease
          /\ UNCHANGED <<currentLease, busy, job, timer>>
      BY <2>5, <3>1 DEF StopDrained, RevokeLast
    <3>3. QED
      BY <2>2, <3>1, <3>2 DEF StopsAlone
  <2>6. CASE StopRevokes
    <3>1. currentPool' = None /\ stopping' = "revoked" /\ UNCHANGED <<job, timer>>
      BY <1>1, <1>3, <2>6 DEF StopRevokes, StopsAlone
    <3>2. QED
      BY <2>2, <3>1 DEF StopsAlone
  <2>7. CASE StopFinishes
    <3>1. currentPool' = None /\ stopping' = "done" /\ UNCHANGED <<job, timer>>
      BY <1>1, <1>3, <2>7 DEF StopFinishes, StopsAlone
    <3>2. QED
      BY <2>2, <3>1 DEF StopsAlone
  <2>8. CASE CheckOut
    <3>1. stopping = "draining"
      BY <1>1, <1>3, <2>8 DEF CheckOut, StopsAlone
    <3>2. QED
      BY <1>1, <1>3, <2>8, <3>1 DEF CheckOut, Connects, StopsAlone
  <2>9. ASSUME NEW p \in Lease, CheckIn(p)
        PROVE  StopsAlone'
    <3>1. UNCHANGED <<job, timer, open, revoked, currentPool, currentLease, stopping, stopped>>
          /\ busy' \subseteq busy
      BY <2>9 DEF CheckIn
    <3>2. QED
      BY <1>1, <1>3, <2>2, <3>1 DEF StopsAlone
  <2>10. CASE Elapse \/ UNCHANGED vars
    <3>1. UNCHANGED <<job, timer, open, busy, revoked, currentPool, currentLease, stopping, stopped>>
      BY <2>10 DEF Elapse, vars
    <3>2. QED
      BY <1>1, <1>3, <2>2, <3>1 DEF StopsAlone
  <2>11. QED
    BY <2>3, <2>4, <2>5, <2>6, <2>7, <2>8, <2>9, <2>10 DEF Next, CallStep, StopStep
<1>4. QED
  BY <1>2, <1>3

\* No step revokes the lease of a pool that is still open.
LEMMA DrainStep ==
    ASSUME TypeOK, InUse, StopsAlone, DrainBeforeRevoke, [Next]_vars
    PROVE  DrainBeforeRevoke'
<1> SUFFICES ASSUME ~raced'
             PROVE  (busy \cap revoked = {})'
  BY DEF DrainBeforeRevoke
<1> USE Constants DEF TypeOK, poolVars, vaultVars
<1>1. ~raced /\ busy \cap revoked = {}
  BY HistoryKept DEF DrainBeforeRevoke
<1>2. ASSUME busy' \subseteq busy, revoked' \subseteq revoked
      PROVE  busy' \cap revoked' = {}
  BY <1>1, <1>2
<1>3. ASSUME NEW c \in Check, CallStep(c)
      PROVE  busy' \cap revoked' = {}
  <2>1. stopping = "no"
    BY <1>1, <1>3, NoCalls
  <2>2. CASE RevokeOldLease(c)
    <3>1. job[c].oldPool \notin busy /\ job[c].oldLease = job[c].oldPool
      BY <2>1, <2>2 DEF RevokeOldLease, Drained, At, InUse, Replaces
    <3>2. busy' = busy /\ revoked' \subseteq revoked \cup {job[c].oldLease}
      BY <2>2 DEF RevokeOldLease, Revoke
    <3>3. QED
      BY <1>1, <3>1, <3>2
  <2>3. CASE VaultIssues(c)
    BY <1>2, <2>3 DEF VaultIssues
  <2>4. CASE ~RevokeOldLease(c) /\ ~VaultIssues(c)
    <3>1. busy' = busy /\ revoked' = revoked
      BY <1>3, <2>4
         DEF CallStep, Begin, CheckStep, CheckFails, Start, ForceRotation, StartRenewal,
             VaultRenews, RenewAnswered, RenewRefused, RenewFails, FetchFails, SwitchPool,
             Verified, VerifyFails, EndOldPool, EndRejects, RevokeFails
    <3>2. QED
      BY <1>2, <3>1
  <2>5. QED
    BY <2>2, <2>3, <2>4
<1>4. CASE StopRevokes
  <2>1. stopped \notin busy
    BY <1>1, <1>4 DEF StopRevokes, StopsAlone
  <2>2. busy' = busy /\ revoked' \subseteq revoked \cup {stopped}
    BY <1>4 DEF StopRevokes, Revoke
  <2>3. QED
    BY <1>1, <2>1, <2>2
<1>5. CASE CheckOut
  <2>1. currentPool \notin revoked
    BY <1>1, <1>5 DEF CheckOut, Connects, InUse, StopsAlone
  <2>2. QED
    BY <1>1, <1>5, <2>1 DEF CheckOut
<1>6. CASE Stop \/ StopDrained \/ StopFinishes \/ Elapse \/ (\E p \in Lease : CheckIn(p))
           \/ UNCHANGED vars
  BY <1>2, <1>6 DEF Stop, StopDrained, StopFinishes, Elapse, CheckIn, vars
<1>7. QED
  BY <1>3, <1>4, <1>5, <1>6 DEF Next, CallStep, StopStep

-------------------------------------------------------------------------------
\* Who will take back a pool or a lease.

Ends(c, l) == job[c].stage \in {"verify", "drain"} /\ job[c].oldPool = l
Keeps(c, l) ==
    \/ job[c].stage = "issued" /\ job[c].lease = l
    \/ Replaces(c) /\ job[c].oldLease = l

OpenKnown(l) == l \in open => stopping = "no" /\ (l = currentPool \/ \E c \in Check : Ends(c, l))
ValidKnown(l) ==
    left[l] > 0 =>
        \/ l = currentLease /\ stopping \notin {"revoked", "done"}
        \/ \E c \in Check : Keeps(c, l)

\* What Accounted says of every lease.
LEMMA AccountedMeans ==
    Accounted <=> (~raced /\ ~broken => \A l \in Lease : OpenKnown(l) /\ ValidKnown(l))
BY DEF Accounted, OpenKnown, ValidKnown, Ends, Keeps

\* A call's step, while stop() has not been called and nothing has failed.
LEMMA CallAccounts ==
    ASSUME TypeOK, OneRotation, Named, InUse, stopping = "no", ~broken',
           NEW c \in Check, CallStep(c), NEW l \in Lease, OpenKnown(l), ValidKnown(l)
    PROVE  OpenKnown(l)' /\ ValidKnown(l)'
<1> USE Constants DEF At, vaultVars, poolVars, currentVars, stopVars
<1>1. \A d \in Check \ {c} : job'[d] = job[d]
  BY OtherCalls
<1>2. \A d \in Check \ {c} : (Ends(d, l)' <=> Ends(d, l)) /\ (Keeps(d, l)' <=> Keeps(d, l))
  BY <1>1 DEF Ends, Keeps, Replaces
<1>3. currentLease = currentPool /\ left[l] \in Nat
  BY DEF InUse, TypeOK
<1>4. ~Break
  BY DEF Break
<1>5. ~RenewFails(c) /\ ~FetchFails(c) /\ ~VerifyFails(c) /\ ~EndRejects(c) /\ ~RevokeFails(c)
  BY <1>4 DEF RenewFails, FetchFails, VerifyFails, EndRejects, RevokeFails
\* c has taken nothing that is to be given back.
<1>6. ASSUME UNCHANGED <<open, stopping, currentPool, currentLease>>,
             left'[l] > 0 => left[l] > 0,
             job[c].stage \in {"idle", "renew", "renewed"}
      PROVE  OpenKnown(l)' /\ ValidKnown(l)'
  <2>1. ~Ends(c, l) /\ ~Keeps(c, l)
    BY <1>6 DEF Ends, Keeps, Replaces
  <2>2. QED
    BY <1>2, <1>6, <2>1 DEF OpenKnown, ValidKnown
<1>7. CASE Begin(c)
  BY <1>6, <1>7 DEF Begin, Start, ForceRotation, StartRenewal, AllIdle
<1>8. CASE VaultRenews(c)
  <2>1. left'[l] > 0 => left[l] > 0
    BY <1>8 DEF VaultRenews, TypeOK
  <2>2. QED
    BY <1>6, <1>8, <2>1 DEF VaultRenews
<1>9. CASE RenewAnswered(c)
  <2>1. currentLease # None
    BY <1>9 DEF RenewAnswered, Named
  <2>2. QED
    BY <1>6, <1>9, <2>1 DEF RenewAnswered, RenewedLease
<1>10. CASE RenewRefused(c)
  BY <1>6, <1>10 DEF RenewRefused
<1>11. CASE VaultIssues(c)
  <2>1. PICK m \in Lease : /\ left' = [left EXCEPT ![m] = Ttl]
                           /\ job' = [job EXCEPT ![c].stage = "issued", ![c].lease = m]
    BY <1>11, NewName DEF VaultIssues
  <2>2. job'[c].stage = "issued" /\ job'[c].lease = m
    BY <2>1 DEF TypeOK
  <2>3. UNCHANGED <<open, stopping, currentPool, currentLease>>
    BY <1>11 DEF VaultIssues
  <2>4. ~Ends(c, l) /\ ~Keeps(c, l)
    BY <1>11 DEF VaultIssues, Ends, Keeps, Replaces
  <2>5. left'[l] > 0 => left[l] > 0 \/ Keeps(c, l)'
    BY <2>1, <2>2 DEF TypeOK, Keeps
  <2>6. QED
    BY <1>2, <2>3, <2>4, <2>5 DEF OpenKnown, ValidKnown
<1>12. CASE SwitchPool(c)
  <2>1. /\ open' = open \cup {job[c].lease} /\ left' = left /\ stopping' = stopping
        /\ currentPool' = job[c].lease /\ currentLease' = job[c].lease
        /\ job'[c].stage = "verify" /\ job'[c].oldPool = currentPool
        /\ job'[c].oldLease = currentLease
    BY <1>12 DEF SwitchPool, CreatePool, TypeOK
  <2>2. (l = currentPool => Ends(c, l)') /\ (l = currentLease => Keeps(c, l)')
    BY <2>1 DEF Ends, Keeps, Replaces
  <2>3. ~Ends(c, l) /\ (Keeps(c, l) => l = currentLease')
    BY <1>12, <2>1 DEF SwitchPool, Ends, Keeps, Replaces
  <2>4. OpenKnown(l)'
    BY <1>2, <2>1, <2>2, <2>3 DEF OpenKnown
  <2>5. ValidKnown(l)'
    BY <1>2, <2>1, <2>2, <2>3 DEF ValidKnown
  <2>6. QED
    BY <2>4, <2>5
<1>13. CASE Verified(c)
  <2>1. UNCHANGED <<open, left, stopping, currentPool, currentLease>>
    BY <1>13 DEF Verified
  <2>2. Ends(c, l) = Ends(c, l)' /\ Keeps(c, l) = Keeps(c, l)'
    BY <1>13 DEF Verified, Goto, Ends, Keeps, Replaces, TypeOK
  <2>3. QED
    BY <1>2, <2>1, <2>2 DEF OpenKnown, ValidKnown
<1>14. CASE EndOldPool(c)
  <2>1. open' = open \ {job[c].oldPool} /\ UNCHANGED <<left, stopping, currentPool, currentLease>>
    BY <1>14 DEF EndOldPool
  <2>2. Keeps(c, l) = Keeps(c, l)' /\ (Ends(c, l) => l \notin open')
    BY <1>14, <2>1 DEF EndOldPool, Goto, Ends, Keeps, Replaces, TypeOK
  <2>3. QED
    BY <1>2, <2>1, <2>2 DEF OpenKnown, ValidKnown
<1>15. CASE RevokeOldLease(c)
  <2>1. UNCHANGED <<open, stopping, currentPool, currentLease>>
    BY <1>15 DEF RevokeOldLease
  <2>2. ~Ends(c, l)
    BY <1>15 DEF RevokeOldLease, Ends
  <2>3. left'[l] > 0 => left[l] > 0 /\ ~Keeps(c, l)
    <3>1. Keeps(c, l) => job[c].oldLease = l
      BY <1>15 DEF RevokeOldLease, Keeps
    <3>2. Revoke(job[c].oldLease)
      BY <1>15 DEF RevokeOldLease
    <3>3. QED
      BY <1>3, <3>1, <3>2 DEF Revoke, TypeOK
  <2>4. QED
    BY <1>2, <2>1, <2>2, <2>3 DEF OpenKnown, ValidKnown
<1>16. QED
  BY <1>5, <1>7, <1>8, <1>9, <1>10, <1>11, <1>12, <1>13, <1>14, <1>15
     DEF CallStep, CheckStep, CheckFails

\* Every step accounts for every open pool and every valid lease.
LEMMA AccountedStep ==
    ASSUME TypeOK, OneRotation, Named, InUse, StopsAlone, Accounted, [Next]_vars
    PROVE  Accounted'
<1> SUFFICES ASSUME ~raced', ~broken', NEW l \in Lease
             PROVE  OpenKnown(l)' /\ ValidKnown(l)'
  BY DEF Accounted, OpenKnown, ValidKnown, Ends, Keeps
<1> USE Constants DEF vaultVars, poolVars, currentVars, stopVars
<1>1. ~raced /\ ~broken
  BY HistoryKept
<1>2. OpenKnown(l) /\ ValidKnown(l)
  BY <1>1, AccountedMeans
<1>3. left[l] \in Nat
  BY DEF TypeOK
<1>4. ASSUME NEW c \in Check, CallStep(c)
      PROVE  OpenKnown(l)' /\ ValidKnown(l)'
  <2>1. stopping = "no"
    BY <1>1, <1>4, NoCalls
  <2>2. QED
    BY <1>2, <1>4, <2>1, CallAccounts
<1>5. ASSUME UNCHANGED <<open, stopping, currentPool, currentLease, job>>,
             left'[l] > 0 => left[l] > 0
      PROVE  OpenKnown(l)' /\ ValidKnown(l)'
  BY <1>2, <1>5 DEF OpenKnown, ValidKnown, Ends, Keeps, Replaces
<1>6. CASE CheckOut \/ (\E p \in Lease : CheckIn(p)) \/ UNCHANGED vars
  BY <1>5, <1>6 DEF CheckOut, CheckIn, vars
<1>7. CASE Elapse
  <2>1. left'[l] > 0 => left[l] > 0
    BY <1>3, <1>7 DEF Elapse, Less
  <2>2. QED
    BY <1>5, <1>7, <2>1 DEF Elapse
\* Nobody is at work when stop() is called, or after it.
<1>8. ASSUME AllIdle
      PROVE  \A c \in Check : ~Ends(c, l) /\ ~Keeps(c, l)
  BY <1>8 DEF AllIdle, At, Ends, Keeps, Replaces
<1>9. CASE Stop
  <2>1. raced' = (raced \/ ~AllIdle)
    BY <1>9 DEF Stop
  <2>2. AllIdle
    BY <2>1, Zenon
  <2>3. /\ stopping = "no" /\ currentLease = currentPool
        /\ open' = open \ {currentPool} /\ left' = left /\ currentLease' = currentLease
    BY <1>9 DEF Stop, InUse
  <2>4. /\ currentPool = None => currentLease = None
        /\ currentPool # None => stopping' = "draining"
    BY <1>9, <2>3 DEF Stop
  <2>5. QED
    BY <1>2, <1>8, <2>2, <2>3, <2>4 DEF OpenKnown, ValidKnown
<1>10. CASE StopDrained
  <2>1. AllIdle /\ stopping = "draining" /\ currentLease \in Lease
    BY <1>1, <1>10 DEF StopDrained, StopsAlone
  <2>2. stopping' = "revoking" /\ UNCHANGED <<open, left, currentLease>>
    BY <1>10, <2>1 DEF StopDrained, RevokeLast
  <2>3. QED
    BY <1>2, <1>8, <2>1, <2>2 DEF OpenKnown, ValidKnown
<1>11. CASE StopRevokes
  <2>1. AllIdle /\ stopping = "revoking" /\ currentLease = stopped /\ stopped \in Lease
    BY <1>1, <1>11 DEF StopRevokes, StopsAlone
  <2>2. ~Break
    BY DEF Break
  <2>3. left' = [left EXCEPT ![stopped] = 0] /\ open' = open
    BY <1>11, <2>1, <2>2 DEF StopRevokes, Revoke
  <2>4. left'[l] > 0 => left[l] > 0 /\ l # currentLease
    BY <2>1, <2>3 DEF TypeOK
  <2>5. QED
    BY <1>2, <1>8, <2>1, <2>3, <2>4 DEF OpenKnown, ValidKnown
<1>12. CASE StopFinishes
  <2>1. AllIdle /\ stopping = "revoked"
    BY <1>1, <1>12 DEF StopFinishes, StopsAlone
  <2>2. UNCHANGED <<open, left>>
    BY <1>12 DEF StopFinishes
  <2>3. QED
    BY <1>2, <1>8, <2>1, <2>2 DEF OpenKnown, ValidKnown
<1>13. QED
  BY <1>4, <1>6, <1>7, <1>9, <1>10, <1>11, <1>12 DEF Next, CallStep, StopStep

-------------------------------------------------------------------------------

\* The invariant is inductive.
LEMMA Inductive == IInv /\ [Next]_vars => IInv'
BY TypesStep, RotationStep, NamedStep, InUseStep, StopsAloneStep, DrainStep, AccountedStep
   DEF IInv

\* The inductive invariant of the manager holds, for any leases and calls.
THEOREM InvariantHolds == Spec => []IInv
BY Initially, Inductive, PTL DEF Spec

\* The variables keep their types; in particular no lease of the manager ever
\* outlives its lease_duration.
THEOREM TypeCorrect == Spec => []TypeOK
<1>1. IInv => TypeOK
  BY DEF IInv
<1>2. QED
  BY <1>1, InvariantHolds, PTL

\* At every await of a renewal or a rotation, whatever has failed, pool() returns an
\* open pool whose lease is the current one and was not revoked, until stop().
THEOREM PoolAlwaysUsable == Spec => []PoolStaysUsable
<1>1. IInv => PoolStaysUsable
  BY DEF IInv, InUse, PoolStaysUsable
<1>2. QED
  BY <1>1, InvariantHolds, PTL

\* No lease is revoked under a client that is checked out, as long as stop() does not
\* run beside a rotation.
THEOREM DrainsBeforeRevoking == Spec => []DrainBeforeRevoke
<1>1. IInv => DrainBeforeRevoke
  BY DEF IInv
<1>2. QED
  BY <1>1, InvariantHolds, PTL

\* At rest, no pool is open and no lease valid but the current ones, unless a request
\* failed or stop() ran beside another call.
THEOREM LeaksHaveCause == Spec => []LeakHasCause
<1>1. IInv => LeakHasCause
  <2> SUFFICES ASSUME IInv, AtRest, ~raced, ~broken, NEW l \in Lease,
                      l \in open \/ left[l] > 0
               PROVE  l = currentPool
    BY DEF LeakHasCause, IInv, TypeOK
  <2>1. OpenKnown(l) /\ ValidKnown(l)
    BY AccountedMeans DEF IInv
  <2>2. \A c \in Check : ~Ends(c, l) /\ ~Keeps(c, l)
    BY DEF AtRest, AllIdle, At, Ends, Keeps, Replaces
  <2>3. QED
    BY <2>1, <2>2 DEF IInv, InUse, AtRest, OpenKnown, ValidKnown
<1>2. QED
  BY <1>1, InvariantHolds, PTL
===============================================================================
