------------------------------ MODULE VaultCreds ------------------------------
(***************************************************************************)
(* services/db/vaultCredsManager.ts: Postgres credentials leased from      *)
(* Vault, the pool opened with them, and the start, checks and stop of one *)
(* manager, which interleave at every await.  Time is what is left of the  *)
(* leases.  A pool is named for the lease whose credentials it uses, and a *)
(* name is used again when nothing is left of lease and pool.  Vault,      *)
(* Postgres and the users of the pool are external.                        *)
(***************************************************************************)
EXTENDS Integers, FiniteSets, FiniteSetsExt

CONSTANTS
    Lease,          \* names of leases
    Check,          \* concurrent calls of start and _checkAndRenew
    None,
    Ttl,            \* lease_duration
    Threshold,      \* the remainder of Ttl that makes a renewal due
    MaxFaults,      \* bound: requests that fail
    MaxSlow,        \* bound: units of time that pass under a running call
    MaxBusy         \* bound: pools with a client checked out

ASSUME VaultAssumption ==
    /\ Lease \subseteq Nat /\ None \notin Int
    /\ None \notin Check
    /\ Threshold \in Nat /\ Ttl \in Nat /\ Threshold < Ttl
    /\ MaxFaults \in Nat /\ MaxSlow \in Nat /\ MaxBusy \in Nat

\* currentLease after a renewal that is answered when stop() has cleared it: an
\* object without a leaseId.
Nameless == -1

VARIABLES
    left,           \* Vault: the time a lease is still valid for
    revoked,        \* the leases the manager has had revoked
    open,           \* pools created and not ended
    busy,           \* pools with a client checked out
    currentLease, currentPool,
    remaining,      \* currentLease.expiresAt - Date.now()
    rotating,
    timer,          \* whether the interval runs
    job,            \* what each call is doing
    starter,        \* the call that is start()
    stopping,       \* how far stop() has come
    stopped,        \* the pool it drains, the lease it revokes
    faults, slow,
    raced,          \* history: stop() ran beside another call
    broken          \* history: a request or a verification failed

vaultVars == <<left, revoked>>
poolVars == <<open, busy>>
currentVars == <<currentLease, currentPool, remaining>>
stopVars == <<stopping, stopped>>
boundVars == <<faults, slow>>
historyVars == <<raced, broken>>
vars == <<vaultVars, poolVars, currentVars, rotating, timer, job, starter, stopVars,
          boundVars, historyVars>>

Idle == [stage |-> "idle", lease |-> None, oldPool |-> None, oldLease |-> None]

Init ==
    /\ left = [l \in Lease |-> 0] /\ revoked = {}
    /\ open = {} /\ busy = {}
    /\ currentLease = None /\ currentPool = None /\ remaining = 0
    /\ rotating = FALSE /\ timer = FALSE
    /\ job = [c \in Check |-> Idle] /\ starter = None
    /\ stopping = "no" /\ stopped = None
    /\ faults = 0 /\ slow = 0
    /\ raced = FALSE /\ broken = FALSE

At(c, stage) == job[c].stage = stage
Goto(c, stage) == job' = [job EXCEPT ![c].stage = stage]
AllIdle == \A c \in Check : At(c, "idle")

Fault == faults < MaxFaults /\ faults' = faults + 1 /\ UNCHANGED slow
Break == broken' = TRUE /\ UNCHANGED raced

\* Nothing is left of it: the next lease can have its name.
Unused(l) ==
    /\ left[l] = 0 /\ l \notin open \cup busy
    /\ l \notin {currentLease, currentPool, stopped}
    /\ \A c \in Check : l \notin {job[c].lease, job[c].oldPool, job[c].oldLease}

-------------------------------------------------------------------------------
\* start, and what the interval calls.

\* _rotateLease up to the first await; without effect while another rotates.
Rotate(c) ==
    IF rotating
    THEN job' = [job EXCEPT ![c] = Idle] /\ UNCHANGED rotating
    ELSE job' = [job EXCEPT ![c] = [Idle EXCEPT !.stage = "fetch"]] /\ rotating' = TRUE

\* After _ensureToken.  It may be called again when it has failed.
Start(c) ==
    /\ ~timer /\ stopping = "no" /\ AllIdle
    /\ Rotate(c)
    /\ starter' = c
    /\ UNCHANGED <<vaultVars, poolVars, currentVars, timer, stopVars, boundVars, historyVars>>

ForceRotation(c) ==
    /\ timer /\ At(c, "idle")
    /\ currentLease # None /\ ~rotating
    /\ remaining = 0
    /\ Rotate(c)
    /\ UNCHANGED <<vaultVars, poolVars, currentVars, timer, starter, stopVars, boundVars,
                   historyVars>>

StartRenewal(c) ==
    /\ timer /\ At(c, "idle")
    /\ currentLease # None /\ ~rotating
    /\ remaining \in 1..Threshold
    /\ job' = [job EXCEPT ![c] = [Idle EXCEPT !.stage = "renew", !.lease = currentLease]]
    /\ UNCHANGED <<vaultVars, poolVars, currentVars, rotating, timer, starter, stopVars,
                   boundVars, historyVars>>

-------------------------------------------------------------------------------
\* _renewLease.

VaultRenews(c) ==
    /\ At(c, "renew") /\ job[c].lease # Nameless /\ left[job[c].lease] > 0
    /\ left' = [left EXCEPT ![job[c].lease] = Ttl]
    /\ Goto(c, "renewed")
    /\ UNCHANGED <<revoked, poolVars, currentVars, rotating, timer, starter, stopVars,
                   boundVars, historyVars>>

OldLease(c) == job[c].lease                                    \* mutant
\* The answer extends whatever lease is current by now.
RenewedLease(c) == IF currentLease = None THEN Nameless ELSE currentLease

Accumulated == remaining + Ttl                                 \* mutant
RenewedRemaining == Ttl

RenewAnswered(c) ==
    /\ At(c, "renewed")
    /\ currentLease' = RenewedLease(c)
    /\ remaining' = RenewedRemaining
    /\ job' = [job EXCEPT ![c] = Idle]
    /\ UNCHANGED <<vaultVars, poolVars, currentPool, rotating, timer, starter, stopVars,
                   boundVars, historyVars>>

\* The lease has expired or reached its maximum: a new one takes its place.
RenewRefused(c) ==
    /\ At(c, "renew")
    /\ Rotate(c)
    /\ UNCHANGED <<vaultVars, poolVars, currentVars, timer, starter, stopVars, boundVars,
                   historyVars>>

RenewFails(c) ==
    /\ At(c, "renew") \/ At(c, "renewed")
    /\ Fault /\ Break
    /\ Rotate(c)
    /\ UNCHANGED <<vaultVars, poolVars, currentVars, timer, starter, stopVars>>

-------------------------------------------------------------------------------
\* _rotateLease after its first await.

Wedge(c) ==                                                    \* mutant
    /\ job' = [job EXCEPT ![c] = Idle]
    /\ starter' = IF starter = c THEN None ELSE starter
    /\ UNCHANGED rotating

\* The catch: what has been replaced stays replaced.
Abandon(c) ==
    /\ rotating' = FALSE
    /\ job' = [job EXCEPT ![c] = Idle]
    /\ starter' = IF starter = c THEN None ELSE starter

VaultIssues(c) ==
    /\ At(c, "fetch")
    /\ \E l \in Lease : Unused(l)
    /\ LET l == Min({m \in Lease : Unused(m)}) IN
          /\ left' = [left EXCEPT ![l] = Ttl]
          /\ revoked' = revoked \ {l}
          /\ job' = [job EXCEPT ![c].stage = "issued", ![c].lease = l]
    /\ UNCHANGED <<poolVars, currentVars, rotating, timer, starter, stopVars, boundVars,
                   historyVars>>

FetchFails(c) ==
    /\ At(c, "fetch") \/ At(c, "issued")
    /\ Fault /\ Break
    /\ Abandon(c)
    /\ UNCHANGED <<vaultVars, poolVars, currentVars, timer, stopVars>>

CreatePool(l) == open' = open \cup {l}

SwitchPool(c) ==
    /\ At(c, "issued")
    /\ LET l == job[c].lease IN
          /\ CreatePool(l)
          /\ currentPool' = l /\ currentLease' = l
    /\ remaining' = Ttl
    /\ job' = [job EXCEPT ![c].stage = "verify",
                          ![c].oldPool = currentPool, ![c].oldLease = currentLease]
    /\ UNCHANGED <<vaultVars, busy, rotating, timer, starter, stopVars, boundVars, historyVars>>

\* A new connection needs a pool that has not been ended and a valid lease.
Connects(p) == p \in open /\ left[p] > 0

Verified(c) ==
    /\ At(c, "verify") /\ Connects(job[c].lease)
    /\ Goto(c, "drain")
    /\ UNCHANGED <<vaultVars, poolVars, currentVars, rotating, timer, starter, stopVars,
                   boundVars, historyVars>>

VerifyFails(c) ==
    /\ At(c, "verify")
    /\ Break
    /\ IF Connects(job[c].lease) THEN Fault ELSE UNCHANGED boundVars
    /\ Abandon(c)
    /\ UNCHANGED <<vaultVars, poolVars, currentVars, timer, stopVars>>

\* oldPool.end(): no new clients, and the call waits for those checked out.
EndOldPool(c) ==
    /\ At(c, "drain")
    /\ job[c].oldPool \in open \cup {None}
    /\ open' = open \ {job[c].oldPool}
    /\ Goto(c, "revoke")
    /\ UNCHANGED <<vaultVars, busy, currentVars, rotating, timer, starter, stopVars, boundVars,
                   historyVars>>

\* stop() has ended it already: a second end() rejects.
EndRejects(c) ==
    /\ At(c, "drain")
    /\ job[c].oldPool \notin open \cup {None}
    /\ Break
    /\ Abandon(c)
    /\ UNCHANGED <<vaultVars, poolVars, currentVars, timer, stopVars, boundVars>>

Undrained(p) == TRUE                                           \* mutant
Drained(p) == p \notin busy

Revoke(l) ==
    IF l \in Lease
    THEN left' = [left EXCEPT ![l] = 0] /\ revoked' = revoked \cup {l}
    ELSE UNCHANGED vaultVars

\* The rotation is over; start() goes on to start the timer.
FinishRotation(c) ==
    /\ rotating' = FALSE
    /\ job' = [job EXCEPT ![c] = Idle]
    /\ starter' = IF starter = c THEN None ELSE starter
    /\ timer' = (timer \/ starter = c)

RevokeOldLease(c) ==
    /\ At(c, "revoke") /\ Drained(job[c].oldPool)
    /\ Revoke(job[c].oldLease)
    /\ FinishRotation(c)
    /\ UNCHANGED <<poolVars, currentVars, stopVars, boundVars, historyVars>>

\* Only an `error` event tells of it.
RevokeFails(c) ==
    /\ At(c, "revoke") /\ Drained(job[c].oldPool) /\ job[c].oldLease # None
    /\ Fault /\ Break
    /\ FinishRotation(c)
    /\ UNCHANGED <<vaultVars, poolVars, currentVars, stopVars>>

-------------------------------------------------------------------------------
\* stop.

ElseRevokeLast ==                                              \* mutant
    /\ stopping' = IF currentPool = None /\ currentLease # None THEN "revoking" ELSE "done"
    /\ stopped' = currentLease

\* With no pool left to drain, stop() asks for the lease that is current now.
RevokeLast ==
    /\ stopping' = IF currentLease = None THEN "done" ELSE "revoking"
    /\ stopped' = currentLease

Stop ==
    /\ stopping = "no"
    /\ timer' = FALSE
    /\ raced' = (raced \/ ~AllIdle) /\ UNCHANGED broken
    /\ IF currentPool = None
       THEN RevokeLast
       ELSE stopping' = "draining" /\ stopped' = currentPool
    /\ open' = open \ {currentPool}
    /\ UNCHANGED <<vaultVars, busy, currentVars, rotating, job, starter, boundVars>>

\* The pool it clears need not be the one it has ended.
StopDrained ==
    /\ stopping = "draining" /\ Drained(stopped)
    /\ currentPool' = None
    /\ RevokeLast
    /\ UNCHANGED <<vaultVars, poolVars, currentLease, remaining, rotating, timer, job, starter,
                   boundVars, historyVars>>

StopRevokes ==
    /\ stopping = "revoking"
    /\ stopping' = "revoked" /\ stopped' = None
    /\ \/ Revoke(stopped) /\ UNCHANGED <<boundVars, historyVars>>
       \/ Fault /\ Break /\ UNCHANGED vaultVars
    /\ UNCHANGED <<poolVars, currentVars, rotating, timer, job, starter>>

StopFinishes ==
    /\ stopping = "revoked"
    /\ currentLease' = None /\ remaining' = 0
    /\ stopping' = "done"
    /\ UNCHANGED <<vaultVars, poolVars, currentPool, rotating, timer, job, starter, stopped,
                   boundVars, historyVars>>

-------------------------------------------------------------------------------
\* The users of pool(), and time.

\* A caller takes the pool and a client of it.
CheckOut ==
    /\ currentPool # None /\ Connects(currentPool)
    /\ Cardinality(busy) < MaxBusy
    /\ busy' = busy \cup {currentPool}
    /\ UNCHANGED <<vaultVars, open, currentVars, rotating, timer, job, starter, stopVars,
                   boundVars, historyVars>>

CheckIn(p) ==
    /\ p \in busy /\ busy' = busy \ {p}
    /\ UNCHANGED <<vaultVars, open, currentVars, rotating, timer, job, starter, stopVars,
                   boundVars, historyVars>>

AtRest == AllIdle /\ stopping \in {"no", "done"}

Less(n) == IF n > 0 THEN n - 1 ELSE 0

\* Bound: not after stop() has returned, when the process is about to exit.
Elapse ==
    /\ stopping # "done"
    /\ remaining > 0 \/ \E l \in Lease : left[l] > 0
    /\ left' = [l \in Lease |-> Less(left[l])]
    /\ remaining' = Less(remaining)
    /\ \/ AtRest /\ UNCHANGED slow
       \/ ~AtRest /\ slow < MaxSlow /\ slow' = slow + 1
    /\ UNCHANGED <<revoked, poolVars, currentLease, currentPool, rotating, timer, job, starter,
                   stopVars, faults, historyVars>>

Begin(c) == Start(c) \/ ForceRotation(c) \/ StartRenewal(c)

CheckStep(c) ==
    \/ VaultRenews(c) \/ RenewAnswered(c) \/ RenewRefused(c)
    \/ VaultIssues(c) \/ SwitchPool(c) \/ Verified(c) \/ VerifyFails(c)
    \/ EndOldPool(c) \/ EndRejects(c) \/ RevokeOldLease(c)

CheckFails(c) == RenewFails(c) \/ FetchFails(c) \/ RevokeFails(c)

StopStep == StopDrained \/ StopRevokes \/ StopFinishes

Next ==
    \/ \E c \in Check : Begin(c) \/ CheckStep(c) \/ CheckFails(c)
    \/ Stop \/ StopStep
    \/ CheckOut \/ \E p \in Lease : CheckIn(p)
    \/ Elapse

Spec == Init /\ [][Next]_vars

\* The interval ticks, requests are answered, clients come back, time passes.
FairSpec ==
    /\ Spec
    /\ WF_vars(\E c \in Check : ForceRotation(c) \/ StartRenewal(c))
    /\ \A c \in Check : WF_vars(CheckStep(c))
    /\ \A p \in Lease : WF_vars(CheckIn(p))
    /\ WF_vars(Elapse)

-------------------------------------------------------------------------------
\* Properties.

TypeOK ==
    /\ left \in [Lease -> 0..Ttl] /\ revoked \subseteq Lease
    /\ open \subseteq Lease /\ busy \subseteq Lease
    /\ currentLease \in Lease \cup {None, Nameless} /\ currentPool \in Lease \cup {None}
    /\ remaining \in 0..Ttl
    /\ rotating \in BOOLEAN /\ timer \in BOOLEAN
    /\ job \in [Check -> [stage: {"idle", "renew", "renewed", "fetch", "issued", "verify",
                                  "drain", "revoke"},
                          lease: Lease \cup {None, Nameless},
                          oldPool: Lease \cup {None},
                          oldLease: Lease \cup {None, Nameless}]]
    /\ starter \in Check \cup {None}
    /\ stopping \in {"no", "draining", "revoking", "revoked", "done"}
    /\ stopped \in Lease \cup {None}
    /\ faults \in 0..MaxFaults /\ slow \in 0..MaxSlow
    /\ raced \in BOOLEAN /\ broken \in BOOLEAN

\* Until stop() is called the manager itself never takes away what pool() returns:
\* it is open, the current lease is its own, and that lease was not revoked.
PoolStaysUsable ==
    stopping = "no" /\ currentPool # None =>
        currentPool \in open /\ currentLease = currentPool /\ currentPool \notin revoked

\* `Drain old pool (in-flight queries complete) then revoke old lease`: nobody's
\* client loses its credentials, unless stop() ran beside a rotation.
DrainBeforeRevoke == ~raced => busy \cap revoked = {}

\* Rotations and stop() leave no pool open and no lease valid but the current ones,
\* unless a request failed or stop() ran beside another call.
LeakHasCause ==
    AtRest /\ ~raced /\ ~broken =>
        open \cup {l \in Lease : left[l] > 0} \subseteq {currentPool}

\* `On renewal failure or expiry, obtains a fresh lease and reconnects`: whatever
\* failed or came late, pool() gets valid credentials again, until stop().
CredentialsRecover ==
    timer ~> (stopping # "no" \/ (currentPool # None /\ Connects(currentPool)))
===============================================================================
