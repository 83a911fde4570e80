---------------------------------- MODULE Kyc ----------------------------------
(***************************************************************************)
(* The KYC gate on payment initiation and the BVN verification behind it,  *)
(* with the Redis cache between them, for one sender.                      *)
(*                                                                         *)
(* The gate reads the cache only; verifications fill it.  Two of them may  *)
(* overlap: each looks, asks the provider and writes in its own time.      *)
(* Redis may refuse any command, expires entries, and may hold an entry    *)
(* that does not parse.                                                    *)
(***************************************************************************)
EXTENDS Integers, FiniteSets

CONSTANTS
    Verification,   \* verify() calls; each is made once
    MaxReviews,     \* bound: changes of the sender's standing at the provider
    MaxEvictions    \* bound: expiries, invalidations and corruptions

VerificationTier == {"none", "basic", "enhanced"}

\* Transfers as the gate tells them apart.
Transfer == [corridor : {"NGN", "other"}, amount : {"invalid", "low", "high"},
             sender : {"known", "unknown"}]

VARIABLES
    enabled,     \* a KYC service is configured
    standing,    \* the sender's tier at the provider
    reviews,
    cache,       \* the Redis entry: a tier, "absent" or "corrupt"
    verifying,   \* verification -> where it is
    found,       \* verification -> the tier it answers
    order,       \* verification -> rank of its provider's answer
    evictions,
    gate,        \* a gate that evicts a corrupt entry before it answers
    trail,       \* outcomes in the audit trail
    \* History.
    newest,      \* the tier of the provider's newest answer
    blame,       \* why the cache may differ from it
    verdict      \* the last gate's answer on a transfer that needs KYC

redis   == <<cache, evictions>>
work    == <<verifying, found, order, trail>>
kycVars == <<enabled, standing, reviews, redis, work, gate, newest, blame, verdict>>

Init ==
    /\ enabled \in BOOLEAN
    /\ standing = "none" /\ reviews = 0
    /\ cache = "absent" /\ evictions = 0
    /\ verifying = [v \in Verification |-> "idle"]
    /\ found = [v \in Verification |-> "none"]
    /\ order = [v \in Verification |-> 0]
    /\ gate = "idle" /\ trail = {}
    /\ newest = "none" /\ blame = {}
    /\ verdict = [admitted |-> FALSE, newest |-> "none", blame |-> {}]

-----------------------------------------------------------------------------
(* The provider: mapResultCode. *)

Review(t) ==
    /\ reviews < MaxReviews /\ reviews' = reviews + 1
    /\ t # standing /\ standing' = t
    /\ UNCHANGED <<enabled, redis, work, gate, newest, blame, verdict>>

-----------------------------------------------------------------------------
(* verify(). *)

\* A hit ends it.  A miss, a refused GET and, once evicted, a corrupt entry
\* lead to the provider.
Look(v) ==
    /\ enabled /\ verifying[v] = "idle"
    /\ \/ cache \in VerificationTier /\ verifying' = [verifying EXCEPT ![v] = "done"]
                         /\ found' = [found EXCEPT ![v] = cache]
       \/ cache = "corrupt" /\ verifying' = [verifying EXCEPT ![v] = "evict"]
                            /\ UNCHANGED found
       \/ verifying' = [verifying EXCEPT ![v] = "ask"] /\ UNCHANGED found
    /\ UNCHANGED <<enabled, standing, reviews, redis, order, trail, gate, newest, blame, verdict>>

\* The DEL of an eviction: it takes whatever is there by then, or it fails.
Deleted == \/ cache' = "absent" /\ blame' = blame \cup {"evicted"}
           \/ UNCHANGED <<cache, blame>>

Evict(v) ==
    /\ verifying[v] = "evict"
    /\ Deleted
    /\ verifying' = [verifying EXCEPT ![v] = "ask"]
    /\ UNCHANGED <<enabled, standing, reviews, evictions, found, order, trail, gate, newest, verdict>>

Outcome(t) == IF t \in {"enhanced", "basic"} THEN "verified" ELSE "unverified"

\* One entry in the audit trail.
Audit(outcome) == trail' = trail \cup {outcome}

\* The provider answers; the audit event and the unawaited SET follow.
ProviderAnswer(v) ==
    /\ verifying[v] = "ask"
    /\ verifying' = [verifying EXCEPT ![v] = "set"]
    /\ found' = [found EXCEPT ![v] = standing]
    /\ order' = [order EXCEPT ![v] = 1 + Cardinality({w \in Verification : order[w] > 0})]
    /\ Audit(Outcome(standing))
    /\ newest' = standing /\ blame' = blame \cup {"unwritten"}
    /\ UNCHANGED <<enabled, standing, reviews, redis, gate, verdict>>

\* An error, a timeout or a pending result: nothing is cached.
ProviderFailure(v) ==
    /\ verifying[v] = "ask"
    /\ verifying' = [verifying EXCEPT ![v] = "done"]
    /\ Audit("provider_error")
    /\ UNCHANGED <<enabled, standing, reviews, redis, found, order, gate, newest, blame, verdict>>

IsNewest(v) == \A w \in Verification : order[w] <= order[v]

\* The SET succeeds or is logged.  Only the newest answer's success settles
\* what the cache holds.
WriteCache(v) ==
    /\ verifying[v] = "set"
    /\ verifying' = [verifying EXCEPT ![v] = "done"]
    /\ \/ /\ cache' = found[v]
          /\ blame' = IF IsNewest(v) THEN {} ELSE blame \cup {"overlap"}
       \/ UNCHANGED <<cache, blame>>
    /\ UNCHANGED <<enabled, standing, reviews, evictions, found, order, trail, gate, newest, verdict>>

\* Expiry after 24 hours, invalidate(), or an entry something else broke.
Evicted(entry, why) ==
    /\ evictions < MaxEvictions /\ evictions' = evictions + 1
    /\ cache \in VerificationTier /\ cache' = entry
    /\ blame' = blame \cup {why}
    /\ UNCHANGED <<enabled, standing, reviews, work, gate, newest, verdict>>

Expire     == Evicted("absent", "expired")
Invalidate == Evicted("absent", "invalidated")
Corrupt    == Evicted("corrupt", "corrupt")

-----------------------------------------------------------------------------
(* The gate. *)

\* What passes without a look at the sender's tier.
Exempt(t) == \/ ~enabled \/ t.corridor # "NGN" \/ t.amount # "high"
             \/ t.sender = "unknown"

\* For a mutant: whatever the audit trail calls verified passes.
VerdictOnVerified(tier, extra) ==
    [admitted |-> Outcome(tier) = "verified", newest |-> newest, blame |-> blame \cup extra]

Verdict(tier, extra) == [admitted |-> tier = "enhanced", newest |-> newest, blame |-> blame \cup extra]

\* getCachedTier: a miss counts as "none", and so does a refused GET, which
\* getCached keeps to itself: the gate's own way out on an error is not taken.
Gate(t) ==
    /\ gate = "idle"
    /\ \/ Exempt(t) /\ UNCHANGED <<gate, verdict>>
       \/ /\ ~Exempt(t)
          /\ \/ /\ cache = "corrupt" /\ gate' = "evict" /\ UNCHANGED verdict
             \/ /\ cache # "corrupt"
                /\ verdict' = Verdict(cache, {}) /\ UNCHANGED gate
             \/ verdict' = Verdict("absent", {"refused"}) /\ UNCHANGED gate
    /\ UNCHANGED <<enabled, standing, reviews, redis, work, newest, blame>>

GateEvict ==
    /\ gate = "evict" /\ gate' = "idle"
    /\ Deleted
    /\ verdict' = Verdict("absent", {"corrupt"})
    /\ UNCHANGED <<enabled, standing, reviews, evictions, work, newest>>

Next ==
    \/ \E t \in VerificationTier : Review(t)
    \/ \E v \in Verification :
         \/ Look(v) \/ Evict(v) \/ ProviderAnswer(v) \/ ProviderFailure(v) \/ WriteCache(v)
    \/ Expire \/ Invalidate \/ Corrupt
    \/ \E t \in Transfer : Gate(t)
    \/ GateEvict

Spec == Init /\ [][Next]_kycVars

-----------------------------------------------------------------------------
(* Properties. *)

\* A verdict that differs from the provider's newest answer has a reason: the
\* answer is not written (yet), an older one was written over it, the entry
\* expired, was invalidated or broken, or Redis refused the read.  Without
\* one, the cache holds exactly the newest answer.
GateHasCause ==
    /\ blame = {} => cache = newest \/ (cache = "absent" /\ newest = "none")
    /\ verdict.blame = {} => (verdict.admitted <=> verdict.newest = "enhanced")
===============================================================================
