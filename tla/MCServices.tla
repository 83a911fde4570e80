------------------------------ MODULE MCServices ------------------------------
(***************************************************************************)
(* The API's services that share nothing with each other, in one run: the  *)
(* initial state picks one of them and only that one steps.                *)
(***************************************************************************)
EXTENDS Integers, FiniteSets, TLC

CONSTANTS
    Account, Memo, Field, Request, MaxCustomers, MaxTransactions,
    User, MaxVersion, Ask,
    Tier, Fan, MaxKeys, MaxContents,
    Verification, MaxReviews, MaxEvictions,
    Rate, Call, StalenessThreshold, MaxTime

\* What the proofs use of the constants: versions are numbers, rates are integers,
\* and there are finitely many verifications.
ASSUME ServicesAssumption ==
    MaxVersion \in Nat /\ Rate \subseteq Int /\ IsFiniteSet(Verification)

VARIABLES
    part,
    objects, customers, transactions, pc, task, audit, lost, churned, export,
    notices, consents, accepting, asks, moved,
    tierContentKeys, creatorContents, passes, held, rotatedPast, shown,
    enabled, standing, reviews, cache, verifying, found, order, evictions,
    gate, trail, newest, blame, verdict,
    now, calls, lastKnown, answers, began, known, overlap, last

People == INSTANCE Anchor
Notices == INSTANCE Consent
Tiers == INSTANCE Content
Gate == INSTANCE Kyc
Fx == INSTANCE Oracle

privacy == <<objects, customers, transactions, pc, task, audit, lost, churned, export>>
consent == <<notices, consents, accepting, asks, moved>>
creators == <<tierContentKeys, creatorContents, passes, held, rotatedPast, shown>>
kyc == <<enabled, standing, reviews, cache, verifying, found, order, evictions,
         gate, trail, newest, blame, verdict>>
fx == <<now, calls, lastKnown, answers, began, known, overlap, last>>
vars == <<part, privacy, consent, creators, kyc, fx>>

Init ==
    /\ part \in {"privacy", "consent", "creators", "kyc", "fx"}
    /\ People!Init /\ Notices!Init /\ Tiers!Init /\ Fx!Init
    /\ Gate!Init /\ (part = "kyc" \/ enabled)

Only(p) == part = p /\ UNCHANGED part

Next ==
    \/ Only("privacy") /\ People!Next /\ UNCHANGED <<consent, creators, kyc, fx>>
    \/ Only("consent") /\ Notices!Next /\ UNCHANGED <<privacy, creators, kyc, fx>>
    \/ Only("creators") /\ Tiers!Next /\ UNCHANGED <<privacy, consent, kyc, fx>>
    \/ Only("kyc") /\ Gate!Next /\ UNCHANGED <<privacy, consent, creators, fx>>
    \/ Only("fx") /\ Fx!Next /\ UNCHANGED <<privacy, consent, creators, kyc>>

Spec == Init /\ [][Next]_vars

(* The services' properties, as their modules state them. *)

\* Every erased field has an audited erasure behind it (privacy routes).
ErasureIsAudited == People!ErasureIsAudited

\* An export is right when it is sent, or something overlapped it.
ExportHasCause == People!ExportHasCause

\* A wrong requires_re_consent is explained by what happened meanwhile.
ConsentReplyHasCause == Notices!ConsentReplyHasCause

\* Rotation never leaves a stored content without its key.
ContentStaysReadable == Tiers!ContentStaysReadable

\* A verdict of the KYC gate is the provider's newest answer, or has a reason.
GateHasCause == Gate!GateHasCause

\* The FX rate stays within its honest majority, and ages only by overlap.
ServedRateHasCause == Fx!ServedRateHasCause

\* Accounts are interchangeable, and so are privacy requests.
MCSymmetry == Permutations(Account) \cup Permutations(Request)
===============================================================================
