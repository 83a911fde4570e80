------------------------------ MODULE Remittance ------------------------------
(***************************************************************************)
(* RemittanceContract, src/contract.rs with src/escrow.rs, src/oracle.rs   *)
(* and src/migration.rs: one action per entry point that changes the       *)
(* contract's instance storage.  A Soroban invocation is atomic and an Err *)
(* rolls it back, so an action is a call that returns Ok and a call that   *)
(* fails is no step.  require_auth is the choice of who makes the call.    *)
(***************************************************************************)
EXTENDS Integers, Sequences, FiniteSets

CONSTANTS
    Signer,             \* accounts that act as admin, governance signer, arbiter
    Sender,             \* accounts that deposit
    Agent,              \* off-ramp agents
    Oracle,             \* accounts that attest deliveries
    Evidence,           \* evidence hashes of disputes
    None,               \* an absent value
    SignerVecs,         \* the Vec<Address> arguments that calls are made with
    Thresholds,         \* the threshold arguments
    Amounts,            \* the amounts deposits are made with
    Splits,             \* the sender's part in ResolutionDecision::Split
    Minutes,            \* the timeout_minutes arguments
    Heights,            \* ledger sequence numbers at which calls are made
    MinAmount,          \* MIN_AMOUNT
    MaxAmount,          \* MAX_AMOUNT
    MaxTimeoutLedgers,  \* MAX_TIMEOUT_LEDGERS
    MaxEscrows,         \* bound: deposits
    MaxClaims           \* bound: refunds paid out of one escrow

\* Amounts are positive (MIN_AMOUNT), sequence numbers are u32.
ASSUME RemittanceAssumption ==
    /\ MinAmount \in Nat \ {0} /\ MaxAmount \in Nat
    /\ MaxTimeoutLedgers \in Nat /\ MaxEscrows \in Nat /\ MaxClaims \in Nat
    /\ Amounts \subseteq Int /\ Splits \subseteq Int
    /\ Minutes \subseteq Nat /\ Heights \subseteq Nat /\ Thresholds \subseteq Nat
    /\ SignerVecs \subseteq Seq(Signer)
    /\ None \notin Signer /\ None \notin Oracle /\ None \notin Evidence

\* The longest timeout a deposit may ask for: seven days.
MaxMinutes == 10080

EscrowId == 1..MaxEscrows

EscrowState ==
    {"Locked", "Released", "Refundable", "Refunded", "Disputed"}

\* The fields of escrow.rs's Escrow that some entry point reads again.
Escrow ==
    [sender: Sender, agent: Agent, amount: MinAmount..MaxAmount,
     state: EscrowState, timeoutLedger: Nat, oracle: Oracle \cup {None}]

NoEscrow == [state |-> "Absent"]

\* OracleAttestation: whom it names, with which outcome, and whether the named oracle
\* signed it.  The escrow it names is compared with nothing, nor is its nonce stored.
Attestation == [oracle: Oracle, success: BOOLEAN, signed: BOOLEAN]

ResolutionDecision ==
    [kind: {"Sender", "Agent"}] \cup [kind: {"Split"}, amount: Splits]

VARIABLES
    height,             \* env.ledger().sequence()
    admin,              \* info.admin, None until initialize
    paused,             \* info.paused
    oracles,            \* info.oracle_operators
    version,            \* info.version
    schema,             \* schema_version
    counter,            \* escrow_counter
    escrows,            \* escrows
    disputes,           \* disputes: the evidence hash, None when there is none
    arbiters,           \* arbiters
    arbiterThreshold,   \* arbiter_threshold, 0 when the key is absent
    adminSigners,       \* admin_signers
    adminThreshold,     \* admin_threshold, 0 when both keys are absent
    paidSender,         \* USDC transferred to the escrow's sender
    paidAgent           \* USDC transferred to the escrow's agent

infoVars == <<admin, paused, oracles, version, schema>>
governanceVars == <<arbiters, arbiterThreshold, adminSigners, adminThreshold>>
escrowVars == <<counter, escrows, disputes, paidSender, paidAgent>>
vars == <<height, infoVars, governanceVars, escrowVars>>

Init ==
    /\ height \in Heights
    /\ admin = None /\ paused = FALSE /\ oracles = {} /\ version = 0 /\ schema = 0
    /\ counter = 0
    /\ escrows = [id \in EscrowId |-> NoEscrow]
    /\ disputes = [id \in EscrowId |-> None]
    /\ arbiters = {} /\ arbiterThreshold = 0
    /\ adminSigners = {} /\ adminThreshold = 0
    /\ paidSender = [id \in EscrowId |-> 0]
    /\ paidAgent = [id \in EscrowId |-> 0]

-------------------------------------------------------------------------------
\* Helpers of the entry points.

Initialized == admin # None                                    \* load_info

Exists(id) == escrows[id].state # "Absent"

TimedOut(e) == height >= e.timeoutLedger

Elements(vec) == {vec[i] : i \in 1..Len(vec)}

AnyVec(vec) == TRUE                                            \* mutant

\* The `unique` map of validate_signer_set and require_registered_approvals.
NoDuplicates(vec) == \A i, j \in 1..Len(vec) : i # j => vec[i] # vec[j]

ValidSignerSet(signers, threshold) ==
    /\ threshold # 0
    /\ Len(signers) >= threshold
    /\ NoDuplicates(signers)

RegisteredApprovals(approvals, registry, threshold) ==
    /\ threshold # 0
    /\ Len(approvals) >= threshold
    /\ NoDuplicates(approvals)
    /\ Elements(approvals) \subseteq registry

\* require_admin_approval by some vector of approvals, every one of them signed.
AdminApproval ==
    \E approvals \in SignerVecs :
        RegisteredApprovals(approvals, adminSigners, adminThreshold)

AnyAttester(o) == TRUE                                         \* mutant

IsOracle(o) == o \in oracles

\* OracleAttestation::verify_signature: the message is built and never checked.
VerifySignature(att) == TRUE

SenderShare(e, decision) ==
    CASE decision.kind = "Sender" -> e.amount
      [] decision.kind = "Agent" -> 0
      [] decision.kind = "Split" -> decision.amount

AnyShare(e, share) == TRUE                                     \* mutant
ValidShare(e, share) == share \in 0..e.amount

\* Transitions of escrow.rs.  Ledgers and timestamps of the transition, written
\* for auditors and never read by the contract, are left out.
MarkReleasedLate(e, o) == [e EXCEPT !.oracle = o]              \* mutant
MarkReleased(e, o) == [e EXCEPT !.state = "Released", !.oracle = o]
MarkRefundable(e) == [e EXCEPT !.state = "Refundable"]
MarkRefunded(e) == [e EXCEPT !.state = "Refunded"]
MarkDisputed(e) == [e EXCEPT !.state = "Disputed"]

\* The states in which an entry point accepts an escrow.
ReleasableEver(e) == TRUE                                      \* mutant
Releasable(e) == e.state = "Locked"
DisputableAnytime(e) == ~TimedOut(e)                           \* mutant
Disputable(e) == e.state = "Locked" /\ ~TimedOut(e)
Claimed(e) == TimedOut(e) \/ e.state \in {"Refundable", "Refunded"}  \* mutant
Claimable(e) == TimedOut(e) \/ e.state = "Refundable"

-------------------------------------------------------------------------------
\* Entry points on escrows.

Initialize(a) ==
    /\ ~Initialized
    /\ admin' = a
    /\ paused' = FALSE /\ oracles' = {}
    /\ version' = 1 /\ schema' = 1
    /\ UNCHANGED <<height, governanceVars, escrowVars>>

DepositEscrow(sender, agent, amount, minutes) ==
    LET timeoutLedger == height + (minutes * 60) \div 4
        id == counter + 1
    IN  /\ Initialized /\ ~paused
        /\ amount \in MinAmount..MaxAmount
        /\ minutes \in 1..MaxMinutes
        /\ timeoutLedger <= MaxTimeoutLedgers
        /\ counter < MaxEscrows
        /\ counter' = id
        /\ escrows' = [escrows EXCEPT ![id] =
              [sender |-> sender, agent |-> agent, amount |-> amount,
               state |-> "Locked", timeoutLedger |-> timeoutLedger,
               oracle |-> None]]
        /\ UNCHANGED <<height, infoVars, governanceVars, disputes, paidSender, paidAgent>>

\* release_to_agent with an attestation of success: the agent is paid.  Anyone
\* may call it, and the attestation's escrow is not compared with the argument.
ReleaseToAgent(att, id) ==
    LET e == escrows[id]
    IN  /\ Initialized /\ IsOracle(att.oracle)
        /\ Exists(id) /\ Releasable(e)
        /\ VerifySignature(att) /\ att.success
        /\ paidAgent' = [paidAgent EXCEPT ![id] = @ + e.amount]
        /\ escrows' = [escrows EXCEPT ![id] = MarkReleased(e, att.oracle)]
        /\ UNCHANGED <<height, infoVars, governanceVars, counter, disputes, paidSender>>

\* release_to_agent with an attestation of failure: nothing moves.
ReportDeliveryFailure(att, id) ==
    LET e == escrows[id]
    IN  /\ Initialized /\ IsOracle(att.oracle)
        /\ Exists(id) /\ Releasable(e)
        /\ VerifySignature(att) /\ ~att.success
        /\ escrows' = [escrows EXCEPT ![id] = MarkRefundable(e)]
        /\ UNCHANGED <<height, infoVars, governanceVars, counter, disputes,
                       paidSender, paidAgent>>

\* The state is looked at only before the timeout: a call at or after it pays.
\* mark_refundable and refund follow each other in the call, so Refunded it is.
ClaimRefund(caller, id) ==
    LET e == escrows[id]
    IN  /\ Exists(id) /\ caller = e.sender
        /\ Claimable(e)
        /\ paidSender[id] < MaxClaims * e.amount
        /\ paidSender' = [paidSender EXCEPT ![id] = @ + e.amount]
        /\ escrows' = [escrows EXCEPT ![id] = MarkRefunded(e)]
        /\ UNCHANGED <<height, infoVars, governanceVars, counter, disputes, paidAgent>>

RaiseDispute(caller, id, evidence) ==
    LET e == escrows[id]
    IN  /\ Exists(id) /\ caller = e.sender
        /\ Disputable(e)
        /\ escrows' = [escrows EXCEPT ![id] = MarkDisputed(e)]
        /\ disputes' = [disputes EXCEPT ![id] = evidence]
        /\ UNCHANGED <<height, infoVars, governanceVars, counter, paidSender, paidAgent>>

ResolveDispute(id, approvals, decision) ==
    LET e == escrows[id]
        share == SenderShare(e, decision)
    IN  /\ RegisteredApprovals(approvals, arbiters, arbiterThreshold)
        /\ Exists(id) /\ e.state = "Disputed"
        /\ ValidShare(e, share)
        /\ paidSender' = [paidSender EXCEPT ![id] = @ + share]
        /\ paidAgent' = [paidAgent EXCEPT ![id] = @ + (e.amount - share)]
        /\ escrows' = [escrows EXCEPT ![id].state =
              IF share = e.amount THEN "Refunded" ELSE "Released"]
        /\ UNCHANGED <<height, infoVars, governanceVars, counter, disputes>>

-------------------------------------------------------------------------------
\* Entry points of the admin and of governance.

RegisterOracle(caller, o) ==
    /\ Initialized /\ caller = admin
    /\ oracles' = oracles \cup {o}
    /\ UNCHANGED <<height, admin, paused, version, schema, governanceVars, escrowVars>>

SetPaused(caller, value) ==
    /\ Initialized /\ caller = admin
    /\ paused' = value
    /\ UNCHANGED <<height, admin, oracles, version, schema, governanceVars, escrowVars>>

\* store_admin_multisig
StoreAdminMultisig(signers, threshold) ==
    /\ adminSigners' = Elements(signers)
    /\ adminThreshold' = threshold
    /\ UNCHANGED <<height, infoVars, arbiters, arbiterThreshold, escrowVars>>

ConfigureAdminMultisig(caller, signers, threshold) ==
    /\ Initialized
    /\ adminThreshold = 0                   \* no KEY_ADMIN_SIGNERS yet
    /\ caller = admin
    /\ ValidSignerSet(signers, threshold)
    /\ StoreAdminMultisig(signers, threshold)

RotateAdminMultisig(signers, threshold) ==
    /\ Initialized /\ AdminApproval
    /\ ValidSignerSet(signers, threshold)
    /\ StoreAdminMultisig(signers, threshold)

RegisterArbiter(a) ==
    /\ Initialized /\ AdminApproval
    /\ arbiters' = arbiters \cup {a}
    /\ UNCHANGED <<height, infoVars, arbiterThreshold, adminSigners, adminThreshold,
                   escrowVars>>

RemoveArbiter(a) ==
    /\ Initialized /\ AdminApproval
    /\ arbiterThreshold <= Cardinality(arbiters \ {a})
    /\ arbiters' = arbiters \ {a}
    /\ UNCHANGED <<height, infoVars, arbiterThreshold, adminSigners, adminThreshold,
                   escrowVars>>

SetArbiterThreshold(threshold) ==
    /\ Initialized /\ AdminApproval
    /\ threshold \in 1..Cardinality(arbiters)
    /\ arbiterThreshold' = threshold
    /\ UNCHANGED <<height, infoVars, arbiters, adminSigners, adminThreshold, escrowVars>>

\* migrate: the one pending step, V1 to V2; at the target it is a no-op.
Migrate(caller) ==
    /\ Initialized /\ caller = admin
    /\ schema = 1
    /\ version' = 2 /\ schema' = 2
    /\ UNCHANGED <<height, admin, paused, oracles, governanceVars, escrowVars>>

\* Ledgers close between calls.
CloseLedgers ==
    /\ \E h \in Heights : h > height /\ height' = h
    /\ UNCHANGED <<infoVars, governanceVars, escrowVars>>

EscrowStep(id) ==
    \/ \E att \in Attestation : ReleaseToAgent(att, id) \/ ReportDeliveryFailure(att, id)
    \/ \E s \in Sender :
          \/ ClaimRefund(s, id)
          \/ \E evidence \in Evidence : RaiseDispute(s, id, evidence)
    \/ \E approvals \in SignerVecs, decision \in ResolutionDecision :
          ResolveDispute(id, approvals, decision)

AdminStep(a) ==
    \/ Initialize(a)
    \/ \E o \in Oracle : RegisterOracle(a, o)
    \/ \E value \in BOOLEAN : SetPaused(a, value)
    \/ Migrate(a)
    \/ \E signers \in SignerVecs, threshold \in Thresholds :
          ConfigureAdminMultisig(a, signers, threshold)

GovernanceStep ==
    \/ \E signers \in SignerVecs, threshold \in Thresholds :
          RotateAdminMultisig(signers, threshold)
    \/ \E a \in Signer : RegisterArbiter(a) \/ RemoveArbiter(a)
    \/ \E threshold \in Thresholds : SetArbiterThreshold(threshold)

Next ==
    \/ CloseLedgers
    \/ \E sender \in Sender, agent \in Agent, amount \in Amounts, minutes \in Minutes :
          DepositEscrow(sender, agent, amount, minutes)
    \/ \E id \in EscrowId : EscrowStep(id)
    \/ \E a \in Signer : AdminStep(a)
    \/ GovernanceStep

Spec == Init /\ [][Next]_vars

-------------------------------------------------------------------------------
\* Properties.

InfoTypeOK ==
    /\ height \in Heights
    /\ admin \in Signer \cup {None} /\ paused \in BOOLEAN /\ oracles \in SUBSET Oracle
    /\ version \in 0..2 /\ schema \in 0..2

GovernanceTypeOK ==
    /\ arbiters \in SUBSET Signer /\ IsFiniteSet(arbiters) /\ arbiterThreshold \in Nat
    /\ adminSigners \in SUBSET Signer /\ IsFiniteSet(adminSigners) /\ adminThreshold \in Nat

EscrowTypeOK ==
    /\ counter \in 0..MaxEscrows
    /\ escrows \in [EscrowId -> Escrow \cup {NoEscrow}]
    /\ \A id \in EscrowId : Exists(id) <=> id <= counter
    /\ disputes \in [EscrowId -> Evidence \cup {None}]
    /\ paidSender \in [EscrowId -> Nat] /\ paidAgent \in [EscrowId -> Nat]

TypeOK == InfoTypeOK /\ GovernanceTypeOK /\ EscrowTypeOK

\* Governance cannot lock itself out: whatever is configured, rotated, registered
\* or removed, enough distinct accounts stay registered to reach the threshold,
\* for the admin signers and for the arbiters.
ThresholdsSatisfiable ==
    /\ adminThreshold <= Cardinality(adminSigners)
    /\ arbiterThreshold <= Cardinality(arbiters)

\* The money agrees with the state: an open escrow has paid nothing, a released
\* one exactly its amount, a refunded one at least its amount and, before its
\* timeout, exactly that; and the agent never receives more than the amount.
FundsMatch(id) ==
    LET e == escrows[id]
        paid == paidSender[id] + paidAgent[id]
    IN  /\ e.state \in {"Locked", "Refundable", "Disputed"} => paid = 0
        /\ e.state = "Released" => paid = e.amount
        /\ e.state = "Refunded" => paid >= e.amount
        /\ e.state = "Refunded" /\ ~TimedOut(e) => paid = e.amount
        /\ paidAgent[id] <= e.amount

FundsMatchState == \A id \in EscrowId : Exists(id) => FundsMatch(id)

\* The separate disputes map and the escrow agree: a disputed escrow has its
\* evidence on record, and one with a record never becomes Locked or Refundable
\* again, where an oracle could release it or a second dispute be raised.
DisputesAgree ==
    \A id \in EscrowId :
        /\ escrows[id].state = "Disputed" => disputes[id] # None
        /\ disputes[id] # None => escrows[id].state \in {"Disputed", "Released", "Refunded"}

\* An escrow released without a dispute names an oracle that the admin registered.
\* Whether that oracle signed the attestation is another matter: see VerifySignature.
ReleasedByRegisteredOracle ==
    \A id \in EscrowId :
        escrows[id].state = "Released" /\ disputes[id] = None => escrows[id].oracle \in oracles

\* `Immutable metadata captured when a dispute is raised` (contract.rs): a record
\* is never overwritten or removed, by any sequence of calls.
EvidenceImmutable ==
    [][\A id \in EscrowId : disputes[id] # None => disputes'[id] = disputes[id]]_vars

Deposited == [id \in EscrowId |-> IF Exists(id) THEN escrows[id].amount ELSE 0]
Overdue == {id \in EscrowId : Exists(id) /\ TimedOut(escrows[id])}

Custodian == INSTANCE Custody WITH
    Id <- EscrowId, Amount <- MinAmount..MaxAmount,
    amount <- Deposited, toSender <- paidSender, toAgent <- paidAgent, overdue <- Overdue

\* The contract implements the custody of funds in Custody.tla: every call is a
\* deposit, one full settlement, a late claim, or leaves the money alone.
CustodyRefined == Custodian!Spec

\* docs/contract-design.md on claim_refund: `InvalidEscrowState - Escrow not in
\* Locked or Refundable state`.  The code asks for it only before the timeout.
RefundsOnlyOpenEscrows ==
    [][\A id \in EscrowId, s \in Sender :
          ClaimRefund(s, id) => escrows[id].state \in {"Locked", "Refundable"}]_vars
===============================================================================
