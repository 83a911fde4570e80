--------------------------- MODULE RemittanceProofs ---------------------------
(***************************************************************************)
(* Proofs about Remittance for every set of accounts, argument vectors,    *)
(* amounts, heights and bounds.  The inductive invariant IInv is type      *)
(* correctness, the four safety invariants, and two facts they rest on: no *)
(* deposit precedes initialize, which resets the oracles, and an id that   *)
(* was never handed out has seen no payment and no dispute.                *)
(***************************************************************************)
EXTENDS Remittance, FiniteSetTheorems, FunctionTheorems, TLAPS

NothingBeforeInitialize == ~Initialized => counter = 0

\* Ids that were never handed out have seen no payment and no dispute.
UnusedIsUntouched ==
    \A id \in EscrowId : ~Exists(id) =>
        paidSender[id] = 0 /\ paidAgent[id] = 0 /\ disputes[id] = None

IInv ==
    /\ TypeOK
    /\ NothingBeforeInitialize
    /\ UnusedIsUntouched
    /\ ThresholdsSatisfiable
    /\ FundsMatchState
    /\ DisputesAgree
    /\ ReleasedByRegisteredOracle

-------------------------------------------------------------------------------
\* Facts about the data.

\* A vector without duplicates lists as many accounts as it has entries: what
\* makes validate_signer_set's comparison of len() with the threshold sound.
LEMMA DistinctElements ==
    ASSUME NEW vec \in Seq(Signer), NoDuplicates(vec)
    PROVE  /\ Elements(vec) \in SUBSET Signer
           /\ IsFiniteSet(Elements(vec))
           /\ Cardinality(Elements(vec)) = Len(vec)
<1> DEFINE S == 1..Len(vec)
           T == Elements(vec)
<1>1. vec \in [S -> Signer] /\ Len(vec) \in Nat
  OBVIOUS
<1>2. T \in SUBSET Signer
  BY <1>1 DEF Elements
<1>3. vec \in [S -> T]
  BY <1>1 DEF Elements
<1>4. vec \in Injection(S, T)
  BY <1>3, Fun_IsInj DEF NoDuplicates
<1>5. vec \in Surjection(S, T)
  BY <1>3, Fun_IsSurj DEF Elements
<1>6. ExistsBijection(S, T)
  BY <1>4, <1>5 DEF ExistsBijection, Bijection
<1>7. IsFiniteSet(T) /\ Cardinality(T) = Len(vec)
  BY <1>1, <1>6, FS_NatBijection, FS_CountingElements
<1>8. QED
  BY <1>2, <1>7

\* Releasing an escrow keeps its parties, amount and timeout.
LEMMA Transitions ==
    ASSUME NEW e \in Escrow, NEW o \in Oracle
    PROVE  /\ MarkReleased(e, o) \in Escrow
           /\ MarkReleased(e, o).state = "Released" /\ MarkReleased(e, o).oracle = o
           /\ MarkReleased(e, o).amount = e.amount
           /\ MarkReleased(e, o).timeoutLedger = e.timeoutLedger
<1> DEFINE g == [e EXCEPT !.state = "Released"]
<1>1. /\ g \in Escrow /\ g.state = "Released"
      /\ g.amount = e.amount /\ g.timeoutLedger = e.timeoutLedger
  BY DEF Escrow, EscrowState
<1>2. MarkReleased(e, o) = [g EXCEPT !.oracle = o]
  BY DEF MarkReleased
<1> HIDE DEF g
<1>3. QED
  BY <1>1, <1>2 DEF Escrow

LEMMA AbsentIsNoEscrow ==
    /\ NoEscrow.state = "Absent"
    /\ \A e \in Escrow \cup {NoEscrow} : e.state # "Absent" => e \in Escrow
    /\ \A e \in Escrow : e.state \in EscrowState /\ e.state # "Absent"
                         /\ e.amount \in Nat \ {0} /\ e.timeoutLedger \in Nat
BY RemittanceAssumption DEF NoEscrow, Escrow, EscrowState

-------------------------------------------------------------------------------
\* What the three groups of calls leave alone.

LEMMA Frames ==
    /\ \A a \in Signer : AdminStep(a) => UNCHANGED <<height, escrowVars>>
    /\ GovernanceStep => UNCHANGED <<height, infoVars, escrowVars>>
    /\ \A id \in EscrowId :
          EscrowStep(id) => UNCHANGED <<height, infoVars, governanceVars, counter>>
<1>1. ASSUME NEW a \in Signer, AdminStep(a)
      PROVE  UNCHANGED <<height, escrowVars>>
  BY <1>1 DEF AdminStep, Initialize, RegisterOracle, SetPaused, Migrate,
              ConfigureAdminMultisig, StoreAdminMultisig, escrowVars
<1>2. ASSUME GovernanceStep
      PROVE  UNCHANGED <<height, infoVars, escrowVars>>
  BY <1>2 DEF GovernanceStep, RotateAdminMultisig, StoreAdminMultisig, RegisterArbiter,
              RemoveArbiter, SetArbiterThreshold, escrowVars, infoVars
<1>3. ASSUME NEW id \in EscrowId, EscrowStep(id)
      PROVE  UNCHANGED <<height, infoVars, governanceVars, counter>>
  BY <1>3 DEF EscrowStep, ReleaseToAgent, ReportDeliveryFailure, ClaimRefund,
              RaiseDispute, ResolveDispute, infoVars, governanceVars
<1>4. QED
  BY <1>1, <1>2, <1>3

\* What every step on an escrow does: it moves an existing escrow to another
\* state, keeping its amount and timeout, and pays shares of the amount.
Moves(id, st, o, toSender, toAgent) ==
    /\ escrows[id] \in Escrow /\ escrows'[id] \in Escrow
    /\ escrows'[id].state = st
    /\ escrows'[id].oracle = o
    /\ escrows'[id].amount = escrows[id].amount
    /\ escrows'[id].timeoutLedger = escrows[id].timeoutLedger
    /\ paidSender'[id] = paidSender[id] + toSender
    /\ paidAgent'[id] = paidAgent[id] + toAgent

\* It touches no other escrow.
LeavesOthers(id) ==
    /\ escrows' \in [EscrowId -> Escrow \cup {NoEscrow}]
    /\ paidSender' \in [EscrowId -> Nat] /\ paidAgent' \in [EscrowId -> Nat]
    /\ \A j \in EscrowId \ {id} :
          /\ escrows'[j] = escrows[j]
          /\ paidSender'[j] = paidSender[j] /\ paidAgent'[j] = paidAgent[j]

LEMMA UpdateMoves ==
    ASSUME EscrowTypeOK, NEW id \in EscrowId, NEW f \in Escrow,
           NEW toSender \in Nat, NEW toAgent \in Nat,
           escrows[id] \in Escrow,
           f.amount = escrows[id].amount, f.timeoutLedger = escrows[id].timeoutLedger,
           escrows' = [escrows EXCEPT ![id] = f],
           paidSender' = [paidSender EXCEPT ![id] = @ + toSender],
           paidAgent' = [paidAgent EXCEPT ![id] = @ + toAgent]
    PROVE  Moves(id, f.state, f.oracle, toSender, toAgent) /\ LeavesOthers(id)
<1>1. escrows' \in [EscrowId -> Escrow \cup {NoEscrow}] /\ escrows'[id] = f
  BY DEF EscrowTypeOK
<1>2. paidSender' \in [EscrowId -> Nat] /\ paidSender'[id] = paidSender[id] + toSender
  BY DEF EscrowTypeOK
<1>3. paidAgent' \in [EscrowId -> Nat] /\ paidAgent'[id] = paidAgent[id] + toAgent
  BY DEF EscrowTypeOK
<1>4. Moves(id, f.state, f.oracle, toSender, toAgent)
  BY <1>1, <1>2, <1>3 DEF Moves
<1>5. \A j \in EscrowId \ {id} :
         /\ escrows'[j] = escrows[j]
         /\ paidSender'[j] = paidSender[j] /\ paidAgent'[j] = paidAgent[j]
  BY DEF EscrowTypeOK
<1>6. QED
  BY <1>1, <1>2, <1>3, <1>4, <1>5 DEF LeavesOthers

\* Paying nothing is paying a share of zero.
LEMMA PaysNothing ==
    ASSUME EscrowTypeOK, NEW id \in EscrowId
    PROVE  /\ paidSender = [paidSender EXCEPT ![id] = @ + 0]
           /\ paidAgent = [paidAgent EXCEPT ![id] = @ + 0]
BY DEF EscrowTypeOK

LEMMA ExistingIsEscrow ==
    ASSUME EscrowTypeOK, NEW id \in EscrowId, Exists(id)
    PROVE  escrows[id] \in Escrow /\ escrows[id].amount \in Nat
BY AbsentIsNoEscrow DEF EscrowTypeOK, Exists

LEMMA ReleaseMoves ==
    ASSUME EscrowTypeOK, NEW id \in EscrowId, NEW att \in Attestation, ReleaseToAgent(att, id)
    PROVE  /\ escrows[id].state = "Locked" /\ att.oracle \in oracles /\ disputes' = disputes
           /\ Moves(id, "Released", att.oracle, 0, escrows[id].amount)
           /\ LeavesOthers(id)
<1> DEFINE f == MarkReleased(escrows[id], att.oracle)
<1>1. /\ Exists(id) /\ escrows[id].state = "Locked" /\ att.oracle \in oracles
      /\ disputes' = disputes /\ paidSender' = paidSender
      /\ paidAgent' = [paidAgent EXCEPT ![id] = @ + escrows[id].amount]
      /\ escrows' = [escrows EXCEPT ![id] = f]
  BY DEF ReleaseToAgent, Releasable, IsOracle
<1>2. escrows[id] \in Escrow /\ escrows[id].amount \in Nat /\ att.oracle \in Oracle
  BY <1>1, ExistingIsEscrow DEF Attestation
<1>3. /\ f \in Escrow /\ f.state = "Released" /\ f.oracle = att.oracle
      /\ f.amount = escrows[id].amount /\ f.timeoutLedger = escrows[id].timeoutLedger
  BY <1>2, Transitions DEF EscrowState
<1> HIDE DEF f
<1>4. Moves(id, f.state, f.oracle, 0, escrows[id].amount) /\ LeavesOthers(id)
  BY <1>1, <1>2, <1>3, PaysNothing, UpdateMoves
<1>5. QED
  BY <1>1, <1>3, <1>4

LEMMA FailureMoves ==
    ASSUME EscrowTypeOK, NEW id \in EscrowId, NEW att \in Attestation, ReportDeliveryFailure(att, id)
    PROVE  /\ escrows[id].state = "Locked" /\ disputes' = disputes
           /\ Moves(id, "Refundable", escrows[id].oracle, 0, 0)
           /\ LeavesOthers(id)
<1> DEFINE f == [escrows[id] EXCEPT !.state = "Refundable"]
<1>1. /\ Exists(id) /\ escrows[id].state = "Locked"
      /\ disputes' = disputes /\ paidSender' = paidSender /\ paidAgent' = paidAgent
      /\ escrows' = [escrows EXCEPT ![id] = f]
  BY DEF ReportDeliveryFailure, Releasable, MarkRefundable
<1>2. escrows[id] \in Escrow
  BY <1>1, ExistingIsEscrow
<1>3. /\ f \in Escrow /\ f.state = "Refundable" /\ f.oracle = escrows[id].oracle
      /\ f.amount = escrows[id].amount /\ f.timeoutLedger = escrows[id].timeoutLedger
  BY <1>2 DEF Escrow, EscrowState
<1> HIDE DEF f
<1>4. Moves(id, f.state, f.oracle, 0, 0) /\ LeavesOthers(id)
  BY <1>1, <1>2, <1>3, PaysNothing, UpdateMoves
<1>5. QED
  BY <1>1, <1>3, <1>4

LEMMA ClaimMoves ==
    ASSUME EscrowTypeOK, NEW id \in EscrowId, NEW s \in Sender, ClaimRefund(s, id)
    PROVE  /\ escrows[id].state # "Refundable" => TimedOut(escrows[id])
           /\ disputes' = disputes
           /\ Moves(id, "Refunded", escrows[id].oracle, escrows[id].amount, 0)
           /\ LeavesOthers(id)
<1> DEFINE f == [escrows[id] EXCEPT !.state = "Refunded"]
<1>1. /\ Exists(id) /\ (escrows[id].state # "Refundable" => TimedOut(escrows[id]))
      /\ disputes' = disputes /\ paidAgent' = paidAgent
      /\ paidSender' = [paidSender EXCEPT ![id] = @ + escrows[id].amount]
      /\ escrows' = [escrows EXCEPT ![id] = f]
  BY DEF ClaimRefund, Claimable, MarkRefunded
<1>2. escrows[id] \in Escrow /\ escrows[id].amount \in Nat
  BY <1>1, ExistingIsEscrow
<1>3. /\ f \in Escrow /\ f.state = "Refunded" /\ f.oracle = escrows[id].oracle
      /\ f.amount = escrows[id].amount /\ f.timeoutLedger = escrows[id].timeoutLedger
  BY <1>2 DEF Escrow, EscrowState
<1> HIDE DEF f
<1>4. Moves(id, f.state, f.oracle, escrows[id].amount, 0) /\ LeavesOthers(id)
  BY <1>1, <1>2, <1>3, PaysNothing, UpdateMoves
<1>5. QED
  BY <1>1, <1>3, <1>4

LEMMA RaiseMoves ==
    ASSUME EscrowTypeOK, NEW id \in EscrowId, NEW s \in Sender, NEW evidence \in Evidence,
           RaiseDispute(s, id, evidence)
    PROVE  /\ escrows[id].state = "Locked"
           /\ disputes' = [disputes EXCEPT ![id] = evidence]
           /\ Moves(id, "Disputed", escrows[id].oracle, 0, 0)
           /\ LeavesOthers(id)
<1> DEFINE f == [escrows[id] EXCEPT !.state = "Disputed"]
<1>1. /\ Exists(id) /\ escrows[id].state = "Locked"
      /\ disputes' = [disputes EXCEPT ![id] = evidence]
      /\ paidSender' = paidSender /\ paidAgent' = paidAgent
      /\ escrows' = [escrows EXCEPT ![id] = f]
  BY DEF RaiseDispute, Disputable, MarkDisputed
<1>2. escrows[id] \in Escrow
  BY <1>1, ExistingIsEscrow
<1>3. /\ f \in Escrow /\ f.state = "Disputed" /\ f.oracle = escrows[id].oracle
      /\ f.amount = escrows[id].amount /\ f.timeoutLedger = escrows[id].timeoutLedger
  BY <1>2 DEF Escrow, EscrowState
<1> HIDE DEF f
<1>4. Moves(id, f.state, f.oracle, 0, 0) /\ LeavesOthers(id)
  BY <1>1, <1>2, <1>3, PaysNothing, UpdateMoves
<1>5. QED
  BY <1>1, <1>3, <1>4

LEMMA ResolveMoves ==
    ASSUME EscrowTypeOK, NEW id \in EscrowId, NEW approvals \in SignerVecs,
           NEW decision \in ResolutionDecision, ResolveDispute(id, approvals, decision)
    PROVE  /\ escrows[id].state = "Disputed" /\ disputes' = disputes
           /\ LeavesOthers(id)
           /\ \E share \in 0..escrows[id].amount :
                 Moves(id, IF share = escrows[id].amount THEN "Refunded" ELSE "Released",
                       escrows[id].oracle, share, escrows[id].amount - share)
<1> DEFINE share == SenderShare(escrows[id], decision)
           st == IF share = escrows[id].amount THEN "Refunded" ELSE "Released"
           f == [escrows[id] EXCEPT !.state = st]
<1>1. /\ Exists(id) /\ escrows[id].state = "Disputed" /\ disputes' = disputes
      /\ share \in 0..escrows[id].amount
      /\ paidSender' = [paidSender EXCEPT ![id] = @ + share]
      /\ paidAgent' = [paidAgent EXCEPT ![id] = @ + (escrows[id].amount - share)]
      /\ escrows' = [escrows EXCEPT ![id] = f]
  BY DEF ResolveDispute, ValidShare
<1> HIDE DEF share
<1>2. escrows[id] \in Escrow /\ escrows[id].amount \in Nat
  BY <1>1, ExistingIsEscrow
<1>3. st \in EscrowState
  BY DEF EscrowState
<1>4. share \in Nat /\ escrows[id].amount - share \in Nat
  BY <1>1, <1>2
<1> HIDE DEF st
<1>5. /\ f \in Escrow /\ f.state = st /\ f.oracle = escrows[id].oracle
      /\ f.amount = escrows[id].amount /\ f.timeoutLedger = escrows[id].timeoutLedger
  BY <1>2, <1>3 DEF Escrow
<1> HIDE DEF f
<1>6. Moves(id, f.state, f.oracle, share, escrows[id].amount - share) /\ LeavesOthers(id)
  BY <1>1, <1>2, <1>4, <1>5, UpdateMoves
<1> USE DEF st
<1>7. QED
  BY <1>1, <1>5, <1>6

\* A deposit stores a locked escrow under the next id.
LEMMA DepositStores ==
    ASSUME EscrowTypeOK, InfoTypeOK, NEW sender \in Sender, NEW agent \in Agent,
           NEW amount \in Amounts, NEW minutes \in Minutes,
           DepositEscrow(sender, agent, amount, minutes)
    PROVE  /\ Initialized
           /\ counter + 1 \in EscrowId /\ counter' = counter + 1
           /\ escrows'[counter + 1] \in Escrow
           /\ escrows'[counter + 1].state = "Locked"
           /\ height < escrows'[counter + 1].timeoutLedger
           /\ escrows' \in [EscrowId -> Escrow \cup {NoEscrow}]
           /\ \A j \in EscrowId \ {counter + 1} : escrows'[j] = escrows[j]
           /\ UNCHANGED <<height, infoVars, governanceVars, disputes, paidSender, paidAgent>>
<1> DEFINE id == counter + 1
           t == height + (minutes * 60) \div 4
           f == [sender |-> sender, agent |-> agent, amount |-> amount,
                 state |-> "Locked", timeoutLedger |-> t, oracle |-> None]
<1>1. /\ Initialized /\ amount \in MinAmount..MaxAmount /\ minutes \in 1..MaxMinutes
      /\ counter < MaxEscrows /\ counter' = id
      /\ escrows' = [escrows EXCEPT ![id] = f]
      /\ UNCHANGED <<height, infoVars, governanceVars, disputes, paidSender, paidAgent>>
  BY DEF DepositEscrow
<1>2. id \in EscrowId
  BY <1>1, RemittanceAssumption DEF EscrowTypeOK, EscrowId
<1>3. minutes \in Nat /\ minutes >= 1 /\ height \in Nat
  BY <1>1, RemittanceAssumption DEF InfoTypeOK, MaxMinutes
<1>4. t \in Nat /\ height < t
  BY <1>3
<1>5. f \in Escrow /\ f.state = "Locked" /\ f.timeoutLedger = t
  BY <1>1, <1>4 DEF Escrow, EscrowState
<1> HIDE DEF f, t
<1>6. /\ escrows'[id] = f
      /\ escrows' \in [EscrowId -> Escrow \cup {NoEscrow}]
      /\ \A j \in EscrowId \ {id} : escrows'[j] = escrows[j]
  BY <1>1, <1>2, <1>5 DEF EscrowTypeOK
<1>7. QED
  BY <1>1, <1>2, <1>4, <1>5, <1>6

-------------------------------------------------------------------------------
\* Type correctness.

LEMMA InfoTypeStep ==
    ASSUME InfoTypeOK, [Next]_vars
    PROVE  InfoTypeOK'
<1> USE DEF InfoTypeOK
<1>1. CASE CloseLedgers
  BY <1>1 DEF CloseLedgers, infoVars
<1>2. ASSUME NEW sender \in Sender, NEW agent \in Agent, NEW amount \in Amounts,
             NEW minutes \in Minutes, DepositEscrow(sender, agent, amount, minutes)
      PROVE  InfoTypeOK'
  BY <1>2 DEF DepositEscrow, infoVars
<1>3. ASSUME NEW id \in EscrowId, EscrowStep(id)
      PROVE  InfoTypeOK'
  BY <1>3, Frames DEF infoVars
<1>4. ASSUME NEW a \in Signer, AdminStep(a)
      PROVE  InfoTypeOK'
  <2>1. CASE Initialize(a)
    <3>1. /\ height' = height /\ admin' \in Signer \cup {None}
          /\ version' \in 0..2 /\ schema' \in 0..2
      BY <2>1 DEF Initialize
    <3>2. paused' \in BOOLEAN /\ oracles' \in SUBSET Oracle
      BY <2>1, Zenon DEF Initialize
    <3>3. QED
      BY <3>1, <3>2
  <2>2. CASE \E o \in Oracle : RegisterOracle(a, o)
    BY <2>2 DEF RegisterOracle
  <2>3. CASE \E value \in BOOLEAN : SetPaused(a, value)
    BY <2>3 DEF SetPaused
  <2>4. CASE Migrate(a)
    BY <2>4 DEF Migrate
  <2>5. CASE \E signers \in SignerVecs, threshold \in Thresholds :
                ConfigureAdminMultisig(a, signers, threshold)
    BY <2>5 DEF ConfigureAdminMultisig, StoreAdminMultisig, infoVars
  <2>6. QED
    BY <1>4, <2>1, <2>2, <2>3, <2>4, <2>5 DEF AdminStep
<1>5. CASE GovernanceStep
  BY <1>5, Frames DEF infoVars
<1>6. CASE UNCHANGED vars
  BY <1>6 DEF vars, infoVars
<1>7. QED
  BY <1>1, <1>2, <1>3, <1>4, <1>5, <1>6 DEF Next

LEMMA StoreGovernance ==
    ASSUME GovernanceTypeOK, NEW signers \in SignerVecs, NEW threshold \in Thresholds,
           ValidSignerSet(signers, threshold), StoreAdminMultisig(signers, threshold)
    PROVE  GovernanceTypeOK' /\ adminThreshold' <= Cardinality(adminSigners')
<1>1. signers \in Seq(Signer) /\ threshold \in Nat
  BY RemittanceAssumption
<1>2. /\ Elements(signers) \in SUBSET Signer /\ IsFiniteSet(Elements(signers))
      /\ Cardinality(Elements(signers)) = Len(signers)
  BY <1>1, DistinctElements DEF ValidSignerSet
<1>3. QED
  BY <1>1, <1>2 DEF StoreAdminMultisig, ValidSignerSet, GovernanceTypeOK

\* Registered accounts and thresholds are well typed and, together with it, the
\* thresholds stay within reach of the registered accounts.
LEMMA GovernanceStepInv ==
    ASSUME GovernanceTypeOK, ThresholdsSatisfiable, [Next]_vars
    PROVE  GovernanceTypeOK' /\ ThresholdsSatisfiable'
<1> DEFINE Inv == GovernanceTypeOK /\ ThresholdsSatisfiable
<1>1. ASSUME UNCHANGED governanceVars
      PROVE  Inv'
  BY <1>1 DEF governanceVars, GovernanceTypeOK, ThresholdsSatisfiable
<1>2. CASE CloseLedgers
  BY <1>1, <1>2 DEF CloseLedgers
<1>3. ASSUME NEW sender \in Sender, NEW agent \in Agent, NEW amount \in Amounts,
             NEW minutes \in Minutes, DepositEscrow(sender, agent, amount, minutes)
      PROVE  Inv'
  BY <1>1, <1>3 DEF DepositEscrow
<1>4. ASSUME NEW id \in EscrowId, EscrowStep(id)
      PROVE  Inv'
  BY <1>1, <1>4, Frames
<1>5. ASSUME NEW a \in Signer, AdminStep(a)
      PROVE  Inv'
  <2>1. ASSUME NEW signers \in SignerVecs, NEW threshold \in Thresholds,
               ConfigureAdminMultisig(a, signers, threshold)
        PROVE  Inv'
    BY <2>1, StoreGovernance
       DEF ConfigureAdminMultisig, ThresholdsSatisfiable, StoreAdminMultisig
  <2>2. CASE Initialize(a)
    BY <1>1, <2>2 DEF Initialize
  <2>3. CASE \E o \in Oracle : RegisterOracle(a, o)
    BY <1>1, <2>3 DEF RegisterOracle
  <2>4. CASE \E value \in BOOLEAN : SetPaused(a, value)
    BY <1>1, <2>4 DEF SetPaused
  <2>5. CASE Migrate(a)
    BY <1>1, <2>5 DEF Migrate
  <2>6. QED
    BY <1>5, <2>1, <2>2, <2>3, <2>4, <2>5 DEF AdminStep
<1>6. CASE GovernanceStep
  <2>1. ASSUME NEW signers \in SignerVecs, NEW threshold \in Thresholds,
               RotateAdminMultisig(signers, threshold)
        PROVE  Inv'
    BY <2>1, StoreGovernance
       DEF RotateAdminMultisig, ThresholdsSatisfiable, StoreAdminMultisig
  <2>2. ASSUME NEW a \in Signer, RegisterArbiter(a)
        PROVE  Inv'
    <3>1. IsFiniteSet(arbiters) /\ Cardinality(arbiters) \in Nat
      BY FS_CardinalityType DEF GovernanceTypeOK
    <3>2. /\ IsFiniteSet(arbiters \cup {a})
          /\ \/ Cardinality(arbiters \cup {a}) = Cardinality(arbiters)
             \/ Cardinality(arbiters \cup {a}) = Cardinality(arbiters) + 1
      BY <3>1, FS_AddElement
    <3>3. GovernanceTypeOK'
      BY <2>2, <3>2 DEF RegisterArbiter, GovernanceTypeOK
    <3>4. ThresholdsSatisfiable'
      BY <2>2, <3>1, <3>2 DEF RegisterArbiter, GovernanceTypeOK, ThresholdsSatisfiable
    <3>5. QED
      BY <3>3, <3>4
  <2>3. ASSUME NEW a \in Signer, RemoveArbiter(a)
        PROVE  Inv'
    <3>1. IsFiniteSet(arbiters \ {a})
      BY FS_RemoveElement DEF GovernanceTypeOK
    <3>2. QED
      BY <2>3, <3>1 DEF RemoveArbiter, GovernanceTypeOK, ThresholdsSatisfiable
  <2>4. ASSUME NEW threshold \in Thresholds, SetArbiterThreshold(threshold)
        PROVE  Inv'
    BY <2>4, FS_CardinalityType
       DEF SetArbiterThreshold, GovernanceTypeOK, ThresholdsSatisfiable
  <2>5. QED
    BY <1>6, <2>1, <2>2, <2>3, <2>4 DEF GovernanceStep
<1>7. CASE UNCHANGED vars
  BY <1>1, <1>7 DEF vars
<1>8. QED
  BY <1>2, <1>3, <1>4, <1>5, <1>6, <1>7 DEF Next

\* No entry point removes an escrow or skips an id.
LEMMA EscrowTypeStep ==
    ASSUME EscrowTypeOK, InfoTypeOK, [Next]_vars
    PROVE  EscrowTypeOK'
<1>1. ASSUME UNCHANGED escrowVars
      PROVE  EscrowTypeOK'
  BY <1>1 DEF escrowVars, EscrowTypeOK, Exists
<1>2. CASE CloseLedgers
  BY <1>1, <1>2 DEF CloseLedgers
<1>3. ASSUME NEW sender \in Sender, NEW agent \in Agent, NEW amount \in Amounts,
             NEW minutes \in Minutes, DepositEscrow(sender, agent, amount, minutes)
      PROVE  EscrowTypeOK'
  <2>1. counter' \in 0..MaxEscrows
    BY <1>3, DepositStores, RemittanceAssumption DEF EscrowId
  <2>2. \A j \in EscrowId : Exists(j)' <=> j <= counter'
    BY <1>3, DepositStores DEF EscrowTypeOK, Exists, EscrowId
  <2>3. QED
    BY <1>3, <2>1, <2>2, DepositStores DEF EscrowTypeOK
<1>4. ASSUME NEW id \in EscrowId, LeavesOthers(id), counter' = counter,
             escrows[id] \in Escrow, escrows'[id] \in Escrow,
             disputes' \in [EscrowId -> Evidence \cup {None}]
      PROVE  EscrowTypeOK'
  BY <1>4, AbsentIsNoEscrow DEF LeavesOthers, EscrowTypeOK, Exists
<1>5. ASSUME NEW id \in EscrowId, EscrowStep(id)
      PROVE  EscrowTypeOK'
  <2>1. counter' = counter /\ disputes \in [EscrowId -> Evidence \cup {None}]
    BY <1>5, Frames DEF EscrowTypeOK
  <2>2. ASSUME NEW att \in Attestation, ReleaseToAgent(att, id)
        PROVE  EscrowTypeOK'
    BY <1>4, <2>1, <2>2, ReleaseMoves DEF Moves
  <2>3. ASSUME NEW att \in Attestation, ReportDeliveryFailure(att, id)
        PROVE  EscrowTypeOK'
    BY <1>4, <2>1, <2>3, FailureMoves DEF Moves
  <2>4. ASSUME NEW s \in Sender, ClaimRefund(s, id)
        PROVE  EscrowTypeOK'
    BY <1>4, <2>1, <2>4, ClaimMoves DEF Moves
  <2>5. ASSUME NEW s \in Sender, NEW evidence \in Evidence, RaiseDispute(s, id, evidence)
        PROVE  EscrowTypeOK'
    BY <1>4, <2>1, <2>5, RaiseMoves DEF Moves
  <2>6. ASSUME NEW approvals \in SignerVecs, NEW decision \in ResolutionDecision,
               ResolveDispute(id, approvals, decision)
        PROVE  EscrowTypeOK'
    BY <1>4, <2>1, <2>6, ResolveMoves DEF Moves
  <2>7. QED
    BY <1>5, <2>2, <2>3, <2>4, <2>5, <2>6 DEF EscrowStep
<1>6. ASSUME NEW a \in Signer, AdminStep(a)
      PROVE  EscrowTypeOK'
  BY <1>1, <1>6, Frames
<1>7. CASE GovernanceStep
  BY <1>1, <1>7, Frames
<1>8. CASE UNCHANGED vars
  BY <1>1, <1>8 DEF vars
<1>9. QED
  BY <1>2, <1>3, <1>5, <1>6, <1>7, <1>8 DEF Next

-------------------------------------------------------------------------------
\* The money, the disputes and the oracles.

\* Paying a share moves an escrow from one state in which the money agrees to
\* another, escrow by escrow.
LEMMA FundsStep ==
    ASSUME EscrowTypeOK, InfoTypeOK, FundsMatchState, UnusedIsUntouched, [Next]_vars
    PROVE  FundsMatchState' /\ UnusedIsUntouched'
<1> DEFINE Inv == FundsMatchState /\ UnusedIsUntouched
<1>1. ASSUME UNCHANGED <<height, escrowVars>>
      PROVE  Inv'
  BY <1>1 DEF escrowVars, FundsMatchState, FundsMatch, UnusedIsUntouched, Exists, TimedOut
<1>2. CASE CloseLedgers
  <2>1. /\ UNCHANGED escrowVars /\ height' > height
        /\ height \in Nat /\ height' \in Nat
    BY <1>2, RemittanceAssumption DEF CloseLedgers, InfoTypeOK
  <2>2. ASSUME NEW id \in EscrowId, Exists(id)'
        PROVE  FundsMatch(id)'
    <3>1. FundsMatch(id) /\ escrows[id].timeoutLedger \in Nat
      BY <2>1, <2>2, ExistingIsEscrow, AbsentIsNoEscrow
         DEF escrowVars, FundsMatchState, Exists
    <3>2. TimedOut(escrows[id]) => TimedOut(escrows[id])'
      BY <2>1, <3>1 DEF TimedOut, escrowVars
    <3>3. QED
      BY <2>1, <3>1, <3>2 DEF escrowVars, FundsMatch
  <2>3. FundsMatchState'
    BY <2>2 DEF FundsMatchState
  <2>4. UnusedIsUntouched'
    BY <2>1 DEF escrowVars, UnusedIsUntouched, Exists
  <2>5. QED
    BY <2>3, <2>4
<1>3. ASSUME NEW sender \in Sender, NEW agent \in Agent, NEW amount \in Amounts,
             NEW minutes \in Minutes, DepositEscrow(sender, agent, amount, minutes)
      PROVE  Inv'
  <2>1. PICK new \in EscrowId :
             /\ new = counter + 1
             /\ escrows'[new] \in Escrow /\ escrows'[new].state = "Locked"
             /\ \A j \in EscrowId \ {new} : escrows'[j] = escrows[j]
             /\ height' = height /\ paidSender' = paidSender /\ paidAgent' = paidAgent
             /\ disputes' = disputes
    BY <1>3, DepositStores
  <2>2. paidSender[new] = 0 /\ paidAgent[new] = 0
    BY <2>1 DEF EscrowTypeOK, UnusedIsUntouched
  <2>3. FundsMatch(new)'
    BY <2>1, <2>2, AbsentIsNoEscrow DEF FundsMatch
  <2>4. ASSUME NEW j \in EscrowId \ {new}, Exists(j)'
        PROVE  FundsMatch(j)'
    BY <2>1, <2>4 DEF FundsMatchState, FundsMatch, Exists, TimedOut
  <2>5. UnusedIsUntouched'
    BY <2>1, AbsentIsNoEscrow DEF UnusedIsUntouched, Exists
  <2>6. QED
    BY <2>3, <2>4, <2>5 DEF FundsMatchState
<1>4. ASSUME NEW id \in EscrowId, EscrowStep(id)
      PROVE  Inv'
  <2> DEFINE e == escrows[id]
  <2>1. height' = height
    BY <1>4, Frames
  \* It is enough that the money of this escrow agrees after the step.
  <2>2. ASSUME LeavesOthers(id), e \in Escrow, escrows'[id] \in Escrow, FundsMatch(id)',
               \A j \in EscrowId \ {id} : disputes'[j] = disputes[j]
        PROVE  Inv'
    <3>1. \A j \in EscrowId \ {id} : Exists(j)' => FundsMatch(j)'
      BY <2>1, <2>2 DEF LeavesOthers, FundsMatchState, FundsMatch, Exists, TimedOut
    <3>2. UnusedIsUntouched'
      BY <2>2, AbsentIsNoEscrow DEF LeavesOthers, UnusedIsUntouched, Exists
    <3>3. QED
      BY <2>2, <3>1, <3>2 DEF FundsMatchState
  <2>3. ASSUME e \in Escrow
        PROVE  /\ e.amount \in Nat \ {0} /\ e.timeoutLedger \in Nat
               /\ paidSender[id] \in Nat /\ paidAgent[id] \in Nat
               /\ e.state \in {"Locked", "Refundable", "Disputed"} =>
                     paidSender[id] = 0 /\ paidAgent[id] = 0
               /\ paidAgent[id] <= e.amount
               /\ e.state \in EscrowState
    BY <2>3, AbsentIsNoEscrow
       DEF EscrowTypeOK, FundsMatchState, FundsMatch, Exists
  <2>4. ASSUME NEW att \in Attestation, ReleaseToAgent(att, id)
        PROVE  Inv'
    <3>1. FundsMatch(id)'
      BY <2>3, <2>4, ReleaseMoves DEF Moves, FundsMatch
    <3>2. QED
      BY <2>2, <2>4, <3>1, ReleaseMoves DEF Moves
  <2>5. ASSUME NEW att \in Attestation, ReportDeliveryFailure(att, id)
        PROVE  Inv'
    <3>1. FundsMatch(id)'
      BY <2>3, <2>5, FailureMoves DEF Moves, FundsMatch
    <3>2. QED
      BY <2>2, <2>5, <3>1, FailureMoves DEF Moves
  <2>6. ASSUME NEW s \in Sender, ClaimRefund(s, id)
        PROVE  Inv'
    <3>1. /\ e \in Escrow /\ escrows'[id].state = "Refunded"
          /\ escrows'[id].amount = e.amount /\ escrows'[id].timeoutLedger = e.timeoutLedger
          /\ paidSender'[id] = paidSender[id] + e.amount /\ paidAgent'[id] = paidAgent[id] + 0
          /\ e.state # "Refundable" => TimedOut(e)
      BY <2>6, ClaimMoves DEF Moves
    <3>2. e.state # "Refundable" => TimedOut(escrows[id])'
      BY <2>1, <3>1 DEF TimedOut
    <3>3. FundsMatch(id)'
      BY <2>3, <3>1, <3>2 DEF FundsMatch
    <3>4. QED
      BY <2>2, <2>6, <3>3, ClaimMoves DEF Moves
  <2>7. ASSUME NEW s \in Sender, NEW evidence \in Evidence, RaiseDispute(s, id, evidence)
        PROVE  Inv'
    <3>1. FundsMatch(id)'
      BY <2>3, <2>7, RaiseMoves DEF Moves, FundsMatch
    <3>2. \A j \in EscrowId \ {id} : disputes'[j] = disputes[j]
      BY <2>7, RaiseMoves DEF EscrowTypeOK
    <3>3. QED
      BY <2>2, <2>7, <3>1, <3>2, RaiseMoves DEF Moves
  <2>8. ASSUME NEW approvals \in SignerVecs, NEW decision \in ResolutionDecision,
               ResolveDispute(id, approvals, decision)
        PROVE  Inv'
    <3>1. PICK share \in 0..e.amount :
             Moves(id, IF share = e.amount THEN "Refunded" ELSE "Released",
                   e.oracle, share, e.amount - share)
      BY <2>8, ResolveMoves
    <3>2. e.state = "Disputed"
      BY <2>8, ResolveMoves
    <3>3. /\ e.amount \in Nat \ {0} /\ share \in Nat /\ share <= e.amount
          /\ paidSender[id] = 0 /\ paidAgent[id] = 0
      BY <2>3, <3>1, <3>2 DEF Moves
    <3>4. /\ escrows'[id].state \in {"Released", "Refunded"}
          /\ escrows'[id].amount = e.amount
          /\ paidSender'[id] = share /\ paidAgent'[id] = e.amount - share
      BY <3>1, <3>3 DEF Moves
    <3>5. FundsMatch(id)'
      BY <3>3, <3>4 DEF FundsMatch
    <3>6. QED
      BY <2>2, <2>8, <3>1, <3>5, ResolveMoves DEF Moves
  <2>9. QED
    BY <1>4, <2>4, <2>5, <2>6, <2>7, <2>8 DEF EscrowStep
<1>5. ASSUME NEW a \in Signer, AdminStep(a)
      PROVE  Inv'
  BY <1>1, <1>5, Frames
<1>6. CASE GovernanceStep
  BY <1>1, <1>6, Frames
<1>7. CASE UNCHANGED vars
  BY <1>1, <1>7 DEF vars
<1>8. QED
  BY <1>2, <1>3, <1>4, <1>5, <1>6, <1>7 DEF Next

\* Only raise_dispute writes evidence, and it does so for a locked escrow, which
\* has none yet.
LEMMA DisputesStep ==
    ASSUME EscrowTypeOK, InfoTypeOK, UnusedIsUntouched, DisputesAgree, [Next]_vars
    PROVE  /\ DisputesAgree'
           /\ \A id \in EscrowId : disputes[id] # None => disputes'[id] = disputes[id]
<1> DEFINE Kept == \A id \in EscrowId : disputes[id] # None => disputes'[id] = disputes[id]
<1>1. ASSUME UNCHANGED escrowVars
      PROVE  DisputesAgree' /\ Kept
  BY <1>1 DEF escrowVars, DisputesAgree
<1>2. CASE CloseLedgers
  BY <1>1, <1>2 DEF CloseLedgers
<1>3. ASSUME NEW sender \in Sender, NEW agent \in Agent, NEW amount \in Amounts,
             NEW minutes \in Minutes, DepositEscrow(sender, agent, amount, minutes)
      PROVE  DisputesAgree' /\ Kept
  <2>1. PICK new \in EscrowId :
             /\ new = counter + 1
             /\ escrows'[new].state = "Locked"
             /\ \A j \in EscrowId \ {new} : escrows'[j] = escrows[j]
             /\ disputes' = disputes
    BY <1>3, DepositStores
  <2>2. disputes[new] = None
    BY <2>1 DEF EscrowTypeOK, UnusedIsUntouched
  <2>3. QED
    BY <2>1, <2>2 DEF DisputesAgree
<1>4. ASSUME NEW id \in EscrowId, EscrowStep(id)
      PROVE  DisputesAgree' /\ Kept
  \* A step without evidence, on an escrow whose states before and after agree.
  <2>1. ASSUME NEW st \in {"Refundable", "Released", "Refunded"},
               LeavesOthers(id), disputes' = disputes, escrows'[id].state = st,
               st = "Refundable" => disputes[id] = None
        PROVE  DisputesAgree' /\ Kept
    BY <2>1 DEF LeavesOthers, DisputesAgree
  <2>2. ASSUME NEW att \in Attestation, ReleaseToAgent(att, id)
        PROVE  DisputesAgree' /\ Kept
    BY <2>1, <2>2, ReleaseMoves DEF Moves
  <2>3. ASSUME NEW att \in Attestation, ReportDeliveryFailure(att, id)
        PROVE  DisputesAgree' /\ Kept
    <3>1. escrows[id].state = "Locked" /\ disputes[id] = None
      BY <2>3, FailureMoves DEF DisputesAgree
    <3>2. QED
      BY <2>1, <2>3, <3>1, FailureMoves DEF Moves
  <2>4. ASSUME NEW s \in Sender, ClaimRefund(s, id)
        PROVE  DisputesAgree' /\ Kept
    BY <2>1, <2>4, ClaimMoves DEF Moves
  <2>5. ASSUME NEW s \in Sender, NEW evidence \in Evidence, RaiseDispute(s, id, evidence)
        PROVE  DisputesAgree' /\ Kept
    <3>1. /\ escrows[id].state = "Locked" /\ escrows'[id].state = "Disputed"
          /\ \A j \in EscrowId \ {id} : escrows'[j] = escrows[j]
          /\ disputes' = [disputes EXCEPT ![id] = evidence]
      BY <2>5, RaiseMoves DEF Moves, LeavesOthers
    <3>2. disputes[id] = None /\ evidence # None
      BY <3>1, RemittanceAssumption DEF DisputesAgree
    <3>3. /\ disputes'[id] = evidence
          /\ \A j \in EscrowId \ {id} : disputes'[j] = disputes[j]
      BY <3>1 DEF EscrowTypeOK
    <3>4. QED
      BY <3>1, <3>2, <3>3 DEF DisputesAgree
  <2>6. ASSUME NEW approvals \in SignerVecs, NEW decision \in ResolutionDecision,
               ResolveDispute(id, approvals, decision)
        PROVE  DisputesAgree' /\ Kept
    <3>1. /\ escrows'[id].state \in {"Released", "Refunded"}
          /\ disputes' = disputes /\ LeavesOthers(id)
      BY <2>6, ResolveMoves DEF Moves
    <3>2. QED
      BY <2>1, <3>1
  <2>7. QED
    BY <1>4, <2>2, <2>3, <2>4, <2>5, <2>6 DEF EscrowStep
<1>5. ASSUME NEW a \in Signer, AdminStep(a)
      PROVE  DisputesAgree' /\ Kept
  BY <1>1, <1>5, Frames
<1>6. CASE GovernanceStep
  BY <1>1, <1>6, Frames
<1>7. CASE UNCHANGED vars
  BY <1>1, <1>7 DEF vars
<1>8. QED
  BY <1>2, <1>3, <1>4, <1>5, <1>6, <1>7 DEF Next

\* initialize is the only call that forgets an oracle, and it comes first.
LEMMA OraclesStep ==
    ASSUME EscrowTypeOK, InfoTypeOK, NothingBeforeInitialize, DisputesAgree,
           ReleasedByRegisteredOracle, [Next]_vars
    PROVE  NothingBeforeInitialize' /\ ReleasedByRegisteredOracle'
<1> DEFINE Inv == NothingBeforeInitialize /\ ReleasedByRegisteredOracle
<1>1. ASSUME UNCHANGED <<admin, counter, escrows, disputes>>, oracles \subseteq oracles'
      PROVE  Inv'
  BY <1>1 DEF NothingBeforeInitialize, Initialized, ReleasedByRegisteredOracle
<1>2. CASE CloseLedgers
  BY <1>1, <1>2 DEF CloseLedgers, infoVars, escrowVars
<1>3. ASSUME NEW sender \in Sender, NEW agent \in Agent, NEW amount \in Amounts,
             NEW minutes \in Minutes, DepositEscrow(sender, agent, amount, minutes)
      PROVE  Inv'
  <2>1. PICK new \in EscrowId :
             /\ admin # None /\ admin' = admin /\ oracles' = oracles
             /\ escrows'[new].state = "Locked"
             /\ \A j \in EscrowId \ {new} : escrows'[j] = escrows[j]
             /\ disputes' = disputes
    BY <1>3, DepositStores DEF infoVars, Initialized
  <2>2. QED
    BY <2>1 DEF NothingBeforeInitialize, Initialized, ReleasedByRegisteredOracle
<1>4. ASSUME NEW id \in EscrowId, EscrowStep(id)
      PROVE  Inv'
  <2>1. UNCHANGED <<admin, oracles, counter>>
    BY <1>4, Frames DEF infoVars
  <2>2. ASSUME LeavesOthers(id), \A j \in EscrowId \ {id} : disputes'[j] = disputes[j],
               \/ escrows'[id].state # "Released"
               \/ disputes'[id] # None
               \/ escrows'[id].oracle \in oracles
        PROVE  Inv'
    BY <2>1, <2>2
       DEF LeavesOthers, NothingBeforeInitialize, Initialized, ReleasedByRegisteredOracle
  <2>3. ASSUME NEW att \in Attestation, ReleaseToAgent(att, id)
        PROVE  Inv'
    BY <2>2, <2>3, ReleaseMoves DEF Moves
  <2>4. ASSUME NEW att \in Attestation, ReportDeliveryFailure(att, id)
        PROVE  Inv'
    BY <2>2, <2>4, FailureMoves DEF Moves
  <2>5. ASSUME NEW s \in Sender, ClaimRefund(s, id)
        PROVE  Inv'
    BY <2>2, <2>5, ClaimMoves DEF Moves
  <2>6. ASSUME NEW s \in Sender, NEW evidence \in Evidence, RaiseDispute(s, id, evidence)
        PROVE  Inv'
    <3>1. \A j \in EscrowId \ {id} : disputes'[j] = disputes[j]
      BY <2>6, RaiseMoves DEF EscrowTypeOK
    <3>2. QED
      BY <2>2, <2>6, <3>1, RaiseMoves DEF Moves
  <2>7. ASSUME NEW approvals \in SignerVecs, NEW decision \in ResolutionDecision,
               ResolveDispute(id, approvals, decision)
        PROVE  Inv'
    <3>1. LeavesOthers(id) /\ disputes' = disputes /\ disputes[id] # None
      BY <2>7, ResolveMoves DEF DisputesAgree
    <3>2. QED
      BY <2>2, <3>1
  <2>8. QED
    BY <1>4, <2>3, <2>4, <2>5, <2>6, <2>7 DEF EscrowStep
<1>5. ASSUME NEW a \in Signer, AdminStep(a)
      PROVE  Inv'
  <2>1. UNCHANGED <<counter, escrows, disputes>>
    BY <1>5, Frames DEF escrowVars
  <2>2. CASE Initialize(a)
    <3>1. ~Initialized
      BY <2>2 DEF Initialize
    <3>2. counter = 0
      BY <3>1 DEF NothingBeforeInitialize
    <3>3. \A id \in EscrowId : escrows[id].state = "Absent"
      BY <3>2 DEF EscrowTypeOK, Exists, EscrowId
    <3>4. QED
      BY <2>1, <3>2, <3>3 DEF NothingBeforeInitialize, ReleasedByRegisteredOracle
  <2>3. CASE \E o \in Oracle : RegisterOracle(a, o)
    BY <1>1, <2>1, <2>3 DEF RegisterOracle
  <2>4. CASE \E value \in BOOLEAN : SetPaused(a, value)
    BY <1>1, <2>1, <2>4 DEF SetPaused
  <2>5. CASE Migrate(a)
    BY <1>1, <2>1, <2>5 DEF Migrate
  <2>6. CASE \E signers \in SignerVecs, threshold \in Thresholds :
                ConfigureAdminMultisig(a, signers, threshold)
    BY <1>1, <2>1, <2>6 DEF ConfigureAdminMultisig, StoreAdminMultisig, infoVars
  <2>7. QED
    BY <1>5, <2>2, <2>3, <2>4, <2>5, <2>6 DEF AdminStep
<1>6. CASE GovernanceStep
  BY <1>1, <1>6, Frames DEF infoVars, escrowVars
<1>7. CASE UNCHANGED vars
  BY <1>1, <1>7 DEF vars, infoVars, escrowVars
<1>8. QED
  BY <1>2, <1>3, <1>4, <1>5, <1>6, <1>7 DEF Next

-------------------------------------------------------------------------------
\* The invariant and what follows from it.

LEMMA Initially ==
    Init => IInv
<1> SUFFICES ASSUME Init PROVE IInv
  OBVIOUS
<1>1. InfoTypeOK
  <2>1. height \in Heights /\ admin \in Signer \cup {None} /\ version \in 0..2 /\ schema \in 0..2
    BY DEF Init
  <2>2. paused \in BOOLEAN /\ oracles \in SUBSET Oracle
    BY Zenon DEF Init
  <2>3. QED
    BY <2>1, <2>2 DEF InfoTypeOK
<1>2. GovernanceTypeOK /\ ThresholdsSatisfiable
  BY FS_EmptySet DEF Init, GovernanceTypeOK, ThresholdsSatisfiable
<1>3. \A id \in EscrowId : escrows[id] = NoEscrow /\ ~Exists(id)
  BY AbsentIsNoEscrow DEF Init, Exists
<1>4. EscrowTypeOK
  BY <1>3, RemittanceAssumption DEF Init, EscrowTypeOK, EscrowId
<1>5. NothingBeforeInitialize /\ UnusedIsUntouched
  BY DEF Init, NothingBeforeInitialize, UnusedIsUntouched
<1>6. FundsMatchState /\ DisputesAgree /\ ReleasedByRegisteredOracle
  BY <1>3, AbsentIsNoEscrow
     DEF Init, FundsMatchState, DisputesAgree, ReleasedByRegisteredOracle
<1>7. QED
  BY <1>1, <1>2, <1>4, <1>5, <1>6 DEF IInv, TypeOK

LEMMA Inductive ==
    IInv /\ [Next]_vars => IInv'
<1> SUFFICES ASSUME IInv, [Next]_vars PROVE IInv'
  OBVIOUS
<1> USE DEF IInv, TypeOK
<1>1. InfoTypeOK'
  BY InfoTypeStep
<1>2. GovernanceTypeOK' /\ ThresholdsSatisfiable'
  BY GovernanceStepInv
<1>3. EscrowTypeOK'
  BY EscrowTypeStep
<1>4. FundsMatchState' /\ UnusedIsUntouched'
  BY FundsStep
<1>5. DisputesAgree'
  BY DisputesStep
<1>6. NothingBeforeInitialize' /\ ReleasedByRegisteredOracle'
  BY OraclesStep
<1>7. QED
  BY <1>1, <1>2, <1>3, <1>4, <1>5, <1>6

\* The inductive invariant holds in every state the contract can reach.
THEOREM InvariantHolds ==
    Spec => []IInv
<1>1. QED
  BY Initially, Inductive, PTL DEF Spec

\* The storage keeps its shape, and the ids in use are exactly 1..escrow_counter.
THEOREM TypeCorrect ==
    Spec => []TypeOK
<1>1. IInv => TypeOK
  BY DEF IInv
<1>2. QED
  BY <1>1, InvariantHolds, PTL

\* Governance can always reach the thresholds it has set for itself.
THEOREM GovernanceNeverLocksItself ==
    Spec => []ThresholdsSatisfiable
<1>1. IInv => ThresholdsSatisfiable
  BY DEF IInv
<1>2. QED
  BY <1>1, InvariantHolds, PTL

\* What an escrow has paid agrees with its state.
THEOREM FundsAreSafe ==
    Spec => []FundsMatchState
<1>1. IInv => FundsMatchState
  BY DEF IInv
<1>2. QED
  BY <1>1, InvariantHolds, PTL

\* The disputes map agrees with the states of the escrows.
THEOREM DisputesAlwaysAgree ==
    Spec => []DisputesAgree
<1>1. IInv => DisputesAgree
  BY DEF IInv
<1>2. QED
  BY <1>1, InvariantHolds, PTL

\* Every undisputed release names a registered oracle.  It says nothing of the
\* attestation, whose signature the contract does not check.
THEOREM ReleasesNameRegisteredOracle ==
    Spec => []ReleasedByRegisteredOracle
<1>1. IInv => ReleasedByRegisteredOracle
  BY DEF IInv
<1>2. QED
  BY <1>1, InvariantHolds, PTL

\* Evidence on record is never changed or removed.
THEOREM EvidenceStays ==
    Spec => EvidenceImmutable
<1>1. IInv /\ [Next]_vars =>
         [\A id \in EscrowId : disputes[id] # None => disputes'[id] = disputes[id]]_vars
  BY DisputesStep DEF IInv, TypeOK
<1>2. QED
  BY <1>1, InvariantHolds, PTL DEF Spec, EvidenceImmutable

-------------------------------------------------------------------------------
\* The custody of funds.

\* Custody's Next, one escrow at a time, and its stuttering.
LEMMA CustodySteps ==
    /\ \A id \in EscrowId :
          Custodian!Open(id) \/ Custodian!Settle(id) \/ Custodian!LateClaim(id)
             => Custodian!Next
    /\ Custodian!Expire => Custodian!Next
    /\ UNCHANGED <<Deposited, paidSender, paidAgent, Overdue>>
          => UNCHANGED Custodian!custodyVars
BY DEF Custodian!Next, Custodian!custodyVars

\* A step on one escrow leaves all deposits and all timeouts as they were.
LEMMA MovesKeepDeposits ==
    ASSUME NEW id \in EscrowId, LeavesOthers(id), height' = height,
           escrows[id] \in Escrow, escrows'[id] \in Escrow,
           escrows'[id].amount = escrows[id].amount,
           escrows'[id].timeoutLedger = escrows[id].timeoutLedger
    PROVE  /\ Deposited' = Deposited /\ Overdue' = Overdue
           /\ Deposited[id] = escrows[id].amount
           /\ id \in Overdue <=> TimedOut(escrows[id])
<1>1. Exists(id) /\ Exists(id)'
  BY AbsentIsNoEscrow DEF Exists
<1>2. \A j \in EscrowId : /\ Exists(j)' <=> Exists(j)
                          /\ escrows'[j].amount = escrows[j].amount
                          /\ escrows'[j].timeoutLedger = escrows[j].timeoutLedger
  BY <1>1 DEF LeavesOthers, Exists
<1>3. Deposited' = Deposited /\ Deposited[id] = escrows[id].amount
  BY <1>1, <1>2 DEF Deposited
<1>4. Overdue' = Overdue /\ (id \in Overdue <=> TimedOut(escrows[id]))
  BY <1>1, <1>2 DEF Overdue, TimedOut
<1>5. QED
  BY <1>3, <1>4

LEMMA CustodyInitially ==
    Init => Custodian!Init
<1> SUFFICES ASSUME Init PROVE Custodian!Init
  OBVIOUS
<1>1. \A id \in EscrowId : ~Exists(id)
  BY AbsentIsNoEscrow DEF Init, Exists
<1>2. Deposited = [id \in EscrowId |-> 0] /\ Overdue = {}
  BY <1>1 DEF Deposited, Overdue
<1>3. QED
  BY <1>2 DEF Init, Custodian!Init

\* A step that pays out shares adding up to the amount of an unpaid escrow.
LEMMA SettleStep ==
    ASSUME EscrowTypeOK, NEW id \in EscrowId, NEW st, NEW o,
           NEW share \in 0..escrows[id].amount,
           Moves(id, st, o, share, escrows[id].amount - share),
           LeavesOthers(id), height' = height,
           paidSender[id] = 0, paidAgent[id] = 0
    PROVE  Custodian!Settle(id)
<1>1. escrows[id].amount \in Nat \ {0} /\ share \in Nat /\ escrows[id].amount - share \in Nat
  BY AbsentIsNoEscrow DEF Moves
<1>2. /\ Deposited' = Deposited /\ Overdue' = Overdue
      /\ Deposited[id] = escrows[id].amount
  BY MovesKeepDeposits DEF Moves
<1>3. paidSender'[id] = share /\ paidAgent'[id] = escrows[id].amount - share
  BY <1>1 DEF Moves
<1>4. paidSender' = [paidSender EXCEPT ![id] = share]
  BY <1>3 DEF EscrowTypeOK, LeavesOthers
<1>5. paidAgent' = [paidAgent EXCEPT ![id] = Deposited[id] - share]
  BY <1>2, <1>3 DEF EscrowTypeOK, LeavesOthers
<1>6. QED
  BY <1>1, <1>2, <1>4, <1>5 DEF Custodian!Settle, Custodian!Unpaid

LEMMA EscrowStepIsCustody ==
    ASSUME IInv, NEW id \in EscrowId, EscrowStep(id)
    PROVE  [Custodian!Next]_(Custodian!custodyVars)
<1> DEFINE e == escrows[id]
<1> USE DEF IInv, TypeOK
<1>1. height' = height
  BY Frames
<1>2. ASSUME e \in Escrow, e.state \in {"Locked", "Refundable", "Disputed"}
      PROVE  paidSender[id] = 0 /\ paidAgent[id] = 0
  BY <1>2, AbsentIsNoEscrow DEF EscrowTypeOK, FundsMatchState, FundsMatch, Exists
<1>3. ASSUME NEW st, NEW o, Moves(id, st, o, 0, 0), LeavesOthers(id)
      PROVE  UNCHANGED Custodian!custodyVars
  <2>1. Deposited' = Deposited /\ Overdue' = Overdue
    BY <1>1, <1>3, MovesKeepDeposits DEF Moves
  <2>2. paidSender'[id] = paidSender[id] /\ paidAgent'[id] = paidAgent[id]
    BY <1>3 DEF Moves, EscrowTypeOK
  <2>3. paidSender' = paidSender /\ paidAgent' = paidAgent
    BY <1>3, <2>2 DEF LeavesOthers, EscrowTypeOK
  <2>4. QED
    BY <2>1, <2>3, CustodySteps
<1>4. ASSUME NEW att \in Attestation, ReleaseToAgent(att, id)
      PROVE  Custodian!Next
  <2>1. /\ e \in Escrow /\ e.state = "Locked" /\ e.amount \in Nat
        /\ Moves(id, "Released", att.oracle, 0, e.amount) /\ LeavesOthers(id)
    BY <1>4, ReleaseMoves, AbsentIsNoEscrow DEF Moves
  <2>2. 0 \in 0..e.amount /\ e.amount - 0 = e.amount
    BY <2>1
  <2>3. Moves(id, "Released", att.oracle, 0, e.amount - 0)
    BY <2>1, <2>2
  <2>4. Custodian!Settle(id)
    BY <1>1, <1>2, <2>1, <2>2, <2>3, SettleStep
  <2>5. QED
    BY <2>4, CustodySteps
<1>5. ASSUME NEW att \in Attestation, ReportDeliveryFailure(att, id)
      PROVE  UNCHANGED Custodian!custodyVars
  BY <1>3, <1>5, FailureMoves
<1>6. ASSUME NEW s \in Sender, ClaimRefund(s, id)
      PROVE  Custodian!Next
  <2>1. /\ e \in Escrow /\ e.state \in EscrowState /\ e.amount \in Nat \ {0}
        /\ Moves(id, "Refunded", e.oracle, e.amount, 0) /\ LeavesOthers(id)
        /\ e.state # "Refundable" => TimedOut(e)
    BY <1>6, ClaimMoves, AbsentIsNoEscrow DEF Moves
  <2>2. CASE paidSender[id] = 0 /\ paidAgent[id] = 0
    <3>1. e.amount \in 0..e.amount /\ e.amount - e.amount = 0
      BY <2>1
    <3>2. Moves(id, "Refunded", e.oracle, e.amount, e.amount - e.amount)
      BY <2>1, <3>1
    <3>3. Custodian!Settle(id)
      BY <1>1, <2>1, <2>2, <3>1, <3>2, SettleStep
    <3>4. QED
      BY <3>3, CustodySteps
  <2>3. CASE ~(paidSender[id] = 0 /\ paidAgent[id] = 0)
    <3>1. TimedOut(e)
      BY <1>2, <2>1, <2>3
    <3>2. /\ Deposited' = Deposited /\ Overdue' = Overdue
          /\ Deposited[id] = e.amount /\ id \in Overdue
      BY <1>1, <2>1, <3>1, MovesKeepDeposits DEF Moves
    <3>3. /\ paidSender'[id] = paidSender[id] + e.amount
          /\ paidAgent'[id] = paidAgent[id]
      BY <2>1 DEF Moves, EscrowTypeOK
    <3>4. /\ paidSender' = [paidSender EXCEPT ![id] = @ + Deposited[id]]
          /\ paidAgent' = paidAgent
      BY <2>1, <3>2, <3>3 DEF LeavesOthers, EscrowTypeOK
    <3>5. Custodian!LateClaim(id)
      BY <2>3, <3>2, <3>4 DEF Custodian!LateClaim, Custodian!Unpaid
    <3>6. QED
      BY <3>5, CustodySteps
  <2>4. QED
    BY <2>2, <2>3
<1>7. ASSUME NEW s \in Sender, NEW evidence \in Evidence, RaiseDispute(s, id, evidence)
      PROVE  UNCHANGED Custodian!custodyVars
  BY <1>3, <1>7, RaiseMoves
<1>8. ASSUME NEW approvals \in SignerVecs, NEW decision \in ResolutionDecision,
             ResolveDispute(id, approvals, decision)
      PROVE  Custodian!Next
  <2>1. PICK share \in 0..e.amount :
           Moves(id, IF share = e.amount THEN "Refunded" ELSE "Released",
                 e.oracle, share, e.amount - share)
    BY <1>8, ResolveMoves
  <2>2. e \in Escrow /\ e.state = "Disputed" /\ LeavesOthers(id)
    BY <1>8, <2>1, ResolveMoves DEF Moves
  <2>3. Custodian!Settle(id)
    BY <1>1, <1>2, <2>1, <2>2, SettleStep
  <2>4. QED
    BY <2>3, CustodySteps
<1>9. QED
  BY <1>4, <1>5, <1>6, <1>7, <1>8 DEF EscrowStep

\* Every call, of whatever kind, is a step of the custody or leaves it alone.
LEMMA NextIsCustody ==
    IInv /\ [Next]_vars => [Custodian!Next]_(Custodian!custodyVars)
<1> SUFFICES ASSUME IInv, [Next]_vars
             PROVE  [Custodian!Next]_(Custodian!custodyVars)
  OBVIOUS
<1> USE DEF IInv, TypeOK
<1>1. ASSUME UNCHANGED <<height, escrowVars>>
      PROVE  UNCHANGED Custodian!custodyVars
  <2>1. Deposited' = Deposited /\ Overdue' = Overdue
    BY <1>1 DEF Deposited, Overdue, Exists, TimedOut, escrowVars
  <2>2. QED
    BY <1>1, <2>1, CustodySteps DEF escrowVars
<1>2. CASE CloseLedgers
  <2>1. /\ height \in Nat /\ height' \in Nat /\ height <= height'
        /\ escrows' = escrows /\ paidSender' = paidSender /\ paidAgent' = paidAgent
    BY <1>2, RemittanceAssumption DEF CloseLedgers, InfoTypeOK, escrowVars
  <2>2. Deposited' = Deposited
    BY <2>1 DEF Deposited, Exists
  <2>3. \A id \in EscrowId : Exists(id) =>
           escrows[id].amount # 0 /\ escrows[id].timeoutLedger \in Nat
    BY ExistingIsEscrow, AbsentIsNoEscrow
  <2>4. Overdue' \in SUBSET {i \in EscrowId : Deposited[i] # 0}
    BY <2>1, <2>3 DEF Overdue, Deposited, Exists
  <2>5. Overdue' = Overdue \cup Overdue'
    BY <2>1, <2>3 DEF Overdue, Exists, TimedOut
  <2>6. Custodian!Expire
    BY <2>1, <2>2, <2>4, <2>5 DEF Custodian!Expire
  <2>7. QED
    BY <2>6, CustodySteps
<1>3. ASSUME NEW sender \in Sender, NEW agent \in Agent, NEW amount \in Amounts,
             NEW minutes \in Minutes, DepositEscrow(sender, agent, amount, minutes)
      PROVE  Custodian!Next
  <2>1. PICK new \in EscrowId :
             /\ new = counter + 1
             /\ escrows'[new] \in Escrow /\ escrows'[new].state = "Locked"
             /\ height < escrows'[new].timeoutLedger
             /\ \A j \in EscrowId \ {new} : escrows'[j] = escrows[j]
             /\ height' = height /\ paidSender' = paidSender /\ paidAgent' = paidAgent
    BY <1>3, DepositStores
  <2>2. ~Exists(new) /\ Exists(new)'
    BY <2>1, AbsentIsNoEscrow DEF EscrowTypeOK, Exists
  <2>3. PICK a \in MinAmount..MaxAmount : a = escrows'[new].amount
    BY <2>1 DEF Escrow
  <2>4. Deposited[new] = 0 /\ Deposited' = [Deposited EXCEPT ![new] = a]
    BY <2>1, <2>2, <2>3 DEF Deposited, Exists
  <2>5. height \in Nat /\ escrows'[new].timeoutLedger \in Nat
    BY <2>1, AbsentIsNoEscrow, RemittanceAssumption DEF InfoTypeOK
  <2>6. Overdue' = Overdue
    <3>1. new \notin Overdue /\ new \notin Overdue'
      BY <2>1, <2>2, <2>5 DEF Overdue, TimedOut
    <3>2. \A j \in EscrowId \ {new} : j \in Overdue <=> j \in Overdue'
      BY <2>1 DEF Overdue, Exists, TimedOut
    <3>3. QED
      BY <3>1, <3>2 DEF Overdue
  <2>7. Custodian!Open(new)
    BY <2>1, <2>4, <2>6 DEF Custodian!Open
  <2>8. QED
    BY <2>7, CustodySteps
<1>4. ASSUME NEW id \in EscrowId, EscrowStep(id)
      PROVE  [Custodian!Next]_(Custodian!custodyVars)
  BY <1>4, EscrowStepIsCustody
<1>5. ASSUME NEW a \in Signer, AdminStep(a)
      PROVE  UNCHANGED Custodian!custodyVars
  BY <1>1, <1>5, Frames
<1>6. CASE GovernanceStep
  BY <1>1, <1>6, Frames
<1>7. CASE UNCHANGED vars
  BY <1>1, <1>7 DEF vars
<1>8. QED
  BY <1>2, <1>3, <1>4, <1>5, <1>6, <1>7 DEF Next

\* The contract implements Custody for every choice of accounts, amounts and
\* heights: an escrow's money leaves in one settlement, or again to its sender
\* after the timeout, and never otherwise.
THEOREM ImplementsCustody ==
    Spec => CustodyRefined
<1>1. QED
  BY CustodyInitially, NextIsCustody, InvariantHolds, PTL
     DEF Spec, CustodyRefined, Custodian!Spec
===============================================================================
