------------------------------ MODULE Reconciler ------------------------------
(***************************************************************************)
(* services/reconciliation: Reconciler.run (reconciler.ts) behind the      *)
(* in-process lock of adminRouter.ts.  Several processes reconcile the     *)
(* same table; each has one run at a time.  A run reads its rows, asks the *)
(* contract for each of them at its own moment, and writes at the end.     *)
(* The contract and whoever records a new escrow are external.             *)
(***************************************************************************)
EXTENDS Integers

CONSTANTS
    Id,             \* escrow ids
    Process,        \* processes that serve POST /reconcile
    None,
    MaxErrors       \* bound: requests that fail, processes that die

\* States of the contract, "Absent" before the deposit, and of a row.
ChainState == {"Absent", "Locked", "Released", "Refundable", "Refunded", "Disputed"}
RowState == {"Locked", "Released", "Refundable", "Refunded", "ChainNotFound"}
Answer == {"NotFound", "Unknown", "Locked", "Released", "Refundable", "Refunded"}

ASSUME ReconcilerAssumption ==
    /\ None \notin ChainState \cup RowState \cup Answer
    /\ MaxErrors \in Nat

VARIABLES
    query,          \* whether the chain query comes back: "answers" or "rejects"
    chain,          \* what get_escrow would say
    db,             \* escrows.state, None when there is no row
    stage,          \* where a process's run is, "idle" when it has none
    heal,           \* the run's heal flag
    snapshot,       \* the rows the run has loaded
    answers,        \* the chain states it has fetched
    errors,
    overlapped,     \* history: a run began while another was under way
    disturbed       \* history: something else happened during a healing run

runVars == <<stage, heal, snapshot, answers>>
vars == <<query, chain, db, runVars, errors, overlapped, disturbed>>

NoRows == [i \in Id |-> None]

Init ==
    /\ query \in {"answers", "rejects"}
    /\ chain = [i \in Id |-> "Absent"]
    /\ db = NoRows
    /\ stage = [p \in Process |-> "idle"]
    /\ heal = [p \in Process |-> FALSE]
    /\ snapshot = [p \in Process |-> NoRows]
    /\ answers = [p \in Process |-> NoRows]
    /\ errors = 0
    /\ overlapped = FALSE /\ disturbed = [p \in Process |-> FALSE]

Disturb == disturbed' = heal

-------------------------------------------------------------------------------
\* The contract, and the row of a new escrow.

Successors(s) ==
    CASE s = "Absent" -> {"Locked"}
      [] s = "Locked" -> {"Released", "Refundable", "Refunded", "Disputed"}
      [] s = "Refundable" -> {"Refunded"}
      [] s = "Disputed" -> {"Released", "Refunded"}
      [] s = "Released" -> {"Refunded"}
      [] s = "Refunded" -> {}

ChainMoves(i) ==
    /\ \E s \in Successors(chain[i]) : chain' = [chain EXCEPT ![i] = s]
    /\ Disturb
    /\ UNCHANGED <<query, db, runVars, errors, overlapped>>

RecordEscrow(i) ==
    /\ db[i] = None
    /\ db' = [db EXCEPT ![i] = "Locked"]
    /\ Disturb
    /\ UNCHANGED <<query, chain, runVars, errors, overlapped>>

-------------------------------------------------------------------------------
\* One run.

EveryRow(s) == s # None                                        \* mutant
\* loadDbEscrows leaves the rows in a terminal state alone.
OpenRow(s) == s # None /\ s \notin {"Released", "Refunded"}

\* run, up to the first answer of the contract.
BeginRun(p, h) ==
    /\ stage[p] = "idle"
    /\ stage' = [stage EXCEPT ![p] = "fetch"]
    /\ heal' = [heal EXCEPT ![p] = h]
    /\ snapshot' = [snapshot EXCEPT ![p] =
          [i \in Id |-> IF OpenRow(db[i]) THEN db[i] ELSE None]]
    /\ overlapped' = (overlapped \/ \E q \in Process : stage[q] # "idle")
    /\ disturbed' = [disturbed EXCEPT ![p] = h /\ \E q \in Process : stage[q] # "idle"]
    /\ UNCHANGED <<query, chain, db, answers, errors>>

\* Not within cooldownMs of a completed run; when that was is left open.
RunOnStartup(p) == BeginRun(p, FALSE)

\* POST /reconcile: one at a time in a process, while reconcileRunning is set.
RunOnDemand(p, h) == BeginRun(p, h)

Undecoded(s) == IF s = "Absent" THEN "NotFound" ELSE s         \* mutant
\* decodeEscrowState knows no Disputed.
Decoded(s) == CASE s = "Absent" -> "NotFound"
                [] s = "Disputed" -> "Unknown"
                [] OTHER -> s

Asked(p, i) == stage[p] = "fetch" /\ snapshot[p][i] # None /\ answers[p][i] = None

\* queryChainEscrowState builds its transaction on `new Account(contractId, "0")`, and
\* the SDK's Account throws for the id of a contract: the query rejects, and the row
\* is Unknown.  The unit tests put answers in the place of the query.
Answered(i) == IF query = "answers" THEN Decoded(chain[i]) ELSE "Unknown"

\* A run that does not heal reports what it was told and makes no other use of it:
\* which state that was is left out.
Kept(p, answer) == IF heal[p] THEN answer ELSE "Unknown"

FetchState(p, i) ==
    /\ Asked(p, i)
    /\ answers' = [answers EXCEPT ![p][i] = Kept(p, Answered(i))]
    /\ UNCHANGED <<query, chain, db, stage, heal, snapshot, errors, overlapped, disturbed>>

\* A request that rejects is Unknown; a simulation error is taken for
\* EscrowNotFound as soon as its text has a 7 in it.
FetchFails(p, i) ==
    /\ Asked(p, i)
    /\ errors < MaxErrors
    /\ errors' = errors + 1
    /\ \E answer \in IF query = "answers" THEN {"Unknown", "NotFound"} ELSE {"Unknown"} :
          answers' = [answers EXCEPT ![p][i] = Kept(p, answer)]
    /\ disturbed' = [disturbed EXCEPT ![p] = heal[p]]
    /\ UNCHANGED <<query, chain, db, stage, heal, snapshot, overlapped>>

KnownStates == {"Locked", "Refundable", "Released", "Refunded"}
NormaliseState(s) == IF s \in KnownStates THEN s ELSE "Unknown"

LockedOnly(row, answer) == answer # "Unknown" /\ row = "Locked" /\ row # answer   \* mutant
Differs(row, answer) ==
    \/ answer = "NotFound"
    \/ answer # "Unknown" /\ NormaliseState(row) # answer

Discrepancies(p) ==
    {i \in Id : snapshot[p][i] # None /\ Differs(snapshot[p][i], answers[p][i])}

Fetched(p) == stage[p] = "fetch" /\ \A i \in Id : ~Asked(p, i)

KeepAnswers(p) ==                                              \* mutant
    /\ stage' = [stage EXCEPT ![p] = "idle"]
    /\ heal' = [heal EXCEPT ![p] = FALSE]
    /\ snapshot' = [snapshot EXCEPT ![p] = NoRows]
    /\ UNCHANGED answers

\* closeRun, and the finally that takes the in-process lock back.  The locals of
\* the run are gone.
CloseRun(p) ==
    /\ stage' = [stage EXCEPT ![p] = "idle"]
    /\ heal' = [heal EXCEPT ![p] = FALSE]
    /\ snapshot' = [snapshot EXCEPT ![p] = NoRows]
    /\ answers' = [answers EXCEPT ![p] = NoRows]

\* persistReports; without heal, or without a discrepancy, the run is over.  Of what
\* the run has read only the discrepancies are used from here on.
Report(p) ==
    /\ Fetched(p) /\ heal[p] /\ Discrepancies(p) # {}
    /\ stage' = [stage EXCEPT ![p] = "reported"]
    /\ answers' = [answers EXCEPT ![p] =
          [i \in Id |-> IF i \in Discrepancies(p) THEN answers[p][i] ELSE None]]
    /\ snapshot' = [snapshot EXCEPT ![p] = NoRows]
    /\ UNCHANGED <<query, chain, db, heal, errors, overlapped, disturbed>>

ReportOnly(p) ==
    /\ Fetched(p) /\ (heal[p] => Discrepancies(p) = {})
    /\ CloseRun(p)
    /\ disturbed' = [disturbed EXCEPT ![p] = FALSE]
    /\ UNCHANGED <<query, chain, db, errors, overlapped>>

Healed(p, i) ==
    IF answers[p][i] = "NotFound" THEN "ChainNotFound" ELSE answers[p][i]

\* One transaction, whatever the rows hold by now.
Heal(p) ==
    /\ stage[p] = "reported"
    /\ db' = [i \in Id |-> IF answers[p][i] # None THEN Healed(p, i) ELSE db[i]]
    /\ CloseRun(p)
    /\ disturbed' = [heal EXCEPT ![p] = FALSE]
    /\ UNCHANGED <<query, chain, errors, overlapped>>

\* A query fails and its transaction rolls back, or the process dies.
RunFails(p) ==
    /\ stage[p] # "idle" /\ errors < MaxErrors
    /\ errors' = errors + 1
    /\ CloseRun(p)
    /\ disturbed' = [disturbed EXCEPT ![p] = FALSE]
    /\ UNCHANGED <<query, chain, db, overlapped>>

RunStep(p) == (\E i \in Id : FetchState(p, i)) \/ Report(p) \/ ReportOnly(p) \/ Heal(p)

Next ==
    \/ \E i \in Id : ChainMoves(i) \/ RecordEscrow(i)
    \/ \E p \in Process :
          \/ RunOnStartup(p)
          \/ \E h \in BOOLEAN : RunOnDemand(p, h)
          \/ RunStep(p)
          \/ \E i \in Id : FetchFails(p, i)
          \/ RunFails(p)

Spec == Init /\ [][Next]_vars

-------------------------------------------------------------------------------
\* Properties.

TypeOK ==
    /\ query \in {"answers", "rejects"}
    /\ chain \in [Id -> ChainState]
    /\ db \in [Id -> RowState \cup {None}]
    /\ stage \in [Process -> {"idle", "fetch", "reported"}]
    /\ heal \in [Process -> BOOLEAN]
    /\ snapshot \in [Process -> [Id -> RowState \cup {None}]]
    /\ answers \in [Process -> [Id -> Answer \cup {None}]]
    /\ errors \in 0..MaxErrors
    /\ overlapped \in BOOLEAN /\ disturbed \in [Process -> BOOLEAN]

\* The contract states from which another can still be reached.
Before(s) ==
    CASE s = "Locked" -> {}
      [] s = "Refundable" -> {"Locked"}
      [] s = "Released" -> {"Locked"}
      [] s = "Refunded" -> {"Locked", "Refundable", "Released"}

\* Rows only advance along the contract's states, whatever failed, was read late or
\* healed: a row that goes back takes overlapping runs.
RowsOnlyAdvance ==
    [][\A i \in Id :
          db[i] \in KnownStates /\ db'[i] \in KnownStates /\ db'[i] # db[i]
              => overlapped \/ db[i] \in Before(db'[i])]_vars

\* The row agrees with the chain, or is terminal and is not looked at.
MatchesChain(i) ==
    \/ db'[i] \in {None, chain[i]}
    \/ chain[i] = "Absent" /\ db'[i] = "ChainNotFound"
    \/ ~OpenRow(db'[i])

\* Nothing more is to be done: a row of a disputed escrow, which decodes to Unknown,
\* has been left as it was.
Settled(i) == MatchesChain(i) \/ (chain[i] = "Disputed" /\ db'[i] = db[i])

QuietHealEnds(p) ==
    /\ stage[p] # "idle" /\ stage'[p] = "idle" /\ heal[p]
    /\ ~disturbed[p] /\ errors' = errors

\* A healing run during which nothing else happens leaves no row behind that it could
\* have brought in line, once the query answers; as long as the query rejects, it
\* writes no row at all.
QuietHealConverges ==
    [][\A p \in Process : QuietHealEnds(p) =>
          IF query = "answers" THEN \A i \in Id : Settled(i) ELSE db' = db]_vars

\* Terminal rows are left alone for good, except by a stale run beside another.
TerminalRowsStay ==
    [][\A i \in Id : db[i] \in {"Released", "Refunded"} => overlapped \/ db'[i] = db[i]]_vars
===============================================================================
