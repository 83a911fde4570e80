---------------------------- MODULE ReconcilerProofs ----------------------------
(***************************************************************************)
(* Proofs about Reconciler, for any escrows and any number of processes:   *)
(* rows only advance, terminal rows stay, and an undisturbed healing run   *)
(* settles every row, or none when the query for its state rejects.        *)
(***************************************************************************)
EXTENDS Reconciler, TLAPS

\* What a state read from the chain, or kept in a row, says of the chain from then on.
TrueOf(s, now) ==
    /\ s = "Refundable" => now \in {"Refundable", "Refunded"}
    /\ s = "Released" => now \in {"Released", "Refunded"}
    /\ s = "Refunded" => now = "Refunded"

\* Rows and answers were true of the chain once.
ReadFromChain ==
    \A i \in Id :
        /\ TrueOf(db[i], chain[i])
        /\ \A p \in Process : TrueOf(answers[p][i], chain[i])

\* A run has answers for rows it loaded only; a report follows a healing run only, and
\* has no answer that was not decoded.
Locals ==
    \A p \in Process :
        /\ stage[p] = "idle" => ~heal[p] /\ snapshot[p] = NoRows /\ answers[p] = NoRows
        /\ stage[p] = "reported" => heal[p] /\ \A i \in Id : answers[p][i] # "Unknown"
        /\ stage[p] = "fetch" =>
              \A i \in Id : snapshot[p][i] = None => answers[p][i] = None

\* Until runs overlap, one is under way at a time: the rows it will write are as it
\* loaded them, open, and no further than its answers.
OneRun ==
    \A p \in Process : stage[p] # "idle" =>
        /\ \A q \in Process : stage[q] # "idle" => q = p
        /\ \A i \in Id :
              /\ snapshot[p][i] # None => snapshot[p][i] = db[i] /\ OpenRow(db[i])
              /\ answers[p][i] # None =>
                    OpenRow(db[i]) /\ (db[i] = "Refundable" =>
                                          answers[p][i] \notin {"Locked", "Released"})
              /\ stage[p] = "reported" /\ answers[p][i] # None =>
                    Differs(db[i], answers[p][i])

\* During an undisturbed healing run, its rows and answers are those of the moment.
Open(i) == IF OpenRow(db[i]) THEN db[i] ELSE None

Diverges(i) == OpenRow(db[i]) /\ Differs(db[i], Answered(i))

Quiet ==
    \A p \in Process : heal[p] /\ ~disturbed[p] =>
        /\ stage[p] = "fetch" =>
              \A i \in Id : /\ snapshot[p][i] = Open(i)
                            /\ answers[p][i] \in {None, Answered(i)}
        /\ stage[p] = "reported" =>
              \A i \in Id : answers[p][i] = IF Diverges(i) THEN Answered(i) ELSE None

IInv == TypeOK /\ ReadFromChain /\ Locals /\ (~overlapped => OneRun) /\ Quiet

-------------------------------------------------------------------------------
\* The operators of the model.

\* None is no state of the chain, and no row or answer but the missing one.
LEMMA Nones ==
    /\ \A s \in ChainState \cup RowState \cup Answer : None # s
    /\ None \notin KnownStates
BY ReconcilerAssumption DEF ChainState, RowState, Answer, KnownStates

\* What decodeEscrowState makes of a state.
LEMMA Decoding ==
    ASSUME NEW s \in ChainState
    PROVE  /\ Decoded(s) \in Answer /\ Decoded(s) # None
           /\ s = "Absent" => Decoded(s) = "NotFound"
           /\ s = "Disputed" => Decoded(s) = "Unknown"
           /\ s \notin {"Absent", "Disputed"} => Decoded(s) = s
           /\ TrueOf(Decoded(s), s)
BY Nones DEF ChainState, Answer, Decoded, TrueOf

\* What the reconciler takes the chain to say of an escrow.
LEMMA Answering ==
    ASSUME TypeOK, NEW i \in Id
    PROVE  /\ Answered(i) \in Answer /\ Answered(i) # None
           /\ TrueOf(Answered(i), chain[i])
           /\ query = "answers" => Answered(i) = Decoded(chain[i])
           /\ query # "answers" => Answered(i) = "Unknown"
<1>1. chain[i] \in ChainState
  BY DEF TypeOK
<1>2. "Unknown" \in Answer /\ "Unknown" # None /\ TrueOf("Unknown", chain[i])
  BY Nones DEF Answer, TrueOf
<1>3. CASE query = "answers"
  BY <1>1, <1>3, Decoding DEF Answered
<1>4. CASE query # "answers"
  BY <1>2, <1>4 DEF Answered
<1>5. QED
  BY <1>3, <1>4

\* Some answers say nothing that the chain could outgrow.
LEMMA NoneIsTrue ==
    \A now : TrueOf(None, now) /\ TrueOf("Locked", now) /\ TrueOf("Unknown", now)
             /\ TrueOf("NotFound", now) /\ TrueOf("ChainNotFound", now)
BY Nones DEF TrueOf, RowState

\* The contract's moves leave true what was read before.
LEMMA StaysTrue ==
    ASSUME NEW s \in ChainState, NEW t \in Successors(s)
    PROVE  t \in ChainState /\ \A x : TrueOf(x, s) => TrueOf(x, t)
<1>1. CASE s = "Absent"
  BY <1>1 DEF Successors, ChainState, TrueOf
<1>2. CASE s = "Locked"
  BY <1>2 DEF Successors, ChainState, TrueOf
<1>3. CASE s = "Refundable"
  BY <1>3 DEF Successors, ChainState, TrueOf
<1>4. CASE s = "Disputed"
  BY <1>4 DEF Successors, ChainState, TrueOf
<1>5. CASE s = "Released"
  BY <1>5 DEF Successors, ChainState, TrueOf
<1>6. CASE s = "Refunded"
  BY <1>6 DEF Successors, ChainState, TrueOf
<1>7. QED
  BY <1>1, <1>2, <1>3, <1>4, <1>5, <1>6 DEF ChainState

\* A row may be open and out of line with an answer, but not one that is not decoded.
LEMMA Differing ==
    ASSUME NEW row \in RowState, NEW a \in Answer
    PROVE  /\ a = "NotFound" => Differs(row, a)
           /\ Differs(row, a) => a # "Unknown"
           /\ a \in KnownStates /\ row # a => Differs(row, a)
           /\ a \in KnownStates /\ Differs(row, a) => row # a
BY DEF Differs, NormaliseState, KnownStates, RowState, Answer

\* A run that has ended changes its locals only.
LEMMA LocalsGone ==
    ASSUME TypeOK, NEW p \in Process, CloseRun(p)
    PROVE  /\ stage'[p] = "idle" /\ heal'[p] = FALSE
           /\ snapshot'[p] = NoRows /\ answers'[p] = NoRows
           /\ \A q \in Process \ {p} :
                 /\ stage'[q] = stage[q] /\ heal'[q] = heal[q]
                 /\ snapshot'[q] = snapshot[q] /\ answers'[q] = answers[q]
           /\ stage' \in [Process -> {"idle", "fetch", "reported"}]
           /\ heal' \in [Process -> BOOLEAN]
           /\ snapshot' \in [Process -> [Id -> RowState \cup {None}]]
           /\ answers' \in [Process -> [Id -> Answer \cup {None}]]
<1>1. NoRows \in [Id -> RowState \cup {None}] /\ NoRows \in [Id -> Answer \cup {None}]
  BY DEF NoRows
<1>2. QED
  BY <1>1 DEF TypeOK, CloseRun

-------------------------------------------------------------------------------
\* The inductive invariant.

\* The reconciler starts in its invariant.
LEMMA Initially == Init => IInv
<1> SUFFICES ASSUME Init PROVE IInv
  OBVIOUS
<1>1. TypeOK
  <2>1. MaxErrors \in Nat
    BY ReconcilerAssumption
  <2>2. NoRows \in [Id -> RowState \cup {None}] /\ NoRows \in [Id -> Answer \cup {None}]
    BY DEF NoRows
  <2>3. chain \in [Id -> ChainState] /\ db \in [Id -> RowState \cup {None}]
    BY <2>2 DEF Init, ChainState
  <2>4. /\ stage \in [Process -> {"idle", "fetch", "reported"}]
        /\ heal \in [Process -> BOOLEAN] /\ disturbed \in [Process -> BOOLEAN]
    BY DEF Init
  <2>5. /\ snapshot \in [Process -> [Id -> RowState \cup {None}]]
        /\ answers \in [Process -> [Id -> Answer \cup {None}]]
    BY <2>2 DEF Init
  <2>6. errors \in 0 .. MaxErrors
    BY <2>1 DEF Init
  <2>7. overlapped \in BOOLEAN /\ query \in {"answers", "rejects"}
    BY DEF Init
  <2>8. QED
    BY <2>3, <2>4, <2>5, <2>6, <2>7 DEF TypeOK
<1>2. ReadFromChain
  BY NoneIsTrue DEF Init, ReadFromChain, NoRows
<1>3. Locals /\ OneRun /\ Quiet
  BY DEF Init, Locals, OneRun, Quiet
<1>4. QED
  BY <1>1, <1>2, <1>3 DEF IInv

\* A move of the contract keeps the invariant.
LEMMA ChainStep ==
    ASSUME IInv, NEW i \in Id, ChainMoves(i)
    PROVE  IInv'
<1> USE DEF IInv
<1>1. PICK t \in Successors(chain[i]) : chain' = [chain EXCEPT ![i] = t]
  BY DEF ChainMoves
<1>2. /\ disturbed' = heal
      /\ UNCHANGED <<query, db, stage, heal, snapshot, answers, errors, overlapped>>
  BY DEF ChainMoves, Disturb, runVars
<1>3. chain[i] \in ChainState /\ chain'[i] = t /\ \A j \in Id \ {i} : chain'[j] = chain[j]
  BY <1>1 DEF TypeOK
<1>4. t \in ChainState /\ \A x : TrueOf(x, chain[i]) => TrueOf(x, t)
  BY <1>3, StaysTrue
<1>5. TypeOK'
  BY <1>1, <1>2, <1>4 DEF TypeOK
<1>6. ReadFromChain'
  BY <1>2, <1>3, <1>4 DEF ReadFromChain
<1>7. Locals' /\ (~overlapped' => OneRun')
  BY <1>2 DEF Locals, OneRun
<1>8. Quiet'
  BY <1>2 DEF Quiet
<1>9. QED
  BY <1>5, <1>6, <1>7, <1>8

\* The recording of a new escrow keeps the invariant.
LEMMA RecordStep ==
    ASSUME IInv, NEW i \in Id, RecordEscrow(i)
    PROVE  IInv'
<1> USE DEF IInv
<1>1. /\ db[i] = None /\ db' = [db EXCEPT ![i] = "Locked"] /\ disturbed' = heal
      /\ UNCHANGED <<query, chain, stage, heal, snapshot, answers, errors, overlapped>>
  BY DEF RecordEscrow, Disturb, runVars
<1>2. db'[i] = "Locked" /\ \A j \in Id \ {i} : db'[j] = db[j]
  BY <1>1 DEF TypeOK
<1>3. TypeOK'
  BY <1>1 DEF TypeOK, RowState
<1>4. ReadFromChain'
  BY <1>1, <1>2, NoneIsTrue DEF ReadFromChain
<1>5. Locals'
  BY <1>1 DEF Locals
<1>6. ~overlapped' => OneRun'
  BY <1>1, <1>2 DEF OneRun, OpenRow
<1>7. Quiet'
  BY <1>1 DEF Quiet
<1>8. QED
  BY <1>3, <1>4, <1>5, <1>6, <1>7

\* A run that loads its rows keeps the invariant.
LEMMA BeginStep ==
    ASSUME IInv, NEW p \in Process, NEW h \in BOOLEAN, BeginRun(p, h)
    PROVE  IInv'
<1> USE DEF IInv
<1> DEFINE rows == [i \in Id |-> IF OpenRow(db[i]) THEN db[i] ELSE None]
           busy == \E q \in Process : stage[q] # "idle"
<1>1. /\ stage[p] = "idle" /\ stage' = [stage EXCEPT ![p] = "fetch"]
      /\ heal' = [heal EXCEPT ![p] = h]
      /\ snapshot' = [snapshot EXCEPT ![p] = rows]
      /\ disturbed' = [disturbed EXCEPT ![p] = h /\ busy]
      /\ UNCHANGED <<query, chain, db, answers, errors>>
  BY DEF BeginRun
<1>2. overlapped' \in BOOLEAN /\ (~overlapped' => ~overlapped /\ ~busy)
  BY Zenon DEF BeginRun, TypeOK
<1>3. rows \in [Id -> RowState \cup {None}] /\ \A i \in Id : rows[i] = Open(i)
  BY DEF TypeOK, Open
<1>4. answers[p] = NoRows /\ \A i \in Id : answers[p][i] = None
  BY <1>1 DEF Locals, NoRows
<1>5. (h /\ busy) \in BOOLEAN
  OBVIOUS
<1> HIDE DEF rows, busy
<1>6. /\ stage'[p] = "fetch" /\ heal'[p] = h /\ snapshot'[p] = rows
      /\ answers'[p] = answers[p]
      /\ \A q \in Process \ {p} :
            /\ stage'[q] = stage[q] /\ heal'[q] = heal[q] /\ snapshot'[q] = snapshot[q]
            /\ answers'[q] = answers[q] /\ disturbed'[q] = disturbed[q]
  BY <1>1 DEF TypeOK
<1>7. TypeOK'
  <2>1. disturbed' \in [Process -> BOOLEAN]
    BY <1>1, <1>5 DEF TypeOK
  <2>2. QED
    BY <2>1, <1>1, <1>2, <1>3 DEF TypeOK
<1>8. ReadFromChain'
  BY <1>1 DEF ReadFromChain
<1>9. Locals'
  BY <1>4, <1>6 DEF Locals
<1>10. ~overlapped' => OneRun'
  <2> SUFFICES ASSUME ~busy PROVE OneRun'
    BY <1>2
  <2>1. \A q \in Process : stage'[q] # "idle" => q = p
    BY <1>6 DEF busy
  <2>2. \A i \in Id : rows[i] # None => rows[i] = db[i] /\ OpenRow(db[i])
    BY <1>3 DEF Open
  <2>3. QED
    BY <2>1, <2>2, <1>1, <1>4, <1>6 DEF OneRun
<1>11. Quiet'
  <2> SUFFICES ASSUME NEW q \in Process, heal'[q], ~disturbed'[q]
               PROVE  /\ stage'[q] = "fetch" =>
                            \A i \in Id : /\ snapshot'[q][i] = Open(i)
                                          /\ answers'[q][i] \in {None, Answered(i)}
                      /\ stage'[q] = "reported" =>
                            \A i \in Id : answers'[q][i] = IF Diverges(i)
                                                           THEN Answered(i) ELSE None
    BY <1>1 DEF Quiet, Open, Diverges, Answered
  <2>1. CASE q = p
    BY <2>1, <1>3, <1>4, <1>6
  <2>2. CASE q # p
    BY <2>2, <1>6 DEF Quiet
  <2>3. QED
    BY <2>1, <2>2
<1>12. QED
  BY <1>7, <1>8, <1>9, <1>10, <1>11

\* An answer of the contract to a run, or what a failed request is taken for.
LEMMA AnswerStep ==
    ASSUME IInv, NEW p \in Process, NEW i \in Id, Asked(p, i),
           NEW a \in Answer, TrueOf(a, chain[i]),
           db[i] = "Refundable" => a \notin {"Locked", "Released"},
           answers' = [answers EXCEPT ![p][i] = a],
           errors' \in 0 .. MaxErrors, disturbed' \in [Process -> BOOLEAN],
           \A q \in Process \ {p} : disturbed'[q] = disturbed[q],
           heal[p] /\ ~disturbed'[p] => ~disturbed[p] /\ a = Answered(i),
           UNCHANGED <<query, chain, db, stage, heal, snapshot, overlapped>>
    PROVE  IInv'
<1> USE DEF IInv
<1>1. answers' = [answers EXCEPT ![p] = [answers[p] EXCEPT ![i] = a]]
  OBVIOUS
<1>2. answers[p] \in [Id -> Answer \cup {None}]
  BY DEF TypeOK
<1>3. /\ answers'[p][i] = a
      /\ \A j \in Id \ {i} : answers'[p][j] = answers[p][j]
      /\ \A q \in Process \ {p} : answers'[q] = answers[q]
      /\ answers' \in [Process -> [Id -> Answer \cup {None}]]
  BY <1>1, <1>2 DEF TypeOK
<1>4. stage[p] = "fetch" /\ snapshot[p][i] # None
  BY DEF Asked
<1>5. TypeOK'
  BY <1>3 DEF TypeOK
<1>6. ReadFromChain'
  BY <1>3 DEF ReadFromChain
<1>7. Locals'
  BY <1>3, <1>4 DEF Locals
<1>8. ~overlapped' => OneRun'
  <2> SUFFICES ASSUME OneRun PROVE OneRun'
    OBVIOUS
  <2>1. snapshot[p][i] = db[i] /\ OpenRow(db[i])
    BY <1>4 DEF OneRun
  <2>2. QED
    BY <2>1, <1>3, <1>4 DEF OneRun
<1>9. Quiet'
  <2> SUFFICES ASSUME NEW q \in Process, heal[q], ~disturbed'[q]
               PROVE  /\ stage[q] = "fetch" =>
                            \A j \in Id : /\ snapshot[q][j] = Open(j)
                                          /\ answers'[q][j] \in {None, Answered(j)}
                      /\ stage[q] = "reported" =>
                            \A j \in Id : answers'[q][j] = IF Diverges(j)
                                                           THEN Answered(j) ELSE None
    BY DEF Quiet, Open, Diverges, Answered
  <2>1. CASE q = p
    BY <2>1, <1>3, <1>4 DEF Quiet
  <2>2. CASE q # p
    BY <2>2, <1>3 DEF Quiet
  <2>3. QED
    BY <2>1, <2>2
<1>10. QED
  BY <1>5, <1>6, <1>7, <1>8, <1>9

\* An answer, or a failed request, keeps the invariant.
LEMMA FetchStep ==
    ASSUME IInv, NEW p \in Process, NEW i \in Id, FetchState(p, i) \/ FetchFails(p, i)
    PROVE  IInv'
<1> USE DEF IInv
<1>1. CASE FetchState(p, i)
  <2>1. chain[i] \in ChainState
    BY DEF TypeOK
  <2>2. /\ Asked(p, i) /\ answers' = [answers EXCEPT ![p][i] = Kept(p, Answered(i))]
        /\ UNCHANGED <<query, chain, db, stage, heal, snapshot, errors, overlapped, disturbed>>
    BY <1>1 DEF FetchState
  <2>3. Answered(i) \in Answer /\ TrueOf(Answered(i), chain[i])
    BY Answering
  <2>4. db[i] = "Refundable" => chain[i] \in {"Refundable", "Refunded"}
    BY DEF ReadFromChain, TrueOf
  <2>5. db[i] = "Refundable" => Answered(i) \notin {"Locked", "Released"}
    <3>1. CASE query = "answers"
      BY <2>1, <2>4, <3>1, Answering, Decoding
    <3>2. CASE query # "answers"
      BY <3>2, Answering
    <3>3. QED
      BY <3>1, <3>2
  <2>6. errors' \in 0 .. MaxErrors /\ disturbed' \in [Process -> BOOLEAN]
        /\ disturbed' = disturbed
    BY <2>2 DEF TypeOK
  <2>7. /\ Kept(p, Answered(i)) \in Answer /\ TrueOf(Kept(p, Answered(i)), chain[i])
        /\ db[i] = "Refundable" => Kept(p, Answered(i)) \notin {"Locked", "Released"}
        /\ heal[p] => Kept(p, Answered(i)) = Answered(i)
    BY <2>3, <2>5, NoneIsTrue DEF Kept, Answer
  <2>8. QED
    BY <2>2, <2>6, <2>7, AnswerStep
<1>2. CASE FetchFails(p, i)
  <2>1. PICK a \in {"Unknown", "NotFound"} : answers' = [answers EXCEPT ![p][i] = a]
    BY <1>2 DEF FetchFails, Kept
  <2>2. /\ Asked(p, i) /\ errors < MaxErrors /\ errors' = errors + 1
        /\ disturbed' = [disturbed EXCEPT ![p] = heal[p]]
        /\ UNCHANGED <<query, chain, db, stage, heal, snapshot, overlapped>>
    BY <1>2 DEF FetchFails
  <2>3. a \in Answer /\ TrueOf(a, chain[i])
    BY <2>1, NoneIsTrue DEF Answer
  <2>4. errors' \in 0 .. MaxErrors
    BY <2>2, ReconcilerAssumption DEF TypeOK
  <2>5. disturbed' \in [Process -> BOOLEAN] /\ disturbed'[p] = heal[p]
        /\ \A q \in Process \ {p} : disturbed'[q] = disturbed[q]
    BY <2>2 DEF TypeOK
  <2>6. QED
    BY <2>1, <2>2, <2>3, <2>4, <2>5, AnswerStep
<1>3. QED
  BY <1>1, <1>2

\* A run that has compared and goes on to heal keeps the invariant.
LEMMA ReportStep ==
    ASSUME IInv, NEW p \in Process, Report(p)
    PROVE  IInv'
<1> USE DEF IInv
<1> DEFINE kept == [i \in Id |-> IF i \in Discrepancies(p) THEN answers[p][i] ELSE None]
<1>1. /\ Fetched(p) /\ heal[p] /\ stage' = [stage EXCEPT ![p] = "reported"]
      /\ answers' = [answers EXCEPT ![p] = kept]
      /\ snapshot' = [snapshot EXCEPT ![p] = NoRows]
      /\ UNCHANGED <<query, chain, db, heal, errors, overlapped, disturbed>>
  BY DEF Report
<1>2. NoRows \in [Id -> RowState \cup {None}] /\ \A i \in Id : NoRows[i] = None
  BY DEF NoRows
<1>3. kept \in [Id -> Answer \cup {None}]
  BY DEF TypeOK
<1>4. \A i \in Id : /\ kept[i] \in {None, answers[p][i]}
                    /\ kept[i] # None => i \in Discrepancies(p)
                    /\ i \in Discrepancies(p) => kept[i] = answers[p][i]
  OBVIOUS
<1> HIDE DEF kept
<1>5. /\ stage'[p] = "reported" /\ answers'[p] = kept /\ snapshot'[p] = NoRows
      /\ \A q \in Process \ {p} : /\ stage'[q] = stage[q] /\ answers'[q] = answers[q]
                                  /\ snapshot'[q] = snapshot[q]
  BY <1>1 DEF TypeOK
<1>6. stage[p] = "fetch" /\ \A i \in Id : snapshot[p][i] # None => answers[p][i] # None
  BY <1>1 DEF Fetched, Asked
<1>7. TypeOK'
  BY <1>1, <1>2, <1>3 DEF TypeOK
<1>8. ReadFromChain'
  BY <1>1, <1>4, <1>5, NoneIsTrue DEF ReadFromChain
<1>9. Locals'
  <2>1. \A i \in Id : kept[i] # "Unknown"
    BY <1>4, Nones DEF Discrepancies, Differs, Answer
  <2>2. QED
    BY <2>1, <1>1, <1>5 DEF Locals
<1>10. ~overlapped' => OneRun'
  <2> SUFFICES ASSUME OneRun PROVE OneRun'
    BY <1>1
  <2>1. ASSUME NEW i \in Id, kept[i] # None
        PROVE  /\ kept[i] = answers[p][i] /\ answers[p][i] # None
               /\ OpenRow(db[i]) /\ Differs(db[i], kept[i])
    <3>1. i \in Discrepancies(p) /\ kept[i] = answers[p][i]
      BY <2>1, <1>4
    <3>2. snapshot[p][i] = db[i] /\ OpenRow(db[i]) /\ Differs(snapshot[p][i], answers[p][i])
      BY <3>1, <1>6 DEF Discrepancies, OneRun
    <3>3. QED
      BY <2>1, <3>1, <3>2
  <2>2. QED
    BY <2>1, <1>1, <1>2, <1>5, <1>6 DEF OneRun
<1>11. Quiet'
  <2> SUFFICES ASSUME NEW q \in Process, heal[q], ~disturbed[q]
               PROVE  /\ stage'[q] = "fetch" =>
                            \A i \in Id : /\ snapshot'[q][i] = Open(i)
                                          /\ answers'[q][i] \in {None, Answered(i)}
                      /\ stage'[q] = "reported" =>
                            \A i \in Id : answers'[q][i] = IF Diverges(i)
                                                           THEN Answered(i) ELSE None
    BY <1>1 DEF Quiet, Open, Diverges, Answered
  <2>1. CASE q # p
    BY <2>1, <1>5 DEF Quiet
  <2>2. CASE q = p
    <3> SUFFICES ASSUME NEW i \in Id
                 PROVE  kept[i] = IF Diverges(i) THEN Answered(i) ELSE None
      BY <2>2, <1>5
    <3>1. snapshot[p][i] = Open(i) /\ answers[p][i] \in {None, Answered(i)}
      BY <2>2, <1>6 DEF Quiet
    <3>2. CASE OpenRow(db[i])
      <4>1. snapshot[p][i] = db[i] /\ db[i] # None
        BY <3>1, <3>2 DEF Open, OpenRow
      <4>2. answers[p][i] = Answered(i)
        BY <3>1, <4>1, <1>6
      <4>3. i \in Discrepancies(p) <=> Diverges(i)
        BY <3>2, <4>1, <4>2 DEF Discrepancies, Diverges
      <4>4. QED
        BY <4>2, <4>3, <1>4
    <3>3. CASE ~OpenRow(db[i])
      <4>1. snapshot[p][i] = None
        BY <3>1, <3>3 DEF Open
      <4>2. i \notin Discrepancies(p)
        BY <4>1 DEF Discrepancies
      <4>3. QED
        BY <3>3, <4>2, <1>4 DEF Diverges
    <3>4. QED
      BY <3>2, <3>3
  <2>3. QED
    BY <2>1, <2>2
<1>12. QED
  BY <1>7, <1>8, <1>9, <1>10, <1>11

\* The end of a run that writes no row.
LEMMA EndStep ==
    ASSUME IInv, NEW p \in Process, CloseRun(p), errors' \in 0 .. MaxErrors,
           disturbed' = [disturbed EXCEPT ![p] = FALSE],
           UNCHANGED <<query, chain, db, overlapped>>
    PROVE  IInv'
<1> USE DEF IInv
<1>1. /\ stage'[p] = "idle" /\ heal'[p] = FALSE
      /\ snapshot'[p] = NoRows /\ answers'[p] = NoRows
      /\ \A q \in Process \ {p} :
            /\ stage'[q] = stage[q] /\ heal'[q] = heal[q]
            /\ snapshot'[q] = snapshot[q] /\ answers'[q] = answers[q]
            /\ disturbed'[q] = disturbed[q]
  BY LocalsGone DEF TypeOK
<1>2. TypeOK'
  BY LocalsGone DEF TypeOK
<1>3. ReadFromChain'
  BY <1>1, NoneIsTrue DEF ReadFromChain, NoRows
<1>4. Locals'
  BY <1>1 DEF Locals
<1>5. ~overlapped' => OneRun'
  BY <1>1 DEF OneRun
<1>6. Quiet'
  <2> SUFFICES ASSUME NEW q \in Process, heal'[q], ~disturbed'[q]
               PROVE  /\ stage'[q] = "fetch" =>
                            \A i \in Id : /\ snapshot'[q][i] = Open(i)
                                          /\ answers'[q][i] \in {None, Answered(i)}
                      /\ stage'[q] = "reported" =>
                            \A i \in Id : answers'[q][i] = IF Diverges(i)
                                                           THEN Answered(i) ELSE None
    BY DEF Quiet, Open, Diverges, Answered
  <2>1. q # p
    BY <1>1
  <2>2. QED
    BY <2>1, <1>1 DEF Quiet
<1>7. QED
  BY <1>2, <1>3, <1>4, <1>5, <1>6

\* What Heal writes of a row.
LEMMA HealedRow ==
    ASSUME IInv, NEW p \in Process, Heal(p), NEW i \in Id
    PROVE  /\ db'[i] = IF answers[p][i] # None THEN Healed(p, i) ELSE db[i]
           /\ answers[p][i] # None =>
                 /\ answers[p][i] \in Answer
                 /\ Healed(p, i) = IF answers[p][i] = "NotFound"
                                   THEN "ChainNotFound" ELSE answers[p][i]
BY DEF Heal, Healed, IInv, TypeOK

\* The write of a healing run keeps the invariant.
LEMMA HealStep ==
    ASSUME IInv, NEW p \in Process, Heal(p)
    PROVE  IInv'
<1> USE DEF IInv
<1>1. /\ stage[p] = "reported" /\ CloseRun(p) /\ disturbed' = [heal EXCEPT ![p] = FALSE]
      /\ UNCHANGED <<query, chain, errors, overlapped>>
  BY DEF Heal
<1>2. /\ stage'[p] = "idle" /\ heal'[p] = FALSE
      /\ snapshot'[p] = NoRows /\ answers'[p] = NoRows
      /\ \A q \in Process \ {p} :
            /\ stage'[q] = stage[q] /\ heal'[q] = heal[q]
            /\ snapshot'[q] = snapshot[q] /\ answers'[q] = answers[q]
            /\ disturbed'[q] = heal[q]
  BY <1>1, LocalsGone DEF TypeOK
<1>3. \A i \in Id : db'[i] \in RowState \cup {None}
  <2> TAKE i \in Id
  <2>1. answers[p][i] # "Unknown"
    BY <1>1 DEF Locals
  <2>2. QED
    BY <2>1, HealedRow DEF TypeOK, RowState, Answer
<1>4. TypeOK'
  <2>1. db' \in [Id -> RowState \cup {None}]
    BY <1>3 DEF Heal
  <2>2. QED
    BY <2>1, <1>1, LocalsGone DEF TypeOK
<1>5. ReadFromChain'
  <2>1. \A i \in Id : TrueOf(db'[i], chain[i])
    BY HealedRow, NoneIsTrue DEF ReadFromChain
  <2>2. QED
    BY <2>1, <1>1, <1>2, NoneIsTrue DEF ReadFromChain, NoRows
<1>6. Locals'
  BY <1>2 DEF Locals
<1>7. ~overlapped' => OneRun'
  <2> SUFFICES ASSUME OneRun PROVE OneRun'
    BY <1>1
  <2>1. \A q \in Process : stage'[q] = "idle"
    BY <1>1, <1>2 DEF OneRun
  <2>2. QED
    BY <2>1 DEF OneRun
<1>8. Quiet'
  BY <1>2 DEF Quiet
<1>9. QED
  BY <1>4, <1>5, <1>6, <1>7, <1>8

\* A stuttering step keeps the invariant.
LEMMA StutterStep == IInv /\ UNCHANGED vars => IInv'
BY DEF vars, runVars, IInv, TypeOK, ReadFromChain, Locals, OneRun, Quiet, Open, Diverges, Answered

\* The invariant is inductive.
LEMMA Inductive == IInv /\ [Next]_vars => IInv'
<1> SUFFICES ASSUME IInv, Next PROVE IInv'
  BY StutterStep
<1>1. ASSUME NEW p \in Process, RunOnStartup(p) \/ \E h \in BOOLEAN : RunOnDemand(p, h)
      PROVE  IInv'
  BY <1>1, BeginStep DEF RunOnStartup, RunOnDemand
<1>2. ASSUME NEW p \in Process, ReportOnly(p)
      PROVE  IInv'
  <2>1. /\ CloseRun(p) /\ disturbed' = [disturbed EXCEPT ![p] = FALSE]
        /\ UNCHANGED <<query, chain, db, errors, overlapped>>
    BY <1>2 DEF ReportOnly
  <2>2. errors' \in 0 .. MaxErrors
    BY <2>1 DEF IInv, TypeOK
  <2>3. QED
    BY <2>1, <2>2, EndStep
<1>3. ASSUME NEW p \in Process, RunFails(p)
      PROVE  IInv'
  <2>1. /\ CloseRun(p) /\ disturbed' = [disturbed EXCEPT ![p] = FALSE]
        /\ errors < MaxErrors /\ errors' = errors + 1 /\ UNCHANGED <<query, chain, db, overlapped>>
    BY <1>3 DEF RunFails
  <2>2. errors' \in 0 .. MaxErrors
    BY <2>1, ReconcilerAssumption DEF IInv, TypeOK
  <2>3. QED
    BY <2>1, <2>2, EndStep
<1>4. QED
  BY <1>1, <1>2, <1>3, ChainStep, RecordStep, FetchStep, ReportStep, HealStep
     DEF Next, RunStep

\* The inductive invariant of the reconciler holds, for any escrows and processes.
THEOREM InvariantHolds == Spec => []IInv
BY Initially, Inductive, PTL DEF Spec

\* The state of the table, the runs and the chain stays of its types.
THEOREM TypeCorrect == Spec => []TypeOK
<1>1. IInv => TypeOK
  BY DEF IInv
<1>2. QED
  BY InvariantHolds, <1>1, PTL

-------------------------------------------------------------------------------
\* What a step does to the table.

\* Rows change by healing and by recording only.
LEMMA RowSteps ==
    ASSUME [Next]_vars
    PROVE  \/ db' = db
           \/ \E i \in Id : RecordEscrow(i)
           \/ \E p \in Process : Heal(p)
BY DEF Next, vars, ChainMoves, RunOnStartup, RunOnDemand, BeginRun, RunStep, FetchState,
   FetchFails, Report, ReportOnly, RunFails

\* A healing run that no other overlaps writes a row that is open, out of line with the
\* answer, and behind it.
LEMMA HealsForward ==
    ASSUME IInv, ~overlapped, NEW p \in Process, Heal(p), NEW i \in Id, db'[i] # db[i]
    PROVE  /\ OpenRow(db[i])
           /\ db[i] \in KnownStates /\ db'[i] \in KnownStates => db[i] \in Before(db'[i])
<1>1. stage[p] = "reported" /\ answers[p][i] # None
  BY HealedRow DEF Heal
<1>2. /\ OpenRow(db[i]) /\ Differs(db[i], answers[p][i])
      /\ db[i] = "Refundable" => answers[p][i] \notin {"Locked", "Released"}
  BY <1>1 DEF IInv, OneRun
<1>3. db[i] \in RowState \ {"Released", "Refunded"}
  BY <1>2 DEF OpenRow, IInv, TypeOK
<1>4. answers[p][i] \in Answer
      /\ db'[i] = IF answers[p][i] = "NotFound" THEN "ChainNotFound" ELSE answers[p][i]
  BY <1>1, HealedRow
<1>5. ASSUME db[i] \in KnownStates, db'[i] \in KnownStates
      PROVE  db[i] \in Before(db'[i])
  <2>1. db[i] \in {"Locked", "Refundable"} /\ db'[i] = answers[p][i]
    BY <1>3, <1>4, <1>5 DEF KnownStates
  <2>2. db'[i] # db[i] /\ (db[i] = "Refundable" => db'[i] = "Refunded")
    BY <2>1, <1>2, <1>5 DEF KnownStates
  <2>3. db[i] = "Locked" => db'[i] \in {"Refundable", "Released", "Refunded"}
    BY <2>2, <1>5 DEF KnownStates
  <2>4. QED
    BY <2>1, <2>2, <2>3 DEF Before
<1>6. QED
  BY <1>2, <1>5

\* A new row was no row before.
LEMMA RecordsAnew ==
    ASSUME IInv, NEW i \in Id, NEW j \in Id, RecordEscrow(i), db'[j] # db[j]
    PROVE  db[j] = None
BY DEF IInv, TypeOK, RecordEscrow

\* Rows only advance along the contract's states, unless runs overlap.
THEOREM RowsAdvance == Spec => RowsOnlyAdvance
<1>1. IInv /\ [Next]_vars =>
         [\A i \in Id :
             db[i] \in KnownStates /\ db'[i] \in KnownStates /\ db'[i] # db[i]
                 => overlapped \/ db[i] \in Before(db'[i])]_vars
  BY RowSteps, HealsForward, RecordsAnew, Nones
<1>2. QED
  BY <1>1, InvariantHolds, PTL DEF Spec, RowsOnlyAdvance

\* A row in a terminal state stays as it is, unless runs overlap.
THEOREM TerminalRowsAreLeft == Spec => TerminalRowsStay
<1>1. IInv /\ [Next]_vars =>
         [\A i \in Id : db[i] \in {"Released", "Refunded"} => overlapped \/ db'[i] = db[i]]_vars
  BY RowSteps, HealsForward, RecordsAnew, Nones DEF OpenRow, KnownStates
<1>2. QED
  BY <1>1, InvariantHolds, PTL DEF Spec, TerminalRowsStay

-------------------------------------------------------------------------------
\* A quiet healing run.

\* As long as the query rejects, no row is out of line with what it answers.
LEMMA NoneDiverges ==
    ASSUME TypeOK, query # "answers", NEW i \in Id
    PROVE  ~Diverges(i)
BY Answering DEF Diverges, Differs

\* A row that is in line with the chain, as far as the run looks at it, is settled.
LEMMA InLineSettles ==
    ASSUME IInv, query = "answers", NEW i \in Id, db'[i] = db[i], ~Diverges(i)
    PROVE  Settled(i)
<1>1. chain[i] \in ChainState /\ db[i] \in RowState \cup {None}
  BY DEF IInv, TypeOK
<1>2. CASE ~OpenRow(db[i])
  BY <1>2 DEF Settled, MatchesChain
<1>3. CASE OpenRow(db[i])
  <2>1. db[i] \in RowState /\ ~Differs(db[i], Answered(i)) /\ Answered(i) = Decoded(chain[i])
    BY <1>1, <1>3, Answering DEF Diverges, OpenRow, IInv
  <2>2. Decoded(chain[i]) # "NotFound" /\ chain[i] # "Absent"
    BY <2>1, <1>1, Decoding DEF Differs
  <2>3. CASE chain[i] = "Disputed"
    BY <2>3 DEF Settled
  <2>4. CASE chain[i] # "Disputed"
    <3>1. Decoded(chain[i]) = chain[i] /\ chain[i] \in KnownStates
      BY <1>1, <2>2, <2>4, Decoding DEF ChainState, KnownStates
    <3>2. chain[i] # "Unknown"
      BY <3>1 DEF KnownStates
    <3>3. NormaliseState(db[i]) = chain[i]
      BY <2>1, <3>1, <3>2 DEF Differs
    <3>4. db[i] = chain[i]
      BY <3>2, <3>3 DEF NormaliseState
    <3>5. QED
      BY <3>4 DEF Settled, MatchesChain
  <2>5. QED
    BY <2>3, <2>4
<1>4. QED
  BY <1>2, <1>3

\* A healed row agrees with the chain, or says that the chain knows no escrow.
LEMMA HealSettles ==
    ASSUME IInv, query = "answers", NEW p \in Process, Heal(p), heal[p], ~disturbed[p], NEW i \in Id
    PROVE  Settled(i)
<1>1. chain[i] \in ChainState /\ stage[p] = "reported" /\ Answered(i) = Decoded(chain[i])
  BY Answering DEF IInv, TypeOK, Heal
<1>2. answers[p][i] = IF Diverges(i) THEN Answered(i) ELSE None
  BY <1>1 DEF IInv, Quiet
<1>3. CASE ~Diverges(i)
  BY <1>2, <1>3, HealedRow, InLineSettles
<1>4. CASE Diverges(i)
  <2>1. answers[p][i] = Decoded(chain[i]) /\ answers[p][i] # None
    BY <1>1, <1>2, <1>4, Decoding
  <2>2. db'[i] = IF Decoded(chain[i]) = "NotFound" THEN "ChainNotFound" ELSE Decoded(chain[i])
    BY <2>1, HealedRow
  <2>3. CASE chain[i] = "Absent"
    BY <2>2, <2>3, <1>1, Decoding DEF Settled, MatchesChain
  <2>4. CASE chain[i] = "Disputed"
    <3>1. FALSE
      BY <1>1, <1>4, <2>4, Decoding DEF Diverges, Differs
    <3>2. QED
      BY <3>1
  <2>5. CASE chain[i] \notin {"Absent", "Disputed"}
    <3>1. Decoded(chain[i]) = chain[i] /\ chain[i] # "NotFound"
      BY <2>5, <1>1, Decoding DEF ChainState
    <3>2. QED
      BY <2>2, <3>1 DEF Settled, MatchesChain
  <2>6. QED
    BY <2>3, <2>4, <2>5
<1>5. QED
  BY <1>3, <1>4

\* A quiet healing run that finds no discrepancy leaves none.
LEMMA ReportOnlySettles ==
    ASSUME IInv, query = "answers", NEW p \in Process, ReportOnly(p), heal[p], ~disturbed[p],
           NEW i \in Id
    PROVE  Settled(i)
<1>1. /\ stage[p] = "fetch" /\ ~Asked(p, i) /\ Discrepancies(p) = {} /\ db' = db
  BY DEF ReportOnly, Fetched
<1>2. snapshot[p][i] = Open(i) /\ answers[p][i] \in {None, Answered(i)}
  BY <1>1 DEF IInv, Quiet
<1>3. ~Diverges(i)
  <2> SUFFICES ASSUME Diverges(i) PROVE FALSE
    OBVIOUS
  <2>1. snapshot[p][i] = db[i] /\ db[i] # None
    BY <1>2 DEF Diverges, Open, OpenRow
  <2>2. answers[p][i] = Answered(i)
    BY <1>1, <1>2, <2>1 DEF Asked
  <2>3. i \in Discrepancies(p)
    BY <2>1, <2>2 DEF Diverges, Discrepancies
  <2>4. QED
    BY <1>1, <2>3
<1>4. QED
  BY <1>1, <1>3, InLineSettles

\* A quiet healing run that no query answers writes nothing.
LEMMA HealsNothing ==
    ASSUME IInv, query # "answers", NEW p \in Process, Heal(p) \/ ReportOnly(p),
           heal[p], ~disturbed[p]
    PROVE  db' = db
<1>1. CASE Heal(p)
  <2>1. \A i \in Id : answers[p][i] = None
    BY <1>1, NoneDiverges DEF IInv, Quiet, Heal
  <2>2. db \in [Id -> RowState \cup {None}]
    BY DEF IInv, TypeOK
  <2>3. db' = [i \in Id |-> IF answers[p][i] # None THEN Healed(p, i) ELSE db[i]]
    BY <1>1 DEF Heal
  <2>4. QED
    BY <2>1, <2>2, <2>3
<1>2. CASE ReportOnly(p)
  BY <1>2 DEF ReportOnly
<1>3. QED
  BY <1>1, <1>2

\* The steps that end a run.
LEMMA EndingSteps ==
    ASSUME IInv, [Next]_vars, NEW p \in Process, stage[p] # "idle", stage'[p] = "idle",
           errors' = errors
    PROVE  Heal(p) \/ ReportOnly(p)
<1>1. ASSUME stage' = stage
      PROVE  FALSE
  BY <1>1
<1>2. ASSUME NEW q \in Process, Heal(q) \/ ReportOnly(q)
      PROVE  q = p
  BY <1>2, LocalsGone DEF Heal, ReportOnly, IInv
<1>3. ASSUME NEW q \in Process, RunFails(q)
      PROVE  FALSE
  BY <1>3 DEF RunFails, IInv, TypeOK
<1>4. ASSUME NEW q \in Process, NEW s \in {"fetch", "reported"},
             stage' = [stage EXCEPT ![q] = s]
      PROVE  FALSE
  BY <1>4 DEF IInv, TypeOK
<1>5. ASSUME NEW q \in Process, NEW h, BeginRun(q, h)
      PROVE  FALSE
  BY <1>4, <1>5 DEF BeginRun
<1>6. ASSUME NEW q \in Process, Report(q)
      PROVE  FALSE
  BY <1>4, <1>6 DEF Report
<1>7. ASSUME NEW q \in Process, NEW i \in Id, FetchState(q, i) \/ FetchFails(q, i)
      PROVE  FALSE
  BY <1>1, <1>7 DEF FetchState, FetchFails
<1>8. ASSUME NEW i \in Id, ChainMoves(i) \/ RecordEscrow(i)
      PROVE  FALSE
  BY <1>1, <1>8 DEF ChainMoves, RecordEscrow, runVars
<1>9. CASE UNCHANGED vars
  BY <1>1, <1>9 DEF vars, runVars
<1>10. CASE Next
  BY <1>2, <1>3, <1>5, <1>6, <1>7, <1>8, <1>10 DEF Next, RunStep, RunOnStartup, RunOnDemand
<1>11. QED
  BY <1>9, <1>10

\* A healing run during which nothing else happens settles every row it could have
\* brought in line with the chain when the query answers, and writes nothing at all
\* when it rejects.
THEOREM QuietHealsConverge == Spec => QuietHealConverges
<1>1. ASSUME IInv, [Next]_vars, NEW p \in Process, QuietHealEnds(p)
      PROVE  IF query = "answers" THEN \A i \in Id : Settled(i) ELSE db' = db
  <2>1. Heal(p) \/ ReportOnly(p)
    BY <1>1, EndingSteps DEF QuietHealEnds
  <2>2. heal[p] /\ ~disturbed[p]
    BY <1>1 DEF QuietHealEnds
  <2>3. CASE query = "answers"
    BY <1>1, <2>1, <2>2, <2>3, HealSettles, ReportOnlySettles
  <2>4. CASE query # "answers"
    BY <1>1, <2>1, <2>2, <2>4, HealsNothing
  <2>5. QED
    BY <2>3, <2>4, ReconcilerAssumption
<1>2. IInv /\ [Next]_vars =>
         [\A p \in Process : QuietHealEnds(p) =>
             IF query = "answers" THEN \A i \in Id : Settled(i) ELSE db' = db]_vars
  BY <1>1
<1>3. QED
  BY <1>2, InvariantHolds, PTL DEF Spec, QuietHealConverges
===============================================================================
