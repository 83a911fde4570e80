---------------------------- MODULE ListenerProofs -----------------------------
(***************************************************************************)
(* Proofs about Listener for any chain, events, page size, pool and number *)
(* of sessions and faults, and for both forms of the contract id.          *)
(* Everything a position stands for, be it the checkpoint, the one a       *)
(* session has loaded or read up to, or the transaction of a handler about *)
(* to save it, covers the events before it: they are stored, in progress,  *)
(* from before the first subscription, or lost for a cause on record.      *)
(***************************************************************************)
EXTENDS Listener, TLAPS, WellFoundedInduction

Reading == {"page", "batched", "saved"}

\* The event is stored or will be, or it is accounted for.
Kept(e) == e[1] <= origin \/ e \in stored \/ InProgress(e[1]) \/ Excused(e)

\* Before c, every event is kept.
Safe(c) == \A e \in Events : e[1] <= c => Kept(e)

Shape ==
    /\ origin # None => origin <= tip
    /\ origin = None =>
          /\ checkpoint = None /\ from = None /\ handlers = {}
          /\ stage \in {"down", "start", "loaded"}
    /\ stage \notin {"down", "start"} => session >= 1
    /\ stage \notin {"batched", "saved"} => batch = {}
    /\ stage = "batched" => batch # {}
    /\ \A i \in batch : i <= cursor

Covers ==
    origin # None =>
        /\ checkpoint # None => Safe(checkpoint)
        /\ from # None => Safe(from)
        /\ Safe(cursor)
        /\ \A h \in handlers : Safe(h.tx)

IInv == TypeOK /\ Shape /\ Covers
-------------------------------------------------------------------------------
\* The last transaction of a page.

\* Every nonempty set of naturals has a least element.
LEMMA LeastNatural ==
    ASSUME NEW T \in SUBSET Nat, T # {}
    PROVE  \E x \in T : \A y \in T : x <= y
<1>1. PICK x \in T : \A y \in T : ~(<<y, x>> \in OpToRel(<, Nat))
  BY NatLessThanWellFounded, WFMin, Zenon
<1>2. \A y \in T : ~(y < x)
  BY <1>1 DEF OpToRel
<1>3. QED
  BY <1>2

\* Every nonempty set of transactions has a last one.
LEMMA LastTx ==
    ASSUME NEW S \in SUBSET Tx, S # {}
    PROVE  Max(S) \in S /\ \A i \in S : i <= Max(S)
<1> DEFINE T == {n \in Nat : MaxTx - n \in S}
<1>1. MaxTx \in Nat
  BY ListenerAssumption
<1>2. T \in SUBSET Nat /\ T # {}
  <2>1. PICK i \in S : TRUE
    OBVIOUS
  <2>2. MaxTx - i \in T
    BY <1>1, <2>1 DEF Tx
  <2>3. QED
    BY <2>2
<1>3. PICK n \in T : \A m \in T : n <= m
  BY <1>2, LeastNatural
<1>4. MaxTx - n \in S
  BY <1>3
<1>5. \A i \in S : MaxTx - n >= i
  <2> TAKE i \in S
  <2>1. MaxTx - i \in T
    BY <1>1 DEF Tx
  <2>2. n <= MaxTx - i /\ i \in Nat /\ n \in Nat
    BY <1>3, <2>1 DEF Tx
  <2>3. QED
    BY <1>1, <2>2
<1>6. \E x \in S : \A y \in S : x >= y
  BY <1>4, <1>5
<1>7. Max(S) \in S /\ \A y \in S : Max(S) >= y
  BY <1>6 DEF Max
<1>8. QED
  BY <1>1, <1>7 DEF Tx

\* A page leaves nothing out between the position before it and its last transaction.
LEMMA PageContiguous ==
    ASSUME TypeOK, Page # {}
    PROVE  /\ Max(Page) \in Tx
           /\ \A i \in Tx : i <= Max(Page) => i <= cursor \/ i \in Page
           /\ \A i \in Page : i <= Max(Page)
<1>1. Page \in SUBSET Tx
  BY DEF Page
<1>2. Max(Page) \in Page /\ \A i \in Page : i <= Max(Page)
  BY <1>1, LastTx
<1>3. MaxTx \in Nat /\ PageLimit \in Nat /\ cursor \in 0..MaxTx /\ tip \in 0..MaxTx
  BY ListenerAssumption DEF TypeOK, Cursor
<1>4. QED
  BY <1>1, <1>2, <1>3 DEF Page, Tx

-------------------------------------------------------------------------------
\* Types and shape.

\* A handler is one of the record type.
LEMMA HandlersTyped ==
    ASSUME TypeOK, NEW h \in handlers
    PROVE  /\ h.session \in 1..MaxSessions /\ h.tx \in Tx
           /\ h.step \in {"queued", "held", "inserted", "saved"}
BY DEF TypeOK, Handler

\* A handler that goes on to its next step stays of the record type.
LEMMA Proceeds ==
    ASSUME TypeOK, NEW h \in handlers, NEW step \in {"queued", "held", "inserted", "saved"},
           Proceed(h, step)
    PROVE  handlers' \in SUBSET Handler
BY DEF TypeOK, Handler, Proceed

\* A handler that goes on to its next step handles the same transaction.
LEMMA SameTx ==
    ASSUME TypeOK, NEW h \in handlers, NEW step \in {"queued", "held", "inserted", "saved"},
           Proceed(h, step)
    PROVE  /\ \A g \in handlers' : \E k \in handlers : k.tx = g.tx
           /\ \A g \in handlers : g = h \/ g \in handlers'
           /\ \E g \in handlers' : g.tx = h.tx /\ g.step = step
<1>1. [h EXCEPT !.step = step].tx = h.tx /\ [h EXCEPT !.step = step].step = step
  BY DEF TypeOK, Handler
<1>2. QED
  BY <1>1 DEF Proceed

\* Of the events whose insertion is tried, each is stored or another has its id.
LEMMA StoredOrShadowed ==
    ASSUME TypeOK, NEW txs, Inserted(txs), NEW e \in EventsOf(txs)
    PROVE  e \in stored' \/ Shadowed(e)'
<1>1. CASE EventId(e) \in Ids(stored)
  <2>1. PICK f \in stored : EventId(f) = EventId(e)
    BY <1>1 DEF Ids
  <2>2. f \in stored'
    BY DEF Inserted
  <2>3. QED
    BY <2>1, <2>2 DEF Shadowed
<1>2. CASE EventId(e) \notin Ids(stored)
  <2> DEFINE T == {n \in Nat : \E f \in EventsOf(txs) : f[1] = n /\ EventId(f) = EventId(e)}
  <2>1. \A f \in EventsOf(txs) : f[1] \in Nat
    BY ListenerAssumption DEF EventsOf, Tx
  <2>2. e[1] \in T
    BY <2>1
  <2>3. PICK n \in T : \A m \in T : n <= m
    <3> HIDE DEF T
    <3>1. T \in SUBSET Nat
      BY DEF T
    <3>2. QED
      BY <2>2, <3>1, LeastNatural
  <2>4. PICK f \in EventsOf(txs) : f[1] = n /\ EventId(f) = EventId(e)
    OBVIOUS
  <2>5. \A g \in EventsOf(txs) : EventId(g) = EventId(f) => f[1] <= g[1]
    BY <2>1, <2>3, <2>4
  <2>6. f \in stored'
    BY <1>2, <2>4, <2>5 DEF Inserted
  <2>7. QED
    BY <2>4, <2>6 DEF Shadowed
<1>3. QED
  BY <1>1, <1>2

\* Only transactions with events are parsed into any.
LEMMA ContractTxs ==
    ASSUME NEW txs \in SUBSET Tx
    PROVE  /\ ContractEvents(txs) \in SUBSET txs
           /\ ContractIdForm = "hex" => EventsOf(ContractEvents(txs)) = EventsOf(txs)
<1>1. \A e \in EventsOf(txs) : e[1] \in txs /\ e \in Events
  BY DEF EventsOf
<1>2. ContractEvents(txs) \in SUBSET txs
  BY <1>1 DEF ContractEvents
<1>3. ASSUME ContractIdForm = "hex"
      PROVE  EventsOf(ContractEvents(txs)) = EventsOf(txs)
  <2>1. ContractEvents(txs) = {e[1] : e \in EventsOf(txs)}
    BY <1>3 DEF ContractEvents
  <2>2. QED
    BY <1>2, <2>1 DEF EventsOf
<1>4. QED
  BY <1>2, <1>3

\* The listener starts in its invariant.
LEMMA Initially == Init => IInv
<1> SUFFICES ASSUME Init PROVE IInv
  OBVIOUS
<1> USE ListenerAssumption
<1>1. TypeOK
  BY DEF Init, TypeOK, Cursor
<1>2. Shape /\ Covers
  BY DEF Init, Shape, Covers, Cursor
<1>3. QED
  BY <1>1, <1>2 DEF IInv

\* Every step keeps the types.
LEMMA TypesStep == TypeOK /\ Shape /\ [Next]_vars => TypeOK'
<1> SUFFICES ASSUME TypeOK, Shape, [Next]_vars PROVE TypeOK'
  OBVIOUS
<1>0. /\ MaxTx \in Nat /\ MaxSessions \in Nat /\ MaxFaults \in Nat /\ None \notin Tx
  BY ListenerAssumption DEF Tx, Cursor
<1> USE <1>0 DEF TypeOK, chainVars, dbVars, sessionVars, historyVars
<1>1. CASE UNCHANGED vars
  BY <1>1 DEF vars
<1>2. CASE Restart \/ LoadCheckpoint \/ StreamError
  BY <1>2 DEF Restart, LoadCheckpoint, StreamError, Goto
<1>3. CASE DetectGap
  BY <1>3 DEF DetectGap, Gap, Tx, Cursor
<1>4. CASE NoGap \/ CaughtUp
  <2>1. Subscribe /\ StreamCursor \in Cursor
    BY <1>4 DEF NoGap, CaughtUp, StreamCursor, Tx, Cursor
  <2>2. skipped' \in SUBSET Events
    BY <2>1 DEF Subscribe, Unstored, EventsOf
  <2>3. QED
    BY <2>1, <2>2 DEF Subscribe
<1>5. CASE SkipPage
  <2>1. Max(Page) \in Tx
    BY <1>5, PageContiguous DEF SkipPage
  <2>2. QED
    BY <1>5, <2>1 DEF SkipPage, Tx, Cursor
<1>6. CASE InsertBatch
  <2>1. Page \in SUBSET Tx
    BY DEF Page
  <2>2. ContractEvents(Page) \in SUBSET Page
    BY <2>1, ContractTxs
  <2>3. Max(Page) \in Tx
    BY <1>6, <2>2, PageContiguous DEF InsertBatch
  <2>4. cursor' \in Cursor
    BY <1>6, <2>3 DEF InsertBatch, Tx, Cursor
  <2>5. batch' \in SUBSET Tx
    BY <1>6, <2>1, <2>2 DEF InsertBatch
  <2>6. QED
    BY <1>6, <2>4, <2>5 DEF InsertBatch
<1>7. CASE SaveBatch
  <2>1. Max(batch) \in Tx
    BY <1>7, LastTx DEF SaveBatch, Shape
  <2>2. QED
    BY <1>7, <2>1 DEF SaveBatch, Goto
<1>8. CASE CommitBatch
  BY <1>8 DEF CommitBatch, Inserted, EventsOf
<1>9. CASE SessionFails \/ Crash \/ Grow
  BY <1>9 DEF SessionFails, Crash, Grow, Cursor, Unstored, EventsOf
<1>10. CASE Deliver
  <2>1. cursor + 1 \in Tx
    BY <1>10 DEF Deliver, Tx, Cursor
  <2>2. session \in 1..MaxSessions
    BY <1>10 DEF Deliver, Shape
  <2>3. [session |-> session, tx |-> cursor + 1, step |-> "queued"] \in Handler
    BY <2>1, <2>2 DEF Handler
  <2>4. QED
    BY <1>10, <2>1, <2>3 DEF Deliver, Tx, Cursor
<1>11. ASSUME NEW h \in handlers, HandlerStep(h)
       PROVE  TypeOK'
  <2>1. CASE Connect(h)
    BY <2>1, Proceeds DEF Connect
  <2>2. CASE InsertEvents(h)
    BY <2>2, Proceeds DEF InsertEvents, Inserted, EventsOf
  <2>3. CASE SaveCheckpoint(h)
    BY <2>3, Proceeds, HandlersTyped DEF SaveCheckpoint
  <2>4. CASE Commit(h)
    BY <2>4 DEF Commit
  <2>5. QED
    BY <1>11, <2>1, <2>2, <2>3, <2>4 DEF HandlerStep
<1>12. ASSUME NEW h \in handlers, HandlerFails(h)
       PROVE  TypeOK'
  BY <1>12 DEF HandlerFails, Unstored, EventsOf
<1>13. QED
  BY <1>1, <1>2, <1>3, <1>4, <1>5, <1>6, <1>7, <1>8, <1>9, <1>10, <1>11, <1>12
     DEF Next, SessionStep

\* Every step keeps what the stage of a session says of its stream and handlers.
LEMMA ShapeStep == TypeOK /\ Shape /\ [Next]_vars => Shape'
<1> SUFFICES ASSUME TypeOK, Shape, [Next]_vars PROVE Shape'
  OBVIOUS
<1>0. /\ MaxTx \in Nat /\ tip \in Nat /\ origin \in Nat \cup {None} /\ session \in Nat
      /\ cursor \in Nat /\ batch \in SUBSET Nat
  BY ListenerAssumption DEF TypeOK, Cursor, Tx
<1> USE <1>0 DEF Shape, chainVars, dbVars, sessionVars, historyVars
<1>1. CASE UNCHANGED vars
  BY <1>1 DEF vars
<1>2. CASE Restart \/ LoadCheckpoint \/ DetectGap \/ StreamError \/ SaveBatch
  <2>1. CASE Restart
    BY <2>1 DEF Restart, Goto
  <2>2. CASE LoadCheckpoint
    BY <2>2 DEF LoadCheckpoint
  <2>3. CASE DetectGap
    BY <2>3 DEF DetectGap, Gap
  <2>4. CASE StreamError
    BY <2>4 DEF StreamError, Goto
  <2>5. CASE SaveBatch
    BY <2>5 DEF SaveBatch, Goto
  <2>6. QED
    BY <1>2, <2>1, <2>2, <2>3, <2>4, <2>5
<1>3. CASE NoGap \/ CaughtUp
  <2>1. tip # None
    BY ListenerAssumption DEF TypeOK
  <2>2. Subscribe /\ batch = {} /\ session >= 1
    BY <1>3 DEF NoGap, CaughtUp
  <2>3. origin' # None /\ origin' <= tip /\ tip' = tip /\ batch' = {} /\ session' >= 1
    BY <2>1, <2>2 DEF Subscribe
  <2>4. QED
    BY <2>2, <2>3 DEF Subscribe
<1>4. CASE SkipPage \/ CommitBatch \/ SessionFails \/ Crash \/ Grow \/ Deliver
  <2>1. CASE SkipPage
    BY <2>1 DEF SkipPage
  <2>2. CASE CommitBatch
    BY <2>2 DEF CommitBatch
  <2>3. CASE SessionFails
    BY <2>3 DEF SessionFails
  <2>4. CASE Crash
    BY <2>4 DEF Crash
  <2>5. CASE Grow
    BY <2>5 DEF Grow
  <2>6. CASE Deliver
    BY <2>6 DEF Deliver
  <2>7. QED
    BY <1>4, <2>1, <2>2, <2>3, <2>4, <2>5, <2>6
<1>5. CASE InsertBatch
  <2>1. Page \in SUBSET Tx
    BY DEF Page
  <2>2. Page # {} /\ ContractEvents(Page) \subseteq Page
    BY <1>5, <2>1, ContractTxs DEF InsertBatch
  <2>3. \A i \in Page : i <= Max(Page)
    BY <2>2, PageContiguous
  <2>4. QED
    BY <1>5, <2>2, <2>3 DEF InsertBatch
<1>6. ASSUME NEW h \in handlers, HandlerStep(h) \/ HandlerFails(h)
      PROVE  Shape'
  BY <1>6 DEF HandlerStep, HandlerFails, Connect, InsertEvents, SaveCheckpoint, Commit
<1>7. QED
  BY <1>1, <1>2, <1>3, <1>4, <1>5, <1>6 DEF Next, SessionStep

-------------------------------------------------------------------------------
\* What a position covers.

\* The causes of a loss stay on record.
LEMMA ExcusesStay ==
    ASSUME TypeOK, [Next]_vars, NEW e \in Events, Excused(e)
    PROVE  Excused(e)'
<1> USE DEF chainVars, dbVars, sessionVars, historyVars
<1>1. stored \subseteq stored' /\ cut \subseteq cut' /\ skipped \subseteq skipped'
  <2>1. CASE UNCHANGED <<stored, cut, skipped>>
    BY <2>1
  <2>2. CASE NoGap \/ CaughtUp
    BY <2>2 DEF NoGap, CaughtUp, Subscribe
  <2>3. CASE CommitBatch
    BY <2>3 DEF CommitBatch, Inserted
  <2>4. CASE SessionFails \/ Crash
    BY <2>4 DEF SessionFails, Crash
  <2>5. ASSUME NEW h \in handlers, HandlerStep(h) \/ HandlerFails(h)
        PROVE  stored \subseteq stored' /\ cut \subseteq cut' /\ skipped \subseteq skipped'
    BY <2>5 DEF HandlerStep, HandlerFails, Connect, InsertEvents, Inserted, SaveCheckpoint, Commit
  <2>6. QED
    BY <2>1, <2>2, <2>3, <2>4, <2>5
       DEF Next, SessionStep, vars, Restart, LoadCheckpoint, DetectGap, SkipPage, InsertBatch,
           SaveBatch, Deliver, StreamError, Grow, Goto
<1>2. CASE Disturbed(e)
  BY <1>1, <1>2 DEF Disturbed, Excused
<1>3. CASE Shadowed(e)
  BY <1>1, <1>3 DEF Shadowed, Excused
<1>4. CASE ContractIdForm # "hex"
  BY <1>4 DEF Excused
<1>5. QED
  BY <1>2, <1>3, <1>4 DEF Excused

\* Once the listener has subscribed, no step forgets an event that is kept.
LEMMA KeptStays ==
    ASSUME TypeOK, Shape, [Next]_vars, origin # None, NEW e \in Events, Kept(e)
    PROVE  Kept(e)'
<1>0. e[1] \in Tx /\ EventsOf({e[1]}) \subseteq Events /\ e \in EventsOf({e[1]})
  BY ListenerAssumption DEF EventsOf
<1> USE DEF chainVars, dbVars, sessionVars, historyVars
<1>1. CASE Excused(e)
  BY <1>1, ExcusesStay DEF Kept
<1>2. CASE e[1] <= origin
  <2>1. origin' = origin
    BY DEF Next, SessionStep, vars, Restart, LoadCheckpoint, DetectGap, NoGap, CaughtUp,
           Subscribe, SkipPage, InsertBatch, SaveBatch, CommitBatch, SessionFails, Deliver,
           StreamError, HandlerStep, Connect, InsertEvents, SaveCheckpoint, Commit,
           HandlerFails, Crash, Grow, Goto
  <2>2. QED
    BY <1>2, <2>1 DEF Kept
<1>3. CASE e \in stored
  <2>1. e \in stored'
    BY <1>3
       DEF Next, SessionStep, vars, Restart, LoadCheckpoint, DetectGap, NoGap, CaughtUp,
           Subscribe, SkipPage, InsertBatch, SaveBatch, CommitBatch, SessionFails, Deliver,
           StreamError, HandlerStep, Connect, InsertEvents, SaveCheckpoint, Commit,
           HandlerFails, Crash, Grow, Goto, Inserted
  <2>2. QED
    BY <2>1 DEF Kept
<1>4. CASE InProgress(e[1]) /\ e \notin stored /\ ContractIdForm = "hex"
  <2>1. CASE UNCHANGED <<batch, handlers>>
    BY <1>4, <2>1 DEF Kept, InProgress
  <2>2. CASE InsertBatch
    BY <1>4, <2>2 DEF Kept, InProgress, InsertBatch, Shape
  <2>3. CASE CommitBatch
    <3>1. CASE e[1] \in batch
      <4>1. e \in EventsOf(batch)
        BY <3>1 DEF EventsOf
      <4>2. e \in stored' \/ Shadowed(e)'
        BY <2>3, <4>1, StoredOrShadowed DEF CommitBatch
      <4>3. QED
        BY <4>2 DEF Kept, Excused
    <3>2. CASE e[1] \notin batch
      BY <1>4, <2>3, <3>2 DEF Kept, InProgress, CommitBatch
    <3>3. QED
      BY <3>1, <3>2
  <2>4. CASE SessionFails
    <3>1. CASE e[1] \in batch
      BY <1>4, <2>4, <3>1 DEF Kept, Excused, Disturbed, SessionFails, Unstored, EventsOf
    <3>2. CASE e[1] \notin batch
      BY <1>4, <2>4, <3>2 DEF Kept, InProgress, SessionFails
    <3>3. QED
      BY <3>1, <3>2
  <2>5. CASE Crash
    <3>1. e \in Unstored(batch \cup {h.tx : h \in handlers})
      BY <1>4 DEF InProgress, Unstored, EventsOf
    <3>2. QED
      BY <2>5, <3>1 DEF Kept, Excused, Disturbed, Crash
  <2>6. CASE Deliver
    BY <1>4, <2>6 DEF Kept, InProgress, Deliver
  <2>7. ASSUME NEW h \in handlers, HandlerStep(h)
        PROVE  Kept(e)'
    <3>1. batch' = batch
      BY <2>7 DEF HandlerStep, Connect, InsertEvents, SaveCheckpoint, Commit
    <3>2. CASE Connect(h)
      <4>1. Proceed(h, "held")
        BY <3>2 DEF Connect
      <4>2. \A g \in handlers : g = h \/ g \in handlers'
        BY <4>1, SameTx
      <4>3. \E g \in handlers' : g.tx = h.tx /\ g.step = "held"
        BY <4>1, SameTx
      <4>4. QED
        BY <1>4, <3>1, <4>2, <4>3 DEF Kept, InProgress
    <3>3. CASE InsertEvents(h)
      <4>1. Proceed(h, "inserted") /\ Inserted(ContractEvents({h.tx}))
        BY <3>3 DEF InsertEvents
      <4>2. \A g \in handlers : g = h \/ g \in handlers'
        BY <4>1, SameTx
      <4>3. CASE h.tx = e[1]
        <5>1. EventsOf(ContractEvents({h.tx})) = EventsOf({h.tx})
          BY <1>0, <1>4, <4>3, ContractTxs
        <5>2. e \in EventsOf(ContractEvents({h.tx}))
          BY <1>0, <4>3, <5>1
        <5>3. e \in stored' \/ Shadowed(e)'
          BY <4>1, <5>2, StoredOrShadowed
        <5>4. QED
          BY <5>3 DEF Kept, Excused
      <4>4. CASE h.tx # e[1]
        BY <1>4, <3>1, <4>2, <4>4 DEF Kept, InProgress
      <4>5. QED
        BY <4>3, <4>4
    <3>4. CASE SaveCheckpoint(h)
      <4>1. Proceed(h, "saved") /\ h.step = "inserted"
        BY <3>4 DEF SaveCheckpoint, ReadyToSave
      <4>2. \A g \in handlers : g = h \/ g \in handlers'
        BY <4>1, SameTx
      <4>3. QED
        BY <1>4, <3>1, <4>1, <4>2 DEF Kept, InProgress
    <3>5. CASE Commit(h)
      BY <1>4, <3>1, <3>5 DEF Kept, InProgress, Commit
    <3>6. QED
      BY <2>7, <3>2, <3>3, <3>4, <3>5 DEF HandlerStep
  <2>8. ASSUME NEW h \in handlers, HandlerFails(h)
        PROVE  Kept(e)'
    <3>1. CASE h.tx = e[1]
      BY <1>4, <2>8, <3>1 DEF Kept, Excused, Disturbed, HandlerFails, Unstored, EventsOf
    <3>2. CASE h.tx # e[1]
      BY <1>4, <2>8, <3>2 DEF Kept, InProgress, HandlerFails
    <3>3. QED
      BY <3>1, <3>2
  <2>9. QED
    BY <2>1, <2>2, <2>3, <2>4, <2>5, <2>6, <2>7, <2>8
       DEF Next, SessionStep, vars, Restart, LoadCheckpoint, DetectGap, NoGap, CaughtUp,
           Subscribe, SkipPage, SaveBatch, StreamError, Grow, Goto
<1>5. QED
  BY <1>1, <1>2, <1>3, <1>4 DEF Kept, Excused

\* A position that is safe to start from stays safe.
LEMMA SafeStays ==
    ASSUME TypeOK, Shape, [Next]_vars, origin # None, NEW c, Safe(c)
    PROVE  \A e \in Events : e[1] <= c => Kept(e)'
BY KeptStays DEF Safe

\* Every step keeps all the positions safe that the listener may start from again.
LEMMA CoversStep ==
    ASSUME TypeOK, Shape, Covers, [Next]_vars, Shape', origin # None
    PROVE  Covers'
<1>0. /\ tip \in Nat /\ cursor \in Nat /\ Tx \subseteq Nat /\ MaxTx \in Nat
      /\ None \notin Tx /\ checkpoint \in Tx \cup {None} /\ from \in Tx \cup {None}
      /\ \A e \in Events : e[1] \in Tx
      /\ Covers!2
  BY ListenerAssumption DEF TypeOK, Cursor, Tx, Covers
<1> USE <1>0 DEF chainVars, dbVars, sessionVars, historyVars
\* The positions that stay are safe as before.
<1>1. ASSUME checkpoint' # None => checkpoint' = checkpoint
      PROVE  checkpoint' # None => Safe(checkpoint)'
  BY <1>1, SafeStays DEF Safe
<1>2. ASSUME from' # None => from' = from
      PROVE  from' # None => Safe(from)'
  BY <1>2, SafeStays DEF Safe
<1>3. ASSUME cursor' = cursor
      PROVE  Safe(cursor)'
  BY <1>3, SafeStays DEF Safe
<1>4. ASSUME \A h \in handlers' : \E g \in handlers : g.tx = h.tx
      PROVE  \A h \in handlers' : Safe(h.tx)'
  <2>1. \A h \in handlers' : \A e \in Events : e[1] <= h.tx => Kept(e)'
    BY <1>4, SafeStays
  <2>2. QED
    BY <2>1 DEF Safe
<1>5. ASSUME handlers' \subseteq handlers
      PROVE  \A h \in handlers' : Safe(h.tx)'
  BY <1>4, <1>5
<1>6. ASSUME UNCHANGED vars \/ Restart \/ StreamError \/ Grow \/ CommitBatch \/ SessionFails \/ Crash
      PROVE  Covers'
  <2>1. UNCHANGED <<checkpoint, from, cursor>> /\ handlers' \subseteq handlers
    BY <1>6 DEF vars, Restart, StreamError, Grow, CommitBatch, SessionFails, Crash, Goto
  <2>2. QED
    BY <1>1, <1>2, <1>3, <1>5, <2>1 DEF Covers
<1>7. ASSUME LoadCheckpoint
      PROVE  Covers'
  <2>1. from' = checkpoint /\ UNCHANGED <<checkpoint, cursor, handlers>>
    BY <1>7 DEF LoadCheckpoint
  <2>2. checkpoint' # None => Safe(checkpoint)'
    BY <1>1, <2>1
  <2>3. from' # None => Safe(from)'
    BY <2>1, <2>2 DEF Safe
  <2>4. QED
    BY <1>3, <1>5, <2>1, <2>2, <2>3 DEF Covers
<1>8. ASSUME DetectGap
      PROVE  Covers'
  <2>1. cursor' = from /\ from # None /\ UNCHANGED <<checkpoint, from, handlers>>
    BY <1>8 DEF DetectGap, Gap
  <2>2. Safe(cursor)'
    BY <1>2, <2>1 DEF Safe
  <2>3. QED
    BY <1>1, <1>2, <1>5, <2>1, <2>2 DEF Covers
\* A subscription from "now" passes over what came since the last one read, and
\* says so in skipped.
<1>9. ASSUME NoGap \/ CaughtUp
      PROVE  Covers'
  <2>1. Subscribe /\ UNCHANGED <<checkpoint, from, handlers, stored, origin>>
    BY <1>9 DEF NoGap, CaughtUp, Subscribe
  <2>2. Safe(cursor)'
    <3>1. CASE from = None
      <4>1. cursor' = tip /\ skipped' = skipped \cup Unstored({i \in Tx : cursor < i /\ i <= tip})
        BY <2>1, <3>1 DEF Subscribe, StreamCursor
      <4>2. \A e \in Events : e[1] <= cursor => Kept(e)'
        BY SafeStays
      <4>3. ASSUME NEW e \in Events, e[1] <= tip, ~(e[1] <= cursor)
            PROVE  Kept(e)'
        <5>1. cursor < e[1]
          <6>1. e[1] \in Nat
            OBVIOUS
          <6>2. QED
            BY <4>3, <6>1
        <5>2. e \in EventsOf({i \in Tx : cursor < i /\ i <= tip})
          BY <4>3, <5>1 DEF EventsOf
        <5>3. e \in stored' \/ e \in skipped'
          BY <2>1, <4>1, <5>2 DEF Unstored
        <5>4. QED
          BY <5>3 DEF Kept, Excused, Disturbed
      <4>4. QED
        BY <4>1, <4>2, <4>3 DEF Safe
    <3>2. CASE from # None
      <4>1. cursor' = from
        BY <2>1, <3>2 DEF Subscribe, StreamCursor
      <4>2. QED
        BY <1>2, <2>1, <3>2, <4>1 DEF Safe
    <3>3. QED
      BY <3>1, <3>2
  <2>3. QED
    BY <1>1, <1>2, <1>5, <2>1, <2>2 DEF Covers
\* What a page adds to a position is its transactions.
<1>10. ASSUME NEW e \in Events, e \in EventsOf(Page), ContractEvents(Page) = {}
       PROVE  Kept(e)'
  <2>1. ContractIdForm # "hex"
    BY <1>10 DEF ContractEvents
  <2>2. QED
    BY <2>1 DEF Kept, Excused
<1>11. ASSUME Page # {}
       PROVE  /\ Max(Page) \in Tx
              /\ \A e \in Events : e[1] <= Max(Page) => Kept(e)' \/ e \in EventsOf(Page)
  <2>1. Max(Page) \in Tx
    BY <1>11, PageContiguous
  <2>2. \A e \in Events : e[1] <= cursor => Kept(e)'
    BY SafeStays
  <2>3. \A e \in Events : e[1] <= Max(Page) => e[1] <= cursor \/ e[1] \in Page
    BY <1>11, PageContiguous
  <2>4. QED
    BY <2>1, <2>2, <2>3 DEF EventsOf
<1>12. ASSUME SkipPage
       PROVE  Covers'
  <2>1. /\ cursor' = Max(Page) /\ checkpoint' = Max(Page) /\ Page # {}
        /\ ContractEvents(Page) = {} /\ UNCHANGED <<from, handlers>>
    BY <1>12 DEF SkipPage
  <2>2. \A e \in Events : e[1] <= Max(Page) => Kept(e)'
    BY <1>10, <1>11, <2>1
  <2>3. Safe(cursor)' /\ Safe(checkpoint)'
    BY <2>1, <2>2 DEF Safe
  <2>4. QED
    BY <1>2, <1>5, <2>1, <2>3 DEF Covers
<1>13. ASSUME InsertBatch
       PROVE  Covers'
  <2>1. /\ cursor' = Max(Page) /\ batch' = ContractEvents(Page)
        /\ ContractEvents(Page) # {} /\ UNCHANGED <<checkpoint, from, handlers>>
    BY <1>13 DEF InsertBatch
  <2>2. Page # {} /\ ContractIdForm = "hex"
    BY <2>1 DEF ContractEvents, EventsOf
  <2>3. \A e \in EventsOf(Page) : e[1] \in batch'
    BY <2>1, <2>2 DEF ContractEvents
  <2>4. \A e \in EventsOf(Page) : Kept(e)'
    BY <2>3 DEF Kept, InProgress
  <2>5. Safe(cursor)'
    BY <1>11, <2>1, <2>2, <2>4 DEF Safe
  <2>6. QED
    BY <1>1, <1>2, <1>5, <2>1, <2>5 DEF Covers
<1>14. ASSUME SaveBatch
       PROVE  Covers'
  <2>1. /\ checkpoint' = Max(batch) /\ stage = "batched" /\ UNCHANGED <<from, cursor, handlers>>
    BY <1>14 DEF SaveBatch, Goto
  <2>2. Max(batch) \in batch
    BY <2>1, LastTx DEF Shape, TypeOK
  <2>3. Max(batch) \in Nat /\ Max(batch) <= cursor
    BY <2>2 DEF Shape, TypeOK
  <2>4. Safe(cursor)'
    BY <1>3, <2>1
  <2>5. Safe(checkpoint)'
    <3>1. \A e \in Events : e[1] \in Nat
      OBVIOUS
    <3>2. \A e \in Events : e[1] <= Max(batch) => e[1] <= cursor
      BY <2>3, <3>1
    <3>3. QED
      BY <2>1, <2>4, <3>2 DEF Safe
  <2>6. QED
    BY <1>2, <1>5, <2>1, <2>4, <2>5 DEF Covers
<1>15. ASSUME Deliver
       PROVE  Covers'
  <2>1. /\ cursor' = cursor + 1
        /\ handlers' = handlers \cup
              {[session |-> session, tx |-> cursor + 1, step |-> "queued"]}
        /\ UNCHANGED <<checkpoint, from>>
    BY <1>15 DEF Deliver
  <2>2. \A e \in Events : e[1] = cursor + 1 => Kept(e)'
    <3>1. \E h \in handlers' : h.tx = cursor + 1 /\ h.step = "queued"
      <4> DEFINE new == [session |-> session, tx |-> cursor + 1, step |-> "queued"]
      <4>1. new \in handlers'
        BY <2>1
      <4>2. new.tx = cursor + 1 /\ new.step = "queued"
        OBVIOUS
      <4> HIDE DEF new
      <4>3. QED
        BY <4>1, <4>2
    <3>2. QED
      BY <3>1 DEF Kept, InProgress
  <2>3. \A e \in Events : e[1] <= cursor + 1 => Kept(e)'
    <3>1. \A e \in Events : e[1] <= cursor => Kept(e)'
      BY SafeStays
    <3>2. \A e \in Events : e[1] <= cursor + 1 => e[1] <= cursor \/ e[1] = cursor + 1
      <4>1. \A e \in Events : e[1] \in Nat
        OBVIOUS
      <4>2. QED
        BY <4>1
    <3>3. QED
      BY <2>2, <3>1, <3>2
  <2>4. Safe(cursor)'
    BY <2>1, <2>3 DEF Safe
  <2>5. \A h \in handlers' : Safe(h.tx)'
    <3>1. \A h \in handlers : \A e \in Events : e[1] <= h.tx => Kept(e)'
      BY SafeStays
    <3>2. QED
      BY <2>1, <2>3, <3>1 DEF Safe
  <2>6. QED
    BY <1>1, <1>2, <2>1, <2>4, <2>5 DEF Covers
<1>16. ASSUME NEW h \in handlers, HandlerStep(h) \/ HandlerFails(h)
       PROVE  Covers'
  <2>1. UNCHANGED <<from, cursor>>
    BY <1>16 DEF HandlerStep, Connect, InsertEvents, SaveCheckpoint, Commit, HandlerFails
  <2>2. \A g \in handlers' : \E k \in handlers : k.tx = g.tx
    <3>1. CASE Proceed(h, "held") \/ Proceed(h, "inserted") \/ Proceed(h, "saved")
      BY <3>1, SameTx
    <3>2. CASE handlers' = handlers \ {h}
      BY <3>2
    <3>3. QED
      BY <1>16, <3>1, <3>2
         DEF HandlerStep, Connect, InsertEvents, SaveCheckpoint, Commit, HandlerFails
  <2>3. \A g \in handlers' : Safe(g.tx)'
    BY <1>4, <2>2
  <2>4. checkpoint' # None => Safe(checkpoint)'
    <3>1. checkpoint' = checkpoint \/ checkpoint' = h.tx
      BY <1>16 DEF HandlerStep, Connect, InsertEvents, SaveCheckpoint, Commit, HandlerFails
    <3>2. CASE checkpoint' = h.tx
      BY <3>2, SafeStays DEF Safe
    <3>3. QED
      BY <1>1, <3>1, <3>2
  <2>5. QED
    BY <1>2, <1>3, <2>1, <2>3, <2>4 DEF Covers
<1>17. QED
  BY <1>6, <1>7, <1>8, <1>9, <1>12, <1>13, <1>14, <1>15, <1>16 DEF Next, SessionStep

\* The first subscription has everything behind it to cover from before.
LEMMA FirstSubscription ==
    ASSUME TypeOK, Shape, [Next]_vars, Shape', origin = None
    PROVE  Covers'
<1> USE DEF chainVars, dbVars, sessionVars, historyVars
<1>1. CASE NoGap
  <2>1. /\ cursor' = tip /\ origin' = tip /\ from' = None /\ checkpoint' = None
        /\ handlers' = {}
    BY <1>1 DEF NoGap, Subscribe, StreamCursor, Shape
  <2>2. \A e \in Events : e[1] <= cursor' => e[1] <= origin'
    BY <2>1
  <2>3. Safe(cursor)'
    BY <2>2 DEF Safe, Kept
  <2>4. QED
    BY <2>1, <2>3 DEF Covers
<1>2. CASE ~NoGap
  <2>1. origin' = None
    BY <1>2
       DEF Next, SessionStep, vars, Restart, LoadCheckpoint, DetectGap, CaughtUp,
           SkipPage, InsertBatch, SaveBatch, CommitBatch, SessionFails, Deliver,
           StreamError, HandlerStep, Connect, InsertEvents, SaveCheckpoint, Commit,
           HandlerFails, Crash, Grow, Goto, Shape
  <2>2. QED
    BY <2>1 DEF Covers
<1>3. QED
  BY <1>1, <1>2
-------------------------------------------------------------------------------

\* The invariant is inductive.
LEMMA Inductive == IInv /\ [Next]_vars => IInv'
<1> SUFFICES ASSUME IInv, [Next]_vars PROVE IInv'
  OBVIOUS
<1>1. TypeOK' /\ Shape'
  BY TypesStep, ShapeStep DEF IInv
<1>2. Covers'
  BY <1>1, CoversStep, FirstSubscription DEF IInv
<1>3. QED
  BY <1>1, <1>2 DEF IInv

\* The inductive invariant of the listener holds, for any chain, page size and pool.
THEOREM InvariantHolds == Spec => []IInv
BY Initially, Inductive, PTL DEF Spec

\* The variables keep their types: the checkpoint is always the position of a
\* transaction, or there is none.
THEOREM TypeCorrect == Spec => []TypeOK
<1>1. IInv => TypeOK
  BY DEF IInv
<1>2. QED
  BY <1>1, InvariantHolds, PTL

\* However handlers, pages, gaps and overlapping sessions interleave, and whatever
\* order the checkpoint is saved in, an event it has passed is stored or about to be,
\* or one of the four causes of a loss is on record for that very event.
THEOREM LossesHaveCause == Spec => []LossHasCause
<1>1. IInv => LossHasCause
  <2> SUFFICES ASSUME IInv, NEW e \in Events, Lost(e), ~Excused(e)
               PROVE  FALSE
    BY DEF LossHasCause
  <2>1. e[1] \in Nat /\ checkpoint # None /\ origin < e[1] /\ e[1] <= checkpoint
    BY ListenerAssumption DEF Lost, Tx
  <2>2. origin # None
    BY <2>1 DEF IInv, Shape
  <2>3. origin \in Nat
    BY <2>2, ListenerAssumption DEF IInv, TypeOK, Cursor
  <2>4. Kept(e)
    BY <2>1, <2>2 DEF IInv, Covers, Safe
  <2>5. QED
    BY <2>1, <2>3, <2>4 DEF Kept, Lost
<1>2. QED
  BY <1>1, InvariantHolds, PTL

\* While a session streams, an event that is not stored is in progress or still to be
\* delivered, or a cause of its loss is on record: no reconnect or catch-up leaves a
\* hole behind the live stream of its own.
THEOREM StreamsCover == Spec => []StreamCovers
<1>1. IInv => StreamCovers
  <2> SUFFICES ASSUME IInv, stage = "stream", NEW e \in Events \ stored, ~(e[1] > cursor)
               PROVE  e[1] <= origin \/ InProgress(e[1]) \/ Excused(e)
    BY DEF StreamCovers
  <2>1. e[1] \in Nat /\ cursor \in Nat
    BY ListenerAssumption DEF IInv, TypeOK, Cursor, Tx
  <2>2. origin # None
    BY DEF IInv, Shape
  <2>3. Kept(e)
    BY <2>1, <2>2 DEF IInv, Covers, Safe
  <2>4. QED
    BY <2>3 DEF Kept
<1>2. QED
  BY <1>1, InvariantHolds, PTL
===============================================================================
