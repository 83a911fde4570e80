------------------------------- MODULE Listener -------------------------------
(***************************************************************************)
(* services/listener: HorizonStreamListener (horizonStream.ts) over the    *)
(* tables of CheckpointStore (checkpointStore.ts).  One process runs one   *)
(* session after another; the handlers of the live stream run concurrently *)
(* with each other and outlive the session that started them.  All of them *)
(* take clients from one Postgres pool.  A transaction stands for its      *)
(* paging token, its position on the chain; an event of the contract is a  *)
(* pair of its transaction and its index there.  The events of one         *)
(* transaction are stored in one step.  Horizon, the chain and Postgres    *)
(* are external.                                                           *)
(***************************************************************************)
EXTENDS Integers, FiniteSets, FiniteSetsExt

CONSTANTS
    None,
    MaxTx,          \* bound: transactions on the chain
    LedgerOf,       \* the ledger of each position
    Events,         \* the contract's events: <<transaction, index in it>>
    ContractIdForm, \* how CONTRACT_ID is written: "strkey" (C...) or "hex"
    PageLimit,      \* catchUpPageLimit
    PoolSize,       \* clients in the Postgres pool
    MaxSessions,    \* bound: calls of runOnce
    MaxFaults       \* bound: crashes of the process, and requests that fail

Tx == 1..MaxTx
Cursor == 0..MaxTx

ASSUME ListenerAssumption ==
    /\ MaxTx \in Nat /\ PageLimit \in Nat \ {0} /\ PoolSize \in Nat
    /\ MaxSessions \in Nat /\ MaxFaults \in Nat
    /\ LedgerOf \in [Cursor -> Nat]
    /\ \A i \in Cursor, j \in Cursor : i <= j => LedgerOf[i] <= LedgerOf[j]
    /\ Events \subseteq Tx \X Nat
    /\ ContractIdForm \in {"hex", "strkey"}
    /\ None \notin Cursor

Handler == [session: 1..MaxSessions, tx: Tx, step: {"queued", "held", "inserted", "saved"}]

VARIABLES
    tip,            \* transactions on the chain
    checkpoint,     \* checkpoint_store: a position, None before the first save
    stored,         \* escrow_events
    session,        \* how many sessions the listener has begun
    stage,          \* where the session is, "down" when there is no process
    from,           \* the checkpoint the session has loaded
    cursor,         \* the position the session has read up to
    batch,          \* the page's transactions with events, inserted, not committed
    handlers,       \* the running onmessage handlers
    origin,         \* history: the tip when the listener first subscribed
    skipped,        \* history: events that later subscriptions from "now" passed over
    cut,            \* history: events whose handling was cut off before they were stored
    crashes, failures   \* Postgres and Horizon requests that failed

chainVars == <<tip>>
dbVars == <<checkpoint, stored>>
sessionVars == <<session, stage, from, cursor, batch>>
historyVars == <<origin, skipped, cut, crashes, failures>>
vars == <<chainVars, dbVars, sessionVars, handlers, historyVars>>

Init ==
    /\ tip \in Cursor
    /\ checkpoint = None /\ stored = {}
    /\ session = 0 /\ stage = "down" /\ from = None /\ cursor = 0 /\ batch = {}
    /\ handlers = {}
    /\ origin = None /\ skipped = {} /\ cut = {}
    /\ crashes = 0 /\ failures = 0

\* Clients checked out by pool.connect() and not released.
Held ==
    Cardinality({h \in handlers : h.step # "queued"})
        + (IF stage \in {"batched", "saved"} THEN 1 ELSE 0)

\* pool.query() and pool.connect() wait for a client that nobody holds.
ClientFree == Held < PoolSize

EventsOf(txs) == {e \in Events : e[1] \in txs}

Unstored(txs) == EventsOf(txs) \ stored

\* The transactions in which parseContractEvents finds events of the contract: it
\* compares an event's contract id in hex with CONTRACT_ID less a leading C, so that
\* only an id configured in hex matches.  An event whose payload does not decode
\* is kept as well, and says so.
ContractEvents(txs) ==
    IF ContractIdForm = "hex" THEN {e[1] : e \in EventsOf(txs)} ELSE {}

\* eventId, "<ledger>-<application order>-<index>": Horizon's transactions have no
\* application_order, so 0 stands for it in every event.
EventId(e) == <<LedgerOf[e[1]], e[2]>>

Ids(events) == {EventId(e) : e \in events}

\* ON CONFLICT (event_id) DO NOTHING: an id that is there already, or was inserted
\* just before, is skipped.
Inserted(txs) ==
    stored' = stored \cup
        {e \in EventsOf(txs) :
            /\ EventId(e) \notin Ids(stored)
            /\ \A f \in EventsOf(txs) : EventId(f) = EventId(e) => e[1] <= f[1]}

Goto(s) == stage' = s /\ UNCHANGED <<session, from, cursor, batch>>

-------------------------------------------------------------------------------
\* runOnce: load the checkpoint, compare ledgers, catch up, subscribe.

LoadCheckpoint ==
    /\ stage = "start" /\ session < MaxSessions /\ ClientFree
    /\ session' = session + 1
    /\ stage' = "loaded" /\ from' = checkpoint
    /\ UNCHANGED <<chainVars, dbVars, cursor, batch, handlers, historyVars>>

\* fetchLatestLedgerSeq: the ledgers after the last transaction may be empty.
LatestLedger == {LedgerOf[tip], LedgerOf[tip] + 1}

Gap(latest) == from # None /\ latest > LedgerOf[from]

DetectGap ==
    /\ stage = "loaded" /\ \E latest \in LatestLedger : Gap(latest)
    /\ stage' = "page" /\ cursor' = from
    /\ UNCHANGED <<chainVars, dbVars, session, from, batch, handlers, historyVars>>

SubscribeFromNow == tip                                        \* mutant
StreamCursor == IF from = None THEN tip ELSE from

Subscribe ==
    /\ stage' = "stream"
    /\ cursor' = StreamCursor
    /\ origin' = IF origin = None THEN tip ELSE origin
    /\ skipped' = IF from = None /\ origin # None
                      THEN skipped \cup Unstored({i \in Tx : cursor < i /\ i <= tip})
                      ELSE skipped
    /\ UNCHANGED <<chainVars, dbVars, session, from, batch, handlers, cut, crashes, failures>>

NoGap ==
    /\ stage = "loaded" /\ \E latest \in LatestLedger : ~Gap(latest)
    /\ Subscribe

-------------------------------------------------------------------------------
\* catchUp, page by page.

Page == {i \in Tx : cursor < i /\ i <= cursor + PageLimit /\ i <= tip}

CaughtUp == stage = "page" /\ Page = {} /\ Subscribe

\* A page without events of the contract only moves the checkpoint.
SkipPage ==
    /\ stage = "page" /\ Page # {} /\ ContractEvents(Page) = {}
    /\ ClientFree
    /\ cursor' = Max(Page) /\ checkpoint' = Max(Page)
    /\ UNCHANGED <<chainVars, stored, session, stage, from, batch, handlers, historyVars>>

\* connect, BEGIN, insertEventBatch on that client.
InsertBatch ==
    /\ stage = "page" /\ ContractEvents(Page) # {}
    /\ ClientFree
    /\ stage' = "batched"
    /\ batch' = ContractEvents(Page) /\ cursor' = Max(Page)
    /\ UNCHANGED <<chainVars, dbVars, session, from, handlers, historyVars>>

\* store.save runs on another client, outside the transaction.
SaveBatch ==
    /\ stage = "batched" /\ ClientFree
    /\ checkpoint' = Max(batch)
    /\ Goto("saved")
    /\ UNCHANGED <<chainVars, stored, handlers, historyVars>>

CommitBatch ==
    /\ stage = "saved"
    /\ Inserted(batch)
    /\ batch' = {} /\ stage' = "page"
    /\ UNCHANGED <<chainVars, checkpoint, session, from, cursor, handlers, historyVars>>

\* A request that fails: ROLLBACK, and start() begins another session.
SessionFails ==
    /\ stage \in {"loaded", "page", "batched", "saved"}
    /\ session < MaxSessions /\ crashes + failures < MaxFaults
    /\ failures' = failures + 1
    /\ stage' = "start" /\ batch' = {}
    /\ cut' = cut \cup Unstored(batch)
    /\ UNCHANGED <<chainVars, dbVars, session, from, cursor, handlers,
                   origin, skipped, crashes>>

-------------------------------------------------------------------------------
\* streamLive and processLiveTransaction.

Deliver ==
    /\ stage = "stream" /\ cursor < tip
    /\ cursor' = cursor + 1
    /\ handlers' = handlers \cup
          {[session |-> session, tx |-> cursor + 1, step |-> "queued"]}
    /\ UNCHANGED <<chainVars, dbVars, session, stage, from, batch, historyVars>>

\* onerror closes the stream; the handlers it started go on.
StreamError ==
    /\ stage = "stream" /\ session < MaxSessions
    /\ Goto("start")
    /\ UNCHANGED <<chainVars, dbVars, handlers, historyVars>>

Proceed(h, step) == handlers' = (handlers \ {h}) \cup {[h EXCEPT !.step = step]}

Connect(h) ==
    /\ h.step = "queued" /\ ClientFree
    /\ Proceed(h, "held")
    /\ UNCHANGED <<chainVars, dbVars, sessionVars, historyVars>>

\* Event ids that the batch has inserted and not committed.
Uncommitted == Ids(EventsOf(batch)) \ Ids(stored)

\* insertEvent runs on another client and commits on its own.  It waits for a
\* batch that holds the same event ids uncommitted.
InsertEvents(h) ==
    LET txs == ContractEvents({h.tx}) IN
    /\ h.step = "held"
    /\ txs # {} => ClientFree /\ Ids(EventsOf(txs)) \cap Uncommitted = {}
    /\ Inserted(txs)
    /\ Proceed(h, "inserted")
    /\ UNCHANGED <<chainVars, checkpoint, sessionVars, historyVars>>

SaveFirst(h) == h.step \in {"held", "inserted"}                \* mutant
ReadyToSave(h) == h.step = "inserted"

SaveCheckpoint(h) ==
    /\ ReadyToSave(h) /\ ClientFree
    /\ checkpoint' = h.tx
    /\ Proceed(h, "saved")
    /\ UNCHANGED <<chainVars, stored, sessionVars, historyVars>>

Commit(h) ==
    /\ h.step = "saved"
    /\ handlers' = handlers \ {h}
    /\ UNCHANGED <<chainVars, dbVars, sessionVars, historyVars>>

\* The error is logged and the stream goes on; what was inserted stays.
HandlerFails(h) ==
    /\ crashes + failures < MaxFaults
    /\ failures' = failures + 1
    /\ handlers' = handlers \ {h}
    /\ cut' = cut \cup Unstored({h.tx})
    /\ UNCHANGED <<chainVars, dbVars, sessionVars, origin, skipped, crashes>>

HandlerStep(h) ==
    Connect(h) \/ InsertEvents(h) \/ SaveCheckpoint(h) \/ Commit(h)

-------------------------------------------------------------------------------
\* The process and the chain.

Restart ==
    /\ stage = "down"
    /\ Goto("start")
    /\ UNCHANGED <<chainVars, dbVars, handlers, historyVars>>

Crash ==
    /\ stage # "down" /\ session < MaxSessions /\ crashes + failures < MaxFaults
    /\ crashes' = crashes + 1
    /\ stage' = "down" /\ batch' = {} /\ handlers' = {}
    /\ cut' = cut \cup Unstored(batch \cup {h.tx : h \in handlers})
    /\ UNCHANGED <<chainVars, dbVars, session, from, cursor, origin, skipped, failures>>

Grow ==
    /\ tip < MaxTx /\ tip' = tip + 1
    /\ UNCHANGED <<dbVars, sessionVars, handlers, historyVars>>

SessionStep ==
    \/ LoadCheckpoint \/ DetectGap \/ NoGap \/ CaughtUp
    \/ SkipPage \/ InsertBatch \/ SaveBatch \/ CommitBatch

Next ==
    \/ Restart \/ SessionStep \/ SessionFails \/ Deliver \/ StreamError
    \/ \E h \in handlers : HandlerStep(h) \/ HandlerFails(h)
    \/ Crash \/ Grow

Spec == Init /\ [][Next]_vars

\* The event loop runs what can run, and Horizon delivers.
FairSpec ==
    /\ Spec
    /\ WF_vars(Restart) /\ WF_vars(SessionStep) /\ WF_vars(Deliver)
    /\ \A h \in Handler : WF_vars(h \in handlers /\ HandlerStep(h))

-------------------------------------------------------------------------------
\* Properties.

TypeOK ==
    /\ tip \in Cursor
    /\ checkpoint \in Tx \cup {None} /\ stored \in SUBSET Events
    /\ session \in 0..MaxSessions
    /\ stage \in {"down", "start", "loaded", "page", "batched", "saved", "stream"}
    /\ from \in Tx \cup {None} /\ cursor \in Cursor
    /\ batch \in SUBSET Tx
    /\ handlers \in SUBSET Handler
    /\ origin \in Cursor \cup {None} /\ skipped \in SUBSET Events /\ cut \in SUBSET Events
    /\ crashes \in 0..MaxFaults /\ failures \in 0..MaxFaults

\* Work on a transaction is under way that will store its events.
InProgress(i) ==
    i \in batch \/ \E h \in handlers : h.tx = i /\ h.step \in {"queued", "held"}

\* Another event took the id of this one.
Shadowed(e) == \E f \in stored : f # e /\ EventId(f) = EventId(e)

\* A crash or a failed request cut the transaction's handling off, or the listener
\* subscribed from "now" once more, with no checkpoint, and passed it over.
Disturbed(e) == e \in cut \cup skipped

Excused(e) == Disturbed(e) \/ Shadowed(e) \/ ContractIdForm # "hex"

\* An event the listener was subscribed to and will not come back to.
Lost(e) ==
    /\ e \notin stored /\ ~InProgress(e[1])
    /\ checkpoint # None /\ origin < e[1] /\ e[1] <= checkpoint

\* Concurrent handlers, gaps, pages, reconnects and overlapping sessions lose an
\* event that the checkpoint has passed for four reasons and no other: its own
\* transaction's handling was cut off between a save of the checkpoint and the
\* COMMIT of the events it covers, its transaction came between two subscriptions
\* from "now", an event of the same ledger took its id, or the contract id is
\* configured in a form the filter cannot match.
LossHasCause == \A e \in Events : Lost(e) => Excused(e)

\* While the listener is streaming, an event it has yet to store is in progress,
\* is still to be delivered, or was lost for one of these reasons.
StreamCovers ==
    stage = "stream" =>
        \A e \in Events \ stored :
            e[1] <= origin \/ InProgress(e[1]) \/ e[1] > cursor \/ Excused(e)

\* Every event of a subscribed transaction is stored in the end, or lost for one of
\* these reasons.
EventuallyStored ==
    \A e \in Events :
        (origin # None /\ origin < e[1] /\ e[1] <= tip) ~> (e \in stored \/ Excused(e))
===============================================================================
