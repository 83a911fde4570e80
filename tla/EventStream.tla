------------------------------ MODULE EventStream ------------------------------
(***************************************************************************)
(* The timeline a web page shows of one escrow or one transaction: the     *)
(* routes that change an escrow, the store that numbers the events, the    *)
(* server-sent-event route that replays and pushes them, the browser's     *)
(* EventSource, and the hook that falls back to polling.                   *)
(*                                                                         *)
(* The transaction stream repeats the escrow stream in its own route,      *)
(* store and hook; `kind' chooses between the two, and the operators whose *)
(* code differs come in both forms.  Handlers are synchronous, so a        *)
(* request is one step; what crosses the network takes a step of its own.  *)
(***************************************************************************)
EXTENDS Integers, Sequences, SequencesExt, FiniteSets

CONSTANTS
    Id,         \* escrow ids, or transaction ids
    Client,     \* mounted hooks
    None,       \* "no id"
    MaxEvents,  \* bound: events the stores of all runs of the server number
    MaxFaults,  \* bound: drops, refusals, rejections, lost polls and restarts
    MaxPolls    \* bound: answers on their way at which an interval still asks

ASSUME EventStreamAssumption ==
    /\ None \notin Id
    /\ {MaxEvents, MaxFaults, MaxPolls} \subseteq Nat

MaxConnectionFailures == 3

VARIABLES
    kind,       \* "escrow" or "transaction"
    state,      \* id -> its record's state, "none" before, "gone" after a restart
    log,        \* every event published so far, n is of the id log[n]
    lost,       \* how many of them a restart has lost: the store has the rest
    view,       \* client -> the id its hook follows
    conn,       \* client -> its EventSource
    wire,       \* client -> the events sent and not received
    last,       \* client -> the EventSource's last event id
    carried,    \* client -> the last event id it had at the last restart (history)
    failures,   \* client -> failureCountRef
    mode,       \* client -> the hook's mode
    timer,      \* client -> the poll interval runs
    polls,      \* client -> answers of polls on their way
    shown,      \* client -> the hook's event list, repeated polls left out
    faults      \* faults so far

server  == <<kind, state, log, lost>>
browser == <<conn, wire, last, carried>>
hook    == <<view, failures, mode, timer, shown>>
vars    == <<kind, state, log, lost, view, conn, wire, last, carried, failures,
             mode, timer, polls, shown, faults>>

\* An escrow's states; a transaction is "listed" by SEP-31 before its first
\* event, and "published" after it, whatever state the event names.
States == {"none", "Funded", "Released", "Refundable", "listed", "published", "gone"}
Live(e) == state[e] \notin {"none", "gone"}

\* The elements of s that are in T, in their order: filter, as a recursive
\* function, because SelectSeq has no definition the provers could use.
Filtered(s, T) ==
    LET f[i \in 0 .. Len(s)] ==
            IF i = 0 THEN <<>>
            ELSE IF s[i] \in T THEN Append(f[i - 1], s[i]) ELSE f[i - 1]
    IN  f[Len(s)]

\* The number the store gave to event n: a restart begins again at 1.
Number(n) == n - lost

\* The events the store has of one id, in order.
EventsOf(e) ==
    Filtered([n \in 1 .. Len(log) |-> n], {n \in 1 .. Len(log) : n > lost /\ log[n] = e})

\* For a mutant: the event of the Last-Event-ID itself is replayed too.
SinceInclusive(e, lastEventId) == Filtered(EventsOf(e), (lost + lastEventId) .. Len(log))

\* Events numbered strictly after a Last-Event-ID: the replay set of a reconnection.
Since(e, lastEventId) == Filtered(EventsOf(e), (lost + lastEventId + 1) .. Len(log))

\* An id's latest event, zero before the first.
Latest(e) == IF EventsOf(e) = <<>> THEN 0 ELSE Last(EventsOf(e))

\* An entry of the page's list, as the stream or a poll brings it.  It carries a
\* state and no number: `id' says which event it reflects.
Streamed(n) == [of |-> log[n], id |-> n, polled |-> FALSE]
Polled(e)   == [of |-> e, id |-> Latest(e), polled |-> TRUE]
Answers     == [of : Id, id : 0 .. MaxEvents, polled : {TRUE}]
Entries     == Answers \cup [of : Id, id : 1 .. MaxEvents, polled : {FALSE}]

TypeOK ==
    /\ kind \in {"escrow", "transaction"}
    /\ state \in [Id -> States]
    /\ log \in Seq(Id) /\ Len(log) <= MaxEvents /\ lost \in 0 .. Len(log)
    /\ view \in [Client -> Id \cup {None}]
    /\ conn \in [Client -> {"off", "connecting", "open", "failed"}]
    /\ wire \in [Client -> Seq(1 .. MaxEvents)]
    /\ last \in [Client -> 0 .. MaxEvents]
    /\ carried \in [Client -> 0 .. MaxEvents]
    /\ failures \in [Client -> 0 .. MaxConnectionFailures]
    /\ mode \in [Client -> {"connecting", "live", "reconnecting", "polling"}]
    /\ timer \in [Client -> BOOLEAN]
    /\ polls \in [Client -> SUBSET Answers]
    /\ shown \in [Client -> Seq(Entries)]
    /\ faults \in 0 .. MaxFaults

Init ==
    /\ kind \in {"escrow", "transaction"}
    /\ state = [e \in Id |-> "none"]
    /\ log = <<>> /\ lost = 0
    /\ view = [c \in Client |-> None]
    /\ conn = [c \in Client |-> "off"]
    /\ wire = [c \in Client |-> <<>>]
    /\ last = [c \in Client |-> 0]
    /\ carried = [c \in Client |-> 0]
    /\ failures = [c \in Client |-> 0]
    /\ mode = [c \in Client |-> "connecting"]
    /\ timer = [c \in Client |-> FALSE]
    /\ polls = [c \in Client |-> {}]
    /\ shown = [c \in Client |-> <<>>]
    /\ faults = 0

-----------------------------------------------------------------------------
(* The server. *)

\* append: number the event, keep it, and push it to every subscriber of the id.
Publish(e) ==
    /\ Len(log) < MaxEvents
    /\ log' = Append(log, e)
    /\ wire' = [c \in Client |-> IF conn[c] = "open" /\ view[c] = e
                                 THEN Append(wire[c], Len(log) + 1) ELSE wire[c]]
    /\ UNCHANGED <<kind, lost, conn, last, carried, hook, polls, faults>>

CreateEscrow(e) ==
    /\ kind = "escrow" /\ state[e] = "none"
    /\ state' = [state EXCEPT ![e] = "Funded"]
    /\ Publish(e)

ReleaseEscrow(e) ==
    /\ kind = "escrow" /\ state[e] = "Funded"
    /\ state' = [state EXCEPT ![e] = "Released"]
    /\ Publish(e)

DisputeEscrow(e) ==
    /\ kind = "escrow" /\ state[e] \in {"Funded", "Released"}
    /\ state' = [state EXCEPT ![e] = "Refundable"]
    /\ Publish(e)

ListTransaction(e) ==
    /\ kind = "transaction" /\ state[e] = "none"
    /\ state' = [state EXCEPT ![e] = "listed"]
    /\ UNCHANGED <<kind, log, lost, browser, hook, polls, faults>>

\* Any of the publishing calls of TransactionService, none of which looks at
\* the state the transaction is in: they also publish what a restart has lost.
PublishTransaction(e) ==
    /\ kind = "transaction"
    /\ state' = [state EXCEPT ![e] = "published"]
    /\ Publish(e)

\* Everything is in memory: a restart loses the records, their events and the
\* numbering, and ends every connection, which is an error for the hook.
Restart ==
    /\ faults < MaxFaults
    /\ \E e \in Id : Live(e)
    /\ LET broken == {c \in Client : conn[c] = "open"}
           third  == {c \in broken : failures[c] + 1 >= MaxConnectionFailures}
       IN  /\ failures' = [c \in Client |-> IF c \in broken THEN failures[c] + 1 ELSE failures[c]]
           /\ conn' = [c \in Client |-> IF c \in third THEN "off"
                                        ELSE IF c \in broken THEN "connecting" ELSE conn[c]]
           /\ mode' = [c \in Client |-> IF c \in third THEN "polling"
                                        ELSE IF c \in broken THEN "reconnecting" ELSE mode[c]]
           /\ timer' = [c \in Client |-> timer[c] \/ c \in third]
    /\ state' = [e \in Id |-> IF Live(e) THEN "gone" ELSE state[e]]
    /\ lost' = Len(log)
    /\ carried' = last
    /\ wire' = [c \in Client |-> <<>>]
    /\ faults' = faults + 1
    /\ UNCHANGED <<kind, log, last, view, polls, shown>>

-----------------------------------------------------------------------------
(* The browser's EventSource and the hook that owns it. *)

\* For a mutant: the effect returns no cleanup, and the old source stays.
ViewKeepingSource(c, e) ==
    /\ e # view[c]
    /\ view' = [view EXCEPT ![c] = e]
    /\ timer' = [timer EXCEPT ![c] = FALSE]
    /\ conn' = [conn EXCEPT ![c] = IF e = None THEN "off" ELSE IF @ = "off" THEN "connecting" ELSE @]
    /\ failures' = [failures EXCEPT ![c] = 0]
    /\ mode' = [mode EXCEPT ![c] = "connecting"]
    /\ shown' = [shown EXCEPT ![c] = <<>>]
    /\ UNCHANGED <<server, wire, last, carried, polls, faults>>

\* The effect of the hook when the page follows another id, or none: the old
\* source and the old timer end; the list is cleared only for a new id.
View(c, e) ==
    /\ e # view[c]
    /\ view' = [view EXCEPT ![c] = e]
    /\ wire' = [wire EXCEPT ![c] = <<>>]
    /\ last' = [last EXCEPT ![c] = 0]
    /\ carried' = [carried EXCEPT ![c] = 0]
    /\ timer' = [timer EXCEPT ![c] = FALSE]
    /\ conn' = [conn EXCEPT ![c] = IF e = None THEN "off" ELSE "connecting"]
    /\ IF e = None
       THEN UNCHANGED <<failures, mode, shown>>
       ELSE /\ failures' = [failures EXCEPT ![c] = 0]
            /\ mode' = [mode EXCEPT ![c] = "connecting"]
            /\ shown' = [shown EXCEPT ![c] = <<>>]
    /\ UNCHANGED <<server, polls, faults>>

\* The stream route: replay what follows Last-Event-ID, then subscribe.  Both
\* happen in one turn of the event loop.  onopen resets the failure count.
Stream(c) ==
    /\ conn[c] = "connecting" /\ Live(view[c])
    /\ conn' = [conn EXCEPT ![c] = "open"]
    /\ wire' = [wire EXCEPT ![c] = Since(view[c], last[c])]
    /\ failures' = [failures EXCEPT ![c] = 0]
    /\ mode' = [mode EXCEPT ![c] = "live"]
    /\ UNCHANGED <<server, view, last, carried, timer, shown, polls, faults>>

StreamEscrow(c)      == kind = "escrow" /\ view[c] # None /\ Stream(c)
StreamTransaction(c) == kind = "transaction" /\ view[c] # None /\ Stream(c)

\* The browser dispatches the next event: it remembers its number, and the
\* hook appends the event to its list.
Deliver(c) ==
    /\ conn[c] = "open" /\ wire[c] # <<>>
    /\ wire' = [wire EXCEPT ![c] = Tail(@)]
    /\ last' = [last EXCEPT ![c] = Number(Head(wire[c]))]
    /\ shown' = [shown EXCEPT ![c] = Append(@, Streamed(Head(wire[c])))]
    /\ failures' = [failures EXCEPT ![c] = 0]
    /\ mode' = [mode EXCEPT ![c] = "live"]
    /\ UNCHANGED <<server, conn, carried, view, timer, polls, faults>>

\* startPolling.  The transaction hook polls once without waiting for the
\* interval.
EscrowPolling(c)      == UNCHANGED polls
TransactionPolling(c) ==
    polls' = IF Live(view[c]) THEN [polls EXCEPT ![c] = @ \cup {Polled(view[c])}] ELSE polls

\* For a mutant: the source is closed and no interval starts.
OnErrorGivingUp(c, after) ==
    /\ failures' = [failures EXCEPT ![c] = @ + 1]
    /\ wire' = [wire EXCEPT ![c] = <<>>]
    /\ conn' = [conn EXCEPT ![c] = IF failures[c] + 1 >= MaxConnectionFailures
                                   THEN "off" ELSE after]
    /\ mode' = [mode EXCEPT ![c] = "reconnecting"]
    /\ UNCHANGED <<server, view, last, carried, timer, shown, polls>>

\* onerror of a source that the browser leaves in the given state: the third
\* failure in a row closes it and starts the interval.
OnError(c, after) ==
    /\ failures' = [failures EXCEPT ![c] = @ + 1]
    /\ wire' = [wire EXCEPT ![c] = <<>>]
    /\ IF failures[c] + 1 >= MaxConnectionFailures
       THEN /\ conn' = [conn EXCEPT ![c] = "off"]
            /\ mode' = [mode EXCEPT ![c] = "polling"]
            /\ timer' = [timer EXCEPT ![c] = TRUE]
            /\ IF kind = "escrow" THEN EscrowPolling(c) ELSE TransactionPolling(c)
       ELSE /\ conn' = [conn EXCEPT ![c] = after]
            /\ mode' = [mode EXCEPT ![c] = "reconnecting"]
            /\ UNCHANGED <<timer, polls>>
    /\ UNCHANGED <<server, view, last, carried, shown>>

\* An open connection breaks, or an attempt gets no answer: the browser tries
\* again with the same source and the same Last-Event-ID.
Disconnect(c) ==
    /\ faults < MaxFaults /\ faults' = faults + 1
    /\ conn[c] \in {"open", "connecting"}
    /\ OnError(c, "connecting")

\* An answer other than 200 (an unknown id, or a proxy that refuses the
\* stream): the browser reports one error and never tries again.
Reject(c) ==
    /\ conn[c] = "connecting"
    /\ \/ ~Live(view[c]) /\ UNCHANGED faults
       \/ Live(view[c]) /\ faults < MaxFaults /\ faults' = faults + 1
    /\ OnError(c, "failed")

\* The interval asks the status route, and does not wait for the answer of
\* the tick before; an answer that is not ok is dropped.
Poll(c) ==
    /\ timer[c] /\ Live(view[c])
    /\ Cardinality(polls[c]) < MaxPolls
    /\ polls' = [polls EXCEPT ![c] = @ \cup {Polled(view[c])}]
    /\ UNCHANGED <<server, browser, hook, faults>>

PollEscrow(c)      == kind = "escrow" /\ view[c] # None /\ Poll(c)
PollTransaction(c) == kind = "transaction" /\ view[c] # None /\ Poll(c)

\* An answer arrives, after any later one, and even after the hook has moved
\* to another id; a lost one is ignored.
PollArrive(c, a) ==
    /\ a \in polls[c]
    /\ polls' = [polls EXCEPT ![c] = @ \ {a}]
    /\ shown' = IF shown[c] # <<>> /\ Last(shown[c]) = a
                THEN shown ELSE [shown EXCEPT ![c] = Append(@, a)]
    /\ UNCHANGED <<server, browser, view, failures, mode, timer, faults>>

PollLost(c) ==
    /\ faults < MaxFaults /\ faults' = faults + 1
    /\ \E a \in polls[c] : polls' = [polls EXCEPT ![c] = @ \ {a}]
    /\ UNCHANGED <<server, browser, hook>>

Next ==
    \/ Restart
    \/ \E e \in Id : \/ CreateEscrow(e) \/ ReleaseEscrow(e) \/ DisputeEscrow(e)
                     \/ ListTransaction(e) \/ PublishTransaction(e)
    \/ \E c \in Client :
         \/ \E e \in Id \cup {None} : View(c, e)
         \/ StreamEscrow(c) \/ StreamTransaction(c)
         \/ Deliver(c) \/ Disconnect(c) \/ Reject(c)
         \/ PollEscrow(c) \/ PollTransaction(c) \/ PollLost(c)
         \/ \E a \in polls[c] : PollArrive(c, a)

\* The browser retries, the network delivers and the interval ticks; nobody
\* has to act on an escrow or to open a page.
Fairness ==
    \A c \in Client :
        /\ WF_vars(StreamEscrow(c)) /\ WF_vars(StreamTransaction(c)) /\ WF_vars(Deliver(c))
        /\ WF_vars(PollEscrow(c)) /\ WF_vars(PollTransaction(c))
        /\ \A a \in Answers : WF_vars(PollArrive(c, a))

Spec == Init /\ [][Next]_vars /\ Fairness

-----------------------------------------------------------------------------
(* Properties. *)

\* The events the page has received over the stream, and those it is being sent.
Ids(c) ==
    LET s == Filtered(shown[c], {b \in Range(shown[c]) : ~b.polled})
    IN  [n \in 1 .. Len(s) |-> s[n].id]
Brought(c) == Ids(c) \o wire[c]

\* What the stream brings a page is of its id, in the order it was published and
\* without a duplicate, whatever broke, reconnected, restarted or was numbered for
\* another id in between; and it has no gap: an open stream brings every event,
\* and a broken one brought every event up to the last.  Only an event whose
\* number does not exceed a Last-Event-ID that outlived a restart may be missing
\* (the promise of api/services/eventStore.ts:4-7, as far as it holds).
StreamExact ==
    \A c \in Client : view[c] # None =>
        LET seen == Brought(c) IN
        /\ \A i \in DOMAIN seen : log[seen[i]] = view[c]
        /\ \A i, j \in DOMAIN seen : i < j => seen[i] < seen[j]
        /\ \A n \in Range(EventsOf(view[c])) :
             /\ Number(n) > carried[c]
             /\ conn[c] = "open" \/ \E i \in DOMAIN seen : n <= seen[i]
             => \E i \in DOMAIN seen : seen[i] = n

\* Only a poll can put an entry in the wrong place.  An entry of another id than
\* the one on the page, and an entry older than one before it, came from a poll
\* that was overtaken by a later answer or outlived the page it was sent for; a
\* source that is closed delivers nothing more, and one that outlived a restart
\* nothing older than what it delivered before (app/hooks/useEscrowStream.ts:99-138).
OnlyPollsMisplace ==
    \A c \in Client : \A j \in DOMAIN shown[c] :
        LET b == shown[c][j] IN
        ~b.polled =>
            /\ view[c] # None => b.of = view[c]
            /\ \A i \in 1 .. (j - 1) :
                 shown[c][i].of = b.of /\ ~shown[c][i].polled => shown[c][i].id < b.id

\* The latest event of e is on the page, whatever came after it.
Shows(c, e) ==
    \/ Latest(e) = 0
    \/ \E i \in DOMAIN shown[c] : shown[c][i].of = e /\ shown[c][i].id = Latest(e)

\* A page that stays on an escrow ends up showing its latest event, over the
\* stream or from a poll, once the faults are over; unless the browser gave up the
\* source after a refusal, or a restart left it with a Last-Event-ID the event's
\* number does not exceed (app/hooks/useEscrowStream.ts:99-154).
EventuallyCurrent ==
    \A c \in Client : \A e \in Id :
        (view[c] = e /\ Live(e)) ~> \/ view[c] # e \/ ~Live(e)
                                    \/ conn[c] = "failed" \/ Shows(c, e)
                                    \/ Number(Latest(e)) <= carried[c]

\* The doc's promise that a page whose stream is refused ends up polling
\* (app/hooks/useEscrowStream.ts:11-13).
RefusedStreamPolls ==
    \A c \in Client : conn[c] = "failed" ~> (timer[c] \/ conn[c] # "failed")
===============================================================================
