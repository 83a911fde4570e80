-------------------------------- MODULE Outbox --------------------------------
(***************************************************************************)
(* app/sw/outbox.ts: payments queued in IndexedDB and the drains that send *)
(* them.  Two of them can run at once: the module's own `online` listener  *)
(* and that of OfflinePage.tsx both call drainOutbox.                      *)
(***************************************************************************)
EXTENDS Integers

CONSTANTS
    Payment,        \* ids of queued payments, in the order they were queued
    Drain,          \* calls of drainOutbox
    Fetch,          \* identities of fetches
    Nothing,
    MaxAttempts     \* 5 in outbox.ts

ASSUME OutboxAssumption ==
    /\ Payment \subseteq Nat /\ MaxAttempts \in Nat \ {0}
    /\ Nothing \notin Nat /\ Nothing \notin Fetch

VARIABLES
    outbox,         \* the attempts of a queued payment, Nothing when it is not there
    todo,           \* the items a drain has read and not yet dealt with
    fetching,       \* the fetch a drain waits for, Nothing when it does not
    queued,         \* history: payments ever queued
    failures,       \* history: attempts that failed
    dropped,        \* history: payments given up
    accepted        \* history: payments counted as delivered

clientVars == <<outbox, todo, fetching, queued, failures, dropped, accepted>>

NoItems == [p \in Payment |-> Nothing]

ClientInit ==
    /\ outbox = NoItems
    /\ todo = [d \in Drain |-> NoItems]
    /\ fetching = [d \in Drain |-> Nothing]
    /\ queued = {} /\ dropped = {} /\ accepted = {}
    /\ failures = [p \in Payment |-> 0]

EnqueuePayment(p) ==
    /\ p \notin queued
    /\ queued' = queued \cup {p}
    /\ outbox' = [outbox EXCEPT ![p] = 0]
    /\ UNCHANGED <<todo, fetching, failures, dropped, accepted>>

Draining(d) == \E p \in Payment : todo[d][p] # Nothing

\* getAll returns the items by id, and the loop takes them in that order.
Item(d, p) ==
    /\ todo[d][p] # Nothing
    /\ \A q \in Payment : q < p => todo[d][q] = Nothing

Done(d, p) == todo' = [todo EXCEPT ![d][p] = Nothing]

BeginDrain(d) ==
    /\ ~Draining(d)
    /\ todo' = [todo EXCEPT ![d] = outbox]
    /\ UNCHANGED <<outbox, fetching, queued, failures, dropped, accepted>>

SpentEarly(attempts) == attempts >= MaxAttempts - 1            \* mutant
SpentLate(attempts) == attempts > MaxAttempts                  \* mutant
Spent(attempts) == attempts >= MaxAttempts

DropItem(d, p) ==
    /\ Item(d, p) /\ Spent(todo[d][p])
    /\ Done(d, p)
    /\ outbox' = [outbox EXCEPT ![p] = Nothing]
    /\ dropped' = dropped \cup {p}
    /\ UNCHANGED <<fetching, queued, failures, accepted>>

TakeAndFetch(d, p, f) ==                                       \* mutant
    /\ Item(d, p) /\ ~Spent(todo[d][p])
    /\ fetching[d] = Nothing
    /\ fetching' = [fetching EXCEPT ![d] = f]
    /\ outbox' = [outbox EXCEPT ![p] = Nothing]
    /\ UNCHANGED <<todo, queued, failures, dropped, accepted>>

StartFetch(d, p, f) ==
    /\ Item(d, p) /\ ~Spent(todo[d][p])
    /\ fetching[d] = Nothing
    /\ fetching' = [fetching EXCEPT ![d] = f]
    /\ UNCHANGED <<outbox, todo, queued, failures, dropped, accepted>>

\* incrementAttempts puts the item it was given back, whether or not another drain
\* has removed or changed it.
IncrementAttempts(d, p) ==
    /\ Done(d, p)
    /\ fetching' = [fetching EXCEPT ![d] = Nothing]
    /\ outbox' = [outbox EXCEPT ![p] = todo[d][p] + 1]
    /\ failures' = [failures EXCEPT ![p] = @ + 1]
    /\ UNCHANGED <<queued, dropped, accepted>>

\* response.ok || response.status === 409
Delivered(answer) == answer \in {"ok", "conflict"}

FetchAnswered(d, p, answer) ==
    /\ Item(d, p) /\ fetching[d] # Nothing
    /\ IF Delivered(answer)
       THEN /\ Done(d, p)
            /\ fetching' = [fetching EXCEPT ![d] = Nothing]
            /\ outbox' = [outbox EXCEPT ![p] = Nothing]
            /\ accepted' = accepted \cup {p}
            /\ UNCHANGED <<queued, failures, dropped>>
       ELSE IncrementAttempts(d, p)

\* Offline before the request left, or the connection breaks under it.
FetchRejects(d, p) ==
    /\ Item(d, p) /\ ~Spent(todo[d][p])
    /\ IncrementAttempts(d, p)

\* The page goes; IndexedDB stays.
ClosePage ==
    /\ \E d \in Drain : Draining(d)
    /\ todo' = [d \in Drain |-> NoItems]
    /\ fetching' = [d \in Drain |-> Nothing]
    /\ UNCHANGED <<outbox, queued, failures, dropped, accepted>>

-------------------------------------------------------------------------------
\* Properties.

ClientTypeOK ==
    /\ outbox \in [Payment -> 0..MaxAttempts \cup {Nothing}]
    /\ todo \in [Drain -> [Payment -> 0..MaxAttempts \cup {Nothing}]]
    /\ fetching \in [Drain -> Fetch \cup {Nothing}]
    /\ failures \in [Payment -> Nat]
    /\ queued \subseteq Payment /\ dropped \subseteq queued /\ accepted \subseteq queued

\* `Requests that exceed MAX_ATTEMPTS are dropped`: never one that has failed less
\* often, whatever two drains write over each other.
DropsAreEarned == \A p \in dropped : failures[p] >= MaxAttempts
===============================================================================
