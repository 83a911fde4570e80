---------------------------- MODULE DeliveryProofs ----------------------------
(***************************************************************************)
(* Proofs about Delivery for any number of payments, drains, requests and  *)
(* processes.  The two sides have invariants of their own: ClientInv ties  *)
(* the attempts stored to the attempts that failed, ServerInv says what is *)
(* true of a key while none of its records expired and Redis answered.     *)
(***************************************************************************)
EXTENDS Delivery, TLAPS

\* A drain that waits for an answer is at an item it may still send.
FetchesItem ==
    \A d \in Drain : fetching[d] # Nothing =>
        \E p \in Payment : Item(d, p) /\ todo[d][p] < MaxAttempts

StoredItems ==
    \A p \in Payment : outbox[p] # Nothing => (p \in queued /\ outbox[p] <= failures[p])

ReadItems ==
    \A d \in Drain : \A p \in Payment :
        todo[d][p] # Nothing => (p \in queued /\ todo[d][p] <= failures[p])

ClientInv == ClientTypeOK /\ FetchesItem /\ StoredItems /\ ReadItems /\ DropsAreEarned

\* Requests under way have a key, and one that is done may have a record to write.
RequestsServed ==
    \A r \in Request :
        /\ at[r] # "unused" => key[r] \in Key
        /\ at[r] = "unused" => server[r] = None /\ answer[r] = None
        /\ at[r] \notin {"unused", "done"} => server[r] \in Server
        /\ unsaved[r] # None => at[r] = "done"

Untouched(k) ==
    /\ executions[k] = 0
    /\ \A r \in Request : key[r] = k => (at[r] \in {"set", "done"} /\ unsaved[r] = None)

\* What holds for a key as long as nothing excuses a repetition: the first request
\* that takes it is the only one that ever gets to the handler.
Exclusive(k) ==
    /\ executions[k] \in {0, 1}
    /\ \A s \in Server : memory[s][k] = None
    /\ redis[k] = None => Untouched(k)
    /\ \A r \in {r \in Request : key[r] = k} :
          /\ at[r] # "memory"
          /\ redis[k] \in Completed => at[r] \notin {"handle", "respond"}
          /\ at[r] = "replay" => redis[k] \in Completed
          /\ at[r] = "handle" => executions[k] = 0
          /\ \A q \in Request : (key[q] = k /\ Holds(r) /\ Holds(q)) => q = r

OneHandler == \A k \in Key : ~excused[k] => Exclusive(k)

Earned(k) == executions[k] > 0 \/ troubled[k]
Claims(r) == unsaved[r] = "ok" \/ at[r] = "respond" \/ answer[r] = "ok"

\* Every success on record, on its way to a record or sent was earned.
RecordsTruthful ==
    \A k \in Key :
        /\ redis[k] = "ok" => Earned(k)
        /\ \A s \in Server : memory[s][k] = "ok" => Earned(k)
        /\ \A r \in {r \in Request : key[r] = k} : Claims(r) => Earned(k)

ServerInv == ServerTypeOK /\ RequestsServed /\ OneHandler /\ RecordsTruthful

IInv == ClientInv /\ ServerInv
-------------------------------------------------------------------------------
\* The outbox.

\* A drain is at one item at a time.
LEMMA OneItem ==
    ASSUME NEW d \in Drain, NEW p \in Payment, NEW q \in Payment, Item(d, p), Item(d, q)
    PROVE  p = q
<1>1. p \in Nat /\ q \in Nat
  BY OutboxAssumption
<1>2. ~(p < q) /\ ~(q < p)
  BY DEF Item
<1>3. QED
  BY <1>1, <1>2

\* A drain that is not waiting can be at any item, spent or not.
LEMMA Waiting ==
    ASSUME ClientInv, NEW d \in Drain, NEW p \in Payment, Item(d, p), fetching[d] # Nothing
    PROVE  todo[d][p] < MaxAttempts
<1>1. PICK q \in Payment : Item(d, q) /\ todo[d][q] < MaxAttempts
  BY DEF ClientInv, FetchesItem
<1>2. QED
  BY <1>1, OneItem

\* The part of a drain's view that another drain cannot change.
LEMMA OtherDrains ==
    ASSUME ClientInv, NEW d \in Drain, NEW e \in Drain, todo'[e] = todo[e],
           fetching'[e] = fetching[e], fetching'[e] # Nothing
    PROVE  \E p \in Payment : Item(e, p)' /\ todo'[e][p] < MaxAttempts
BY DEF ClientInv, FetchesItem, Item

\* The outbox starts in its invariant.
LEMMA ClientInitially == ClientInit => ClientInv
BY OutboxAssumption
   DEF ClientInit, ClientInv, ClientTypeOK, NoItems, FetchesItem, StoredItems, ReadItems,
       DropsAreEarned

\* A failed fetch of an item counts one attempt of it.
LEMMA Incremented ==
    ASSUME ClientInv, NEW d \in Drain, NEW p \in Payment, Item(d, p),
           todo[d][p] < MaxAttempts, IncrementAttempts(d, p)
    PROVE  ClientInv'
<1> USE OutboxAssumption
<1>1. todo[d][p] \in 0..MaxAttempts /\ todo[d][p] + 1 \in 0..MaxAttempts
  BY DEF ClientInv, ClientTypeOK, Item
<1>2. ClientTypeOK'
  BY <1>1 DEF ClientInv, ClientTypeOK, IncrementAttempts, Done
<1>3. FetchesItem'
  <2> SUFFICES ASSUME NEW e \in Drain, fetching'[e] # Nothing
               PROVE  \E q \in Payment : Item(e, q)' /\ todo'[e][q] < MaxAttempts
    BY DEF FetchesItem
  <2>1. e # d /\ todo'[e] = todo[e] /\ fetching'[e] = fetching[e]
    BY DEF IncrementAttempts, Done, ClientInv, ClientTypeOK
  <2>2. QED
    BY <2>1, OtherDrains
<1>4. failures' = [failures EXCEPT ![p] = failures[p] + 1] /\ queued' = queued
      /\ dropped' = dropped /\ failures \in [Payment -> Nat]
  BY DEF IncrementAttempts, ClientInv, ClientTypeOK
<1>5. \A q \in Payment : failures'[q] \in Nat /\ failures[q] <= failures'[q]
  BY <1>4
<1>6. p \in queued /\ todo[d][p] <= failures[p]
  BY DEF ClientInv, ReadItems, Item
<1>7. StoredItems'
  <2>1. outbox' = [outbox EXCEPT ![p] = todo[d][p] + 1]
    BY DEF IncrementAttempts
  <2>2. QED
    BY <1>1, <1>4, <1>5, <1>6, <2>1 DEF ClientInv, ClientTypeOK, StoredItems
<1>8. ReadItems'
  <2>1. \A e \in Drain : \A q \in Payment : todo'[e][q] # Nothing => todo'[e][q] = todo[e][q]
    BY DEF IncrementAttempts, Done, ClientInv, ClientTypeOK
  <2>2. \A e \in Drain : \A q \in Payment : todo[e][q] # Nothing => todo[e][q] \in Nat
    BY DEF ClientInv, ClientTypeOK
  <2>3. QED
    BY <1>4, <1>5, <2>1, <2>2 DEF ClientInv, ReadItems
<1>9. DropsAreEarned'
  BY <1>4, <1>5 DEF ClientInv, ClientTypeOK, DropsAreEarned
<1>10. QED
  BY <1>2, <1>3, <1>7, <1>8, <1>9 DEF ClientInv

\* The steps that leave the attempts alone.
LEMMA AttemptsKept ==
    ASSUME ClientInv, failures' = failures, queued \subseteq queued',
           \A p \in Payment : outbox'[p] = Nothing \/ outbox'[p] = outbox[p],
           \A d \in Drain : \A p \in Payment :
               todo'[d][p] = Nothing \/ todo'[d][p] = todo[d][p]
    PROVE  StoredItems' /\ ReadItems'
BY DEF ClientInv, StoredItems, ReadItems

\* Every step of the outbox keeps the client's invariant.
LEMMA ClientStep ==
    ASSUME ClientInv,
           \/ UNCHANGED clientVars
           \/ ClosePage
           \/ \E p \in Payment : EnqueuePayment(p)
           \/ \E d \in Drain :
                 \/ BeginDrain(d)
                 \/ \E p \in Payment :
                       \/ DropItem(d, p) \/ FetchRejects(d, p)
                       \/ \E f \in Fetch : StartFetch(d, p, f)
                       \/ \E a : FetchAnswered(d, p, a)
    PROVE  ClientInv'
<1> USE OutboxAssumption
<1>1. CASE UNCHANGED clientVars
  BY <1>1 DEF clientVars, ClientInv, ClientTypeOK, FetchesItem, StoredItems, ReadItems,
              DropsAreEarned, Item
<1>2. CASE ClosePage
  <2>1. ClientTypeOK' /\ FetchesItem' /\ DropsAreEarned'
    BY <1>2 DEF ClosePage, ClientInv, ClientTypeOK, FetchesItem, DropsAreEarned, NoItems
  <2>2. StoredItems' /\ ReadItems'
    BY <1>2, AttemptsKept DEF ClosePage, NoItems
  <2>3. QED
    BY <2>1, <2>2 DEF ClientInv
<1>3. ASSUME NEW p \in Payment, EnqueuePayment(p)
      PROVE  ClientInv'
  <2>1. ClientTypeOK' /\ DropsAreEarned'
    BY <1>3 DEF EnqueuePayment, ClientInv, ClientTypeOK, DropsAreEarned
  <2>2. FetchesItem'
    BY <1>3 DEF EnqueuePayment, ClientInv, FetchesItem, Item
  <2>3. StoredItems' /\ ReadItems'
    BY <1>3 DEF EnqueuePayment, ClientInv, ClientTypeOK, StoredItems, ReadItems
  <2>4. QED
    BY <2>1, <2>2, <2>3 DEF ClientInv
<1>4. ASSUME NEW d \in Drain, BeginDrain(d)
      PROVE  ClientInv'
  <2>1. ClientTypeOK' /\ DropsAreEarned' /\ StoredItems' /\ ReadItems'
    BY <1>4 DEF BeginDrain, ClientInv, ClientTypeOK, DropsAreEarned, StoredItems, ReadItems
  <2>2. FetchesItem'
    <3>1. fetching[d] = Nothing
      BY <1>4 DEF BeginDrain, Draining, ClientInv, FetchesItem, Item
    <3>2. \A e \in Drain \ {d} : todo'[e] = todo[e]
      BY <1>4 DEF BeginDrain, ClientInv, ClientTypeOK
    <3>3. QED
      BY <1>4, <3>1, <3>2, OtherDrains DEF BeginDrain, FetchesItem
  <2>3. QED
    BY <2>1, <2>2 DEF ClientInv
<1>5. ASSUME NEW d \in Drain, NEW p \in Payment, DropItem(d, p)
      PROVE  ClientInv'
  <2>1. p \in queued /\ todo[d][p] \in Nat /\ failures[p] \in Nat /\ MaxAttempts <= failures[p]
    BY <1>5 DEF DropItem, Item, Spent, ClientInv, ReadItems, ClientTypeOK
  <2>2. ClientTypeOK' /\ DropsAreEarned'
    BY <1>5, <2>1 DEF DropItem, Done, ClientInv, ClientTypeOK, DropsAreEarned
  <2>3. StoredItems' /\ ReadItems'
    <3>1. \A q \in Payment : outbox'[q] = Nothing \/ outbox'[q] = outbox[q]
      BY <1>5 DEF DropItem, ClientInv, ClientTypeOK
    <3>2. \A e \in Drain : \A q \in Payment :
              todo'[e][q] = Nothing \/ todo'[e][q] = todo[e][q]
      BY <1>5 DEF DropItem, Done, ClientInv, ClientTypeOK
    <3>3. QED
      BY <1>5, <3>1, <3>2, AttemptsKept DEF DropItem
  <2>4. FetchesItem'
    <3>1. fetching[d] = Nothing
      <4>1. Item(d, p) /\ ~(todo[d][p] < MaxAttempts)
        BY <1>5, <2>1 DEF DropItem, Spent
      <4>2. QED
        BY <4>1, Waiting
    <3>2. \A e \in Drain \ {d} : todo'[e] = todo[e]
      BY <1>5 DEF DropItem, Done, ClientInv, ClientTypeOK
    <3>3. QED
      BY <1>5, <3>1, <3>2, OtherDrains DEF DropItem, FetchesItem
  <2>5. QED
    BY <2>2, <2>3, <2>4 DEF ClientInv
<1>6. ASSUME NEW d \in Drain, NEW p \in Payment, NEW f \in Fetch, StartFetch(d, p, f)
      PROVE  ClientInv'
  <2>1. todo[d][p] \in Nat /\ todo[d][p] < MaxAttempts
    BY <1>6 DEF StartFetch, Item, Spent, ClientInv, ClientTypeOK
  <2>2. ClientTypeOK' /\ DropsAreEarned' /\ StoredItems' /\ ReadItems'
    BY <1>6 DEF StartFetch, ClientInv, ClientTypeOK, DropsAreEarned, StoredItems, ReadItems
  <2>3. FetchesItem'
    <3>1. Item(d, p)' /\ todo'[d][p] < MaxAttempts
      BY <1>6, <2>1 DEF StartFetch, Item
    <3>2. \A e \in Drain \ {d} : todo'[e] = todo[e] /\ fetching'[e] = fetching[e]
      BY <1>6 DEF StartFetch, ClientInv, ClientTypeOK
    <3>3. QED
      BY <3>1, <3>2, OtherDrains DEF FetchesItem
  <2>4. QED
    BY <2>2, <2>3 DEF ClientInv
<1>7. ASSUME NEW d \in Drain, NEW p \in Payment, FetchRejects(d, p)
      PROVE  ClientInv'
  <2>1. todo[d][p] < MaxAttempts
    BY <1>7 DEF FetchRejects, Item, Spent, ClientInv, ClientTypeOK
  <2>2. QED
    BY <1>7, <2>1, Incremented DEF FetchRejects
<1>8. ASSUME NEW d \in Drain, NEW p \in Payment, NEW a, FetchAnswered(d, p, a)
      PROVE  ClientInv'
  <2>1. Item(d, p) /\ todo[d][p] < MaxAttempts
    BY <1>8, Waiting DEF FetchAnswered
  <2>2. CASE ~Delivered(a)
    BY <1>8, <2>1, <2>2, Incremented DEF FetchAnswered
  <2>3. CASE Delivered(a)
    <3>1. p \in queued
      BY <2>1 DEF Item, ClientInv, ReadItems
    <3>2. ClientTypeOK' /\ DropsAreEarned'
      <4>1. /\ Done(d, p)
            /\ fetching' = [fetching EXCEPT ![d] = Nothing]
            /\ outbox' = [outbox EXCEPT ![p] = Nothing]
            /\ accepted' = accepted \cup {p}
            /\ UNCHANGED <<queued, failures, dropped>>
        BY <1>8, <2>3 DEF FetchAnswered
      <4>2. QED
        BY <3>1, <4>1 DEF Done, ClientInv, ClientTypeOK, DropsAreEarned
    <3>3. \A q \in Payment : outbox'[q] = Nothing \/ outbox'[q] = outbox[q]
      BY <1>8, <2>3 DEF FetchAnswered, ClientInv, ClientTypeOK
    <3>4. \A e \in Drain : \A q \in Payment :
              todo'[e][q] = Nothing \/ todo'[e][q] = todo[e][q]
      BY <1>8, <2>3 DEF FetchAnswered, Done, ClientInv, ClientTypeOK
    <3>5. StoredItems' /\ ReadItems'
      BY <1>8, <2>3, <3>3, <3>4, AttemptsKept DEF FetchAnswered
    <3>6. fetching'[d] = Nothing
          /\ \A e \in Drain \ {d} : todo'[e] = todo[e] /\ fetching'[e] = fetching[e]
      BY <1>8, <2>3 DEF FetchAnswered, Done, ClientInv, ClientTypeOK
    <3>7. FetchesItem'
      BY <3>6, OtherDrains DEF FetchesItem
    <3>8. QED
      BY <3>2, <3>5, <3>7 DEF ClientInv
  <2>4. QED
    BY <2>2, <2>3
<1>9. QED
  BY <1>1, <1>2, <1>3, <1>4, <1>5, <1>6, <1>7, <1>8

-------------------------------------------------------------------------------
\* The middleware.

\* The middleware starts in its invariant.
LEMMA ServerInitially == ServerInit => ServerInv
<1> SUFFICES ASSUME ServerInit PROVE ServerInv
  OBVIOUS
<1> USE IdempotencyAssumption DEF Record, Completed, Answer, Phase
<1>1. ServerTypeOK
  BY DEF ServerInit, ServerTypeOK, NoRecord
<1>2. RequestsServed
  BY DEF ServerInit, RequestsServed
<1>3. OneHandler
  BY DEF ServerInit, OneHandler, Exclusive, Untouched, NoRecord
<1>4. RecordsTruthful
  BY DEF ServerInit, RecordsTruthful, NoRecord, Claims
<1>5. QED
  BY <1>1, <1>2, <1>3, <1>4 DEF ServerInv

RequestsTyped ==
    /\ at \in [Request -> Phase]
    /\ key \in [Request -> Key \cup {None}]
    /\ server \in [Request -> Server \cup {None}]
    /\ answer \in [Request -> Answer \cup {None}]
    /\ unsaved \in [Request -> Completed \cup {None}]
    /\ RequestsServed

Middleware ==
    \/ UNCHANGED serverVars
    \/ ServerStep
    \/ \E r \in Request, k \in Key, s \in Server : Arrive(r, k, s)

\* Where the requests can be after a step.
LEMMA RequestsStep ==
    ASSUME RequestsTyped, Middleware
    PROVE  RequestsTyped'
<1> USE IdempotencyAssumption
        DEF RequestsTyped, RequestsServed, Record, Completed, Answer, Phase, requestVars
<1>1. CASE UNCHANGED serverVars
  BY <1>1 DEF serverVars
<1>2. ASSUME NEW r \in Request, NEW k \in Key, NEW s \in Server, Arrive(r, k, s)
      PROVE  RequestsTyped'
  BY <1>2 DEF Arrive
<1>3. ASSUME NEW r \in Request, NEW p, Goto(r, p), p \in Phase, p # "unused",
             at[r] \notin {"unused", "done"}
      PROVE  RequestsTyped'
  BY <1>3 DEF Goto
<1>4. ASSUME NEW r \in Request, NEW a, Reply(r, a), a \in Answer, at[r] \notin {"unused", "done"}
      PROVE  RequestsTyped'
  BY <1>4 DEF Reply
<1>5. ASSUME NEW r \in Request, NEW record, ActOn(r, record), at[r] \notin {"unused", "done"}
      PROVE  RequestsTyped'
  BY <1>3, <1>4, <1>5 DEF ActOn
<1>6. ASSUME NEW r \in Request, NEW record, ReplayFrom(r, record), at[r] \notin {"unused", "done"}
      PROVE  RequestsTyped'
  BY <1>3, <1>4, <1>6 DEF ReplayFrom
<1>7. ASSUME NEW r \in Request, SetNX(r) \/ ReadStatus(r)
      PROVE  RequestsTyped'
  BY <1>3, <1>5, <1>7 DEF SetNX, ReadStatus
<1>8. ASSUME NEW r \in Request, MemorySetNX(r)
      PROVE  RequestsTyped'
  BY <1>3, <1>5, <1>8 DEF MemorySetNX
<1>9. ASSUME NEW r \in Request, Replay(r) \/ RedisFails(r)
      PROVE  RequestsTyped'
  BY <1>3, <1>6, <1>9 DEF Replay, RedisFails
<1>10. ASSUME NEW r \in Request, Execute(r)
       PROVE  RequestsTyped'
  BY <1>3, <1>10 DEF Execute
<1>11. ASSUME NEW r \in Request, NEW sent \in Completed, NEW captured \in Completed,
              Send(r, sent, captured), at[r] \notin {"unused", "done"}
       PROVE  RequestsTyped'
  BY <1>11 DEF Send
<1>12. ASSUME NEW r \in Request, Respond(r) \/ Refuse(r) \/ Throw(r)
       PROVE  RequestsTyped'
  BY <1>11, <1>12 DEF Respond, Refuse, Throw
<1>13. ASSUME NEW r \in Request, MarkCompleted(r) \/ MarkFails(r)
       PROVE  RequestsTyped'
  <2>1. /\ unsaved' = [unsaved EXCEPT ![r] = None]
        /\ server' = [server EXCEPT ![r] = None]
        /\ UNCHANGED <<at, key, answer>>
        /\ at[r] = "done"
    BY <1>13 DEF MarkCompleted, MarkFails
  <2>2. at' = at /\ key' = key /\ answer' = answer
    BY <2>1
  <2>3. \A q \in Request : q # r => unsaved'[q] = unsaved[q] /\ server'[q] = server[q]
    BY <2>1
  <2>4. unsaved' \in [Request -> Completed \cup {None}]
        /\ server' \in [Request -> Server \cup {None}]
    BY <2>1
  <2>5. RequestsServed'
    BY <2>1, <2>2, <2>3
  <2>6. QED
    BY <2>2, <2>4, <2>5
<1>14. ASSUME NEW s \in Server, Crash(s)
       PROVE  RequestsTyped'
  BY <1>14 DEF Crash
<1>15. ASSUME NEW k \in Key, Expire(k) \/ \E s \in Server : ExpireMemory(s, k)
       PROVE  RequestsTyped'
  BY <1>15 DEF Expire, ExpireMemory
<1>16. QED
  BY <1>1, <1>2, <1>7, <1>8, <1>9, <1>10, <1>12, <1>13, <1>14, <1>15
     DEF Middleware, ServerStep, RequestStep

StoresTyped ==
    /\ redis \in [Key -> Record \cup {None}]
    /\ memory \in [Server -> [Key -> Record \cup {None}]]

\* The records stay records after a step.
LEMMA StoresStep ==
    ASSUME RequestsTyped, StoresTyped, Middleware
    PROVE  StoresTyped'
<1> USE IdempotencyAssumption DEF RequestsTyped, StoresTyped, Record, Completed
<1>1. CASE UNCHANGED <<redis, memory>>
  BY <1>1
<1>2. ASSUME NEW r \in Request, SetNX(r) \/ MarkCompleted(r)
      PROVE  StoresTyped'
  <2>1. PICK record \in Record : redis' \in {redis, [redis EXCEPT ![key[r]] = record]}
                                /\ memory' = memory
    BY <1>2 DEF SetNX, MarkCompleted
  <2>2. QED
    BY <2>1
<1>3. ASSUME NEW r \in Request, MemorySetNX(r) \/ MarkFails(r)
      PROVE  StoresTyped'
  <2>1. PICK record \in Record :
            memory' \in {memory, [memory EXCEPT ![server[r]][key[r]] = record]}
            /\ redis' = redis
    BY <1>3 DEF MemorySetNX, MarkFails
  <2>2. [memory[server[r]] EXCEPT ![key[r]] = record] \in [Key -> Record \cup {None}]
        \/ server[r] \notin Server
    OBVIOUS
  <2>3. \A s \in Server : memory'[s] \in [Key -> Record \cup {None}]
    BY <2>1, <2>2
  <2>4. memory' = [s \in Server |-> memory'[s]]
    BY <2>1
  <2>5. redis' \in [Key -> Record \cup {None}]
    BY <2>1
  <2>6. QED
    BY <2>3, <2>4, <2>5
<1>4. ASSUME NEW s \in Server, Crash(s)
      PROVE  StoresTyped'
  BY <1>4 DEF Crash, NoRecord
<1>5. ASSUME NEW k \in Key, Expire(k)
      PROVE  StoresTyped'
  BY <1>5 DEF Expire
<1>6. ASSUME NEW k \in Key, NEW s \in Server, ExpireMemory(s, k)
      PROVE  StoresTyped'
  <2>1. memory' = [memory EXCEPT ![s][k] = None] /\ redis' = redis
    BY <1>6 DEF ExpireMemory
  <2>2. QED
    BY <2>1
<1>7. ASSUME NEW r \in Request, NEW k \in Key, NEW s \in Server, Arrive(r, k, s)
      PROVE  StoresTyped'
  BY <1>7 DEF Arrive
<1>8. ASSUME NEW r \in Request,
             \/ ReadStatus(r) \/ Replay(r) \/ RedisFails(r)
             \/ Execute(r) \/ Respond(r) \/ Refuse(r) \/ Throw(r)
      PROVE  StoresTyped'
  BY <1>1, <1>8 DEF ReadStatus, Replay, RedisFails, Execute, Respond, Refuse, Throw, Send
<1>9. QED
  BY <1>1, <1>2, <1>3, <1>4, <1>5, <1>6, <1>7, <1>8
     DEF Middleware, ServerStep, RequestStep, serverVars

NotesTyped ==
    /\ executions \in [Key -> Nat]
    /\ faults \in 0..MaxFaults /\ expiries \in 0..MaxExpiries
    /\ excused \in [Key -> BOOLEAN] /\ troubled \in [Key -> BOOLEAN]

\* The counters and the history.
LEMMA NotesStep ==
    ASSUME NotesTyped, Middleware
    PROVE  NotesTyped'
<1> USE IdempotencyAssumption DEF NotesTyped
<1>1. executions' \in [Key -> Nat]
  <2>1. \/ executions' = executions
        \/ \E k : executions' = [executions EXCEPT ![k] = executions[k] + 1]
    BY DEF Middleware, ServerStep, RequestStep, serverVars, Arrive, SetNX, ReadStatus,
           MemorySetNX, Replay, RedisFails, Execute, Respond, Refuse, Throw, Send,
           MarkCompleted, MarkFails, Crash, Expire, ExpireMemory
  <2>2. QED
    BY <2>1
<1>2. faults' \in 0..MaxFaults /\ expiries' \in 0..MaxExpiries
  <2>1. \/ UNCHANGED <<faults, expiries>>
        \/ Fault
        \/ Expiry
    BY DEF Middleware, ServerStep, RequestStep, serverVars, Arrive, SetNX, ReadStatus,
           MemorySetNX, Replay, RedisFails, Execute, Respond, Refuse, Throw, Send,
           MarkCompleted, MarkFails, Crash, Expire, ExpireMemory
  <2>2. QED
    BY <2>1 DEF Fault, Expiry
<1>3. excused' \in [Key -> BOOLEAN]
  <2>1. \/ excused' = excused
        \/ \E k : excused' = [excused EXCEPT ![k] = TRUE]
    BY DEF Middleware, ServerStep, RequestStep, serverVars, Arrive, SetNX, ReadStatus,
           MemorySetNX, Replay, RedisFails, Execute, Respond, Refuse, Throw, Send,
           MarkCompleted, MarkFails, Crash, Expire, ExpireMemory, Excuse
  <2>2. QED
    BY <2>1, Zenon
<1>4. troubled' \in [Key -> BOOLEAN]
  <2>1. \/ troubled' = troubled
        \/ \E k : troubled' = [troubled EXCEPT ![k] = TRUE]
        \/ \E s \in Server : Crash(s)
    BY DEF Middleware, ServerStep, RequestStep, serverVars, Arrive, SetNX, ReadStatus,
           MemorySetNX, Replay, RedisFails, Execute, Respond, Refuse, Throw, Send,
           MarkCompleted, MarkFails, Expire, ExpireMemory, Trouble
  <2>2. CASE \E s \in Server : Crash(s)
    BY <2>2, Zenon DEF Crash
  <2>3. CASE troubled' = troubled \/ \E k : troubled' = [troubled EXCEPT ![k] = TRUE]
    BY <2>3, Zenon
  <2>4. QED
    BY <2>1, <2>2, <2>3
<1>5. QED
  BY <1>1, <1>2, <1>3, <1>4

\* What is earned stays earned.
LEMMA EarnedStays ==
    ASSUME NotesTyped, Middleware, NEW k \in Key, Earned(k)
    PROVE  Earned(k)'
<1>1. \/ executions' = executions
      \/ \E j : executions' = [executions EXCEPT ![j] = executions[j] + 1]
  BY DEF Middleware, ServerStep, RequestStep, serverVars, Arrive, SetNX, ReadStatus,
         MemorySetNX, Replay, RedisFails, Execute, Respond, Refuse, Throw, Send,
         MarkCompleted, MarkFails, Crash, Expire, ExpireMemory
<1>2. executions[k] > 0 => executions'[k] > 0
  BY <1>1 DEF NotesTyped
<1>3. \/ troubled' = troubled
      \/ \E j : troubled' = [troubled EXCEPT ![j] = TRUE]
      \/ \E s \in Server : Crash(s)
  BY DEF Middleware, ServerStep, RequestStep, serverVars, Arrive, SetNX, ReadStatus,
         MemorySetNX, Replay, RedisFails, Execute, Respond, Refuse, Throw, Send,
         MarkCompleted, MarkFails, Expire, ExpireMemory, Trouble
<1>4. CASE \E s \in Server : Crash(s)
  BY <1>2, <1>4, Zenon DEF Crash, Earned
<1>5. CASE \E j : troubled' = [troubled EXCEPT ![j] = TRUE]
  <2>1. troubled[k] => troubled'[k]
    BY <1>5, Zenon DEF NotesTyped
  <2>2. QED
    BY <1>2, <2>1, Zenon DEF Earned
<1>6. CASE troubled' = troubled
  BY <1>2, <1>6, Zenon DEF Earned
<1>7. QED
  BY <1>3, <1>4, <1>5, <1>6

Unearned(k) == redis[k] # "ok" /\ \A s \in Server : memory[s][k] # "ok"
Silent(r) == unsaved[r] # "ok" /\ at[r] # "respond" /\ answer[r] # "ok"

\* A step that records a success, or makes a claim to one, earns it.
LEMMA RecordsStep ==
    ASSUME RequestsTyped, StoresTyped, NotesTyped, RecordsTruthful, Middleware
    PROVE  RecordsTruthful'
<1> USE IdempotencyAssumption
        DEF RequestsTyped, RequestsServed, StoresTyped, Record, Completed, Answer, Phase
<1> SUFFICES ASSUME NEW k \in Key, ~Earned(k)'
             PROVE  Unearned(k)' /\ \A q \in Request : key'[q] = k => Silent(q)'
  BY DEF RecordsTruthful, Unearned, Silent, Claims
<1>1. ~Earned(k)
  BY EarnedStays
<1>2. Unearned(k) /\ \A q \in Request : key[q] = k => Silent(q)
  BY <1>1 DEF RecordsTruthful, Unearned, Silent, Claims
<1>3. Unearned(k)'
  <2> USE <1>2 DEF Unearned
  <2>1. CASE UNCHANGED <<redis, memory>>
    BY <2>1
  <2>2. ASSUME NEW r \in Request, SetNX(r) \/ MarkCompleted(r)
        PROVE  Unearned(k)'
    BY <2>2 DEF SetNX, MarkCompleted, Silent
  <2>3. ASSUME NEW r \in Request, MemorySetNX(r) \/ MarkFails(r)
        PROVE  Unearned(k)'
    <3>1. PICK record \in Record :
              /\ memory' \in {memory, [memory EXCEPT ![server[r]][key[r]] = record]}
              /\ key[r] = k => record # "ok"
              /\ redis' = redis
      BY <2>3 DEF MemorySetNX, MarkFails, Silent
    <3>2. \A s \in Server : memory'[s][k] \in {memory[s][k], record}
                            /\ (key[r] # k => memory'[s][k] = memory[s][k])
      BY <3>1
    <3>3. QED
      BY <3>1, <3>2
  <2>4. ASSUME NEW s \in Server, Crash(s)
        PROVE  Unearned(k)'
    BY <2>4 DEF Crash, NoRecord
  <2>5. ASSUME NEW j \in Key, Expire(j) \/ \E s \in Server : ExpireMemory(s, j)
        PROVE  Unearned(k)'
    BY <2>5 DEF Expire, ExpireMemory
  <2>6. ASSUME NEW r \in Request, NEW j \in Key, NEW s \in Server, Arrive(r, j, s)
        PROVE  Unearned(k)'
    BY <2>1, <2>6 DEF Arrive
  <2>7. ASSUME NEW r \in Request,
               \/ ReadStatus(r) \/ Replay(r) \/ RedisFails(r)
               \/ Execute(r) \/ Respond(r) \/ Refuse(r) \/ Throw(r)
        PROVE  Unearned(k)'
    BY <2>1, <2>7 DEF ReadStatus, Replay, RedisFails, Execute, Respond, Refuse, Throw, Send
  <2>8. QED
    BY <2>1, <2>2, <2>3, <2>4, <2>5, <2>6, <2>7
       DEF Middleware, ServerStep, RequestStep, serverVars
<1>4. \A q \in Request : key'[q] = k => Silent(q)'
  <2> DEFINE Quietly == \A q \in Request : key'[q] = k => Silent(q)'
  <2> USE <1>2
  <2>1. CASE UNCHANGED requestVars
    BY <2>1 DEF Silent, requestVars
  <2>2. ASSUME NEW r \in Request, NEW p, Goto(r, p), p # "respond" \/ key[r] # k
        PROVE  Quietly
    BY <2>2 DEF Goto, Silent
  <2>3. ASSUME NEW r \in Request, NEW a, Reply(r, a), a # "ok" \/ key[r] # k
        PROVE  Quietly
    BY <2>3 DEF Reply, Silent
  <2>4. ASSUME NEW r \in Request, SetNX(r) \/ ReadStatus(r)
        PROVE  Quietly
    BY <2>2, <2>3, <2>4 DEF SetNX, ReadStatus, ActOn
  <2>5. ASSUME NEW r \in Request, MemorySetNX(r)
        PROVE  Quietly
    BY <2>2, <2>3, <2>5 DEF MemorySetNX, ActOn
  <2>6. ASSUME NEW r \in Request, NEW record, ReplayFrom(r, record),
               record # "ok" \/ key[r] # k
        PROVE  Quietly
    BY <2>2, <2>3, <2>6 DEF ReplayFrom
  <2>7. ASSUME NEW r \in Request, Replay(r) \/ RedisFails(r)
        PROVE  Quietly
    <3>1. at[r] \notin {"unused", "done"} => server[r] \in Server
      OBVIOUS
    <3>2. QED
      BY <2>2, <2>6, <2>7, <3>1, <1>2 DEF Replay, RedisFails, Unearned
  <2>8. ASSUME NEW r \in Request, Execute(r)
        PROVE  Quietly
    <3>1. key[r] # k
      BY <2>8 DEF Execute, Earned, NotesTyped
    <3>2. QED
      BY <2>2, <2>8, <3>1 DEF Execute
  <2>9. ASSUME NEW r \in Request, NEW sent, NEW captured, Send(r, sent, captured),
               key[r] # k \/ (sent = "error" /\ captured = "error")
        PROVE  Quietly
    BY <2>9 DEF Send, Silent
  <2>10. ASSUME NEW r \in Request, Respond(r) \/ Refuse(r)
         PROVE  Quietly
    BY <2>9, <2>10 DEF Respond, Refuse, Silent
  <2>11. ASSUME NEW r \in Request, Throw(r)
         PROVE  Quietly
    <3>1. key[r] \in Key /\ troubled'[key[r]]
      BY <2>11, Zenon DEF Throw, Trouble, NotesTyped
    <3>2. key[r] # k
      BY <3>1, Zenon DEF Earned
    <3>3. QED
      BY <2>9, <2>11, <3>2 DEF Throw
  <2>12. ASSUME NEW r \in Request, MarkCompleted(r) \/ MarkFails(r)
         PROVE  Quietly
    <3>1. unsaved' = [unsaved EXCEPT ![r] = None] /\ UNCHANGED <<at, key, answer>>
      BY <2>12 DEF MarkCompleted, MarkFails
    <3>2. QED
      BY <3>1 DEF Silent
  <2>13. ASSUME NEW s \in Server, Crash(s)
         PROVE  Quietly
    BY <2>13 DEF Crash, Silent
  <2>14. ASSUME NEW j \in Key, Expire(j) \/ \E s \in Server : ExpireMemory(s, j)
         PROVE  Quietly
    BY <2>1, <2>14 DEF Expire, ExpireMemory
  <2>15. ASSUME NEW r \in Request, NEW j \in Key, NEW s \in Server, Arrive(r, j, s)
         PROVE  Quietly
    BY <2>15 DEF Arrive, Silent
  <2>16. QED
    BY <2>1, <2>4, <2>5, <2>7, <2>8, <2>10, <2>11, <2>12, <2>13, <2>14, <2>15
       DEF Middleware, ServerStep, RequestStep, serverVars, requestVars
<1>5. QED
  BY <1>3, <1>4

-------------------------------------------------------------------------------
\* One handler per key.

Apart(k) ==
    /\ redis'[k] = redis[k] /\ executions'[k] = executions[k]
    /\ \A s \in Server : memory'[s][k] = memory[s][k]
    /\ \A q \in Request :
          key'[q] = k => (key[q] = k /\ at'[q] = at[q] /\ unsaved'[q] = unsaved[q])

\* A step about another key.
LEMMA OtherKeys ==
    ASSUME NEW k \in Key, Exclusive(k), Apart(k)
    PROVE  Exclusive(k)'
<1>1. Untouched(k) => Untouched(k)'
  BY DEF Apart, Untouched
<1>2. \A q \in Request : key'[q] = k => (key[q] = k /\ (Holds(q)' <=> Holds(q)))
  BY DEF Apart, Holds
<1>3. QED
  BY <1>1, <1>2 DEF Apart, Exclusive

\* A step of a request, or its arrival, leaves the other keys alone.
LEMMA OwnKey ==
    ASSUME RequestsTyped, StoresTyped, NotesTyped, NEW r \in Request, NEW k \in Key,
           RequestStep(r), key[r] # k
    PROVE  Apart(k)
<1> USE DEF RequestsTyped, StoresTyped, NotesTyped
<1>1. key' = key
  BY DEF RequestStep, SetNX, ReadStatus, ActOn, MemorySetNX, Replay, ReplayFrom, RedisFails,
         Goto, Reply, Execute, Respond, Refuse, Throw, Send, MarkCompleted, MarkFails
<1>2. \A q \in Request : q # r => (at'[q] = at[q] /\ unsaved'[q] = unsaved[q])
  BY DEF RequestStep, SetNX, ReadStatus, ActOn, MemorySetNX, Replay, ReplayFrom, RedisFails,
         Goto, Reply, Execute, Respond, Refuse, Throw, Send, MarkCompleted, MarkFails
<1>3. redis'[k] = redis[k] /\ executions'[k] = executions[k]
  BY DEF RequestStep, SetNX, ReadStatus, MemorySetNX, Replay, RedisFails,
         Execute, Respond, Refuse, Throw, Send, MarkCompleted, MarkFails
<1>4. \A s \in Server : memory'[s][k] = memory[s][k]
  <2>1. memory' = memory
        \/ \E s, record : memory' = [memory EXCEPT ![s][key[r]] = record]
    BY DEF RequestStep, SetNX, ReadStatus, MemorySetNX, Replay, RedisFails,
           Execute, Respond, Refuse, Throw, Send, MarkCompleted, MarkFails
  <2>2. QED
    BY <2>1
<1>5. QED
  BY <1>1, <1>2, <1>3, <1>4 DEF Apart

\* While nothing excuses it, a request of the key takes it from nobody.
LEMMA SameKey ==
    ASSUME RequestsTyped, StoresTyped, NotesTyped, NEW r \in Request, NEW k \in Key,
           RequestStep(r), key[r] = k, Exclusive(k), ~excused'[k]
    PROVE  Exclusive(k)'
<1> USE IdempotencyAssumption
        DEF RequestsTyped, RequestsServed, StoresTyped, Record, Completed, Answer, Phase
<1>1. ~Excuse(k)
  BY Zenon DEF Excuse, NotesTyped
<1>2. ~RedisFails(r) /\ ~MarkFails(r) /\ ~MemorySetNX(r)
  BY <1>1 DEF RedisFails, MarkFails, MemorySetNX, Exclusive
<1> DEFINE Others == \A q \in Request \ {r} : at'[q] = at[q] /\ unsaved'[q] = unsaved[q]
<1>3. key' = key /\ memory' = memory /\ Others
  BY <1>2 DEF RequestStep, SetNX, ReadStatus, ActOn, Replay, ReplayFrom, Goto, Reply, Execute,
              Respond, Refuse, Throw, Send, MarkCompleted
<1> HIDE DEF Others
<1>4. \A q \in Request \ {r} : Holds(q)' <=> Holds(q)
  BY <1>3 DEF Others, Holds
<1> USE <1>3, <1>4 DEF Others
\* r moves on without holding the key.
<1>5. ASSUME redis' = redis, executions' = executions, redis[k] # None, unsaved' = unsaved,
             \/ at'[r] \in {"get", "done"}
             \/ at'[r] = "replay" /\ redis[k] \in Completed
      PROVE  Exclusive(k)'
  <2>1. Holds(r)' => Holds(r)
    BY <1>5 DEF Holds
  <2>2. QED
    BY <1>5, <2>1 DEF Exclusive
<1>6. CASE SetNX(r)
  <2>1. CASE redis[k] = None
    <3>1. \A q \in Request : key[q] = k => ~Holds(q)
      BY <2>1 DEF Exclusive, Untouched, Holds
    <3>2. redis' = [redis EXCEPT ![k] = "pending"] /\ Goto(r, "handle")
          /\ executions' = executions
      BY <1>6, <2>1 DEF SetNX, Acquires
    <3>3. QED
      BY <2>1, <3>1, <3>2 DEF Exclusive, Untouched, Goto
  <2>2. CASE redis[k] # None
    BY <1>5, <1>6, <2>2 DEF SetNX, Acquires, Goto
  <2>3. QED
    BY <2>1, <2>2
<1>7. CASE ReadStatus(r)
  <2>1. redis[k] # None
    BY <1>7 DEF ReadStatus, Exclusive, Untouched
  <2>2. QED
    BY <1>5, <1>7, <2>1 DEF ReadStatus, ActOn, Goto, Reply
<1>8. CASE Replay(r)
  <2>1. redis[k] \in Completed
    BY <1>8 DEF Replay, Exclusive
  <2>2. QED
    BY <1>5, <1>8, <2>1 DEF Replay, ReplayFrom, Reply
<1>9. CASE Execute(r)
  <2>1. /\ at[r] = "handle" /\ executions[k] = 0 /\ redis[k] \notin Completed
        /\ redis[k] # None /\ Holds(r)
    BY <1>9 DEF Execute, Exclusive, Untouched, Holds
  <2>2. \A q \in Request \ {r} : key[q] = k => ~Holds(q)
    BY <2>1 DEF Exclusive
  <2>3. redis' = redis /\ executions'[k] = 1 /\ at'[r] = "respond"
    BY <1>9, <2>1 DEF Execute, Goto, NotesTyped
  <2>4. \A q \in Request \ {r} : key[q] = k => at[q] # "handle"
    BY <2>2 DEF Holds
  <2>5. QED
    BY <2>1, <2>2, <2>3, <2>4 DEF Exclusive
<1>10. CASE Respond(r) \/ Refuse(r) \/ Throw(r)
  <2>1. /\ at[r] \in {"handle", "respond"} /\ redis[k] # None /\ redis[k] \notin Completed
        /\ Holds(r)
    BY <1>10 DEF Respond, Refuse, Throw, Exclusive, Untouched, Holds
  <2>2. redis' = redis /\ executions' = executions /\ at'[r] = "done"
    BY <1>10 DEF Respond, Refuse, Throw, Send
  <2>3. QED
    BY <2>1, <2>2 DEF Exclusive
<1>11. CASE MarkCompleted(r)
  <2>1. at[r] = "done" /\ Holds(r) /\ unsaved[r] \in Completed
    BY <1>11 DEF MarkCompleted, Holds
  <2>2. \A q \in Request : key[q] = k => at[q] \notin {"handle", "respond"}
    BY <2>1 DEF Exclusive, Holds
  <2>3. /\ redis'[k] \in Completed /\ executions' = executions /\ at' = at
        /\ ~Holds(r)'
    BY <1>11, <2>1 DEF MarkCompleted, Holds
  <2>4. QED
    BY <2>2, <2>3 DEF Exclusive
<1>12. QED
  BY <1>2, <1>6, <1>7, <1>8, <1>9, <1>10, <1>11 DEF RequestStep

\* No step makes a second handler of a key that nothing excuses.
LEMMA HandlersStep ==
    ASSUME RequestsTyped, StoresTyped, NotesTyped, OneHandler, Middleware
    PROVE  OneHandler'
<1> USE IdempotencyAssumption DEF RequestsTyped, StoresTyped, NotesTyped
<1> SUFFICES ASSUME NEW k \in Key, ~excused'[k]
             PROVE  Exclusive(k)'
  BY DEF OneHandler
<1>1. ~excused[k]
  <2>1. excused' = excused \/ \E j : Excuse(j)
    BY DEF Middleware, ServerStep, RequestStep, serverVars, Arrive, SetNX, ReadStatus,
           MemorySetNX, Replay, RedisFails, Execute, Respond, Refuse, Throw, Send,
           MarkCompleted, MarkFails, Crash, Expire, ExpireMemory
  <2>2. CASE \E j : Excuse(j)
    BY <2>2, Zenon DEF Excuse
  <2>3. CASE excused' = excused
    BY <2>3, Zenon
  <2>4. QED
    BY <2>1, <2>2, <2>3
<1>2. Exclusive(k)
  BY <1>1 DEF OneHandler
<1>3. CASE UNCHANGED serverVars
  BY <1>2, <1>3, OtherKeys DEF serverVars, requestVars, Apart
<1>4. ASSUME NEW r \in Request, NEW j \in Key, NEW s \in Server, Arrive(r, j, s)
      PROVE  Exclusive(k)'
  <2>1. unsaved[r] = None
    BY <1>4 DEF Arrive, RequestsServed
  <2>2. CASE j # k
    BY <1>2, <1>4, <2>2, OtherKeys DEF Arrive, Apart
  <2>3. CASE j = k
    <3>1. \A q \in Request \ {r} : key'[q] = key[q] /\ at'[q] = at[q] /\ unsaved'[q] = unsaved[q]
      BY <1>4 DEF Arrive
    <3>2. \A q \in Request \ {r} : Holds(q)' <=> Holds(q)
      BY <3>1 DEF Holds
    <3>3. at'[r] = "set" /\ unsaved'[r] = None /\ ~Holds(r)'
      BY <1>4, <2>1 DEF Arrive, Holds
    <3>4. UNCHANGED <<redis, memory, executions>>
      BY <1>4 DEF Arrive
    <3>5. Untouched(k) => Untouched(k)'
      BY <3>1, <3>3, <3>4 DEF Untouched
    <3>6. QED
      BY <1>2, <3>1, <3>2, <3>3, <3>4, <3>5 DEF Exclusive
  <2>4. QED
    BY <2>2, <2>3
<1>5. ASSUME NEW r \in Request, RequestStep(r)
      PROVE  Exclusive(k)'
  BY <1>2, <1>5, OtherKeys, OwnKey, SameKey
<1>6. ASSUME NEW s \in Server, Crash(s)
      PROVE  Exclusive(k)'
  <2>1. UNCHANGED <<redis, key, executions>>
    BY <1>6 DEF Crash
  <2>2. \A q \in Request : /\ at'[q] = at[q] \/ at'[q] = "done"
                           /\ unsaved'[q] = unsaved[q] \/ unsaved'[q] = None
    BY <1>6 DEF Crash
  <2>3. \A q \in Request : Holds(q)' => Holds(q)
    BY <2>2 DEF Holds
  <2>4. \A e \in Server : memory'[e][k] = None
    BY <1>2, <1>6 DEF Crash, NoRecord, Exclusive
  <2>5. Untouched(k) => Untouched(k)'
    BY <2>1, <2>2 DEF Untouched
  <2>6. QED
    BY <1>2, <2>1, <2>2, <2>3, <2>4, <2>5 DEF Exclusive
<1>7. ASSUME NEW j \in Key, Expire(j) \/ \E s \in Server : ExpireMemory(s, j)
      PROVE  Exclusive(k)'
  <2>1. Excuse(j) /\ UNCHANGED requestVars /\ executions' = executions
    BY <1>7 DEF Expire, ExpireMemory
  <2>2. j # k
    BY <2>1, Zenon DEF Excuse
  <2>3. redis'[k] = redis[k] /\ \A s \in Server : memory'[s][k] = memory[s][k]
    BY <1>7, <2>2 DEF Expire, ExpireMemory
  <2>4. QED
    BY <1>2, <2>1, <2>3, OtherKeys DEF Apart, requestVars
<1>8. QED
  BY <1>3, <1>4, <1>5, <1>6, <1>7 DEF Middleware, ServerStep

-------------------------------------------------------------------------------
\* The two together.

\* Every step of the middleware keeps the server's invariant.
LEMMA ServerStays ==
    ASSUME ServerInv, Middleware
    PROVE  ServerInv'
<1>1. RequestsTyped /\ StoresTyped /\ NotesTyped
  BY DEF ServerInv, ServerTypeOK, RequestsTyped, StoresTyped, NotesTyped
<1>2. RequestsTyped' /\ StoresTyped' /\ NotesTyped'
  BY <1>1, RequestsStep, StoresStep, NotesStep
<1>3. RecordsTruthful'
  BY <1>1, RecordsStep DEF ServerInv
<1>4. OneHandler'
  BY <1>1, HandlersStep DEF ServerInv
<1>5. QED
  BY <1>2, <1>3, <1>4 DEF ServerInv, ServerTypeOK, RequestsTyped, StoresTyped, NotesTyped

\* Both sides start in their invariants.
LEMMA Initially == Init => IInv
BY ClientInitially, ServerInitially DEF Init, IInv

\* Each step of the composition is one of the outbox, one of the middleware, or the
\* fetch that both take together.
LEMMA Inductive == IInv /\ [Next]_vars => IInv'
<1> SUFFICES ASSUME IInv, [Next]_vars PROVE IInv'
  OBVIOUS
<1>1. ClientInv /\ ServerInv
  BY DEF IInv
<1>2. CASE UNCHANGED vars
  BY <1>1, <1>2, ClientStep, ServerStays DEF vars, Middleware, IInv
<1>3. CASE \E p \in Payment : EnqueuePayment(p) /\ UNCHANGED serverVars
  BY <1>1, <1>3, ClientStep, ServerStays DEF Middleware, IInv
<1>4. ASSUME NEW d \in Drain, DrainStep(d)
      PROVE  IInv'
  <2>1. CASE BeginDrain(d) /\ UNCHANGED serverVars
    BY <1>1, <2>1, ClientStep, ServerStays DEF Middleware, IInv
  <2>2. ASSUME NEW p \in Payment, SendFetch(d, p)
        PROVE  IInv'
    <3>1. PICK r \in Request, s \in Server : StartFetch(d, p, r) /\ Arrive(r, p, s)
      BY <2>2 DEF SendFetch
    <3>2. r \in Fetch /\ p \in Key
      BY DeliveryAssumption
    <3>3. ClientInv'
      BY <1>1, <3>1, <3>2, ClientStep
    <3>4. ServerInv'
      BY <1>1, <3>1, <3>2, ServerStays DEF Middleware
    <3>5. QED
      BY <3>3, <3>4 DEF IInv
  <2>3. ASSUME NEW p \in Payment,
               \/ DropItem(d, p) /\ UNCHANGED serverVars
               \/ ReceiveAnswer(d, p)
               \/ FetchRejects(d, p) /\ UNCHANGED serverVars
        PROVE  IInv'
    BY <1>1, <2>3, ClientStep, ServerStays DEF ReceiveAnswer, Middleware, IInv
  <2>4. QED
    BY <1>4, <2>1, <2>2, <2>3 DEF DrainStep
<1>5. CASE ClosePage /\ UNCHANGED serverVars
  BY <1>1, <1>5, ClientStep, ServerStays DEF Middleware, IInv
<1>6. CASE ServerStep /\ UNCHANGED clientVars
  BY <1>1, <1>6, ClientStep, ServerStays DEF Middleware, IInv
<1>7. QED
  BY <1>2, <1>3, <1>4, <1>5, <1>6 DEF Next

\* The invariants of the outbox and of the middleware hold together, for any payments,
\* drains, requests and processes.
THEOREM InvariantHolds == Spec => []IInv
BY Initially, Inductive, PTL DEF Spec

\* The variables keep their types: in particular the outbox never stores more than
\* MAX_ATTEMPTS attempts, which incrementAttempts alone does not promise.
THEOREM TypeCorrect == Spec => []TypeOK
<1>1. IInv => TypeOK
  BY DEF IInv, ClientInv, ServerInv, TypeOK
<1>2. QED
  BY <1>1, InvariantHolds, PTL

\* SET NX and markCompleted let a key's work be done twice only after a record of
\* the key expired or a Redis command for it failed.
THEOREM RepeatsHaveCause == Spec => []RepeatHasCause
<1>1. IInv => RepeatHasCause
  <2> SUFFICES ASSUME IInv, NEW k \in Key, executions[k] > 1, ~excused[k]
               PROVE  FALSE
    BY Zenon DEF RepeatHasCause
  <2>1. executions[k] \in {0, 1}
    BY DEF IInv, ServerInv, OneHandler, Exclusive
  <2>2. QED
    BY <2>1
<1>2. QED
  BY <1>1, InvariantHolds, PTL

\* No request is answered with success, at once or from a cached record, unless the
\* work of its key was done or a handler of that key failed.
THEOREM SuccessesAreTruthful == Spec => []SuccessIsTruthful
<1>1. IInv => SuccessIsTruthful
  <2> SUFFICES ASSUME IInv, NEW r \in Request, answer[r] = "ok"
               PROVE  Earned(key[r])
    BY DEF SuccessIsTruthful, Earned
  <2>1. at[r] # "unused"
    BY IdempotencyAssumption
       DEF IInv, ServerInv, RequestsServed, Record, Completed, Answer
  <2>2. key[r] \in Key
    BY <2>1 DEF IInv, ServerInv, RequestsServed
  <2>3. QED
    BY <2>2 DEF IInv, ServerInv, RecordsTruthful, Claims
<1>2. QED
  BY <1>1, InvariantHolds, PTL

\* drainOutbox gives up only a payment whose fetches failed MAX_ATTEMPTS times,
\* whatever two drains write over each other's counts.
THEOREM DropsAreAlwaysEarned == Spec => []DropsAreEarned
<1>1. IInv => DropsAreEarned
  BY DEF IInv, ClientInv
<1>2. QED
  BY <1>1, InvariantHolds, PTL

-------------------------------------------------------------------------------
\* What leaves the outbox.

\* The work of the key was done, failed, or is in the hands of its handler.
InHandler(k) == \E r \in Request : key[r] = k /\ at[r] = "handle"
Owned(k) == Earned(k) \/ InHandler(k)

\* A pending record, and the conflict it is answered with, stand for such work.
RecordOwned(k) ==
    redis[k] = "pending" \/ (\E s \in Server : memory[s][k] = "pending") => Owned(k)
ConflictOwned(k) ==
    \A r \in Request : key[r] = k /\ answer[r] = "conflict" => Owned(k)
PendingOwned == \A k \in Key : RecordOwned(k) /\ ConflictOwned(k)

\* The fetch a drain waits for is the request that carries its item.
FetchesOwn ==
    \A d \in Drain : fetching[d] # Nothing =>
        /\ fetching[d] \in Request /\ at[fetching[d]] # "unused"
        /\ \A p \in Payment : Item(d, p) => key[fetching[d]] = p

AcceptedOwned == \A p \in accepted : Owned(p)

QueuedKept == \A p \in queued : outbox[p] # Nothing \/ p \in dropped \cup accepted

LossInv == PendingOwned /\ FetchesOwn /\ AcceptedOwned /\ QueuedKept

\* A request that leaves the handler earns its key.
LEMMA OwnedStays ==
    ASSUME ServerInv, Middleware, NEW k \in Key, Owned(k)
    PROVE  Owned(k)'
<1> USE IdempotencyAssumption DEF ServerInv, ServerTypeOK, RequestsServed
<1>1. NotesTyped
  BY DEF NotesTyped
<1>2. CASE Earned(k)
  BY <1>1, <1>2, EarnedStays DEF Owned
<1>3. ASSUME NEW q \in Request, key[q] = k, at[q] = "handle"
      PROVE  Owned(k)'
  <2> USE <1>3
  <2>1. CASE key'[q] = k /\ at'[q] = "handle"
    BY <2>1 DEF Owned, InHandler
  <2>2. ASSUME NEW r \in Request, RequestStep(r), r # q
        PROVE  key'[q] = k /\ at'[q] = "handle"
    BY <2>2 DEF RequestStep, SetNX, ReadStatus, ActOn, MemorySetNX, Replay, ReplayFrom,
                RedisFails, Goto, Reply, Execute, Respond, Refuse, Throw, Send,
                MarkCompleted, MarkFails
  <2>3. CASE RequestStep(q)
    <3>1. Execute(q) \/ Refuse(q) \/ Throw(q) \/ MarkCompleted(q) \/ MarkFails(q)
      BY <2>3 DEF RequestStep, SetNX, ReadStatus, MemorySetNX, Replay, RedisFails, Respond
    <3>2. unsaved[q] = None
      OBVIOUS
    <3>3. CASE Execute(q)
      BY <3>3, <1>1 DEF Execute, NotesTyped, Owned, Earned
    <3>4. CASE Refuse(q) \/ Throw(q)
      BY <3>4, <1>1, Zenon DEF Refuse, Throw, Trouble, NotesTyped, Owned, Earned
    <3>5. QED
      BY <3>1, <3>2, <3>3, <3>4 DEF MarkCompleted, MarkFails
  <2>4. ASSUME NEW s \in Server, Crash(s)
        PROVE  Owned(k)'
    <3>1. CASE server[q] # s
      BY <2>1, <2>4, <3>1 DEF Crash
    <3>2. CASE server[q] = s
      <4>1. Holds(q)
        BY DEF Holds
      <4>2. QED
        BY <2>4, <3>2, <4>1, Zenon DEF Crash, Owned, Earned
    <3>3. QED
      BY <3>1, <3>2
  <2>5. ASSUME NEW j \in Key, Expire(j) \/ \E s \in Server : ExpireMemory(s, j)
        PROVE  key'[q] = k /\ at'[q] = "handle"
    BY <2>5 DEF Expire, ExpireMemory, requestVars
  <2>6. ASSUME NEW r \in Request, NEW j \in Key, NEW s \in Server, Arrive(r, j, s)
        PROVE  key'[q] = k /\ at'[q] = "handle"
    BY <2>6 DEF Arrive
  <2>7. CASE UNCHANGED serverVars
    BY <2>1, <2>7 DEF serverVars, requestVars
  <2>8. QED
    BY <2>1, <2>2, <2>3, <2>4, <2>5, <2>6, <2>7 DEF Middleware, ServerStep
<1>4. QED
  BY <1>2, <1>3 DEF Owned, InHandler

\* What a request that finds no record does next makes it the handler of its key.
LEMMA TakesKey ==
    ASSUME RequestsTyped, NEW r \in Request, NEW k \in Key, key[r] = k, Goto(r, "handle")
    PROVE  InHandler(k)'
BY DEF RequestsTyped, Goto, InHandler

\* A record in progress keeps an owner over every step of the middleware.
LEMMA PendingStep ==
    ASSUME ServerInv, PendingOwned, Middleware
    PROVE  PendingOwned'
<1> USE IdempotencyAssumption
        DEF RequestsTyped, RequestsServed, StoresTyped, Record, Completed, Answer, Phase
<1>1. RequestsTyped /\ StoresTyped /\ NotesTyped
  BY DEF ServerInv, ServerTypeOK, NotesTyped
<1> SUFFICES ASSUME NEW k \in Key, ~Owned(k)'
             PROVE  RecordOwned(k)' /\ ConflictOwned(k)'
  BY DEF PendingOwned, RecordOwned, ConflictOwned
<1> DEFINE Clear == redis[k] # "pending" /\ \A s \in Server : memory[s][k] # "pending"
           Calm(q) == key[q] = k => answer[q] # "conflict"
<1>2. Clear /\ \A q \in Request : Calm(q)
  BY OwnedStays DEF PendingOwned, RecordOwned, ConflictOwned
<1>3. \A r \in Request : key[r] = k => ~Goto(r, "handle")
  BY <1>1, TakesKey DEF Owned
<1>4. Clear'
  <2>1. CASE UNCHANGED <<redis, memory>>
    BY <1>2, <2>1
  <2>2. ASSUME NEW r \in Request, SetNX(r) \/ MarkCompleted(r)
        PROVE  Clear'
    BY <1>1, <1>2, <1>3, <2>2 DEF SetNX, MarkCompleted
  <2>3. ASSUME NEW r \in Request, MemorySetNX(r) \/ MarkFails(r)
        PROVE  Clear'
    <3>1. PICK record \in Record :
              /\ memory' \in {memory, [memory EXCEPT ![server[r]][key[r]] = record]}
              /\ key[r] = k => memory' = memory \/ record # "pending"
              /\ redis' = redis
      BY <1>1, <1>3, <2>3 DEF MemorySetNX, MarkFails
    <3>2. \A s \in Server : /\ memory'[s][k] \in {memory[s][k], record}
                            /\ key[r] # k => memory'[s][k] = memory[s][k]
      BY <1>1, <3>1
    <3>3. QED
      BY <1>2, <1>1, <3>1, <3>2
  <2>4. ASSUME NEW s \in Server, Crash(s)
        PROVE  Clear'
    BY <1>1, <1>2, <2>4 DEF Crash, NoRecord
  <2>5. ASSUME NEW j \in Key, Expire(j) \/ \E s \in Server : ExpireMemory(s, j)
        PROVE  Clear'
    BY <1>1, <1>2, <2>5 DEF Expire, ExpireMemory
  <2>6. ASSUME NEW r \in Request, NEW j \in Key, NEW s \in Server, Arrive(r, j, s)
        PROVE  Clear'
    BY <2>1, <2>6 DEF Arrive
  <2>7. ASSUME NEW r \in Request,
               \/ ReadStatus(r) \/ Replay(r) \/ RedisFails(r)
               \/ Execute(r) \/ Respond(r) \/ Refuse(r) \/ Throw(r)
        PROVE  Clear'
    BY <2>1, <2>7 DEF ReadStatus, Replay, RedisFails, Execute, Respond, Refuse, Throw, Send
  <2>8. QED
    BY <2>1, <2>2, <2>3, <2>4, <2>5, <2>6, <2>7
       DEF Middleware, ServerStep, RequestStep, serverVars
<1>5. \A q \in Request : Calm(q)'
  <2> DEFINE Calmly == \A q \in Request : Calm(q)'
  <2>1. ASSUME UNCHANGED <<key, answer>>
        PROVE  Calmly
    BY <1>2, <2>1
  <2>2. ASSUME NEW r \in Request, NEW a, Reply(r, a), a # "conflict" \/ key[r] # k
        PROVE  Calmly
    BY <1>1, <1>2, <2>2 DEF Reply
  <2>3. ASSUME NEW r \in Request, NEW record, ActOn(r, record),
               record # "pending" \/ key[r] # k
        PROVE  Calmly
    BY <2>1, <2>2, <2>3 DEF ActOn, Goto
  <2>4. ASSUME NEW r \in Request, SetNX(r)
        PROVE  Calmly
    BY <2>1, <2>4 DEF SetNX, Goto
  <2>5. ASSUME NEW r \in Request, ReadStatus(r)
        PROVE  Calmly
    BY <1>2, <2>3, <2>5 DEF ReadStatus
  <2>6. ASSUME NEW r \in Request, MemorySetNX(r)
        PROVE  Calmly
    <3>1. server[r] \in Server
      BY <1>1, <2>6 DEF MemorySetNX
    <3>2. QED
      BY <1>2, <2>1, <2>3, <2>6, <3>1 DEF MemorySetNX, Goto
  <2>7. ASSUME NEW r \in Request, Replay(r) \/ RedisFails(r)
        PROVE  Calmly
    BY <2>1, <2>2, <2>7 DEF Replay, RedisFails, ReplayFrom, Goto
  <2>8. ASSUME NEW r \in Request, Execute(r) \/ MarkCompleted(r) \/ MarkFails(r)
        PROVE  Calmly
    BY <2>1, <2>8 DEF Execute, Goto, MarkCompleted, MarkFails
  <2>9. ASSUME NEW r \in Request, Respond(r) \/ Refuse(r) \/ Throw(r)
        PROVE  Calmly
    <3>1. key' = key /\ answer' \in {[answer EXCEPT ![r] = "ok"], [answer EXCEPT ![r] = "error"]}
      BY <2>9 DEF Respond, Refuse, Throw, Send
    <3>2. QED
      BY <1>1, <1>2, <3>1
  <2>10. ASSUME NEW s \in Server, Crash(s)
         PROVE  Calmly
    BY <2>1, <2>10 DEF Crash
  <2>11. ASSUME NEW j \in Key, Expire(j) \/ \E s \in Server : ExpireMemory(s, j)
         PROVE  Calmly
    BY <2>1, <2>11 DEF Expire, ExpireMemory, requestVars
  <2>12. ASSUME NEW r \in Request, NEW j \in Key, NEW s \in Server, Arrive(r, j, s)
         PROVE  Calmly
    BY <1>1, <1>2, <2>12 DEF Arrive
  <2>13. QED
    BY <2>1, <2>4, <2>5, <2>6, <2>7, <2>8, <2>9, <2>10, <2>11, <2>12
       DEF Middleware, ServerStep, RequestStep, serverVars, requestVars
<1>6. QED
  BY <1>4, <1>5 DEF RecordOwned, ConflictOwned


\* A request keeps its key for ever once it has arrived.
LEMMA KeysKept ==
    ASSUME ServerInv, Middleware, NEW r \in Request, at[r] # "unused"
    PROVE  key'[r] = key[r] /\ at'[r] # "unused"
<1> USE DEF ServerInv, ServerTypeOK
<1>1. ASSUME NEW q \in Request, RequestStep(q)
      PROVE  key' = key /\ at'[r] # "unused"
  BY <1>1 DEF RequestStep, SetNX, ReadStatus, ActOn, MemorySetNX, Replay, ReplayFrom,
              RedisFails, Goto, Reply, Execute, Respond, Refuse, Throw, Send,
              MarkCompleted, MarkFails
<1>2. ASSUME NEW s \in Server, Crash(s)
      PROVE  key' = key /\ at'[r] # "unused"
  BY <1>2 DEF Crash
<1>3. ASSUME NEW j \in Key, Expire(j) \/ \E s \in Server : ExpireMemory(s, j)
      PROVE  key' = key /\ at' = at
  BY <1>3 DEF Expire, ExpireMemory, requestVars
<1>4. ASSUME NEW q \in Request, NEW j \in Key, NEW s \in Server, Arrive(q, j, s)
      PROVE  key'[r] = key[r] /\ at'[r] # "unused"
  BY <1>4 DEF Arrive
<1>5. CASE UNCHANGED serverVars
  BY <1>5 DEF serverVars, requestVars
<1>6. QED
  BY <1>1, <1>2, <1>3, <1>4, <1>5 DEF Middleware, ServerStep

\* A drain that goes on waiting goes on waiting for the same item.
Waits(d) ==
    /\ fetching[d] \in Request /\ at[fetching[d]] # "unused"
    /\ \A p \in Payment : Item(d, p) => key[fetching[d]] = p

\* A drain whose fetch is open waits for a request of its own payment until it is answered.
LEMMA WaitsOn ==
    ASSUME ServerInv, Middleware, NEW d \in Drain, fetching[d] # Nothing => Waits(d),
           fetching'[d] = fetching[d], todo'[d] = todo[d]
    PROVE  fetching'[d] # Nothing => Waits(d)'
BY KeysKept DEF Waits, Item

\* A payment that was accepted stays owned while no drain accepts another.
LEMMA AcceptedStays ==
    ASSUME ServerInv, ClientInv, AcceptedOwned, Middleware, accepted' = accepted
    PROVE  AcceptedOwned'
<1>1. accepted \subseteq Key
  BY DeliveryAssumption DEF ClientInv, ClientTypeOK
<1>2. QED
  BY <1>1, OwnedStays DEF AcceptedOwned

\* Nothing is lost at the start.
LEMMA LossInitially == Init => LossInv
BY IdempotencyAssumption
   DEF Init, ClientInit, ServerInit, LossInv, PendingOwned, RecordOwned, ConflictOwned,
       NoRecord, FetchesOwn, AcceptedOwned, QueuedKept, Record, Answer

\* A failed attempt puts the item back, whatever the other drain did to it.
LEMMA ReturnedKept ==
    ASSUME ClientInv, ServerInv, Middleware, FetchesOwn, AcceptedOwned, QueuedKept,
           NEW d \in Drain, NEW p \in Payment, IncrementAttempts(d, p), Item(d, p)
    PROVE  FetchesOwn' /\ AcceptedOwned' /\ QueuedKept'
<1> USE OutboxAssumption DEF ClientInv, ClientTypeOK
<1>1. AcceptedOwned'
  BY AcceptedStays DEF IncrementAttempts
<1>2. QueuedKept'
  <2>1. todo[d][p] + 1 # Nothing
    BY DEF Item
  <2>2. QED
    BY <2>1 DEF IncrementAttempts, QueuedKept
<1>3. FetchesOwn'
  <2>1. fetching'[d] = Nothing
        /\ \A e \in Drain \ {d} : todo'[e] = todo[e] /\ fetching'[e] = fetching[e]
    BY DEF IncrementAttempts, Done
  <2>2. QED
    BY <2>1, WaitsOn DEF FetchesOwn, Waits
<1>4. QED
  BY <1>1, <1>2, <1>3

\* What a drain takes out of the outbox on an answer is owned: the answer is a
\* success, or a conflict with a record of its own key.
LEMMA AnswerOwns ==
    ASSUME IInv, PendingOwned, FetchesOwn, NEW d \in Drain, NEW p \in Payment,
           Item(d, p), fetching[d] # Nothing, Delivered(answer[fetching[d]])
    PROVE  Owned(p)
<1>1. p \in Key /\ fetching[d] \in Request /\ key[fetching[d]] = p
  BY DeliveryAssumption DEF FetchesOwn
<1>2. CASE answer[fetching[d]] = "conflict"
  BY <1>1, <1>2 DEF PendingOwned, ConflictOwned
<1>3. CASE answer[fetching[d]] = "ok"
  BY <1>1, <1>3 DEF IInv, ServerInv, RecordsTruthful, Claims, Owned
<1>4. QED
  BY <1>2, <1>3 DEF Delivered

\* Every step of outbox and middleware keeps what explains a loss.
LEMMA LossStep == IInv /\ LossInv /\ [Next]_vars => LossInv'
<1> SUFFICES ASSUME IInv, LossInv, [Next]_vars PROVE LossInv'
  OBVIOUS
<1> USE OutboxAssumption DEF ClientInv, ClientTypeOK
<1>1. ClientInv /\ ServerInv /\ PendingOwned /\ FetchesOwn /\ AcceptedOwned /\ QueuedKept
  BY DEF IInv, LossInv
<1>2. Middleware
  BY DeliveryAssumption
     DEF Next, vars, DrainStep, SendFetch, ReceiveAnswer, Middleware
<1>3. PendingOwned'
  BY <1>1, <1>2, PendingStep
<1> DEFINE Kept == FetchesOwn' /\ AcceptedOwned' /\ QueuedKept'
\* The steps that take nothing out of the outbox and let no drain move.
<1>4. ASSUME todo' = todo, fetching' = fetching, accepted' = accepted, dropped' = dropped,
             \A p \in queued' : \/ outbox'[p] # Nothing
                                \/ p \in queued /\ outbox'[p] = outbox[p]
      PROVE  Kept
  <2>1. FetchesOwn'
    BY <1>1, <1>2, <1>4, WaitsOn DEF FetchesOwn, Waits
  <2>2. QueuedKept'
    BY <1>1, <1>4 DEF QueuedKept
  <2>3. QED
    BY <1>1, <1>2, <1>4, <2>1, <2>2, AcceptedStays
<1>5. ASSUME UNCHANGED clientVars
      PROVE  Kept
  BY <1>1, <1>4, <1>5 DEF clientVars, QueuedKept
<1>6. ASSUME NEW p \in Payment, EnqueuePayment(p)
      PROVE  Kept
  BY <1>1, <1>4, <1>6 DEF EnqueuePayment
<1>7. ASSUME ClosePage
      PROVE  Kept
  <2>1. FetchesOwn' /\ QueuedKept'
    BY <1>1, <1>7 DEF ClosePage, FetchesOwn, QueuedKept
  <2>2. QED
    BY <1>1, <1>2, <1>7, <2>1, AcceptedStays DEF ClosePage
<1>8. ASSUME NEW d \in Drain, BeginDrain(d)
      PROVE  Kept
  <2>1. fetching[d] = Nothing
    BY <1>1, <1>8 DEF BeginDrain, Draining, FetchesItem, Item
  <2>2. fetching' = fetching /\ \A e \in Drain \ {d} : todo'[e] = todo[e]
    BY <1>1, <1>8 DEF BeginDrain
  <2>3. FetchesOwn'
    BY <1>1, <1>2, <2>1, <2>2, WaitsOn DEF FetchesOwn, Waits
  <2>4. QueuedKept'
    BY <1>1, <1>8 DEF BeginDrain, QueuedKept
  <2>5. QED
    BY <1>1, <1>2, <1>8, <2>3, <2>4, AcceptedStays DEF BeginDrain
<1>9. ASSUME NEW d \in Drain, NEW p \in Payment, DropItem(d, p)
      PROVE  Kept
  <2>1. fetching[d] = Nothing
    <3>1. todo[d][p] \in Nat /\ ~(todo[d][p] < MaxAttempts)
      BY <1>1, <1>9 DEF DropItem, Spent, Item
    <3>2. QED
      BY <1>1, <1>9, <3>1, Waiting DEF DropItem
  <2>2. fetching' = fetching /\ \A e \in Drain \ {d} : todo'[e] = todo[e]
    BY <1>1, <1>9 DEF DropItem, Done
  <2>3. FetchesOwn'
    BY <1>1, <1>2, <2>1, <2>2, WaitsOn DEF FetchesOwn, Waits
  <2>4. QueuedKept'
    BY <1>1, <1>9 DEF DropItem, QueuedKept
  <2>5. QED
    BY <1>1, <1>2, <1>9, <2>3, <2>4, AcceptedStays DEF DropItem
<1>10. ASSUME NEW d \in Drain, NEW p \in Payment, SendFetch(d, p)
       PROVE  Kept
  <2>1. PICK r \in Request, s \in Server : StartFetch(d, p, r) /\ Arrive(r, p, s)
    BY <1>10 DEF SendFetch
  <2>2. fetching'[d] = r /\ todo' = todo
        /\ \A e \in Drain \ {d} : fetching'[e] = fetching[e]
    BY <1>1, <2>1 DEF StartFetch
  <2>3. Waits(d)'
    <3>1. key'[r] = p /\ at'[r] = "set"
      BY <1>1, <2>1 DEF Arrive, ServerInv, ServerTypeOK
    <3>2. Item(d, p) /\ \A q \in Payment : Item(d, q)' => Item(d, q)
      BY <2>1, <2>2 DEF StartFetch, Item
    <3>3. QED
      BY <2>2, <3>1, <3>2, OneItem DEF Waits
  <2>4. FetchesOwn'
    BY <1>1, <1>2, <2>2, <2>3, WaitsOn DEF FetchesOwn, Waits
  <2>5. QueuedKept'
    BY <1>1, <2>1 DEF StartFetch, QueuedKept
  <2>6. QED
    BY <1>1, <1>2, <2>1, <2>4, <2>5, AcceptedStays DEF StartFetch
<1>11. ASSUME NEW d \in Drain, NEW p \in Payment, FetchRejects(d, p)
       PROVE  Kept
  BY <1>1, <1>2, <1>11, ReturnedKept DEF FetchRejects
<1>12. ASSUME NEW d \in Drain, NEW p \in Payment, ReceiveAnswer(d, p)
       PROVE  Kept
  <2> DEFINE a == answer[fetching[d]]
  <2>1. fetching[d] # Nothing /\ FetchAnswered(d, p, a) /\ Item(d, p)
    BY <1>12 DEF ReceiveAnswer, FetchAnswered
  <2>2. CASE ~Delivered(a)
    BY <1>1, <1>2, <2>1, <2>2, ReturnedKept DEF FetchAnswered
  <2>3. CASE Delivered(a)
    <3>1. /\ Done(d, p)
          /\ fetching' = [fetching EXCEPT ![d] = Nothing]
          /\ outbox' = [outbox EXCEPT ![p] = Nothing]
          /\ accepted' = accepted \cup {p}
          /\ UNCHANGED <<queued, dropped>>
      BY <2>1, <2>3 DEF FetchAnswered
    <3>2. fetching'[d] = Nothing
          /\ \A e \in Drain \ {d} : todo'[e] = todo[e] /\ fetching'[e] = fetching[e]
      BY <1>1, <3>1 DEF Done
    <3>3. FetchesOwn'
      BY <1>1, <1>2, <3>2, WaitsOn DEF FetchesOwn, Waits
    <3>4. QueuedKept'
      BY <1>1, <3>1 DEF QueuedKept
    <3>5. accepted' \subseteq Key /\ \A q \in accepted' : Owned(q)
      <4>1. Owned(p)
        BY <1>1, <2>1, <2>3, AnswerOwns DEF IInv
      <4>2. QED
        BY <1>1, <3>1, <4>1, DeliveryAssumption DEF AcceptedOwned
    <3>6. AcceptedOwned'
      BY <1>1, <1>2, <3>5, OwnedStays DEF AcceptedOwned
    <3>7. QED
      BY <3>3, <3>4, <3>6
  <2>4. QED
    BY <2>2, <2>3
<1>13. Kept
  BY <1>5, <1>6, <1>7, <1>8, <1>9, <1>10, <1>11, <1>12 DEF Next, vars, DrainStep
<1>14. QED
  BY <1>3, <1>13 DEF LossInv

\* A payment leaves the outbox for good only when it was made, its handler failed, or
\* it was given up without ever having counted as delivered: not when drains overlap,
\* fetches are lost, the page closes or records expire, and not when the outbox takes
\* a 409 for a delivery while the first request is still in the handler.
THEOREM LossesHaveCause == Spec => []LossHasCause
<1>1. IInv /\ LossInv => LossHasCause
  <2> SUFFICES ASSUME IInv, LossInv, NEW p \in Payment, Quiet(p), ~Earned(p)
               PROVE  p \in dropped \ accepted
    BY Zenon DEF LossHasCause, Earned
  <2>1. p \in dropped \cup accepted
    BY DEF LossInv, QueuedKept, Quiet
  <2>2. ~InHandler(p)
    BY DEF Quiet, InHandler
  <2>3. QED
    BY <2>1, <2>2 DEF LossInv, AcceptedOwned, Owned
<1>2. QED
  BY <1>1, LossInitially, LossStep, InvariantHolds, PTL DEF Spec
===============================================================================
