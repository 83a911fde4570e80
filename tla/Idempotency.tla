------------------------------ MODULE Idempotency ------------------------------
(***************************************************************************)
(* api/middleware/idempotency.ts: the records kept under Idempotency-Key,  *)
(* in Redis and, when a Redis command fails, in each process's memory.     *)
(* Every command is a step of its own.  The handler behind the middleware  *)
(* and Redis are external.                                                 *)
(***************************************************************************)
EXTENDS Integers

CONSTANTS
    Request,        \* HTTP requests
    Key,            \* method, url and Idempotency-Key
    Server,         \* API processes
    None,
    MaxFaults,      \* bound: failing Redis commands, throwing handlers, crashes
    MaxExpiries     \* bound: records that expire

\* A completed record is named for the status it caches.
Completed == {"ok", "error"}
Record == Completed \cup {"pending"}
Answer == Completed \cup {"conflict"}
Phase == {"unused", "set", "get", "memory", "replay", "handle", "respond", "done"}

ASSUME IdempotencyAssumption ==
    /\ None \notin Key /\ None \notin Server /\ None \notin Record \cup Answer
    /\ MaxFaults \in Nat /\ MaxExpiries \in Nat

VARIABLES
    redis, memory,          \* the records, None when there is none
    at, key,                \* where a request is, what it carries
    server,                 \* the process that still works on it
    answer,                 \* what was sent back, None if nothing was
    unsaved,                \* the record markCompleted has yet to write
    executions,             \* how often the handler did its work
    faults, expiries,
    excused,                \* history: a record of the key expired or Redis failed
    troubled                \* history: a handler of the key refused, threw or died

requestVars == <<at, key, server, answer, unsaved>>
serverVars == <<redis, memory, requestVars, executions, faults, expiries, excused, troubled>>

NoRecord == [k \in Key |-> None]

ServerInit ==
    /\ redis = NoRecord
    /\ memory = [s \in Server |-> NoRecord]
    /\ at = [r \in Request |-> "unused"]
    /\ key = [r \in Request |-> None]
    /\ server = [r \in Request |-> None]
    /\ answer = [r \in Request |-> None]
    /\ unsaved = [r \in Request |-> None]
    /\ executions = [k \in Key |-> 0]
    /\ faults = 0 /\ expiries = 0
    /\ excused = [k \in Key |-> FALSE]
    /\ troubled = [k \in Key |-> FALSE]

Goto(r, phase) == at' = [at EXCEPT ![r] = phase] /\ UNCHANGED <<key, server, answer, unsaved>>

Reply(r, a) ==
    /\ at' = [at EXCEPT ![r] = "done"]
    /\ answer' = [answer EXCEPT ![r] = a]
    /\ server' = [server EXCEPT ![r] = None]
    /\ UNCHANGED <<key, unsaved>>

Fault == faults < MaxFaults /\ faults' = faults + 1 /\ UNCHANGED expiries
Expiry == expiries < MaxExpiries /\ expiries' = expiries + 1 /\ UNCHANGED faults
Excuse(k) == excused' = [excused EXCEPT ![k] = TRUE]
Trouble(k) == troubled' = [troubled EXCEPT ![k] = TRUE]

-------------------------------------------------------------------------------
\* acquireLock and replayCachedResponse.

Arrive(r, k, s) ==
    /\ at[r] = "unused"
    /\ at' = [at EXCEPT ![r] = "set"]
    /\ key' = [key EXCEPT ![r] = k]
    /\ server' = [server EXCEPT ![r] = s]
    /\ UNCHANGED <<redis, memory, answer, unsaved, executions, faults, expiries, excused, troubled>>

Overwrite(record) == record # "pending"                        \* mutant
\* SET NX: only a key without a record is taken.
Acquires(record) == record = None

SetNX(r) ==
    /\ at[r] = "set"
    /\ LET k == key[r] IN
          IF Acquires(redis[k])
          THEN redis' = [redis EXCEPT ![k] = "pending"] /\ Goto(r, "handle")
          ELSE Goto(r, "get") /\ UNCHANGED redis
    /\ UNCHANGED <<memory, executions, faults, expiries, excused, troubled>>

ActOnOptimistically(r, record) ==                              \* mutant
    \/ record = None /\ Goto(r, "handle")
    \/ record = "pending" /\ Reply(r, "ok")
    \/ record \in Completed /\ Goto(r, "replay")

\* What an existing record means for the request that found it.
ActOn(r, record) ==
    \/ record = None /\ Goto(r, "handle")       \* expired since
    \/ record = "pending" /\ Reply(r, "conflict")
    \/ record \in Completed /\ Goto(r, "replay")

ReadStatus(r) ==
    /\ at[r] = "get"
    /\ ActOn(r, redis[key[r]])
    /\ UNCHANGED <<redis, memory, executions, faults, expiries, excused, troubled>>

MemorySetNX(r) ==
    /\ at[r] = "memory"
    /\ LET s == server[r]  k == key[r] IN
          IF memory[s][k] = None
          THEN memory' = [memory EXCEPT ![s][k] = "pending"] /\ Goto(r, "handle")
          ELSE ActOn(r, memory[s][k]) /\ UNCHANGED memory
    /\ UNCHANGED <<redis, executions, faults, expiries, excused, troubled>>

\* A record that is gone or pending again makes this a first request.
ReplayFrom(r, record) ==
    IF record \in Completed THEN Reply(r, record) ELSE Goto(r, "handle")

Replay(r) ==
    /\ at[r] = "replay"
    /\ LET k == key[r] IN
          ReplayFrom(r, IF redis[k] # None THEN redis[k] ELSE memory[server[r]][k])
    /\ UNCHANGED <<redis, memory, executions, faults, expiries, excused, troubled>>

\* The command fails; the process's memory takes its place.
RedisFails(r) ==
    /\ at[r] \in {"set", "get", "replay"}
    /\ Fault /\ Excuse(key[r])
    /\ \/ at[r] # "replay" /\ Goto(r, "memory")
       \/ at[r] = "replay" /\ ReplayFrom(r, memory[server[r]][key[r]])
    /\ UNCHANGED <<redis, memory, executions, troubled>>

-------------------------------------------------------------------------------
\* handleFirstRequest: the handler, and the response captured on its way out.

Execute(r) ==
    /\ at[r] = "handle"
    /\ Goto(r, "respond")
    /\ executions' = [executions EXCEPT ![key[r]] = @ + 1]
    /\ UNCHANGED <<redis, memory, faults, expiries, excused, troubled>>

\* persistCache starts markCompleted and does not wait for it.
Send(r, sent, captured) ==
    /\ at' = [at EXCEPT ![r] = "done"]
    /\ answer' = [answer EXCEPT ![r] = sent]
    /\ unsaved' = [unsaved EXCEPT ![r] = captured]
    /\ UNCHANGED <<redis, memory, key, server, executions, excused>>

Respond(r) == at[r] = "respond" /\ Send(r, "ok", "ok") /\ UNCHANGED <<faults, expiries, troubled>>

\* A validation error or a 5xx, sent with res.status(...).json(...).
Refuse(r) ==
    /\ at[r] = "handle"
    /\ Send(r, "error", "error")
    /\ Trouble(key[r])
    /\ UNCHANGED <<faults, expiries>>

\* An exception reaches Express, whose final handler sets res.statusCode and calls
\* res.end: the status the middleware has captured is still 200.
Throw(r) ==
    /\ at[r] = "handle"
    /\ Fault
    /\ Send(r, "error", "ok")
    /\ Trouble(key[r])

MarkCompleted(r) ==
    /\ unsaved[r] # None
    /\ redis' = [redis EXCEPT ![key[r]] = unsaved[r]]
    /\ unsaved' = [unsaved EXCEPT ![r] = None]
    /\ server' = [server EXCEPT ![r] = None]
    /\ UNCHANGED <<memory, at, key, answer, executions, faults, expiries, excused, troubled>>

MarkFails(r) ==
    /\ unsaved[r] # None
    /\ Fault /\ Excuse(key[r])
    /\ memory' = [memory EXCEPT ![server[r]][key[r]] = unsaved[r]]
    /\ unsaved' = [unsaved EXCEPT ![r] = None]
    /\ server' = [server EXCEPT ![r] = None]
    /\ UNCHANGED <<redis, at, key, answer, executions, troubled>>

-------------------------------------------------------------------------------
\* The process and the store.

Holds(r) == at[r] \in {"handle", "respond"} \/ unsaved[r] # None

Crash(s) ==
    /\ memory[s] # NoRecord \/ \E r \in Request : server[r] = s
    /\ Fault
    /\ at' = [r \in Request |-> IF server[r] = s THEN "done" ELSE at[r]]
    /\ unsaved' = [r \in Request |-> IF server[r] = s THEN None ELSE unsaved[r]]
    /\ server' = [r \in Request |-> IF server[r] = s THEN None ELSE server[r]]
    /\ memory' = [memory EXCEPT ![s] = NoRecord]
    /\ troubled' = [k \in Key |-> troubled[k] \/
          \E r \in Request : server[r] = s /\ key[r] = k /\ Holds(r)]
    /\ UNCHANGED <<redis, key, answer, executions, excused>>

\* EX 86400: no request is under way for as long as that.
Expire(k) ==
    /\ redis[k] # None
    /\ \A r \in Request : key[r] = k => ~Holds(r)
    /\ Expiry /\ Excuse(k)
    /\ redis' = [redis EXCEPT ![k] = None]
    /\ UNCHANGED <<memory, requestVars, executions, troubled>>

ExpireMemory(s, k) ==
    /\ memory[s][k] # None
    /\ \A r \in Request : key[r] = k => ~Holds(r)
    /\ Expiry /\ Excuse(k)
    /\ memory' = [memory EXCEPT ![s][k] = None]
    /\ UNCHANGED <<redis, requestVars, executions, troubled>>

RequestStep(r) ==
    \/ SetNX(r) \/ ReadStatus(r) \/ MemorySetNX(r) \/ Replay(r) \/ RedisFails(r)
    \/ Execute(r) \/ Respond(r) \/ Refuse(r) \/ Throw(r)
    \/ MarkCompleted(r) \/ MarkFails(r)

ServerStep ==
    \/ \E r \in Request : RequestStep(r)
    \/ \E s \in Server : Crash(s) \/ \E k \in Key : ExpireMemory(s, k)
    \/ \E k \in Key : Expire(k)

-------------------------------------------------------------------------------
\* Properties.

ServerTypeOK ==
    /\ redis \in [Key -> Record \cup {None}]
    /\ memory \in [Server -> [Key -> Record \cup {None}]]
    /\ at \in [Request -> Phase]
    /\ key \in [Request -> Key \cup {None}]
    /\ server \in [Request -> Server \cup {None}]
    /\ answer \in [Request -> Answer \cup {None}]
    /\ unsaved \in [Request -> Completed \cup {None}]
    /\ executions \in [Key -> Nat]
    /\ faults \in 0..MaxFaults /\ expiries \in 0..MaxExpiries
    /\ excused \in [Key -> BOOLEAN] /\ troubled \in [Key -> BOOLEAN]

\* The work of a key is done twice only after a record of it expired or a Redis
\* command for it failed: crashes, concurrent duplicates and errors never repeat it.
RepeatHasCause == \A k \in Key : executions[k] > 1 => excused[k]

\* Who is told that a request went well can rely on it, at once or from the cache,
\* unless a handler of that key failed.
SuccessIsTruthful ==
    \A r \in Request :
        answer[r] = "ok" => executions[key[r]] > 0 \/ troubled[key[r]]
===============================================================================
