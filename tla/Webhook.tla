-------------------------------- MODULE Webhook --------------------------------
(***************************************************************************)
(* Payment-provider webhooks: the Flutterwave and Paystack receivers, the  *)
(* idempotency store they share, and the dead-letter queue for an event    *)
(* that comes before its transaction.  A receiver is synchronous, so a     *)
(* delivery is one step; the queue's timers and its processor interleave   *)
(* with everything.                                                        *)
(*                                                                         *)
(* Providers deliver an event again at will, and the transaction of an     *)
(* event may be created after it.  No module of the program registers a    *)
(* processor for the queue (a test does): both cases are modelled.         *)
(***************************************************************************)
EXTENDS Integers, FiniteSets

CONSTANTS
    Reference,     \* what tx_ref and data.reference name: SEP-31 transactions
    MaxRestarts    \* bound: restarts of the process

ASSUME WebhookAssumption == MaxRestarts \in Nat

Provider == {"flutterwave", "paystack"}
MaxAttempts == 3

\* A signed event of which the reference could be read.
Body == [event : {"charge.completed", "charge.success", "other"},
         status : {"successful", "success", "failed", "cancelled", "abandoned", "pending"}]

\* What an event does to its transaction.
Effect == {"pending_stellar", "error", "nothing"}

VARIABLES
    registered,  \* a processor was registered with the queue
    status,      \* reference -> its transaction's status, or "absent"
    record,      \* provider, reference -> status of the idempotency record
    reply,       \* provider, reference -> the cached response
    job,         \* provider, reference -> state of its job in the queue
    attempts,    \* provider, reference -> attempts of that job
    \* History: what was done, not read by the code.
    first,       \* provider, reference -> effect the recorded event asked for
    settling,    \* provider, reference -> a settlement was acknowledged
    changes,     \* provider, reference -> changes made for the provider's events
    replies,     \* provider, reference -> responses sent
    restarts

store       == <<record, reply>>
queue       == <<job, attempts>>
history     == <<first, settling, changes, replies>>
webhookVars == <<registered, status, store, queue, history, restarts>>

Key == Provider \X Reference

WebhookTypeOK ==
    /\ registered \in BOOLEAN
    /\ status \in [Reference -> {"absent", "pending_sender", "pending_stellar", "error"}]
    /\ record \in [Key -> {"none", "processed", "dlq", "failed"}]
    /\ reply \in [Key -> {"none", "processed", "dlq", "dlq_exhausted"}]
    /\ job \in [Key -> {"none", "waiting", "running"}]
    /\ attempts \in [Key -> 0 .. MaxAttempts]
    /\ first \in [Key -> Effect \cup {"none"}]
    /\ settling \in [Key -> BOOLEAN]
    /\ changes \in [Key -> Nat]
    /\ replies \in [Key -> SUBSET {"processed", "dlq", "dlq_exhausted"}]
    /\ restarts \in 0 .. MaxRestarts

\* Transactions, records, jobs and timers are all in memory.
Blank(x) == [k \in Key |-> x]

WebhookInit ==
    /\ registered \in BOOLEAN /\ restarts = 0
    /\ status = [r \in Reference |-> "absent"]
    /\ record = Blank("none") /\ reply = Blank("none")
    /\ job = Blank("none") /\ attempts = Blank(0)
    /\ first = Blank("none") /\ settling = Blank(FALSE)
    /\ changes = Blank(0) /\ replies = Blank({})

-----------------------------------------------------------------------------
(* The receivers. *)

FlutterwaveEffect(b) ==
    IF b.event = "charge.completed" /\ b.status = "successful" THEN "pending_stellar"
    ELSE IF b.status \in {"failed", "cancelled"} THEN "error" ELSE "nothing"

PaystackEffect(b) ==
    IF b.event = "charge.success" /\ b.status = "success" THEN "pending_stellar"
    ELSE IF b.status \in {"failed", "abandoned"} THEN "error" ELSE "nothing"

\* applyEscrowChange on a transaction that exists: whatever its status is.
Applied(r, e) == IF e = "nothing" THEN status ELSE [status EXCEPT ![r] = e]

\* The end of a first delivery: the record, its response, and the queue when
\* there is no transaction.
Accept(k, e, outcome) ==
    /\ record' = [record EXCEPT ![k] = outcome]
    /\ reply' = [reply EXCEPT ![k] = outcome]
    /\ replies' = [replies EXCEPT ![k] = @ \cup {outcome}]
    /\ first' = [first EXCEPT ![k] = e]
    /\ settling' = [settling EXCEPT ![k] = @ \/ e = "pending_stellar"]

\* A delivery whose reference the provider's records already hold: the cached
\* response is sent again, whatever this event says.
Replay(k, e) ==
    /\ record[k] # "none"
    /\ replies' = [replies EXCEPT ![k] = @ \cup {reply[k]}]
    /\ settling' = [settling EXCEPT ![k] = @ \/ e = "pending_stellar"]
    /\ UNCHANGED <<registered, status, store, queue, first, changes, restarts>>

\* For a mutant: only a processed record is taken for a duplicate.
ProcessUnlessProcessed(k, e) ==
    /\ record[k] # "processed" /\ status[k[2]] # "absent"
    /\ status' = Applied(k[2], e)
    /\ changes' = [changes EXCEPT ![k] = IF e = "nothing" THEN @ ELSE @ + 1]
    /\ Accept(k, e, "processed")
    /\ UNCHANGED <<registered, queue, restarts>>

Process(k, e) ==
    /\ record[k] = "none" /\ status[k[2]] # "absent"
    /\ status' = Applied(k[2], e)
    /\ changes' = [changes EXCEPT ![k] = IF e = "nothing" THEN @ ELSE @ + 1]
    /\ Accept(k, e, "processed")
    /\ UNCHANGED <<registered, queue, restarts>>

\* enqueue: the first retry is due in 30 seconds.
Park(k, e) ==
    /\ record[k] = "none" /\ status[k[2]] = "absent"
    /\ Accept(k, e, "dlq")
    /\ job' = [job EXCEPT ![k] = "waiting"]
    /\ attempts' = [attempts EXCEPT ![k] = 0]
    /\ UNCHANGED <<registered, status, changes, restarts>>

Receive(k, e) == Replay(k, e) \/ Process(k, e) \/ Park(k, e)

ReceiveFlutterwave(r, b) == Receive(<<"flutterwave", r>>, FlutterwaveEffect(b))
ReceivePaystack(r, b)    == Receive(<<"paystack", r>>, PaystackEffect(b))

\* SEP-31 POST /transactions.
CreateTransaction(r) ==
    /\ status[r] = "absent"
    /\ status' = [status EXCEPT ![r] = "pending_sender"]
    /\ UNCHANGED <<registered, store, queue, history, restarts>>

-----------------------------------------------------------------------------
(* The dead-letter queue. *)

\* For a mutant: the job goes without a word.
ExhaustedSilently(k) ==
    /\ job' = [job EXCEPT ![k] = "none"]
    /\ UNCHANGED store

\* handleExhausted: the record fails and its response is replaced.
Exhausted(k) ==
    /\ record' = [record EXCEPT ![k] = "failed"]
    /\ reply' = [reply EXCEPT ![k] = "dlq_exhausted"]
    /\ job' = [job EXCEPT ![k] = "none"]

\* An attempt that did not succeed: the next delay, or the end.
NotHandled(k, n) ==
    IF n >= MaxAttempts
    THEN Exhausted(k)
    ELSE job' = [job EXCEPT ![k] = "waiting"] /\ UNCHANGED store

\* For a mutant: the attempt is made and not counted.
RetryUncounted(k) ==
    /\ job[k] = "waiting"
    /\ IF registered
       THEN job' = [job EXCEPT ![k] = "running"] /\ UNCHANGED store
       ELSE NotHandled(k, attempts[k] + 1)
    /\ UNCHANGED <<registered, status, attempts, history, restarts>>

\* The timer fires.  Without a processor the attempt ends in the same turn.
Retry(k) ==
    /\ job[k] = "waiting"
    /\ attempts' = [attempts EXCEPT ![k] = @ + 1]
    /\ IF registered
       THEN job' = [job EXCEPT ![k] = "running"] /\ UNCHANGED store
       ELSE NotHandled(k, attempts[k] + 1)
    /\ UNCHANGED <<registered, status, history, restarts>>

\* The processor's promise settles.  The one the tests register moves a
\* transaction that exists to pending_stellar; success removes the job and
\* leaves the record as it is.
Handled(k) ==
    /\ job[k] = "running" /\ status[k[2]] # "absent"
    /\ status' = [status EXCEPT ![k[2]] = "pending_stellar"]
    /\ changes' = [changes EXCEPT ![k] = @ + 1]
    /\ job' = [job EXCEPT ![k] = "none"]
    /\ UNCHANGED <<registered, store, attempts, first, settling, replies, restarts>>

\* It answers false for want of a transaction, or it throws.
Refused(k) ==
    /\ job[k] = "running"
    /\ NotHandled(k, attempts[k])
    /\ UNCHANGED <<registered, status, attempts, history, restarts>>

WebhookRestart ==
    /\ restarts < MaxRestarts /\ restarts' = restarts + 1
    /\ status' = [r \in Reference |-> "absent"]
    /\ record' = Blank("none") /\ reply' = Blank("none")
    /\ job' = Blank("none") /\ attempts' = Blank(0)
    /\ first' = Blank("none") /\ settling' = Blank(FALSE)
    /\ changes' = Blank(0) /\ replies' = Blank({})
    /\ UNCHANGED registered

WebhookNext ==
    \/ \E r \in Reference :
         \/ CreateTransaction(r)
         \/ \E b \in Body : ReceiveFlutterwave(r, b) \/ ReceivePaystack(r, b)
    \/ \E k \in Key : Retry(k) \/ Handled(k) \/ Refused(k)
    \/ WebhookRestart

\* Timers fire and the processor answers; no provider has to deliver.
WebhookFairness ==
    \A k \in Key : WF_webhookVars(Retry(k)) /\ WF_webhookVars(Handled(k) \/ Refused(k))

WebhookSpec == WebhookInit /\ [][WebhookNext]_webhookVars /\ WebhookFairness

-----------------------------------------------------------------------------
(* Properties. *)

\* However often a provider delivers the events of one reference, and whether
\* they are handled at once or through the queue, the transaction is changed
\* for that provider at most once, and never both parked and processed.
OneEffectPerProvider ==
    \A k \in Key :
        /\ changes[k] <= 1
        /\ job[k] # "none" => changes[k] = 0
        /\ ~({"processed", "dlq"} \subseteq replies[k])

\* A settlement that was acknowledged leaves its mark.  While the transaction
\* still waits for the sender, either the event is in the queue, or the queue
\* gave up and says so in the record, or an earlier event of that provider
\* with the same reference took the record and asked for something else.
SettlementLossHasCause ==
    \A k \in Key :
        settling[k] /\ status[k[2]] = "pending_sender" =>
            \/ job[k] # "none" \/ record[k] = "failed"
            \/ first[k] # "pending_stellar"

\* The queue drains: every parked event is handled, given up, or forgotten by a
\* restart, which empties the queue.
QueueDrains == \A k \in Key : job[k] # "none" ~> job[k] = "none"
===============================================================================
