# AfroPay verification

TLA+ models of the parts of the AfroPay platform that move money or keep its records, the TLC runs
that check them on small instances, and TLAPS proofs of what holds for every instance. The code is
the reference throughout: `PROJECT.json` maps every definition that models code to the lines it
stands for.

Contents: 1 the system, 2 modules and their correspondence to the code, 3 runs, bounds and
fairness, 4 proofs, 5 findings, 6 abstractions to know of, 7 what is not modelled, 8 plan.

How to run it, in this directory: `tlc -config Relayer.cfg MCRelayer` for a run,
`tlapm RelayerProofs.tla` for the proofs of a module.

## 1. The system

AfroPay sends remittances over Stellar. A sender deposits into a Soroban contract, an off-ramp
agent delivers the money, an oracle reports it and the contract releases the deposit. Around the
contract stand TypeScript services.

| Component | State it keeps | Operations |
|---|---|---|
| Remittance contract (`src/*.rs`) | admin, paused flag, oracles, admin multisig, arbiters and their thresholds, escrows, disputes, id counter, schema version | initialize, deposit_escrow, release_to_agent, claim_refund, raise_dispute, resolve_dispute, the governance calls, migrate |
| Relayer (`services/relayer`) | a Redis key per sender account; on the network the account's sequence number | submitPayment: reserve the key, load the account, build and send, release the key |
| Horizon listener (`services/listener`) | checkpoint, events and gaps in Postgres; a session, its stream and its running handlers | load the checkpoint, detect a gap, catch up by pages, stream, handle one transaction, save the checkpoint |
| Reconciliation service (`services/reconciliation`) | the `escrows` table's states; a lock in each process | run: read open rows, simulate get_escrow for each, report, heal |
| Idempotency middleware (`api/middleware/idempotency.ts`) | a record per key in Redis, else in the process's memory | acquire, replay, run the handler, record the answer |
| Offline outbox (`app/sw/outbox.ts`) | payments and attempts in IndexedDB | enqueue, drain, count an attempt, drop |
| Vault credential manager (`services/db`) | current lease and pool, `rotating`, a timer | start, check and renew, rotate, stop |
| Webhook receivers and dead-letter queue (`api/webhooks`, `services/queue`) | records per provider and reference, jobs and timers in memory | receive, record, retry, exhaust |
| FX oracle (`services/oracle`) | a rate cache | fetch from three providers, reject outliers, take the median |
| Generic escrow contract, fee contract (`contracts/`) | an escrow with a timelock; nothing | create, fund, release, refund, dispute, resolve, migrate; fee arithmetic |
| Event streams (`api/services/*Store.ts`, `api/routes/escrow.ts`, `transaction.ts`, `app/hooks`) | escrows and numbered events in memory; in the page a source, a last event id, a poll timer and a list | create, release, dispute, append, subscribe, replay, reconnect, give up and poll |
| Anchor API (`api/routes/sep12.ts`, `sep31.ts`, `api/store.ts`) | customers and transactions in maps | put and delete a customer, create and patch a transaction |
| Privacy routes (`api/routes/privacy.ts`, `api/services/privacyAudit`) | an audit log, notices and consents in Postgres | data-access request, erasure, publish a notice, consent, ask for the consent state |
| Encrypted content (`api/routes/content.ts`, `crypto.ts`) | tiers, versioned keys, contents and passes in maps | create a tier, upload, rotate the key, hand out a key |
| KYC gate and BVN verification (`api/middleware/verificationGate.ts`, `api/services/kyc`) | a cached tier per account in Redis, an audit trail | verify, invalidate, let a transfer through or not |
| SEP-10, rate limit, metrics, AML, database, front end, tools | tokens, counters, lists | section 7 |

How they interact. The API's services submit through the relayer; the contract emits events that
Horizon serves; the listener stores them; the reconciler compares the table with the contract.
The outbox's requests meet the idempotency middleware in front of the API's handlers. The listener
and the reconciler take Postgres clients from a pool, which the credential manager can hand out.
Webhooks move the transactions that the SEP-31 route creates; a privacy request reads and rewrites
the customers that the SEP-12 route keeps; the KYC gate stands before the route that creates an
escrow, whose events the streams carry to the page.

What is hard, per component, and what makes it correct:

- **Remittance contract.** A call is atomic, but calls come in any order from senders, agents,
  oracles, admins and arbiters, at any ledger. The money paid out must agree with the escrow's
  state; the separate disputes map must agree with the escrows; evidence must not change; a
  configuration must not make governance or disputes undecidable; the 10 080-minute timeout, the
  ledger bound and the split are boundaries.
- **Relayer.** Concurrent calls in several processes, a lock with a TTL that a slow call outlives,
  a release that deletes whatever key is there, Horizon answers that come late or never while the
  transaction still applies, crashes. The caller must be told the truth, a careful caller must not
  pay twice, the account must not stay blocked.
- **Horizon listener.** Handlers of consecutive transactions run concurrently and outlive their
  session; the checkpoint is saved apart from the events; gaps, catch-up, reconnects and restarts
  overlap; each handler takes two clients from one pool; event ids and the contract filter decide
  what is stored at all. No event may be lost without a named cause, and all others must be stored
  in the end.
- **Reconciler.** Rows, chain states and the write are three different moments; runs of two
  processes overlap. Rows must only advance and a healing run must converge.
- **Outbox and middleware.** Two drains at once, retries that meet their own first request, Redis
  failing between two commands, records that expire, processes that die, pages that close. Work
  must not be repeated, and a payment not be lost, without a named cause.
- **Credential manager.** Checks, rotation and `stop` interleave at every await and the leases
  expire meanwhile. The pool handed out must stay usable, old pools be drained before their lease is
  revoked, nothing leak, and valid credentials come back after faults.
- **Event streams.** A connection breaks between two events, a replay meets the subscription, the
  server restarts its numbering, answers of polls overtake each other and the page moves on to
  another escrow meanwhile. The page must show each event once and in order, and end up current; it
  does, but for what is numbered up to a last event id that outlived a restart.
- **Webhooks and their queue.** Providers deliver again, before the transaction exists, and with
  another status for the same reference; two providers may name one transaction; timers retry
  beside all that. One event must have one effect, and a settlement not vanish without a record.
- **Anchor and privacy.** A request holds customers over the await of the audit log while others
  put, delete and erase them, and the log may refuse a write. Nothing may be erased without a trace,
  an export not show what it should not.
- **Consent.** One answer is put together from three queries, with notices and consents between them.
- **Content.** Keys rotate under contents and under passes; what is stored must stay readable.
- **KYC gate.** Verifications overlap and write their answers in any order into a cache that
  expires, is evicted, and may refuse every command.
- **FX oracle.** Wrong quotes must not move the rate; the cache is written by overlapping calls.

`PROJECT.json` lists the hazards at their lines under "hazards", with the properties that would
catch each, and says of the ones without a property why.

## 2. Modules

    Custody            abstract: money that enters and leaves custody
    Remittance         the contract                     implements Custody
      MCRemittance       values for TLC
      RemittanceProofs   theorems
    Relayer            submitPayment and the sequence lock
      MCRelayer, RelayerProofs
    Listener           the Horizon listener
      MCListener, ListenerProofs
    Reconciler         the reconciliation runs
      MCReconciler, ReconcilerProofs
    Outbox             the app's queue                  } composed by Delivery
    Idempotency        the API's middleware             }
      Delivery, MCDelivery, DeliveryProofs
    VaultCreds         database credentials from Vault
      MCVaultCreds, VaultCredsProofs
    EventStream        escrow and transaction streams, from route to page
      MCEventStream                                                } ApiProofs
    Webhook            the receivers and the dead-letter queue     }
    Anchor             customers, transactions, privacy requests   }
    Consent            notices and consents                        }
    Content            encrypted content                           } MCServices
    Kyc                verification and the gate                   }   ServicesProofs
    Oracle             FX rates                                    }

Definitions marked `mutant` are plausible bugs of the definition that follows them; they are not
used by the specification and serve to see that a property notices when the code is changed.
Every module with a `TypeOK` (`WebhookTypeOK` in Webhook) documents its variables' types there. It is
proved for Remittance, Relayer, Delivery, Webhook, Listener, Reconciler, VaultCreds and EventStream;
the runs check it where it is cheap (the first three).

**Remittance** (`src/contract.rs`, `escrow.rs`, `oracle.rs`, `migration.rs`). One variable per
item of instance storage; `paidSender` and `paidAgent` stand for the token transfers. One action per
entry point that changes storage. A Soroban call that returns an error rolls back, so a failing call
is no step and the checks of a call are the guards of its action; `require_auth` is the choice of
the caller. An attestation names an oracle and an outcome and is signed or not; as in the code,
`VerifySignature` does not look, so every release can rest on an unsigned one. The escrow an
attestation names and its nonce are compared with nothing and left out. Stored signer and arbiter
sets are sets because only membership and length are read. Ledger time moves by `CloseLedgers`.

**Custody** states what the contract does with money and nothing else: an amount opens, leaves in
one settlement, and after the timeout can be claimed again. `CustodyRefined` is the refinement,
with the amounts and timeouts read off the escrows.

**Relayer** (`submit.ts`, `sequenceManager.ts`). A call moves through the stages between its
awaits: reserved, loaded, sent, answered, done, or crashed. `lock` names the call whose SET made
the key, so that the unconditional DEL of `release` can be seen to delete another's key.
Transactions apply, are rejected or dropped by the environment, before or after the call has its
answer. `lapsed` remembers that a key ran out under a running call.

**Listener** (`horizonStream.ts`, `checkpointStore.ts`). One action per awaited operation of
`runOnce`, `catchUp` and `processLiveTransaction`. A transaction is its position on the chain, and
an event a transaction with an index in it. `EventId` is the id as the code builds it, from the
ledger and the index, so that events of two transactions can share one. `ContractIdForm` is how
`CONTRACT_ID` is written; the filter matches one of its two forms only. `handlers` are the onmessage
handlers that run; each holds one pool client and waits for another. Histories: `origin` is the
tip when the listener first subscribed, `skipped` the events that later subscriptions from "now"
passed over, `cut` those whose handling a crash or a failed request cut off before they were stored.

**Reconciler** (`reconciler.ts`, `adminRouter.ts`). A run loads its rows, fetches each answer at its
own moment, reports, heals and ends; the contract and the recording of new escrows go on in between.
`RunOnStartup` only reports and may find the cool-down not over (left open, since it is a matter of
hours); `RunOnDemand` is behind the lock of its process. Once it has compared, a run keeps only its
discrepancies; of a run that does not heal the answers are left out, since it only reports them.
`query`, chosen at the start, says whether the chain query gets as far as its simulation. As the
code builds it, it rejects, for `new Account(contractId, "0")` throws; the unit tests put answers in
its place. The run and the theorems cover both. Histories: `overlapped`, and per run `disturbed`.

**Outbox, Idempotency, Delivery.** Outbox has the IndexedDB store and the drains, with what each
has read and not yet dealt with; its fetches are opaque. Idempotency has the Redis records, the
memory of each process and a request's phase between its commands. Delivery joins them: a fetch of
a drain is a request to some process, the answer is received when it is there, and a fetch may
reject although its request runs on. A payment's key is the payment, over all attempts.

**VaultCreds** (`vaultCredsManager.ts`). `job` is how far each concurrent call of `start` or
`_checkAndRenew` has come, with the lease and the old pool and lease it remembers over its awaits;
`stopping` is how far `stop` has come. Time is what is left of the leases, as Vault counts it
(`left`) and as the manager believes (`remaining`).

**EventStream** (`escrow.ts`, `transaction.ts`, the two stores, the two hooks). The initial state
picks the escrow or the transaction stream; the operators whose code differs come in both forms. A
request is one step because handlers are synchronous; `wire` is what was sent and not dispatched,
`polls` the answers on their way. `conn = "failed"` is an `EventSource` the browser has given up.
`log` lists all events ever published; `lost` of them were published before the last restart, and
`Number` is what the store called an event. `carried` is the last event id with which a page
outlived a restart. Publishing a settlement looks at no state, neither before nor after a restart.
`Filtered` is JavaScript's filter, as a recursive function in a LET.

**Webhook** (`flutterwave.ts`, `paystack.ts`, `idempotency-store.ts`, `dlq.ts`). A delivery is one
step: `Replay`, `Process` or `Park`. The queue's timers (`Retry`) and its processor (`Handled`,
`Refused`) are their own steps. `first`, `settling`, `changes` and `replies` are history.
`WebhookInit`, `WebhookNext` and the like carry the module's name because ApiProofs extends
EventStream as well.

**Anchor** (`sep12.ts`, `sep31.ts`, `privacy.ts`, `privacyAudit`). Customers are objects: a request
that has collected some keeps them, as the handlers do, while the map changes. A privacy request is
`new`, waits for the audit log, answers. `lost` are the audit writes that failed, `churned` the
requests that a creation or a deletion overlapped.

**Consent** (`noticeVersioning.ts`, `privacy.ts`). `asks` is a GET with its three queries open; each
is answered from the tables as they are then. **Content** (`content.ts`, `crypto.ts`, `store.ts`).
Handlers are synchronous; a key is a number that was never used before. **Kyc**
(`bvnVerification.ts`, `verificationGate.ts`, the providers) for one sender; `blame` collects why
the cache may differ from the provider's newest answer. **Oracle** (`aggregator.ts`,
`rateService.ts`, the providers) for one pair; `Quotes` is what the three providers let through.

**MCServices** takes these five, which share nothing, into one run: the initial state picks one and
only that one steps.

## 3. Runs

| Run | Instance | What it shows |
|---|---|---|
| `remittance` | 2 admins/arbiters, all vectors of one or two of them, thresholds 0..2, 2 escrows, ledgers 0 and 15, timeouts of 0 and 1 minute with the last timeout ledger at 20, splits below, within and above the amount, 2 claims per escrow | `TypeOK`, `ThresholdsSatisfiable`, `FundsMatchState`, `DisputesAgree`, `ReleasedByRegisteredOracle`, `EvidenceImmutable`, and the refinement `CustodyRefined` |
| `relayer` | 3 calls, two of one payment, one outside operation | `TypeOK`, `SerialisedUntilLapse`, `OutcomeIsTruthful`, `PaidAtMostOnce`, `StaleFetchHasCause`, and `LockReleased` |
| `listener` | 3 transactions in 2 ledgers, 3 events of which 2 share an id, pages of 2, a pool too large to matter, 2 sessions, 2 crashes or failed requests | `LossHasCause`, `StreamCovers`, `EventuallyStored` |
| `reconciler` | 2 escrows, 2 processes, one failing request or dying process, a query that answers or rejects | `RowsOnlyAdvance`, `TerminalRowsStay`, `QuietHealConverges` |
| `delivery` | 1 payment, 2 drains, 3 requests, 2 processes, one fault, one expired record, 2 attempts | `TypeOK`, `RepeatHasCause`, `SuccessIsTruthful`, `DropsAreEarned`, `LossHasCause` |
| `vault_creds` | 4 lease names, 2 concurrent calls, leases of 2 units renewed in the last one, one failing request, 2 units of time under running calls, one client | `PoolStaysUsable`, `DrainBeforeRevoke`, `LeakHasCause`, `CredentialsRecover` |
| `event_stream` | 2 ids, 1 page, 3 events, 3 faults, 2 polls on their way, both kinds of stream | `StreamExact`, `OnlyPollsMisplace`, `EventuallyCurrent` |
| `webhook` | 1 reference, both providers, every event they send, 1 restart, with and without a processor | `OneEffectPerProvider`, `SettlementLossHasCause`, `QueueDrains` |
| `services` | privacy: 2 accounts, 1 memo, 1 field, 2 requests, 2 customers ever; consent: 2 users, 2 notice versions, 1 request; content: 2 tiers, 1 fan, 3 keys, 2 contents; KYC: 2 verifications, 2 reviews, 2 evictions; FX: rates 0, 100 and 103, 3 providers, 3 calls, 2 ticks | `ErasureIsAudited`, `ExportHasCause`, `ConsentReplyHasCause`, `ContentStaysReadable`, `GateHasCause`, `ServedRateHasCause` |
| `remittance_refund`, `listener_pool`, `event_stream_refused` | as above, smaller | one statement of a document or comment each, which the code does not keep (section 5) |

**Why the bounds are enough.** Two accounts suffice to tell a duplicate vector from a proper one and
to fall below a threshold; two escrows for calls that mix up ids; two ledgers for before and after a
timeout, and for a deposit that is refused because its timeout would be too late. Three calls are
the least that let one call lapse, a second take the key and a third profit from the first one's
DEL; two of them on one payment is the least for paying twice. Three transactions let two share a
ledger, and their first events an id, and one open a gap. Two sessions are the least for a
reconnect, a gap and a second subscription from "now"; a crash and a failed request can meet in
them. Two processes and two escrows make runs overlap with one row healed and the other not. Two
drains and three requests make a retry meet its first request while a duplicate is on its way. Four
leases are the current one, its successor and two that faults can leak; with fewer, Vault would run
out of names. Two escrows and three events number the events of one around those of the other, and
three faults are the errors in a row that start the polling, one of them a restart or not; a refusal
after a restart costs none. One reference is enough for both providers to meet on one transaction,
and the proofs cover any number. Two requests let an erasure overtake an export; two versions, two
verifications and three keys are the least that can be out of order; 0, 100 and 103 are an absent
rate, a rate and an outlier of it. The state spaces are all explored completely; the largest has 1.2
million states.

**Fairness.** Safety runs assume none. Where a liveness property is checked:

- Relayer: a call that neither died nor ended goes on, because the event loop runs it and Horizon
  and Redis answer or fail (`Working`), and its `finally` releases (`Release`), unless the DEL itself
  fails. Nothing is assumed of the key's expiry, which would free the lock whatever the calls do.
- Listener: the event loop runs what can run (`SessionStep`, each handler), the supervisor restarts
  the process, and Horizon delivers what it has. Handlers that wait for a pool client are not
  enabled until one is free, which is what makes the pool run stall. Failures and crashes are
  bounded.
- VaultCreds: the interval ticks, Vault and Postgres answer or fail, clients are returned, time
  passes. The code has no timeout on its requests, so without answers nothing can be promised.
- EventStream: the browser retries, the network delivers what it carries and the interval ticks.
  Nobody has to act on an escrow or to open a page, and faults are bounded.
- Webhook: timers fire and the processor's promise settles. No provider has to deliver.
- Reconciler, Delivery, Remittance and the five services state no liveness: nobody has to call the
  contract, start a run or come online again.

**Deadlock** is checked for the Reconciler and the contract. The other configurations turn it off
because their calls, requests or sessions are finite and the model really comes to an end.

## 4. Proofs

The theorems hold for all values of the constants that the named assumptions admit; TLC evaluates
the assumptions in the runs above.

- **RemittanceProofs.** `TypeCorrect`, `GovernanceNeverLocksItself`, `FundsAreSafe`,
  `DisputesAlwaysAgree`, `ReleasesNameRegisteredOracle`, `EvidenceStays`, `ImplementsCustody`. The safety
  invariants are not inductive alone. `IInv` adds that nothing was deposited before `initialize`
  (which resets the oracles: were there escrows, `ReleasedByRegisteredOracle` would break) and that
  an id never handed out has seen neither a payment nor a dispute (else a deposit would open an
  escrow already paid). `DistinctElements` proves that a vector without duplicates lists as many
  accounts as its length, by a bijection, which is what makes the length check of
  `validate_signer_set` sound. Every escrow call is one of a few `Moves` of a single escrow, and
  the invariants are shown for moves. For the refinement, initial states map to initial states and
  every step is a step of Custody or a stutter.
- **RelayerProofs.** `TypeCorrect`, `Serialised`, `OutcomesAreTruthful`, `NeverPaidTwice`,
  `StaleFetchesAreExplained`. `IInv` adds `StagesAgree` (no result before the answer, no
  transaction before the send) and `OneLivePerPayment`: at most one call of a payment is, or may
  yet be, applied. `PaidAtMostOnce` follows from it.
- **DeliveryProofs.** `TypeCorrect`, `RepeatsHaveCause`, `SuccessesAreTruthful`,
  `DropsAreAlwaysEarned`, `LossesHaveCause`. The two sides have invariants of their own.
  `ClientInv`: the attempts a drain has read or the store holds never exceed the attempts that
  failed, and a drain that waits is at an item it may still send; so two drains that overwrite each
  other cannot give a payment up early. `ServerInv`: while a key is not excused, one request at most
  holds it (`OneHandler`), and every success on record, on its way or sent was earned
  (`RecordsTruthful`). `LossInv`, on top of both, is what a drain may conclude from an answer: a
  pending record, the 409 it is answered with and an accepted payment all stand for work that was
  done, failed, or is in the hands of its handler (`Owned`), and the fetch a drain waits for carries
  its own item (`FetchesOwn`).
- **ApiProofs**, on the two components that live in the memory of the API's process.
  - Webhook: `WebhookTyped`, `EffectsAreSingle`, `LossesAreExplained`, for any references and
    restarts. `WebhookInv` adds the life cycle of a record: a key nothing was delivered for is blank
    (`Untouched`), a job belongs to a parked record that has changed nothing yet and a parked record
    without a job was handled once (`Parked`), and a record processed at once has no job and left its
    mark (`Processed`). Without it a retry could follow a change, or a mark be missing.
  - EventStream: `StreamTyped`, `StreamsExact`, `OnlyPollsMisplaceEntries`, for any ids, pages,
    events, faults and polls. What a page has received says nothing of the next event, so
    `StreamInv` follows the events on their way. `Wired`: the bytes sent over an open source are, in
    ascending order, events the store has of the page's id, and among them all that is numbered after
    its last event id. `InOrder`: what the page has received is ascending, of its own id, and before
    all that is on its way. `Complete`: it is all there was up to its last event id, what a restart
    let that number hide apart; and only a restart leaves a page ahead of the store, which is why
    `carried` has to be in the invariant. `Connected`: only an open source has bytes on their way, and
    a page without an id has no source. The route's replay is a filter of ascending numbers, which is
    ascending and has the members that pass (`FilteringAscending`, from `Filtering`, which says which
    positions a filter chooses).
- **ListenerProofs.** `TypeCorrect`, `LossesHaveCause`, `StreamsCover`, for any chain, events, page
  size, pool, number of sessions and faults. `LossHasCause` speaks of the checkpoint only, but the
  next checkpoint is what a handler, a page or a session in progress brings along. `IInv` therefore
  asks the same of every position somebody may save or start from: every event up to it is from
  before the first subscription, stored, in progress, or excused by a cause of its own (`Kept`,
  `Safe`). It is claimed of the checkpoint, of the position a session has loaded and of the one it
  has read up to, and of the transaction of every handler (`Covers`). The causes are per event: that
  something failed elsewhere excuses nothing. The step that matters is a page: it is read from the
  last position on, so it leaves no transaction out before its last one (`PageContiguous`), and an
  empty page means there is none up to the tip.
- **ReconcilerProofs.** `TypeCorrect`, `RowsAdvance`, `TerminalRowsAreLeft`, `QuietHealsConverge`,
  for any escrows and processes. What a run writes was read at another moment; `IInv` says what is
  still true of it. `ReadFromChain`: a row, and an answer, was true of the chain once, and the chain
  only moves on, so a `Refunded` one is true for ever. `OneRun`: until runs overlap, the rows of the
  one under way are as it loaded them and not ahead of its answers, so that no write goes back.
  `Quiet`: while a healing run is not disturbed, its rows and answers are those of the moment, so
  that what it leaves alone is in line. `QuietHealConverges` has both values of `query`: when
  the query answers, the rows the run could compare are the chain's; when it rejects, as in the
  code, every answer is `Unknown` and the run writes nothing. Action properties follow from the
  invariant before the step.
- **VaultCredsProofs.** `TypeCorrect`, `PoolAlwaysUsable`, `DrainsBeforeRevoking`, `LeaksHaveCause`,
  for any leases, concurrent calls, durations and faults. `OneRotation`: the flag `rotating` is up
  while a call rotates, and one call at most does. `Named`: a lease without a name comes only from
  a renewal that is answered after `stop` (`{...currentLease}` of null).
  `InUse`: what a rotation replaces is one pool with its own lease, and not the current one.
  `StopsAlone`: a `stop` beside which no call ran finds everything at rest and keeps it so.
  `Accounted`: every open pool and every valid lease is current, new in the hands of a rotation, or
  about to be taken back. Each excludes a step of two calls or of `stop` that would revoke or leak.
- **ServicesProofs.** One theorem per property of the services' run, for any accounts, users, fans,
  verifications, rates and calls: `ErasuresAreAudited`, `ExportsHaveCause`,
  `ConsentRepliesHaveCause`, `GateVerdictsHaveCause`, `ContentsStayReadable`,
  `ServedRatesHaveCause`. A step belongs to one service, so each has its own invariant.
  `PeopleInv`: a request past the await of the log is in it or its write failed (`Progress`), and the
  customers it collected are its account's still (`Collected`). `ConsentInv`: of the queries that have
  been answered, what the pending ones may still contradict (`Coherent`). `KycInv`: the
  provider's answers are numbered as they come and no number is above their count (`Ranked`), so a
  new one is above all, and the verification with the highest found the newest answer
  (`NewestFound`). `ContentInv`: a version names one key of its tier (`KeysDiffer`), and what is
  stored was sealed with the key its version names (`SealedWell`). `OracleInv`: the served rate is
  the aggregate of its quotes (`IsAggregate`), and until calls overlap one fetches at a time and what
  is kept is the newest of what was served (`Alone`). That a median lies within the range of any
  majority is proved for any number of quotes (`MedianSplits`: at most the middle are below it and
  more than the middle not above; `MajorityHoldsMedian`: so a majority has quotes on both sides of
  it), and carried through the rejection of outliers.

Where a least or greatest number is needed (a fresh lease name, the last transaction of a page, the
highest version, the middle quote, the first length at which a filter would go wrong), it comes from
the well-foundedness of the naturals (`NatLessThanWellFounded`, `WFMin`), not from induction.
`ServicesAssumption` adds that versions are bounded, rates are integers, and verifications finite in
number; `VaultAssumption` that the absent lease is no number. The inductive invariants were checked
with TLC on the runs' instances before they were proved.

Only model-checked is all liveness: `LockReleased`, `EventuallyStored`, `CredentialsRecover`,
`EventuallyCurrent`, `QueueDrains`. The prover cannot reach it under fairness. Every invariant and
every action property of the passing runs is a theorem, and so is the refinement of Custody.

Three limits shape the modules. Nothing that is proved about uses a RECURSIVE operator. The provers
know nothing of `SelectSeq`, which is why EventStream filters with `Filtered`. And no theorem cites
an induction scheme: `FilterExists` and `Filtering`, about a filter of any length, assume a length
at which they fail, take the least one and contradict it.

## 5. Findings

Shown by a run that is expected to end in a violation:

1. `remittance_refund`: after the timeout `claim_refund` pays whatever the escrow's state, once per
   call; `docs/contract-design.md` says it wants Locked or Refundable.
2. `listener_pool`: as many live handlers as the pool has clients wait for each other for ever.
3. `event_stream_refused`: a stream refused with a status other than 200 makes the browser report
   one error and give up, so the page never counts three and never polls, as the hook's doc says.

Met while modelling, in the models as the code has it, and shown by no run of its own. First those
that a property of a passing run names as a cause, or is stated so as to leave room for:

- `verify_signature` is a stub that returns true, `release_to_agent` asks nobody's authorisation and
  compares neither the attestation's escrow nor its nonce, while `docs/contract-design.md` 3.3 and
  6.3 say that signatures are verified and replays prevented; `ReleasedByRegisteredOracle` is what is
  left: a release names a registered oracle;
- Horizon's transactions carry no `application_order`, so event ids of two transactions of one ledger
  collide, and the second event is dropped as a replay (`Shadowed`);
- before its first checkpoint the listener subscribes from "now" in every session and skips what
  came in between; the runbook says a restart skips no ledgers (`skipped`);
- the filter compares contract ids in hex with the configured id less its leading C, which an id in
  its usual form never equals: nothing is stored and the checkpoint moves on (`ContractIdForm`);
- the listener saves its checkpoint outside the page's transaction and before its COMMIT, so it can
  be past events that were never stored (`cut`);
- the dummy account of the reconciler's query cannot be built from a contract id, so every escrow is
  Unknown, counts as matched, and heal writes nothing (`query`);
- `Disputed` is not among the decoded states, so the row of a disputed escrow is left as it was
  (`Settled`);
- a restart numbers stream events from 1 again under pages that send a higher last event id, so that
  what was published meanwhile is not replayed (`carried`);
- the relayer's lock can lapse under a slow call, and a release deletes another call's key, so "the
  fetch is always accurate" (`submit.ts`) fails without any operation from outside (`lapsed`);
- the slower of two reconciliation runs writes an old state over a terminal row (`overlapped`).

And the others:

- the outbox takes the 409 of its own request still in progress for a success and gives the payment
  up when that request then fails;
- `DuplicatePaymentError` carries the id of the payment turned down, not of the one in progress
  (the model leaves the id out);
- the dead-letter queue replaces the response a redelivery is to repeat, and leaves a record at `dlq`
  after a retry that succeeded;
- `publishNotice` accepts a version below an existing one;
- after a key rotation a fan is handed contents that the key does not open;
- the KYC gate never fails open, since the cache turns an unreachable Redis into a miss;
- `getRate` never sees `StaleRateError`, and a rate from the cache carries the flag of its fetch.

After a failed verification `VaultCredsManager` keeps the unverified pool and lease as current and
never drains the old ones (the `broken` excuse of `LeakHasCause`), and a `stop` beside a rotation
leaves a pool, a lease or the timer behind (the `raced` excuse).

## 6. Abstractions to know of

- Remittance: amounts and ledgers are drawn from small sets; events and read-only queries are left
  out; `upgrade` changes no storage. The order of the guards, which only decides the error returned,
  is not kept.
- Relayer: one account, since keys are scoped to accounts; which error a caller may retry is taken
  from the documentation's usage example. The id in a `DuplicatePaymentError` is left out.
- Listener: a page holds the events of whole transactions and stores one transaction's events in one
  step; gap records are not kept. The runs configure the contract id in hex, the one form the
  filter matches; the theorems cover both forms, and with the usual one they excuse everything, since
  nothing is ever stored. That events before the first subscription are not stored is as designed.
- Reconciler: the query answers or rejects for good, by a choice in the initial state: the first is
  the reconciler as its unit tests run it, so that there is something to heal, the second the code
  as it stands. `diff`'s extraChainIds is passed by no caller.
- Idempotency: the repository mounts no `/api/v1/payments` handler; the model is of the middleware
  before any handler. A thrown exception is answered by Express's final handler, whose status the
  middleware does not see and caches as 200.
- VaultCreds: lease names are reused when nothing is left of them; one call of `stop`; an `error`
  listener is registered (without one Node would exit); time under running calls is bounded and
  stops when `stop` has returned; the static-token path of `_ensureToken`.
- EventStream: nothing under `api/` appends to the store of transaction events; `TransactionService`
  in `apps/api` does, and is taken to share it. A poll's answer names a state, from which the model
  keeps which event it reflects. `MaxPolls` bounds the polls of the interval; the transaction hook
  asks once more whenever its polling starts, so that more answers may be on their way.
- Webhook: signatures are valid and references readable; only tests mount the receivers and register
  a processor, so both cases, with and without one, are modelled.
- Anchor: accounts are authenticated (SEP-10 is not modelled); a field is absent, plain or erased;
  `RequestInfo` is an operator that nothing under `src/` implements. `services/privacyAudit` is a
  copy of the API's and follows the same model.
- Content: cryptography is what opens with what. The curves are placeholders in the code, and that a
  wrapped key opens for its fan alone is not claimed.
- Kyc: one sender; `verify` and `invalidate` have no caller under `src/` yet.
- Oracle: rates are small integers and a tick is the fetch timeout; `seedCache`, `clearCache` and
  `aggregateStrict` are called by tests only; that all quotes are rejected can not happen, because
  the first median is one of them, and is left out.
- `reconciler.js` is the compiled form of `reconciler.ts` and is not mapped.

## 7. Not modelled

`PROJECT.json` lists every component with its reason. In short:

- the generic escrow contract (`contracts/escrow`): a second, simpler escrow that no service calls;
- the fee contract (`contracts/remittance`): arithmetic within one call;
- SEP-10: challenge and token, without state that outlives a request;
- the rate limiter and the metrics: lists and counters that one synchronous step reads and writes;
- the AML engine: a library that no other part of the repository calls, rules over lists;
- configuration, start-up, the command line tool, the front end's rendering, generated files such as
  `reconciler.js`, and `dredd-hooks.js`, which drives contract tests;
- the database schema, whose columns appear in the modules that use them; the tests and deployment
  files, which were read as statements of intent.

## 8. Plan

Done, most important first: Custody, Remittance; Relayer; Listener; Reconciler; Outbox, Idempotency
and Delivery; VaultCreds; EventStream; Webhook; Anchor, Consent, Content, Kyc and Oracle; the proofs
of all of them.

To come, in this order:

1. A composition of Listener and Reconciler over one table, with the contract as environment.
2. `Escrow` for `contracts/escrow`, its funds shown to refine Custody without the late claim.
3. `Fees` for `contracts/remittance`: rounding and overflow against exact arithmetic.
4. `ReviewQueue` of the AML engine, once something calls it.
