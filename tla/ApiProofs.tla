------------------------------- MODULE ApiProofs -------------------------------
(***************************************************************************)
(* Theorems about the two components that live in the memory of the API's  *)
(* process: the webhook receivers with their dead-letter queue, and the    *)
(* event streams with the pages that follow them.                          *)
(*                                                                         *)
(* Webhook: the records of one provider and reference go through a small   *)
(* life cycle; KeyInv says what each of its stages implies.                *)
(* EventStream: what a page has been told and what is on its way to it     *)
(* make up the history of its id; StreamInv says how.                      *)
(***************************************************************************)
EXTENDS EventStream, Webhook, TLAPS, SequenceTheorems, WellFoundedInduction

-------------------------------------------------------------------------------
(* Webhook. *)

\* A key nothing was delivered for is blank.
Untouched(k) ==
    record[k] = "none" =>
        /\ first[k] = "none" /\ job[k] = "none" /\ changes[k] = 0
        /\ ~settling[k] /\ replies[k] = {}

\* A job belongs to a parked event that has changed nothing yet, and one that
\* waits has an attempt left; a parked event without a job was handled, once, on a
\* transaction that exists.
Parked(k) ==
    /\ job[k] # "none" => record[k] = "dlq" /\ changes[k] = 0
    /\ job[k] = "waiting" => attempts[k] < MaxAttempts
    /\ record[k] = "dlq" /\ job[k] = "none" =>
         changes[k] = 1 /\ status[k[2]] \in {"pending_stellar", "error"}
    /\ record[k] \in {"dlq", "failed"} =>
         reply[k] \in {"dlq", "dlq_exhausted"} /\ replies[k] \subseteq {"dlq", "dlq_exhausted"}
    /\ record[k] = "failed" => changes[k] = 0

\* An event processed at once: a settlement left its mark on a transaction.
Processed(k) ==
    record[k] = "processed" =>
        /\ job[k] = "none" /\ changes[k] <= 1
        /\ reply[k] = "processed" /\ replies[k] \subseteq {"processed"}
        /\ first[k] = "pending_stellar" => status[k[2]] \in {"pending_stellar", "error"}

KeyInv(k) == Untouched(k) /\ Parked(k) /\ Processed(k)

WebhookInv == WebhookTypeOK /\ \A k \in Key : KeyInv(k)

-------------------------------------------------------------------------------
LEMMA WebhookInitially == WebhookInit => WebhookInv
<1> SUFFICES ASSUME WebhookInit PROVE WebhookInv
  OBVIOUS
<1>1. settling \in [Key -> BOOLEAN] /\ \A k \in Key : ~settling[k]
  BY Zenon DEF WebhookInit, Blank
<1>2. registered \in BOOLEAN
  BY Zenon DEF WebhookInit
<1>3. WebhookTypeOK
  BY <1>1, <1>2, WebhookAssumption DEF WebhookInit, WebhookTypeOK, Blank, MaxAttempts, Key
<1>4. ASSUME NEW k \in Key PROVE KeyInv(k)
  BY <1>1 DEF WebhookInit, KeyInv, Untouched, Parked, Processed, Blank
<1>5. QED
  BY <1>3, <1>4 DEF WebhookInv

\* What the receivers ask for is an effect.
LEMMA EffectsAreEffects ==
    ASSUME NEW b \in Body
    PROVE  FlutterwaveEffect(b) \in Effect /\ PaystackEffect(b) \in Effect
  BY DEF FlutterwaveEffect, PaystackEffect, Effect

\* A delivery is a replay, a first delivery that finds its transaction, or a
\* first one that does not.
LEMMA ReplayKeeps ==
    ASSUME WebhookInv, NEW k \in Key, NEW e \in Effect, Replay(k, e)
    PROVE  WebhookInv'
<1>1. settling' \in [Key -> BOOLEAN] /\ \A j \in Key : j # k => settling'[j] = settling[j]
  BY Zenon DEF WebhookInv, WebhookTypeOK, Replay
<1>2. replies' \in [Key -> SUBSET {"processed", "dlq", "dlq_exhausted"}]
  <2>1. reply[k] \in {"processed", "dlq", "dlq_exhausted"}
    BY DEF WebhookInv, WebhookTypeOK, Replay, KeyInv, Parked, Processed
  <2>2. QED
    BY <2>1 DEF WebhookInv, WebhookTypeOK, Replay
<1>3. WebhookTypeOK'
  BY <1>1, <1>2 DEF WebhookInv, WebhookTypeOK, Replay, store, queue
<1>4. ASSUME NEW j \in Key PROVE KeyInv(j)'
  <2>1. KeyInv(j)
    BY DEF WebhookInv
  <2>2. CASE j = k
    BY <2>1, <2>2 DEF WebhookInv, WebhookTypeOK, Replay, KeyInv, Untouched, Parked,
                      Processed, store, queue
  <2>3. CASE j # k
    BY <1>1, <2>1, <2>3
       DEF WebhookInv, WebhookTypeOK, Replay, KeyInv, Untouched, Parked, Processed,
           store, queue
  <2>4. QED
    BY <2>2, <2>3
<1>5. QED
  BY <1>3, <1>4 DEF WebhookInv

LEMMA ProcessKeeps ==
    ASSUME WebhookInv, NEW k \in Key, NEW e \in Effect, Process(k, e)
    PROVE  WebhookInv'
<1>1. settling' \in [Key -> BOOLEAN] /\ \A j \in Key : j # k => settling'[j] = settling[j]
  BY Zenon DEF WebhookInv, WebhookTypeOK, Process, Accept
<1>2. k[2] \in Reference
  BY DEF Key
<1>3. WebhookTypeOK'
  BY <1>1, <1>2 DEF WebhookInv, WebhookTypeOK, Process, Accept, Applied, Effect, queue
<1>4. ASSUME NEW j \in Key PROVE KeyInv(j)'
  <2>1. KeyInv(j) /\ KeyInv(k) /\ j[2] \in Reference
    BY DEF WebhookInv, Key
  <2>2. status[j[2]] \in {"pending_stellar", "error"}
          => status'[j[2]] \in {"pending_stellar", "error"}
    BY <1>2, <2>1 DEF WebhookInv, WebhookTypeOK, Process, Applied, Effect
  <2>3. CASE j = k
    <3>1. e = "pending_stellar" => status'[k[2]] = "pending_stellar"
      BY <1>2 DEF WebhookInv, WebhookTypeOK, Process, Applied
    <3>2. QED
      BY <2>1, <2>3, <3>1
         DEF WebhookInv, WebhookTypeOK, Process, Accept, KeyInv, Untouched, Parked,
             Processed, queue
  <2>4. CASE j # k
    BY <1>1, <2>1, <2>2, <2>4
       DEF WebhookInv, WebhookTypeOK, Process, Accept, KeyInv, Untouched, Parked,
           Processed, queue
  <2>5. QED
    BY <2>3, <2>4
<1>5. QED
  BY <1>3, <1>4 DEF WebhookInv

LEMMA ParkKeeps ==
    ASSUME WebhookInv, NEW k \in Key, NEW e \in Effect, Park(k, e)
    PROVE  WebhookInv'
<1>1. settling' \in [Key -> BOOLEAN] /\ \A j \in Key : j # k => settling'[j] = settling[j]
  <2>1. /\ settling' = [settling EXCEPT ![k] = @ \/ e = "pending_stellar"]
        /\ settling \in [Key -> BOOLEAN]
    BY Zenon DEF WebhookInv, WebhookTypeOK, Park, Accept
  <2>2. QED
    BY <2>1, Zenon
<1>2. WebhookTypeOK'
  BY <1>1 DEF WebhookInv, WebhookTypeOK, Park, Accept, MaxAttempts
<1>3. ASSUME NEW j \in Key PROVE KeyInv(j)'
  <2>1. KeyInv(j) /\ KeyInv(k)
    BY DEF WebhookInv
  <2>2. CASE j = k
    BY <2>1, <2>2
       DEF WebhookInv, WebhookTypeOK, Park, Accept, KeyInv, Untouched, Parked,
           Processed, MaxAttempts
  <2>3. CASE j # k
    BY <1>1, <2>1, <2>3 DEF WebhookInv, WebhookTypeOK, Park, Accept, KeyInv, Untouched,
                            Parked, Processed
  <2>4. QED
    BY <2>2, <2>3
<1>4. QED
  BY <1>2, <1>3 DEF WebhookInv

LEMMA CreateKeeps ==
    ASSUME WebhookInv, NEW r \in Reference, CreateTransaction(r)
    PROVE  WebhookInv'
<1>1. WebhookTypeOK'
  BY DEF WebhookInv, WebhookTypeOK, CreateTransaction, store, queue, history
<1>2. ASSUME NEW j \in Key PROVE KeyInv(j)'
  <2>1. KeyInv(j) /\ j[2] \in Reference
    BY DEF WebhookInv, Key
  <2>2. QED
    BY <2>1 DEF WebhookInv, WebhookTypeOK, CreateTransaction, store, queue, history,
                KeyInv, Untouched, Parked, Processed
<1>3. QED
  BY <1>1, <1>2 DEF WebhookInv

\* An attempt that failed leaves the job waiting or ends it as failed.
LEMMA NotHandledKeeps ==
    ASSUME WebhookInv, NEW k \in Key, NEW n \in Nat, job[k] # "none", NotHandled(k, n),
           attempts' \in [Key -> 0 .. MaxAttempts], attempts'[k] = n,
           \A j \in Key : j # k => attempts'[j] = attempts[j],
           UNCHANGED <<registered, status, history, restarts>>
    PROVE  WebhookInv'
<1>1. WebhookTypeOK'
  BY DEF WebhookInv, WebhookTypeOK, NotHandled, Exhausted, store, history
<1>2. ASSUME NEW j \in Key PROVE KeyInv(j)'
  <2>1. KeyInv(j) /\ KeyInv(k)
    BY DEF WebhookInv
  <2>2. CASE j # k
    BY <2>1, <2>2 DEF WebhookInv, WebhookTypeOK, NotHandled, Exhausted, store, history,
                      KeyInv, Untouched, Parked, Processed
  <2>3. CASE j = k /\ n >= MaxAttempts
    BY <2>1, <2>3 DEF WebhookInv, WebhookTypeOK, NotHandled, Exhausted, history, KeyInv,
                      Untouched, Parked, Processed
  <2>4. CASE j = k /\ ~(n >= MaxAttempts)
    BY <2>1, <2>4 DEF WebhookInv, WebhookTypeOK, NotHandled, store, history, KeyInv,
                      Untouched, Parked, Processed, MaxAttempts
  <2>5. QED
    BY <2>2, <2>3, <2>4
<1>3. QED
  BY <1>1, <1>2 DEF WebhookInv

LEMMA RetryKeeps ==
    ASSUME WebhookInv, NEW k \in Key, Retry(k)
    PROVE  WebhookInv'
<1>1. attempts[k] \in Nat /\ attempts[k] < MaxAttempts
  BY DEF WebhookInv, WebhookTypeOK, Retry, KeyInv, Parked, MaxAttempts
<1>2. attempts' \in [Key -> 0 .. MaxAttempts] /\ attempts'[k] = attempts[k] + 1
      /\ \A j \in Key : j # k => attempts'[j] = attempts[j]
  BY <1>1 DEF WebhookInv, WebhookTypeOK, Retry, MaxAttempts
<1>3. CASE registered
  <2>1. WebhookTypeOK'
    BY <1>2, <1>3 DEF WebhookInv, WebhookTypeOK, Retry, store, history
  <2>2. ASSUME NEW j \in Key PROVE KeyInv(j)'
    <3>1. KeyInv(j) /\ KeyInv(k)
      BY DEF WebhookInv
    <3>2. QED
      BY <1>2, <1>3, <3>1 DEF WebhookInv, WebhookTypeOK, Retry, store, history, KeyInv,
                              Untouched, Parked, Processed
  <2>3. QED
    BY <2>1, <2>2 DEF WebhookInv
<1>4. CASE ~registered
  <2>1. NotHandled(k, attempts[k] + 1) /\ job[k] # "none"
        /\ UNCHANGED <<registered, status, history, restarts>>
    BY <1>4 DEF Retry
  <2>2. QED
    BY <1>1, <1>2, <2>1, NotHandledKeeps
<1>5. QED
  BY <1>3, <1>4

LEMMA HandledKeeps ==
    ASSUME WebhookInv, NEW k \in Key, Handled(k)
    PROVE  WebhookInv'
<1>1. k[2] \in Reference /\ changes[k] = 0 /\ record[k] = "dlq"
  BY DEF WebhookInv, KeyInv, Parked, Handled, Key
<1>2. WebhookTypeOK'
  BY <1>1 DEF WebhookInv, WebhookTypeOK, Handled, store
<1>3. ASSUME NEW j \in Key PROVE KeyInv(j)'
  <2>1. KeyInv(j) /\ KeyInv(k) /\ j[2] \in Reference
    BY DEF WebhookInv, Key
  <2>2. /\ status[j[2]] \in {"pending_stellar", "error"}
              => status'[j[2]] \in {"pending_stellar", "error"}
        /\ status'[k[2]] = "pending_stellar"
    BY <1>1, <2>1 DEF WebhookInv, WebhookTypeOK, Handled
  <2>3. QED
    BY <1>1, <2>1, <2>2 DEF WebhookInv, WebhookTypeOK, Handled, store, KeyInv,
                            Untouched, Parked, Processed
<1>4. QED
  BY <1>2, <1>3 DEF WebhookInv

LEMMA RefusedKeeps ==
    ASSUME WebhookInv, NEW k \in Key, Refused(k)
    PROVE  WebhookInv'
<1>1. attempts[k] \in Nat
  BY DEF WebhookInv, WebhookTypeOK
<1>2. QED
  BY <1>1, NotHandledKeeps DEF WebhookInv, WebhookTypeOK, Refused

LEMMA WebhookRestartKeeps ==
    ASSUME WebhookInv, WebhookRestart
    PROVE  WebhookInv'
<1>1. settling' \in [Key -> BOOLEAN] /\ \A k \in Key : ~settling'[k]
  BY Zenon DEF WebhookRestart, Blank
<1>2. WebhookTypeOK'
  BY <1>1, WebhookAssumption DEF WebhookInv, WebhookTypeOK, WebhookRestart, Blank,
                                 MaxAttempts
<1>3. ASSUME NEW k \in Key PROVE KeyInv(k)'
  BY <1>1 DEF WebhookRestart, Blank, KeyInv, Untouched, Parked, Processed
<1>4. QED
  BY <1>2, <1>3 DEF WebhookInv

LEMMA ReceiveKeeps ==
    ASSUME WebhookInv, NEW k \in Key, NEW e \in Effect, Receive(k, e)
    PROVE  WebhookInv'
  BY ReplayKeeps, ProcessKeeps, ParkKeeps DEF Receive

LEMMA WebhookInductive ==
    ASSUME WebhookInv, [WebhookNext]_webhookVars
    PROVE  WebhookInv'
<1>1. ASSUME NEW r \in Reference, NEW b \in Body,
             ReceiveFlutterwave(r, b) \/ ReceivePaystack(r, b)
      PROVE  WebhookInv'
  <2>1. <<"flutterwave", r>> \in Key /\ <<"paystack", r>> \in Key
    BY DEF Key, Provider
  <2>2. QED
    BY <1>1, <2>1, EffectsAreEffects, ReceiveKeeps DEF ReceiveFlutterwave, ReceivePaystack
<1>2. ASSUME NEW r \in Reference, CreateTransaction(r) PROVE WebhookInv'
  BY <1>2, CreateKeeps
<1>3. ASSUME NEW k \in Key, Retry(k) \/ Handled(k) \/ Refused(k) PROVE WebhookInv'
  BY <1>3, RetryKeeps, HandledKeeps, RefusedKeeps
<1>4. CASE WebhookRestart
  BY <1>4, WebhookRestartKeeps
<1>5. CASE UNCHANGED webhookVars
  BY <1>5 DEF webhookVars, store, queue, history, WebhookInv, WebhookTypeOK, KeyInv,
              Untouched, Parked, Processed
<1>6. QED
  BY <1>1, <1>2, <1>3, <1>4, <1>5 DEF WebhookNext

\* The life cycle of a record holds for any references and restarts.
THEOREM WebhookHolds == WebhookSpec => []WebhookInv
<1>1. WebhookInit => WebhookInv
  BY WebhookInitially
<1>2. WebhookInv /\ [WebhookNext]_webhookVars => WebhookInv'
  BY WebhookInductive
<1>3. QED
  BY <1>1, <1>2, PTL DEF WebhookSpec

\* Statuses, records, jobs and counters keep their types; a job never makes
\* more than MAX_ATTEMPTS attempts (dlq.ts:26).
THEOREM WebhookTyped == WebhookSpec => []WebhookTypeOK
<1>1. WebhookInv => WebhookTypeOK
  BY DEF WebhookInv
<1>2. QED
  BY <1>1, WebhookHolds, PTL

\* Redeliveries and the queue together change a transaction at most once for
\* each provider, for any number of references.
THEOREM EffectsAreSingle == WebhookSpec => []OneEffectPerProvider
<1>1. WebhookInv => OneEffectPerProvider
  <2>1. SUFFICES ASSUME WebhookInv, NEW k \in Key
                 PROVE  /\ changes[k] <= 1
                        /\ job[k] # "none" => changes[k] = 0
                        /\ ~({"processed", "dlq"} \subseteq replies[k])
    BY DEF OneEffectPerProvider
  <2>2. KeyInv(k) /\ record[k] \in {"none", "processed", "dlq", "failed"}
    BY <2>1 DEF WebhookInv, WebhookTypeOK
  <2>3. QED
    BY <2>1, <2>2 DEF KeyInv, Untouched, Parked, Processed
<1>2. QED
  BY <1>1, WebhookHolds, PTL

\* An acknowledged settlement that left its transaction waiting has one of
\* three named reasons, for any number of references.
THEOREM LossesAreExplained == WebhookSpec => []SettlementLossHasCause
<1>1. WebhookInv => SettlementLossHasCause
  <2>1. SUFFICES ASSUME WebhookInv, NEW k \in Key, settling[k], status[k[2]] = "pending_sender"
                 PROVE  job[k] # "none" \/ record[k] = "failed" \/ first[k] # "pending_stellar"
    BY DEF SettlementLossHasCause
  <2>2. KeyInv(k) /\ record[k] \in {"none", "processed", "dlq", "failed"}
    BY <2>1 DEF WebhookInv, WebhookTypeOK
  <2>3. QED
    BY <2>1, <2>2 DEF KeyInv, Untouched, Parked, Processed
<1>2. QED
  BY <1>1, WebhookHolds, PTL

-------------------------------------------------------------------------------
(* EventStream. *)

\* Filtering a sequence.

\* Every nonempty set of naturals has a least element.
LEMMA LeastNatural ==
    ASSUME NEW T \in SUBSET Nat, T # {}
    PROVE  \E x \in T : \A y \in T : x <= y
<1>1. PICK x \in T : \A y \in T : ~(<<y, x>> \in OpToRel(<, Nat))
  BY NatLessThanWellFounded, WFMin, Zenon
<1>2. \A y \in T : ~(y < x)
  BY <1>1 DEF OpToRel
<1>3. QED
  BY <1>2

\* What the function f that filters s has to be up to its n-th element.
Filters(f, s, T, n) ==
    f = [i \in 0 .. n |-> IF i = 0 THEN <<>>
                          ELSE IF s[i] \in T THEN Append(f[i - 1], s[i]) ELSE f[i - 1]]

\* There is such a function, however long the sequence is.
LEMMA FilterExists ==
    ASSUME NEW s, NEW T, NEW n \in Nat
    PROVE  \E f : Filters(f, s, T, n)
<1> DEFINE Bad == {m \in Nat : ~ \E f : Filters(f, s, T, m)}
<1>1. SUFFICES ASSUME Bad # {} PROVE FALSE
  OBVIOUS
<1>2. PICK m \in Bad : \A k \in Bad : m <= k
  BY <1>1, LeastNatural
<1>3. m # 0
  <2>1. Filters([i \in 0 .. 0 |-> <<>>], s, T, 0)
    BY DEF Filters
  <2>2. QED
    BY <2>1
<1>4. m \in Nat /\ m - 1 \in Nat /\ m - 1 \notin Bad
  BY <1>2, <1>3
<1>5. PICK f : Filters(f, s, T, m - 1)
  BY <1>4
<1> DEFINE new == IF s[m] \in T THEN Append(f[m - 1], s[m]) ELSE f[m - 1]
           g == [i \in 0 .. m |-> IF i = m THEN new ELSE f[i]]
<1>6. \A i \in 0 .. m - 1 : g[i] = f[i]
  BY <1>4
<1>7. g[m] = new /\ g[m - 1] = f[m - 1]
  BY <1>3, <1>4
<1>8. ASSUME NEW i \in 0 .. m
      PROVE  g[i] = IF i = 0 THEN <<>>
                    ELSE IF s[i] \in T THEN Append(g[i - 1], s[i]) ELSE g[i - 1]
  <2>1. CASE i = m
    BY <2>1, <1>3, <1>7
  <2>2. CASE i # m
    <3>1. i \in 0 .. m - 1 /\ (i # 0 => i - 1 \in 0 .. m - 1)
      BY <2>2, <1>4
    <3>2. f[i] = IF i = 0 THEN <<>>
                 ELSE IF s[i] \in T THEN Append(f[i - 1], s[i]) ELSE f[i - 1]
      BY <3>1, <1>5 DEF Filters
    <3>3. QED
      BY <3>1, <3>2, <1>6
  <2>3. QED
    BY <2>1, <2>2
<1>9. Filters(g, s, T, m)
  <2> HIDE DEF new
  <2>1. g = [i \in 0 .. m |-> g[i]]
    OBVIOUS
  <2> HIDE DEF g
  <2>2. QED
    BY <2>1, <1>8 DEF Filters
<1>10. QED
  BY <1>9, <1>2

\* Filtered is the last value of that function.
LEMMA FilteredIs ==
    ASSUME NEW S, NEW s \in Seq(S), NEW T
    PROVE  \E f : Filters(f, s, T, Len(s)) /\ Filtered(s, T) = f[Len(s)]
<1> DEFINE f == CHOOSE g : Filters(g, s, T, Len(s))
<1>1. Filters(f, s, T, Len(s))
  <2>1. Len(s) \in Nat
    OBVIOUS
  <2>2. QED
    BY <2>1, FilterExists
<1>2. Filtered(s, T) = f[Len(s)]
  BY DEF Filtered, Filters
<1>3. QED
  BY <1>1, <1>2

\* What is left has the elements that are in T, in their order: `at' says where each
\* comes from.
Chooses(t, at, s, T, n) ==
    /\ at \in [1 .. Len(t) -> 1 .. n]
    /\ \A i \in 1 .. Len(t) : t[i] = s[at[i]] /\ t[i] \in T
    /\ \A i, j \in 1 .. Len(t) : i < j => at[i] < at[j]
    /\ \A k \in 1 .. n : s[k] \in T => \E i \in 1 .. Len(t) : at[i] = k

\* Filtering chooses: by induction on the length, as a least counterexample.
LEMMA Filtering ==
    ASSUME NEW S, NEW s \in Seq(S), NEW T
    PROVE  /\ Filtered(s, T) \in Seq(S)
           /\ \E at : Chooses(Filtered(s, T), at, s, T, Len(s))
<1>1. PICK f : Filters(f, s, T, Len(s)) /\ Filtered(s, T) = f[Len(s)]
  BY FilteredIs
<1> DEFINE Good(n) == f[n] \in Seq(S) /\ \E at : Chooses(f[n], at, s, T, n)
           Bad == {n \in 0 .. Len(s) : ~Good(n)}
<1>2. SUFFICES ASSUME Bad # {} PROVE FALSE
  BY <1>1
<1>3. PICK m \in Bad : \A k \in Bad : m <= k
  <2> HIDE DEF Good
  <2>1. Bad \in SUBSET Nat
    OBVIOUS
  <2>2. QED
    BY <2>1, <1>2, LeastNatural
<1>4. Len(s) \in Nat /\ m \in 0 .. Len(s)
  OBVIOUS
<1>5. m # 0
  <2>1. f[0] = <<>>
    BY <1>1, <1>4 DEF Filters
  <2>2. Chooses(<<>>, [i \in {} |-> 0], s, T, 0)
    BY DEF Chooses
  <2>3. <<>> \in Seq(S)
    OBVIOUS
  <2>4. Good(0)
    BY <2>1, <2>2, <2>3
  <2>5. QED
    BY <2>4
<1>6. m - 1 \in 0 .. Len(s) /\ Good(m - 1)
  <2> HIDE DEF Good
  <2>1. m - 1 \in 0 .. Len(s)
    BY <1>4, <1>5
  <2>2. QED
    BY <2>1, <1>3, <1>4
<1>7. PICK at : Chooses(f[m - 1], at, s, T, m - 1)
  BY <1>6
<1>8. f[m] = IF s[m] \in T THEN Append(f[m - 1], s[m]) ELSE f[m - 1]
  BY <1>1, <1>4, <1>5 DEF Filters
<1> DEFINE t == f[m - 1]
<1>9. t \in Seq(S) /\ s[m] \in S /\ Len(t) \in Nat
  BY <1>4, <1>5, <1>6
<1>10. CASE s[m] \in T
  <2> DEFINE u == Append(t, s[m])
             new == [i \in 1 .. Len(u) |-> IF i = Len(u) THEN m ELSE at[i]]
  <2>1. /\ u \in Seq(S) /\ Len(u) = Len(t) + 1 /\ u[Len(u)] = s[m]
        /\ \A i \in 1 .. Len(t) : u[i] = t[i]
    BY <1>9
  <2> HIDE DEF t, u
  <2>2. /\ at \in [1 .. Len(t) -> 1 .. m - 1]
        /\ \A i \in 1 .. Len(t) : t[i] = s[at[i]] /\ t[i] \in T
        /\ \A i, j \in 1 .. Len(t) : i < j => at[i] < at[j]
        /\ \A k \in 1 .. m - 1 : s[k] \in T => \E i \in 1 .. Len(t) : at[i] = k
    BY <1>7 DEF Chooses, t
  <2>3. new \in [1 .. Len(u) -> 1 .. m]
    BY <2>1, <2>2, <1>4, <1>5, <1>9
  <2>4. ASSUME NEW i \in 1 .. Len(u) PROVE u[i] = s[new[i]] /\ u[i] \in T
    <3>1. CASE i = Len(u)
      BY <3>1, <2>1, <1>10
    <3>2. CASE i # Len(u)
      <4>1. i \in 1 .. Len(t) /\ new[i] = at[i]
        BY <3>2, <2>1, <1>9
      <4>2. QED
        BY <4>1, <2>1, <2>2
    <3>3. QED
      BY <3>1, <3>2
  <2>5. \A i, j \in 1 .. Len(u) : i < j => new[i] < new[j]
    <3>1. TAKE i, j \in 1 .. Len(u)
    <3>2. HAVE i < j
    <3>3. i \in 1 .. Len(t) /\ new[i] = at[i] /\ at[i] \in 1 .. m - 1
      <4>1. i \in 1 .. Len(t) /\ i # Len(u)
        BY <2>1, <3>2, <1>9
      <4>2. QED
        BY <4>1, <2>2
    <3>4. CASE j = Len(u)
      BY <3>3, <3>4, <1>4
    <3>5. CASE j # Len(u)
      <4>1. j \in 1 .. Len(t) /\ new[j] = at[j]
        BY <3>5, <2>1, <1>9
      <4>2. QED
        BY <4>1, <3>2, <3>3, <2>2
    <3>6. QED
      BY <3>4, <3>5
  <2>6. \A k \in 1 .. m : s[k] \in T => \E i \in 1 .. Len(u) : new[i] = k
    <3>1. TAKE k \in 1 .. m
    <3>2. HAVE s[k] \in T
    <3>3. CASE k = m
      BY <3>3, <2>1, <1>9
    <3>4. CASE k # m
      <4>1. PICK i \in 1 .. Len(t) : at[i] = k
        BY <3>2, <3>4, <2>2, <1>4
      <4>2. QED
        BY <4>1, <2>1, <1>9
    <3>5. QED
      BY <3>3, <3>4
  <2>7. Chooses(u, new, s, T, m)
    BY <2>3, <2>4, <2>5, <2>6 DEF Chooses
  <2>8. Good(m)
    BY <2>1, <2>7, <1>8, <1>10 DEF u, t
  <2>9. QED
    BY <2>8
<1>11. CASE s[m] \notin T
  <2>1. Chooses(t, at, s, T, m)
    <3>1. at \in [1 .. Len(t) -> 1 .. m]
      BY <1>7, <1>4 DEF Chooses
    <3>2. \A k \in 1 .. m : s[k] \in T => \E i \in 1 .. Len(t) : at[i] = k
      BY <1>7, <1>11, <1>4 DEF Chooses
    <3>3. QED
      BY <1>7, <3>1, <3>2 DEF Chooses
  <2>2. Good(m)
    BY <2>1, <1>8, <1>9, <1>11
  <2>3. QED
    BY <2>2
<1>12. QED
  BY <1>10, <1>11
-------------------------------------------------------------------------------
\* Sequences of numbers in ascending order.

Ascending(s) == \A i, j \in 1 .. Len(s) : i < j => s[i] < s[j]
Members(s) == {s[i] : i \in 1 .. Len(s)}

\* Filtering keeps the order and the members that are in the set.
LEMMA FilteringAscending ==
    ASSUME NEW s \in Seq(Nat), Ascending(s), NEW T
    PROVE  /\ Filtered(s, T) \in Seq(Nat) /\ Ascending(Filtered(s, T))
           /\ Members(Filtered(s, T)) = Members(s) \cap T
<1> DEFINE t == Filtered(s, T)
<1>1. t \in Seq(Nat)
  BY Filtering
<1>2. PICK at : Chooses(t, at, s, T, Len(s))
  BY Filtering
<1> HIDE DEF t
<1>3. /\ at \in [1 .. Len(t) -> 1 .. Len(s)]
      /\ \A i \in 1 .. Len(t) : t[i] = s[at[i]] /\ t[i] \in T
      /\ \A i, j \in 1 .. Len(t) : i < j => at[i] < at[j]
      /\ \A k \in 1 .. Len(s) : s[k] \in T => \E i \in 1 .. Len(t) : at[i] = k
  BY <1>2 DEF Chooses
<1>4. Ascending(t)
  <2>1. \A i, j \in 1 .. Len(s) : i < j => s[i] < s[j]
    BY DEF Ascending
  <2>2. SUFFICES ASSUME NEW i \in 1 .. Len(t), NEW j \in 1 .. Len(t), i < j
                 PROVE  t[i] < t[j]
    BY DEF Ascending
  <2>3. at[i] \in 1 .. Len(s) /\ at[j] \in 1 .. Len(s) /\ at[i] < at[j]
    BY <2>2, <1>3
  <2>4. s[at[i]] < s[at[j]]
    BY <2>1, <2>3
  <2>5. QED
    BY <2>4, <1>3
<1>5. Members(t) = Members(s) \cap T
  <2>1. \A i \in 1 .. Len(t) : at[i] \in 1 .. Len(s)
    BY <1>3
  <2>2. Members(t) \subseteq Members(s) \cap T
    BY <2>1, <1>3 DEF Members
  <2>3. ASSUME NEW x \in Members(s) \cap T PROVE x \in Members(t)
    <3>1. PICK k \in 1 .. Len(s) : x = s[k]
      BY DEF Members
    <3>2. PICK i \in 1 .. Len(t) : at[i] = k
      BY <3>1, <1>3
    <3>3. QED
      BY <3>1, <3>2, <1>3 DEF Members
  <2>4. QED
    BY <2>2, <2>3
<1>6. QED
  BY <1>1, <1>4, <1>5 DEF t

-------------------------------------------------------------------------------
\* The inductive invariant.

\* A source belongs to a page that follows an id, and has not failed three times;
\* only an open one has bytes on their way.
Connected ==
    \A c \in Client :
        /\ conn[c] # "off" => view[c] # None /\ failures[c] < MaxConnectionFailures
        /\ conn[c] # "open" => wire[c] = <<>>

\* The events the store has of an id.
Stored(e) == {n \in 1 .. Len(log) : n > lost /\ log[n] = e}

\* What is on its way to a page is in order and of its id; it is all that is numbered
\* after the page's Last-Event-ID, and all that follows what it has of it.
Wired ==
    \A c \in Client : conn[c] = "open" =>
        /\ Ascending(wire[c]) /\ Members(wire[c]) \subseteq Stored(view[c])
        /\ \A n \in Stored(view[c]) : Number(n) > last[c] => n \in Members(wire[c])
        /\ \A m \in Members(wire[c]), n \in Stored(view[c]) : m < n => n \in Members(wire[c])

Received(c) == {i \in 1 .. Len(shown[c]) : ~shown[c][i].polled}
ReceivedIds(c) == {shown[c][i].id : i \in Received(c)}

\* What a page has received came in order, is of its id, and comes before all that is
\* on its way and all that is numbered after its Last-Event-ID.
InOrder ==
    \A c \in Client :
        /\ \A i, j \in Received(c) : i < j => shown[c][i].id < shown[c][j].id
        /\ view[c] # None =>
              \A i \in Received(c) :
                 /\ shown[c][i].of = view[c] /\ shown[c][i].id \in 1 .. Len(log)
                 /\ log[shown[c][i].id] = view[c] /\ shown[c][i].id <= lost + last[c]
                 /\ \A m \in Members(wire[c]) : shown[c][i].id < m

\* It is all there was up to its Last-Event-ID, what a restart let that number hide
\* apart; and only a restart leaves a page ahead of the store.
Complete ==
    \A c \in Client :
        /\ last[c] <= carried[c] \/ lost + last[c] <= Len(log)
        /\ view[c] # None =>
              \A n \in Stored(view[c]) :
                 Number(n) > carried[c] /\ Number(n) <= last[c] => n \in ReceivedIds(c)

StreamInv == TypeOK /\ Connected /\ Wired /\ InOrder /\ Complete
-------------------------------------------------------------------------------
\* The operators of the model.

\* Numbers of the log in order.
LEMMA Numbers ==
    ASSUME TypeOK
    PROVE  LET s == [n \in 1 .. Len(log) |-> n]
           IN  /\ s \in Seq(1 .. MaxEvents) /\ Ascending(s) /\ Members(s) = 1 .. Len(log)
               /\ Len(log) \in Nat
<1> DEFINE s == [n \in 1 .. Len(log) |-> n]
<1>1. Len(log) \in Nat /\ MaxEvents \in Nat /\ Len(log) <= MaxEvents
  BY EventStreamAssumption DEF TypeOK
<1>2. s \in Seq(1 .. MaxEvents) /\ Len(s) = Len(log)
  BY <1>1
<1>3. Ascending(s) /\ Members(s) = 1 .. Len(log)
  BY <1>1, <1>2 DEF Ascending, Members
<1>4. QED
  BY <1>1, <1>2, <1>3

\* EventsOf lists the events of an id, in order.
LEMMA EventsInOrder ==
    ASSUME TypeOK, NEW e
    PROVE  /\ EventsOf(e) \in Seq(1 .. MaxEvents) /\ EventsOf(e) \in Seq(Nat)
           /\ Ascending(EventsOf(e)) /\ Members(EventsOf(e)) = Stored(e)
<1> DEFINE s == [n \in 1 .. Len(log) |-> n]
           T == {n \in 1 .. Len(log) : n > lost /\ log[n] = e}
<1>1. /\ s \in Seq(1 .. MaxEvents) /\ s \in Seq(Nat) /\ Ascending(s)
      /\ Members(s) = 1 .. Len(log)
  BY Numbers
<1>2. EventsOf(e) = Filtered(s, T)
  BY DEF EventsOf
<1> HIDE DEF s
<1>3. Filtered(s, T) \in Seq(1 .. MaxEvents)
  BY <1>1, Filtering
<1>4. /\ Filtered(s, T) \in Seq(Nat) /\ Ascending(Filtered(s, T))
      /\ Members(Filtered(s, T)) = Members(s) \cap T
  BY <1>1, FilteringAscending
<1>5. Members(s) \cap T = Stored(e)
  BY <1>1 DEF Stored
<1>6. QED
  BY <1>1, <1>2, <1>3, <1>4, <1>5

\* Since lists those numbered after a Last-Event-ID, in order.
LEMMA SinceInOrder ==
    ASSUME TypeOK, NEW e, NEW k \in Nat
    PROVE  /\ Since(e, k) \in Seq(1 .. MaxEvents) /\ Ascending(Since(e, k))
           /\ Members(Since(e, k)) = {n \in Stored(e) : Number(n) > k}
<1> DEFINE s == EventsOf(e)
           T == (lost + k + 1) .. Len(log)
<1>1. /\ s \in Seq(1 .. MaxEvents) /\ s \in Seq(Nat) /\ Ascending(s)
      /\ Members(s) = Stored(e)
  BY EventsInOrder
<1>2. Since(e, k) = Filtered(s, T)
  BY DEF Since
<1> HIDE DEF s
<1>3. Filtered(s, T) \in Seq(1 .. MaxEvents)
  BY <1>1, Filtering
<1>4. Ascending(Filtered(s, T)) /\ Members(Filtered(s, T)) = Members(s) \cap T
  BY <1>1, FilteringAscending
<1>5. Len(log) \in Nat /\ lost \in Nat
  BY Numbers DEF TypeOK
<1>6. Members(s) \cap T = {n \in Stored(e) : Number(n) > k}
  BY <1>1, <1>5 DEF Stored, Number
<1>7. QED
  BY <1>2, <1>3, <1>4, <1>6

\* Latest is a number of the log, or zero.
LEMMA LatestTyped ==
    ASSUME TypeOK, NEW e
    PROVE  Latest(e) \in 0 .. MaxEvents
<1>1. EventsOf(e) \in Seq(1 .. MaxEvents) /\ MaxEvents \in Nat
  BY EventsInOrder, EventStreamAssumption
<1>2. ASSUME EventsOf(e) # <<>> PROVE Last(EventsOf(e)) \in 1 .. MaxEvents
  BY <1>1, <1>2 DEF Last
<1>3. QED
  BY <1>1, <1>2 DEF Latest

\* The kinds of steps there are.
Publishes(e) ==
    /\ \E to \in States \ {"none", "gone"} : state' = [state EXCEPT ![e] = to]
    /\ Publish(e)

Lists(e) ==
    /\ state[e] = "none" /\ state' = [state EXCEPT ![e] = "listed"]
    /\ UNCHANGED <<kind, log, lost, browser, hook, polls, faults>>

Fails(c) ==
    /\ conn[c] \in {"open", "connecting"} /\ faults' \in 0 .. MaxFaults
    /\ \E after \in {"connecting", "failed"} : OnError(c, after)

Asks(c) ==
    /\ \/ view[c] # None /\ Live(view[c])
              /\ polls' = [polls EXCEPT ![c] = @ \cup {Polled(view[c])}]
       \/ \E a \in polls[c] : polls' = [polls EXCEPT ![c] = @ \ {a}]
    /\ faults' \in 0 .. MaxFaults
    /\ UNCHANGED <<server, browser, hook>>

\* Every step is of one of these kinds.
LEMMA StepKinds ==
    ASSUME TypeOK, [Next]_vars
    PROVE  \/ UNCHANGED vars \/ Restart
           \/ \E e \in Id : Publishes(e) \/ Lists(e)
           \/ \E c \in Client :
                \/ \E e \in Id \cup {None} : View(c, e)
                \/ view[c] # None /\ Stream(c)
                \/ Deliver(c) \/ Fails(c) \/ Asks(c)
                \/ \E a \in polls[c] : PollArrive(c, a)
<1>0. MaxFaults \in Nat
  BY EventStreamAssumption
<1>1. ASSUME NEW e \in Id,
             CreateEscrow(e) \/ ReleaseEscrow(e) \/ DisputeEscrow(e) \/ PublishTransaction(e)
      PROVE  Publishes(e)
  BY <1>1 DEF CreateEscrow, ReleaseEscrow, DisputeEscrow, PublishTransaction, Publishes,
              States
<1>2. ASSUME NEW e \in Id, ListTransaction(e) PROVE Lists(e)
  BY <1>2 DEF ListTransaction, Lists
<1>3. ASSUME NEW c \in Client, Disconnect(c) \/ Reject(c) PROVE Fails(c)
  BY <1>0, <1>3 DEF Disconnect, Reject, Fails, TypeOK
<1>4. ASSUME NEW c \in Client, PollEscrow(c) \/ PollTransaction(c) \/ PollLost(c) PROVE Asks(c)
  <2>1. CASE PollEscrow(c) \/ PollTransaction(c)
    <3>1. faults' = faults /\ faults \in 0 .. MaxFaults
      BY <2>1 DEF PollEscrow, PollTransaction, Poll, TypeOK
    <3>2. QED
      BY <2>1, <3>1, Zenon DEF PollEscrow, PollTransaction, Poll, Asks
  <2>2. CASE PollLost(c)
    <3>1. faults' \in 0 .. MaxFaults
      BY <1>0, <2>2 DEF PollLost, TypeOK
    <3>2. QED
      BY <2>2, <3>1, Zenon DEF PollLost, Asks
  <2>3. QED
    BY <1>4, <2>1, <2>2
<1>5. CASE UNCHANGED vars \/ Restart
  BY <1>5
<1>6. ASSUME NEW e \in Id, \/ CreateEscrow(e) \/ ReleaseEscrow(e) \/ DisputeEscrow(e)
                           \/ ListTransaction(e) \/ PublishTransaction(e)
      PROVE  Publishes(e) \/ Lists(e)
  BY <1>1, <1>2, <1>6
<1>7. ASSUME NEW c \in Client, StreamEscrow(c) \/ StreamTransaction(c)
      PROVE  view[c] # None /\ Stream(c)
  BY <1>7 DEF StreamEscrow, StreamTransaction
<1>8. QED
  BY <1>3, <1>4, <1>5, <1>6, <1>7 DEF Next
-------------------------------------------------------------------------------
\* Every part of the invariant holds at first and is kept by every step.

LEMMA StreamInitially == Init => StreamInv
<1>1. SUFFICES ASSUME Init PROVE StreamInv
  OBVIOUS
<1>2. MaxEvents \in Nat /\ MaxFaults \in Nat /\ MaxConnectionFailures \in Nat
  BY EventStreamAssumption DEF MaxConnectionFailures
<1>3. TypeOK
  <2>1. log \in Seq(Id) /\ Len(log) = 0 /\ Len(log) <= MaxEvents /\ lost \in 0 .. Len(log)
    BY <1>1, <1>2 DEF Init
  <2>2. wire \in [Client -> Seq(1 .. MaxEvents)] /\ shown \in [Client -> Seq(Entries)]
    BY <1>1 DEF Init
  <2>3. /\ last \in [Client -> 0 .. MaxEvents] /\ faults \in 0 .. MaxFaults
        /\ carried \in [Client -> 0 .. MaxEvents]
        /\ failures \in [Client -> 0 .. MaxConnectionFailures]
    BY <1>1, <1>2 DEF Init
  <2>4. timer \in [Client -> BOOLEAN] /\ polls \in [Client -> SUBSET Answers]
    BY <1>1 DEF Init
  <2>5. QED
    BY <1>1, <2>1, <2>2, <2>3, <2>4 DEF Init, TypeOK, States
<1>4. Connected /\ Wired
  BY <1>1 DEF Init, Connected, Wired
<1>5. InOrder /\ Complete
  BY <1>1 DEF Init, InOrder, Complete, Received, Members
<1>6. QED
  BY <1>3, <1>4, <1>5 DEF StreamInv

\* The types are kept; a delivered event is one of the store, because of Wired.
LEMMA TypesStep ==
    ASSUME TypeOK, Connected, Wired, [Next]_vars
    PROVE  TypeOK'
<1>0. /\ MaxEvents \in Nat /\ MaxFaults \in Nat /\ Len(log) \in Nat /\ lost \in 0 .. Len(log)
      /\ MaxConnectionFailures = 3
  BY EventStreamAssumption DEF MaxConnectionFailures, TypeOK
<1>1. CASE UNCHANGED vars
  BY <1>1 DEF TypeOK, vars
<1>2. CASE Restart
  <2>1. state' \in [Id -> States]
    BY <1>2 DEF Restart, TypeOK, States
  <2>2. /\ log' \in Seq(Id) /\ Len(log') <= MaxEvents /\ lost' \in 0 .. Len(log')
        /\ carried' \in [Client -> 0 .. MaxEvents]
    BY <1>0, <1>2 DEF Restart, TypeOK
  <2>3. wire' \in [Client -> Seq(1 .. MaxEvents)]
    BY <1>2 DEF Restart
  <2>4. /\ conn' \in [Client -> {"off", "connecting", "open", "failed"}]
        /\ mode' \in [Client -> {"connecting", "live", "reconnecting", "polling"}]
    BY <1>2 DEF Restart, TypeOK
  <2>5. timer' \in [Client -> BOOLEAN]
    BY <1>2, Zenon DEF Restart
  <2>6. failures' \in [Client -> 0 .. MaxConnectionFailures]
    <3>1. ASSUME NEW c \in Client, conn[c] = "open"
          PROVE  failures[c] + 1 \in 0 .. MaxConnectionFailures
      <4>1. failures[c] \in 0 .. 3
        BY <1>0 DEF TypeOK
      <4>2. failures[c] < 3
        BY <1>0, <3>1 DEF Connected
      <4>3. QED
        BY <1>0, <4>1, <4>2
    <3>2. failures' = [c \in Client |-> IF conn[c] = "open" THEN failures[c] + 1
                                        ELSE failures[c]]
      BY <1>2 DEF Restart
    <3>3. QED
      BY <3>1, <3>2 DEF TypeOK
  <2>7. faults' \in 0 .. MaxFaults
    BY <1>0, <1>2 DEF Restart, TypeOK
  <2>8. UNCHANGED <<kind, last, view, polls, shown>>
    BY <1>2 DEF Restart
  <2>9. QED
    BY <2>1, <2>2, <2>3, <2>4, <2>5, <2>6, <2>7, <2>8 DEF TypeOK
<1>3. ASSUME NEW e \in Id, Publishes(e) PROVE TypeOK'
  <2>1. state' \in [Id -> States]
    BY <1>3 DEF Publishes, TypeOK
  <2>2. log' \in Seq(Id) /\ Len(log') <= MaxEvents /\ lost' \in 0 .. Len(log')
    BY <1>0, <1>3 DEF Publishes, Publish, TypeOK
  <2>3. Len(log) + 1 \in 1 .. MaxEvents
    BY <1>0, <1>3 DEF Publishes, Publish
  <2>4. wire' \in [Client -> Seq(1 .. MaxEvents)]
    <3>1. ASSUME NEW c \in Client PROVE Append(wire[c], Len(log) + 1) \in Seq(1 .. MaxEvents)
      BY <2>3, <3>1 DEF TypeOK
    <3>2. QED
      BY <1>3, <3>1 DEF Publishes, Publish, TypeOK
  <2>5. UNCHANGED <<kind, conn, last, carried, hook, polls, faults>>
    BY <1>3 DEF Publishes, Publish
  <2>6. QED
    BY <2>1, <2>2, <2>4, <2>5 DEF TypeOK, hook
<1>4. ASSUME NEW e \in Id, Lists(e) PROVE TypeOK'
  BY <1>4 DEF Lists, TypeOK, States, browser, hook
<1>5. ASSUME NEW c \in Client, NEW e \in Id \cup {None}, View(c, e) PROVE TypeOK'
  <2>1. wire' \in [Client -> Seq(1 .. MaxEvents)]
    BY <1>5 DEF View, TypeOK
  <2>2. last' \in [Client -> 0 .. MaxEvents] /\ carried' \in [Client -> 0 .. MaxEvents]
    BY <1>0, <1>5 DEF View, TypeOK
  <2>3. timer' \in [Client -> BOOLEAN]
    BY <1>5 DEF View, TypeOK
  <2>4. /\ conn' \in [Client -> {"off", "connecting", "open", "failed"}]
        /\ view' \in [Client -> Id \cup {None}]
    BY <1>5 DEF View, TypeOK
  <2>5. \/ UNCHANGED <<failures, mode, shown>>
        \/ /\ failures' = [failures EXCEPT ![c] = 0]
           /\ mode' = [mode EXCEPT ![c] = "connecting"]
           /\ shown' = [shown EXCEPT ![c] = <<>>]
    BY <1>5 DEF View
  <2>6. failures' \in [Client -> 0 .. MaxConnectionFailures]
    <3>1. failures \in [Client -> 0 .. MaxConnectionFailures] /\ 0 \in 0 .. MaxConnectionFailures
      BY <1>0 DEF TypeOK
    <3>2. failures' = failures \/ failures' = [failures EXCEPT ![c] = 0]
      BY <2>5
    <3>3. QED
      BY <3>1, <3>2
  <2>7. /\ mode' \in [Client -> {"connecting", "live", "reconnecting", "polling"}]
        /\ shown' \in [Client -> Seq(Entries)]
    <3>1. mode' = mode \/ mode' = [mode EXCEPT ![c] = "connecting"]
      BY <2>5
    <3>2. shown' = shown \/ shown' = [shown EXCEPT ![c] = <<>>]
      BY <2>5
    <3>3. mode' \in [Client -> {"connecting", "live", "reconnecting", "polling"}]
      BY <3>1 DEF TypeOK
    <3>4. shown' \in [Client -> Seq(Entries)]
      <4>1. shown \in [Client -> Seq(Entries)] /\ <<>> \in Seq(Entries)
        BY DEF TypeOK
      <4>2. QED
        BY <3>2, <4>1
    <3>5. QED
      BY <3>3, <3>4
  <2>8. UNCHANGED <<server, polls, faults>>
    BY <1>5 DEF View
  <2>9. QED
    BY <2>1, <2>2, <2>3, <2>4, <2>5, <2>6, <2>7, <2>8 DEF TypeOK, server
<1>6. ASSUME NEW c \in Client, Stream(c) PROVE TypeOK'
  <2>1. Since(view[c], last[c]) \in Seq(1 .. MaxEvents)
    BY <1>0, SinceInOrder DEF TypeOK
  <2>2. wire' \in [Client -> Seq(1 .. MaxEvents)]
    BY <2>1, <1>6 DEF Stream, TypeOK
  <2>3. failures' \in [Client -> 0 .. MaxConnectionFailures]
    BY <1>0, <1>6 DEF Stream, TypeOK
  <2>4. QED
    BY <2>2, <2>3, <1>6 DEF Stream, TypeOK, server
<1>7. ASSUME NEW c \in Client, Deliver(c) PROVE TypeOK'
  <2>1. /\ Head(wire[c]) \in 1 .. MaxEvents /\ Head(wire[c]) \in 0 .. MaxEvents
        /\ Tail(wire[c]) \in Seq(1 .. MaxEvents)
    BY <1>0, <1>7 DEF Deliver, TypeOK
  <2>2. Head(wire[c]) \in Stored(view[c])
    BY <1>7 DEF Deliver, Wired, Members, TypeOK
  <2>3. Streamed(Head(wire[c])) \in Entries
    <3>1. log[Head(wire[c])] \in Id
      BY <1>0, <2>2 DEF Stored, TypeOK
    <3>2. QED
      BY <2>1, <3>1 DEF Streamed, Entries
  <2>4. shown' \in [Client -> Seq(Entries)]
    <3>1. Append(shown[c], Streamed(Head(wire[c]))) \in Seq(Entries)
      BY <2>3 DEF TypeOK
    <3>2. QED
      BY <3>1, <1>7 DEF Deliver, TypeOK
  <2>5. wire' \in [Client -> Seq(1 .. MaxEvents)] /\ last' \in [Client -> 0 .. MaxEvents]
    <3>1. Number(Head(wire[c])) \in 0 .. MaxEvents
      BY <1>0, <2>1, <2>2 DEF Number, Stored
    <3>2. QED
      BY <2>1, <3>1, <1>7 DEF Deliver, TypeOK
  <2>6. /\ failures' \in [Client -> 0 .. MaxConnectionFailures]
        /\ mode' \in [Client -> {"connecting", "live", "reconnecting", "polling"}]
    <3>1. /\ failures' = [failures EXCEPT ![c] = 0]
          /\ failures \in [Client -> 0 .. MaxConnectionFailures]
      BY <1>7 DEF Deliver, TypeOK
    <3>2. failures' \in [Client -> 0 .. MaxConnectionFailures]
      BY <1>0, <3>1
    <3>3. mode' \in [Client -> {"connecting", "live", "reconnecting", "polling"}]
      BY <1>7 DEF Deliver, TypeOK
    <3>4. QED
      BY <3>2, <3>3
  <2>7. UNCHANGED <<server, conn, carried, view, timer, polls, faults>>
    BY <1>7 DEF Deliver
  <2>8. QED
    BY <2>4, <2>5, <2>6, <2>7 DEF TypeOK, server
<1>8. ASSUME NEW c \in Client, view[c] # None PROVE Polled(view[c]) \in Answers
  <2>1. view[c] \in Id /\ Latest(view[c]) \in 0 .. MaxEvents
    BY <1>8, LatestTyped DEF TypeOK
  <2>2. QED
    BY <2>1 DEF Polled, Answers
<1>9. ASSUME NEW c \in Client, Fails(c) PROVE TypeOK'
  <2>1. PICK after \in {"connecting", "failed"} : OnError(c, after)
    BY <1>9 DEF Fails
  <2>2. failures[c] + 1 \in 0 .. MaxConnectionFailures
    <3>1. conn[c] # "off"
      BY <1>9 DEF Fails
    <3>2. failures[c] < MaxConnectionFailures /\ failures[c] \in 0 .. MaxConnectionFailures
      BY <3>1 DEF Connected, TypeOK
    <3>3. QED
      BY <1>0, <3>2
  <2>3. failures' \in [Client -> 0 .. MaxConnectionFailures]
    BY <2>1, <2>2 DEF OnError, TypeOK
  <2>4. wire' \in [Client -> Seq(1 .. MaxEvents)]
    BY <2>1 DEF OnError, TypeOK
  <2>5. \/ /\ conn' = [conn EXCEPT ![c] = "off"]
           /\ mode' = [mode EXCEPT ![c] = "polling"]
           /\ timer' = [timer EXCEPT ![c] = TRUE]
           /\ EscrowPolling(c) \/ TransactionPolling(c)
        \/ /\ conn' = [conn EXCEPT ![c] = after]
           /\ mode' = [mode EXCEPT ![c] = "reconnecting"]
           /\ UNCHANGED <<timer, polls>>
    BY <2>1 DEF OnError
  <2>6. /\ conn' \in [Client -> {"off", "connecting", "open", "failed"}]
        /\ mode' \in [Client -> {"connecting", "live", "reconnecting", "polling"}]
    BY <2>5 DEF TypeOK
  <2>7. timer' \in [Client -> BOOLEAN]
    BY <2>5 DEF TypeOK
  <2>8. polls' \in [Client -> SUBSET Answers]
    <3>1. \/ UNCHANGED polls
          \/ polls' = [polls EXCEPT ![c] = @ \cup {Polled(view[c])}]
      BY <2>5 DEF EscrowPolling, TransactionPolling
    <3>2. Polled(view[c]) \in Answers
      BY <1>8, <1>9 DEF Fails, Connected
    <3>3. polls \in [Client -> SUBSET Answers]
      BY DEF TypeOK
    <3>4. QED
      BY <3>1, <3>2, <3>3
  <2>9. UNCHANGED <<server, view, last, carried, shown>> /\ faults' \in 0 .. MaxFaults
    BY <2>1, <1>9 DEF OnError, Fails
  <2>10. QED
    BY <2>3, <2>4, <2>6, <2>7, <2>8, <2>9 DEF TypeOK, server
<1>10. ASSUME NEW c \in Client, Asks(c) PROVE TypeOK'
  <2>1. polls' \in [Client -> SUBSET Answers]
    <3>1. \/ view[c] # None /\ polls' = [polls EXCEPT ![c] = @ \cup {Polled(view[c])}]
          \/ \E a \in polls[c] : polls' = [polls EXCEPT ![c] = @ \ {a}]
      BY <1>10 DEF Asks
    <3>2. CASE view[c] # None /\ polls' = [polls EXCEPT ![c] = @ \cup {Polled(view[c])}]
      <4>1. Polled(view[c]) \in Answers
        BY <1>8, <3>2
      <4>2. QED
        BY <3>2, <4>1 DEF TypeOK
    <3>3. CASE \E a \in polls[c] : polls' = [polls EXCEPT ![c] = @ \ {a}]
      BY <3>3 DEF TypeOK
    <3>4. QED
      BY <3>1, <3>2, <3>3
  <2>2. UNCHANGED <<server, browser, hook>> /\ faults' \in 0 .. MaxFaults
    BY <1>10 DEF Asks
  <2>3. QED
    BY <2>1, <2>2 DEF TypeOK, server, browser, hook
<1>11. ASSUME NEW c \in Client, NEW a \in polls[c], PollArrive(c, a) PROVE TypeOK'
  <2>1. polls' \in [Client -> SUBSET Answers]
    BY <1>11 DEF PollArrive, TypeOK
  <2>2. shown' \in [Client -> Seq(Entries)]
    <3>1. a \in Entries
      BY <1>11 DEF TypeOK, Entries
    <3>2. Append(shown[c], a) \in Seq(Entries)
      BY <3>1 DEF TypeOK
    <3>3. shown' = shown \/ shown' = [shown EXCEPT ![c] = Append(shown[c], a)]
      BY <1>11 DEF PollArrive
    <3>4. QED
      BY <3>2, <3>3 DEF TypeOK
  <2>3. UNCHANGED <<server, browser, view, failures, mode, timer, faults>>
    BY <1>11 DEF PollArrive
  <2>4. QED
    BY <2>1, <2>2, <2>3 DEF TypeOK, server, browser
<1>12. QED
  BY <1>1, <1>2, <1>3, <1>4, <1>5, <1>6, <1>7, <1>9, <1>10, <1>11, StepKinds

\* A page is left as it is by the steps of the others.
Kept(d) ==
    /\ view'[d] = view[d] /\ conn'[d] = conn[d] /\ wire'[d] = wire[d]
    /\ last'[d] = last[d] /\ failures'[d] = failures[d] /\ shown'[d] = shown[d]
    /\ carried'[d] = carried[d]

LEMMA OthersKept ==
    ASSUME TypeOK, NEW c \in Client, NEW d \in Client, d # c,
           \/ \E e \in Id \cup {None} : View(c, e)
           \/ Stream(c) \/ Deliver(c) \/ Fails(c) \/ Asks(c)
           \/ \E a \in polls[c] : PollArrive(c, a)
    PROVE  Kept(d)
<1>1. ASSUME NEW e \in Id \cup {None}, View(c, e) PROVE Kept(d)
  <2>1. \/ UNCHANGED <<failures, mode, shown>>
        \/ /\ failures' = [failures EXCEPT ![c] = 0]
           /\ shown' = [shown EXCEPT ![c] = <<>>]
    BY <1>1 DEF View
  <2>2. failures'[d] = failures[d] /\ shown'[d] = shown[d]
    BY <2>1 DEF TypeOK
  <2>3. QED
    BY <1>1, <2>2 DEF View, Kept, TypeOK
<1>2. CASE Stream(c)
  BY <1>2 DEF Stream, Kept, TypeOK
<1>3. CASE Deliver(c)
  BY <1>3 DEF Deliver, Kept, TypeOK
<1>4. CASE Fails(c)
  <2>1. conn'[d] = conn[d]
    BY <1>4 DEF Fails, OnError, TypeOK
  <2>2. QED
    BY <1>4, <2>1 DEF Fails, OnError, Kept, TypeOK
<1>5. CASE Asks(c)
  BY <1>5 DEF Asks, Kept, browser, hook
<1>6. ASSUME NEW a \in polls[c], PollArrive(c, a) PROVE Kept(d)
  <2>1. shown' = shown \/ shown' = [shown EXCEPT ![c] = Append(@, a)]
    BY <1>6 DEF PollArrive
  <2>2. shown'[d] = shown[d]
    BY <2>1 DEF TypeOK
  <2>3. QED
    BY <1>6, <2>2 DEF PollArrive, Kept, browser
<1>7. QED
  BY <1>1, <1>2, <1>3, <1>4, <1>5, <1>6

\* A restart ends what streams, and View the source of the page it leaves.
LEMMA ConnectedStep ==
    ASSUME TypeOK, Connected, [Next]_vars
    PROVE  Connected'
<1> DEFINE Ok(d) == /\ conn[d] # "off" => view[d] # None /\ failures[d] < MaxConnectionFailures
                    /\ conn[d] # "open" => wire[d] = <<>>
<1>0. /\ MaxConnectionFailures = 3 /\ failures \in [Client -> 0 .. 3]
      /\ conn \in [Client -> {"off", "connecting", "open", "failed"}]
      /\ view \in [Client -> Id \cup {None}]
  BY DEF MaxConnectionFailures, TypeOK
<1>1. SUFFICES ASSUME NEW d \in Client PROVE Ok(d)'
  BY DEF Connected
<1>2. Ok(d)
  BY DEF Connected
<1>3. CASE UNCHANGED vars
  BY <1>2, <1>3 DEF vars
<1>4. CASE Restart
  <2>1. view' = view /\ wire'[d] = <<>>
    BY <1>4 DEF Restart
  <2>2. /\ conn[d] # "open" => conn'[d] = conn[d] /\ failures'[d] = failures[d]
        /\ conn[d] = "open" =>
             /\ failures'[d] = failures[d] + 1
             /\ conn'[d] = IF failures[d] + 1 >= MaxConnectionFailures THEN "off"
                           ELSE "connecting"
    BY <1>4 DEF Restart
  <2>3. QED
    BY <1>0, <1>2, <2>1, <2>2
<1>5. ASSUME NEW e \in Id, Publishes(e) \/ Lists(e) PROVE Ok(d)'
  <2>1. UNCHANGED <<conn, view, failures>>
    BY <1>5 DEF Publishes, Publish, Lists, browser, hook
  <2>2. conn[d] # "open" => wire'[d] = wire[d]
    BY <1>5 DEF Publishes, Publish, Lists, browser
  <2>3. QED
    BY <1>2, <2>1, <2>2
<1>6. ASSUME NEW c \in Client, Kept(d) PROVE Ok(d)'
  BY <1>2, <1>6 DEF Kept
<1>7. ASSUME NEW e \in Id \cup {None}, View(d, e) PROVE Ok(d)'
  <2>1. /\ wire'[d] = <<>> /\ view'[d] = e
        /\ conn'[d] = IF e = None THEN "off" ELSE "connecting"
    BY <1>0, <1>7 DEF View, TypeOK
  <2>2. e # None => failures'[d] = 0
    BY <1>0, <1>7 DEF View
  <2>3. QED
    BY <1>0, <2>1, <2>2
<1>8. CASE view[d] # None /\ Stream(d)
  <2>1. conn'[d] = "open" /\ failures'[d] = 0 /\ UNCHANGED view
    BY <1>0, <1>8 DEF Stream
  <2>2. QED
    BY <1>0, <1>8, <2>1
<1>9. CASE Deliver(d)
  <2>1. conn[d] = "open" /\ failures'[d] = 0 /\ UNCHANGED <<conn, view>>
    BY <1>0, <1>9 DEF Deliver
  <2>2. QED
    BY <1>0, <1>2, <2>1
<1>10. CASE Fails(d)
  <2>1. PICK after \in {"connecting", "failed"} : OnError(d, after)
    BY <1>10 DEF Fails
  <2>2. wire'[d] = <<>> /\ view' = view /\ view[d] # None /\ failures'[d] = failures[d] + 1
    BY <1>0, <1>2, <1>10, <2>1 DEF OnError, Fails, TypeOK
  <2>3. conn'[d] = IF failures[d] + 1 >= MaxConnectionFailures THEN "off" ELSE after
    BY <1>0, <2>1 DEF OnError
  <2>4. QED
    BY <1>0, <2>2, <2>3
<1>11. CASE Asks(d) \/ \E a \in polls[d] : PollArrive(d, a)
  BY <1>2, <1>11 DEF Asks, PollArrive, browser, hook
<1>12. ASSUME NEW c \in Client,
              \/ \E e \in Id \cup {None} : View(c, e)
              \/ view[c] # None /\ Stream(c)
              \/ Deliver(c) \/ Fails(c) \/ Asks(c)
              \/ \E a \in polls[c] : PollArrive(c, a)
       PROVE  Ok(d)'
  <2>1. CASE c = d
    BY <1>7, <1>8, <1>9, <1>10, <1>11, <1>12, <2>1
  <2>2. CASE c # d
    <3>1. Kept(d)
      BY <1>12, <2>2, OthersKept
    <3>2. QED
      BY <1>6, <3>1
  <2>3. QED
    BY <2>1, <2>2
<1>13. QED
  <2> HIDE DEF Ok
  <2>1. QED
    BY <1>3, <1>4, <1>5, <1>12, StepKinds

\* The event that is delivered is the first of those on their way.
LEMMA HeadIsNext ==
    ASSUME TypeOK, Connected, Wired, NEW c \in Client, Deliver(c)
    PROVE  /\ view[c] \in Id
           /\ Head(wire[c]) \in Members(wire[c]) /\ Head(wire[c]) \in Stored(view[c])
           /\ \A n \in Members(wire[c]) : Head(wire[c]) <= n
           /\ Ascending(Tail(wire[c]))
           /\ Members(Tail(wire[c])) = {n \in Members(wire[c]) : n > Head(wire[c])}
<1> DEFINE w == wire[c]
<1>1. w \in Seq(Nat) /\ w # <<>> /\ Ascending(w) /\ Members(w) \subseteq Stored(view[c])
  <2>1. w \in Seq(1 .. MaxEvents) /\ MaxEvents \in Nat
    BY EventStreamAssumption DEF TypeOK
  <2>2. w \in Seq(Nat)
    BY <2>1
  <2>3. conn[c] = "open" /\ w # <<>>
    BY DEF Deliver
  <2>4. Ascending(w) /\ Members(w) \subseteq Stored(view[c])
    BY <2>3 DEF Wired
  <2>5. QED
    BY <2>2, <2>3, <2>4
<1>2. view[c] \in Id
  BY DEF Deliver, Connected, TypeOK
<1> HIDE DEF w
<1>3. /\ Len(w) \in Nat /\ Len(w) >= 1 /\ Head(w) = w[1]
      /\ Tail(w) \in Seq(Nat) /\ Len(Tail(w)) = Len(w) - 1
      /\ \A i \in 1 .. Len(w) - 1 : Tail(w)[i] = w[i + 1]
      /\ \A i, j \in 1 .. Len(w) : w[i] \in Nat /\ (i < j => w[i] < w[j])
  BY <1>1 DEF Ascending
<1>4. Head(w) \in Members(w)
  BY <1>3 DEF Members
<1>5. ASSUME NEW n \in Members(w) PROVE Head(w) <= n
  <2>1. PICK i \in 1 .. Len(w) : w[i] = n
    BY DEF Members
  <2>2. 1 \in 1 .. Len(w)
    BY <1>3
  <2>3. QED
    BY <1>3, <2>1, <2>2
<1>6. Ascending(Tail(w))
  BY <1>3 DEF Ascending
<1>7. Members(Tail(w)) = {n \in Members(w) : n > Head(w)}
  <2>1. ASSUME NEW n \in Members(Tail(w)) PROVE n \in Members(w) /\ n > Head(w)
    <3>1. PICK i \in 1 .. Len(w) - 1 : n = w[i + 1]
      BY <1>3 DEF Members
    <3>2. i + 1 \in 1 .. Len(w) /\ 1 \in 1 .. Len(w) /\ 1 < i + 1
      BY <1>3, <3>1
    <3>3. w[1] < w[i + 1] /\ w[1] \in Nat /\ w[i + 1] \in Nat
      BY <1>3, <3>2
    <3>4. QED
      BY <1>3, <3>1, <3>2, <3>3 DEF Members
  <2>2. ASSUME NEW n \in Members(w), n > Head(w) PROVE n \in Members(Tail(w))
    <3>1. PICK i \in 1 .. Len(w) : w[i] = n
      BY DEF Members
    <3>2. i # 1
      BY <1>3, <2>2, <3>1
    <3>3. i - 1 \in 1 .. Len(Tail(w)) /\ Tail(w)[i - 1] = w[i]
      BY <1>3, <3>1, <3>2
    <3>4. QED
      BY <3>1, <3>3 DEF Members
  <2>3. QED
    BY <2>1, <2>2
<1>8. QED
  BY <1>1, <1>2, <1>4, <1>5, <1>6, <1>7 DEF w

\* A new event is the last one.
LEMMA NewEvent ==
    ASSUME TypeOK, NEW e \in Id, Publishes(e)
    PROVE  /\ Len(log) \in Nat /\ lost \in 0 .. Len(log) /\ lost' = lost
           /\ Len(log') = Len(log) + 1 /\ log'[Len(log) + 1] = e
           /\ \A n \in 1 .. Len(log) : log'[n] = log[n]
           /\ \A x : Stored(x)' = IF x = e THEN Stored(x) \cup {Len(log) + 1} ELSE Stored(x)
<1>1. log' = Append(log, e) /\ lost' = lost /\ log \in Seq(Id) /\ lost \in 0 .. Len(log)
  BY DEF Publishes, Publish, TypeOK
<1>2. /\ Len(log) \in Nat /\ Len(log') = Len(log) + 1 /\ log'[Len(log) + 1] = e
      /\ \A n \in 1 .. Len(log) : log'[n] = log[n]
  BY <1>1
<1>3. ASSUME NEW x
      PROVE  Stored(x)' = IF x = e THEN Stored(x) \cup {Len(log) + 1} ELSE Stored(x)
  <2>1. Stored(x)' = {n \in 1 .. Len(log) + 1 : n > lost /\ log'[n] = x}
    BY <1>1, <1>2 DEF Stored
  <2>2. 1 .. Len(log) + 1 = 1 .. Len(log) \cup {Len(log) + 1} /\ Len(log) + 1 > lost
    BY <1>1, <1>2
  <2>3. QED
    BY <1>2, <2>1, <2>2 DEF Stored
<1>4. QED
  BY <1>1, <1>2, <1>3

\* Appending what exceeds all members keeps the order.
LEMMA AppendAscending ==
    ASSUME NEW w \in Seq(Nat), Ascending(w), NEW k \in Nat, \A n \in Members(w) : n < k
    PROVE  Ascending(Append(w, k)) /\ Members(Append(w, k)) = Members(w) \cup {k}
<1> DEFINE v == Append(w, k)
<1>1. /\ Len(w) \in Nat /\ Len(v) = Len(w) + 1 /\ v[Len(w) + 1] = k
      /\ \A i \in 1 .. Len(w) : v[i] = w[i] /\ w[i] < k
  BY DEF Members
<1> HIDE DEF v
<1>2. Ascending(v)
  <2>1. SUFFICES ASSUME NEW i \in 1 .. Len(v), NEW j \in 1 .. Len(v), i < j PROVE v[i] < v[j]
    BY DEF Ascending
  <2>2. i \in 1 .. Len(w) /\ v[i] = w[i]
    BY <1>1, <2>1
  <2>3. CASE j = Len(w) + 1
    BY <1>1, <2>2, <2>3
  <2>4. CASE j # Len(w) + 1
    <3>1. j \in 1 .. Len(w) /\ v[j] = w[j]
      BY <1>1, <2>1, <2>4
    <3>2. QED
      BY <2>1, <2>2, <3>1 DEF Ascending
  <2>5. QED
    BY <2>3, <2>4
<1>3. Members(v) = Members(w) \cup {k}
  BY <1>1 DEF Members
<1>4. QED
  BY <1>2, <1>3 DEF v

\* The route replays all that is numbered after the page's Last-Event-ID; a new event
\* goes to every open source of its id, and comes after all of them.
LEMMA WiredStep ==
    ASSUME TypeOK, Connected, Wired, [Next]_vars
    PROVE  Wired'
<1> DEFINE Ok(d) == conn[d] = "open" =>
                /\ Ascending(wire[d]) /\ Members(wire[d]) \subseteq Stored(view[d])
                /\ \A n \in Stored(view[d]) : Number(n) > last[d] => n \in Members(wire[d])
                /\ \A m \in Members(wire[d]), n \in Stored(view[d]) :
                     m < n => n \in Members(wire[d])
<1>0. /\ conn \in [Client -> {"off", "connecting", "open", "failed"}]
      /\ wire \in [Client -> Seq(1 .. MaxEvents)] /\ last \in [Client -> 0 .. MaxEvents]
      /\ Len(log) \in Nat /\ lost \in 0 .. Len(log) /\ MaxEvents \in Nat
  BY EventStreamAssumption DEF TypeOK
<1>1. SUFFICES ASSUME NEW d \in Client PROVE Ok(d)'
  BY DEF Wired
<1>2. Ok(d)
  BY DEF Wired
<1>3. ASSUME wire'[d] = wire[d], last'[d] = last[d], view'[d] = view[d], conn'[d] = conn[d],
             log' = log, lost' = lost
      PROVE  Ok(d)'
  <2>1. \A x : Stored(x)' = Stored(x)
    BY <1>3 DEF Stored
  <2>2. \A n : Number(n)' = Number(n)
    BY <1>3 DEF Number
  <2>3. Members(wire[d])' = Members(wire[d]) /\ (Ascending(wire[d]) => Ascending(wire[d])')
    BY <1>3 DEF Members, Ascending
  <2>4. QED
    BY <1>2, <1>3, <2>1, <2>2, <2>3
<1>4. CASE UNCHANGED vars
  BY <1>3, <1>4 DEF vars
<1>5. CASE Restart
  BY <1>0, <1>5 DEF Restart
<1>6. ASSUME NEW e \in Id, Publishes(e), conn[d] = "open" PROVE Ok(d)'
  <2>1. UNCHANGED <<conn, last, view, lost>>
    BY <1>6 DEF Publishes, Publish, hook
  <2>2. \A x : Stored(x)' = IF x = e THEN Stored(x) \cup {Len(log) + 1} ELSE Stored(x)
    BY <1>6, NewEvent
  <2>3. /\ Ascending(wire[d]) /\ Members(wire[d]) \subseteq Stored(view[d])
        /\ \A n \in Stored(view[d]) : Number(n) > last[d] => n \in Members(wire[d])
        /\ \A m \in Members(wire[d]), n \in Stored(view[d]) :
             m < n => n \in Members(wire[d])
    BY <1>2, <1>6
  <2>4. \A n : Number(n)' = Number(n)
    BY <2>1 DEF Number
  <2>5. CASE view[d] = e
    <3>1. wire'[d] = Append(wire[d], Len(log) + 1)
      BY <1>6, <2>5 DEF Publishes, Publish
    <3>2. wire[d] \in Seq(Nat) /\ \A n \in Members(wire[d]) : n < Len(log) + 1
      BY <1>0, <2>3 DEF Stored
    <3>3. /\ Ascending(wire'[d])
          /\ Members(wire'[d]) = Members(wire[d]) \cup {Len(log) + 1}
      BY <1>0, <2>3, <3>1, <3>2, AppendAscending
    <3>4. /\ Ascending(wire[d])' /\ Members(wire[d])' = Members(wire[d]) \cup {Len(log) + 1}
      BY <3>3 DEF Ascending, Members
    <3>5. Stored(view[d])' = Stored(view[d]) \cup {Len(log) + 1}
      BY <2>1, <2>2, <2>5
    <3>6. \A m \in Members(wire[d])', n \in Stored(view[d])' : m < n => n \in Members(wire[d])'
      <4>1. SUFFICES ASSUME NEW m \in Members(wire[d])', NEW n \in Stored(view[d])', m < n,
                            n # Len(log) + 1
                     PROVE  n \in Members(wire[d])
        BY <3>4
      <4>2. n \in Stored(view[d]) /\ n \in 1 .. Len(log)
        BY <3>5, <4>1 DEF Stored
      <4>3. m # Len(log) + 1
        BY <1>0, <4>1, <4>2
      <4>4. QED
        BY <2>3, <3>4, <4>1, <4>2, <4>3
    <3>7. QED
      BY <2>1, <2>3, <2>4, <3>4, <3>5, <3>6
  <2>6. CASE view[d] # e
    <3>1. wire'[d] = wire[d]
      BY <1>6, <2>6 DEF Publishes, Publish
    <3>2. Stored(view[d])' = Stored(view[d])
      BY <2>1, <2>2, <2>6
    <3>3. Ascending(wire[d])' /\ Members(wire[d])' = Members(wire[d])
      BY <2>3, <3>1 DEF Ascending, Members
    <3>4. QED
      BY <2>1, <2>3, <2>4, <3>2, <3>3
  <2>7. QED
    BY <2>5, <2>6
<1>7. ASSUME NEW e \in Id, Publishes(e), conn[d] # "open" PROVE Ok(d)'
  BY <1>7 DEF Publishes, Publish
<1>8. ASSUME NEW e \in Id, Lists(e) PROVE Ok(d)'
  <2>1. UNCHANGED <<log, lost, conn, wire, last, view>>
    BY <1>8 DEF Lists, browser, hook
  <2>2. QED
    BY <1>3, <2>1
<1>9. ASSUME NEW e \in Id \cup {None}, View(d, e) PROVE Ok(d)'
  BY <1>0, <1>9 DEF View
<1>10. CASE Stream(d)
  <2>1. /\ wire'[d] = Since(view[d], last[d]) /\ UNCHANGED <<log, lost, view, last>>
    BY <1>0, <1>10 DEF Stream, server
  <2>2. /\ Ascending(Since(view[d], last[d]))
        /\ Members(Since(view[d], last[d])) = {n \in Stored(view[d]) : Number(n) > last[d]}
    BY <1>0, SinceInOrder
  <2>3. /\ Ascending(wire[d])'
        /\ Members(wire[d])' = {n \in Stored(view[d]) : Number(n) > last[d]}
    BY <2>1, <2>2 DEF Ascending, Members
  <2>4. Stored(view[d])' = Stored(view[d]) /\ \A n : Number(n)' = Number(n)
    BY <2>1 DEF Stored, Number
  <2>5. ASSUME NEW m \in Members(wire[d])', NEW n \in Stored(view[d])', m < n
        PROVE  n \in Members(wire[d])'
    <3>1. m \in Stored(view[d]) /\ n \in Stored(view[d]) /\ Number(m) > last[d]
      BY <2>3, <2>4, <2>5
    <3>2. m \in Int /\ n \in Int /\ last[d] \in Int /\ lost \in Int
      BY <1>0, <3>1 DEF Stored
    <3>3. Number(n) > last[d]
      BY <2>5, <3>1, <3>2 DEF Number
    <3>4. QED
      BY <2>3, <3>1, <3>3
  <2>6. QED
    BY <2>1, <2>3, <2>4, <2>5
<1>11. CASE Deliver(d)
  <2> DEFINE h == Head(wire[d])
  <2>1. /\ wire'[d] = Tail(wire[d]) /\ last'[d] = Number(h) /\ conn[d] = "open"
        /\ UNCHANGED <<log, lost, view>>
    BY <1>0, <1>11 DEF Deliver, server
  <2>2. /\ h \in Members(wire[d]) /\ h \in Stored(view[d]) /\ Ascending(Tail(wire[d]))
        /\ Members(Tail(wire[d])) = {n \in Members(wire[d]) : n > h}
    BY <1>11, HeadIsNext
  <2> HIDE DEF h
  <2>3. Ascending(wire[d])' /\ Members(wire[d])' = {n \in Members(wire[d]) : n > h}
    BY <2>1, <2>2 DEF Ascending, Members
  <2>4. Stored(view[d])' = Stored(view[d]) /\ \A n : Number(n)' = Number(n)
    BY <2>1 DEF Stored, Number
  <2>5. \A m \in Members(wire[d]), n \in Stored(view[d]) : m < n => n \in Members(wire[d])
    BY <1>2, <2>1
  <2>6. ASSUME NEW n \in Stored(view[d]), Number(n) > Number(h) PROVE n \in Members(wire[d])'
    <3>1. n > h
      BY <1>0, <2>2, <2>6 DEF Number, Stored
    <3>2. QED
      BY <2>2, <2>3, <2>5, <3>1
  <2>7. ASSUME NEW m \in Members(wire[d])', NEW n \in Stored(view[d]), m < n
        PROVE  n \in Members(wire[d])'
    <3>1. m \in Members(wire[d]) /\ m > h /\ n \in Members(wire[d])
      BY <2>3, <2>5, <2>7
    <3>2. m \in Int /\ n \in Int /\ h \in Int
      BY <1>2, <2>1, <2>2, <3>1 DEF Stored
    <3>3. QED
      BY <2>3, <2>7, <3>1, <3>2
  <2>8. Members(wire[d])' \subseteq Stored(view[d])
    BY <1>2, <2>1, <2>3
  <2>9. QED
    BY <2>1, <2>3, <2>4, <2>6, <2>7, <2>8
<1>12. CASE Fails(d)
  BY <1>0, <1>12 DEF Fails, OnError
<1>13. CASE Asks(d) \/ \E a \in polls[d] : PollArrive(d, a)
  <2>1. UNCHANGED <<log, lost, conn, wire, last, view>>
    BY <1>13 DEF Asks, PollArrive, server, browser, hook
  <2>2. QED
    BY <1>3, <2>1
<1>14. ASSUME NEW c \in Client,
              \/ \E e \in Id \cup {None} : View(c, e)
              \/ view[c] # None /\ Stream(c)
              \/ Deliver(c) \/ Fails(c) \/ Asks(c)
              \/ \E a \in polls[c] : PollArrive(c, a)
       PROVE  Ok(d)'
  <2>1. CASE c = d
    BY <1>9, <1>10, <1>11, <1>12, <1>13, <1>14, <2>1
  <2>2. CASE c # d
    <3>1. UNCHANGED <<log, lost>>
      BY <1>14 DEF View, Stream, Deliver, Fails, OnError, Asks, PollArrive, server
    <3>2. Kept(d)
      BY <1>14, <2>2, OthersKept
    <3>3. QED
      BY <1>3, <3>1, <3>2 DEF Kept
  <2>3. QED
    BY <2>1, <2>2
<1>15. QED
  <2> HIDE DEF Ok
  <2>1. QED
    BY <1>4, <1>5, <1>6, <1>7, <1>8, <1>14, StepKinds

\* An entry of the stream has the number of an event.
LEMMA EntryTyped ==
    ASSUME TypeOK, NEW c \in Client, NEW i \in Received(c)
    PROVE  /\ shown[c][i] \in Entries /\ shown[c][i].id \in Nat
           /\ shown[c][i].of \in Id /\ shown[c][i].polled = FALSE
<1>1. shown[c][i] \in Entries /\ ~shown[c][i].polled
  BY DEF Received, TypeOK
<1>2. shown[c][i] \in [of : Id, id : 1 .. MaxEvents, polled : {FALSE}]
  <2>1. ASSUME shown[c][i] \in Answers PROVE FALSE
    BY <1>1, <2>1 DEF Answers
  <2>2. QED
    BY <1>1, <2>1 DEF Entries
<1>3. shown[c][i].id \in 1 .. MaxEvents /\ shown[c][i].of \in Id
  BY <1>2
<1>4. \A n \in 1 .. MaxEvents : n \in Nat
  BY EventStreamAssumption
<1>5. shown[c][i].polled = FALSE
  BY <1>2
<1>6. QED
  BY <1>1, <1>3, <1>4, <1>5, Zenon

\* A delivered event is appended to what the page has received.
LEMMA DeliveryReceives ==
    ASSUME TypeOK, NEW d \in Client, Deliver(d)
    PROVE  /\ Received(d)' = Received(d) \cup {Len(shown[d]) + 1} /\ Len(shown[d]) \in Nat
           /\ \A i \in Received(d) : i \in 1 .. Len(shown[d]) /\ shown'[d][i] = shown[d][i]
           /\ shown'[d][Len(shown[d]) + 1] = Streamed(Head(wire[d]))
<1> DEFINE s == shown[d]
           t == shown'[d]
           b == Streamed(Head(wire[d]))
<1>1. s \in Seq(Entries) /\ t = Append(s, b)
  BY DEF Deliver, TypeOK
<1>2. ~b.polled
  BY DEF Streamed
<1>3. Received(d) = {i \in 1 .. Len(s) : ~s[i].polled}
  BY DEF Received
<1>4. Received(d)' = {i \in 1 .. Len(t) : ~t[i].polled}
  BY DEF Received
<1> HIDE DEF s, t, b
<1>5. /\ Len(s) \in Nat /\ Len(t) = Len(s) + 1 /\ t[Len(s) + 1] = b
      /\ \A i \in 1 .. Len(s) : t[i] = s[i]
  BY <1>1
<1>6. 1 .. Len(t) = 1 .. Len(s) \cup {Len(s) + 1}
  BY <1>5
<1>7. {i \in 1 .. Len(t) : ~t[i].polled} = {i \in 1 .. Len(s) : ~s[i].polled} \cup {Len(s) + 1}
  <2>1. ASSUME NEW i \in 1 .. Len(t), ~t[i].polled
        PROVE  i \in {k \in 1 .. Len(s) : ~s[k].polled} \cup {Len(s) + 1}
    BY <1>5, <1>6, <2>1, Zenon
  <2>2. ASSUME NEW i \in 1 .. Len(s), ~s[i].polled PROVE i \in 1 .. Len(t) /\ ~t[i].polled
    BY <1>5, <1>6, <2>2, Zenon
  <2>3. Len(s) + 1 \in 1 .. Len(t) /\ ~t[Len(s) + 1].polled
    BY <1>2, <1>5, <1>6, Zenon
  <2>4. QED
    BY <2>1, <2>2, <2>3
<1>8. QED
  BY <1>3, <1>4, <1>5, <1>7 DEF s, t, b

\* An answer of a poll is none of the entries the page has received over the stream.
LEMMA PollsReceiveNothing ==
    ASSUME TypeOK, NEW d \in Client, NEW a \in polls[d], PollArrive(d, a)
    PROVE  /\ Received(d)' = Received(d)
           /\ \A i \in Received(d) : shown'[d][i] = shown[d][i]
<1>1. shown \in [Client -> Seq(Entries)] /\ a \in Answers
  BY DEF TypeOK
<1>2. a.polled
  BY <1>1 DEF Answers
<1>3. CASE shown' = shown
  BY <1>3 DEF Received
<1>4. CASE shown' = [shown EXCEPT ![d] = Append(@, a)]
  <2> DEFINE s == shown[d]
             t == shown'[d]
  <2>1. s \in Seq(Entries) /\ t = Append(s, a)
    BY <1>1, <1>4
  <2>2. /\ Len(s) \in Nat /\ Len(t) = Len(s) + 1 /\ t[Len(s) + 1] = a
        /\ \A i \in 1 .. Len(s) : t[i] = s[i]
    BY <2>1
  <2>3. Received(d) = {i \in 1 .. Len(s) : ~s[i].polled}
    BY DEF Received
  <2>4. Received(d)' = {i \in 1 .. Len(t) : ~t[i].polled}
    BY DEF Received
  <2> HIDE DEF s, t
  <2>5. {i \in 1 .. Len(t) : ~t[i].polled} = {i \in 1 .. Len(s) : ~s[i].polled}
    <3>1. ASSUME NEW i \in 1 .. Len(t), ~t[i].polled PROVE i \in 1 .. Len(s) /\ t[i] = s[i]
      <4>1. i # Len(s) + 1
        BY <1>2, <2>2, <3>1, Zenon
      <4>2. i \in 1 .. Len(s)
        BY <2>2, <4>1
      <4>3. QED
        BY <2>2, <4>2
    <3>2. 1 .. Len(s) \subseteq 1 .. Len(t)
      BY <2>2
    <3>3. QED
      BY <2>2, <3>1, <3>2, Zenon
  <2>6. QED
    BY <2>2, <2>3, <2>4, <2>5 DEF s, t
<1>5. QED
  BY <1>3, <1>4 DEF PollArrive

\* What is delivered, and what is sent, comes after all the page has received.
LEMMA InOrderStep ==
    ASSUME TypeOK, Connected, Wired, InOrder, [Next]_vars
    PROVE  InOrder'
<1> DEFINE Sorted(d) == \A i, j \in Received(d) : i < j => shown[d][i].id < shown[d][j].id
           Of(d, i) == /\ shown[d][i].of = view[d] /\ shown[d][i].id \in 1 .. Len(log)
                       /\ log[shown[d][i].id] = view[d]
           Past(d, i) == /\ shown[d][i].id <= lost + last[d]
                         /\ \A m \in Members(wire[d]) : shown[d][i].id < m
           Ok(d) == /\ Sorted(d)
                    /\ view[d] # None => \A i \in Received(d) : Of(d, i) /\ Past(d, i)
<1>0. /\ view \in [Client -> Id \cup {None}] /\ last \in [Client -> 0 .. MaxEvents]
      /\ shown \in [Client -> Seq(Entries)] /\ None \notin Id /\ MaxEvents \in Nat
      /\ wire \in [Client -> Seq(1 .. MaxEvents)] /\ log \in Seq(Id)
      /\ conn \in [Client -> {"off", "connecting", "open", "failed"}]
      /\ Len(log) \in Nat /\ lost \in 0 .. Len(log)
  BY EventStreamAssumption DEF TypeOK
<1>1. SUFFICES ASSUME NEW d \in Client PROVE Ok(d)'
  BY DEF InOrder
<1>2. Ok(d)
  BY DEF InOrder
<1>3. ASSUME shown'[d] = shown[d], last'[d] = last[d], view'[d] = view[d],
             log' = log, lost' = lost, wire'[d] = wire[d] \/ wire'[d] = <<>>
      PROVE  Ok(d)'
  <2>1. Received(d)' = Received(d)
    BY <1>3 DEF Received
  <2>2. Members(wire[d])' \subseteq Members(wire[d])
    BY <1>3 DEF Members
  <2>3. QED
    BY <1>2, <1>3, <2>1, <2>2
<1>4. CASE UNCHANGED vars
  BY <1>3, <1>4 DEF vars
<1>5. CASE Restart
  <2>1. UNCHANGED <<shown, last, view, log>> /\ lost' = Len(log) /\ wire'[d] = <<>>
    BY <1>5 DEF Restart
  <2>2. Received(d)' = Received(d) /\ Members(wire[d])' = {}
    BY <2>1 DEF Received, Members
  <2>3. ASSUME NEW i \in Received(d), shown[d][i].id \in 1 .. Len(log)
        PROVE  shown[d][i].id <= Len(log) + last[d]
    BY <1>0, <2>3
  <2>4. QED
    BY <1>2, <2>1, <2>2, <2>3
<1>6. ASSUME NEW e \in Id, Publishes(e) PROVE Ok(d)'
  <2>1. UNCHANGED <<shown, last, view, lost>>
    BY <1>6 DEF Publishes, Publish, hook
  <2>2. /\ Len(log') = Len(log) + 1
        /\ \A n \in 1 .. Len(log) : log'[n] = log[n] /\ n \in 1 .. Len(log')
    BY <1>0, <1>6, NewEvent
  <2>3. Received(d)' = Received(d)
    BY <2>1 DEF Received
  <2>4. ASSUME NEW m \in Members(wire[d])' PROVE m \in Members(wire[d]) \/ m = Len(log) + 1
    <3>1. wire'[d] = wire[d] \/ wire'[d] = Append(wire[d], Len(log) + 1)
      BY <1>6 DEF Publishes, Publish
    <3>2. wire[d] \in Seq(1 .. MaxEvents)
      BY <1>0
    <3>3. QED
      BY <2>4, <3>1, <3>2 DEF Members
  <2>5. ASSUME NEW i \in Received(d), view[d] # None PROVE Of(d, i)' /\ Past(d, i)'
    <3>1. Of(d, i) /\ Past(d, i)
      BY <1>2, <2>5
    <3>2. Of(d, i)'
      BY <2>1, <2>2, <3>1
    <3>3. ASSUME NEW m \in Members(wire[d])' PROVE shown[d][i].id < m
      <4>1. CASE m \in Members(wire[d])
        BY <3>1, <4>1
      <4>2. CASE m = Len(log) + 1
        BY <1>0, <3>1, <4>2
      <4>3. QED
        BY <2>4, <4>1, <4>2
    <3>4. QED
      BY <2>1, <3>1, <3>2, <3>3
  <2>6. Sorted(d)'
    BY <1>2, <2>1, <2>3
  <2>7. QED
    BY <2>1, <2>3, <2>5, <2>6
<1>7. ASSUME NEW e \in Id, Lists(e) PROVE Ok(d)'
  <2>1. UNCHANGED <<log, lost, wire, last, view, shown>>
    BY <1>7 DEF Lists, browser, hook
  <2>2. QED
    BY <1>3, <2>1
<1>8. ASSUME NEW e \in Id \cup {None}, View(d, e) PROVE Ok(d)'
  <2>1. view'[d] = e
    BY <1>0, <1>8 DEF View
  <2>2. CASE e = None
    <3>1. shown' = shown
      BY <1>8, <2>2 DEF View
    <3>2. QED
      BY <1>2, <2>1, <2>2, <3>1 DEF Received
  <2>3. CASE e # None
    <3>1. shown'[d] = <<>>
      BY <1>0, <1>8, <2>3 DEF View
    <3>2. Received(d)' = {}
      BY <3>1 DEF Received
    <3>3. QED
      BY <3>2
  <2>4. QED
    BY <2>2, <2>3
<1>9. CASE view[d] # None /\ Stream(d)
  <2>1. wire'[d] = Since(view[d], last[d]) /\ UNCHANGED <<shown, last, view, log, lost>>
    BY <1>0, <1>9 DEF Stream, server
  <2>2. Members(wire[d])' = {n \in Stored(view[d]) : Number(n) > last[d]}
    <3>1. Members(Since(view[d], last[d])) = {n \in Stored(view[d]) : Number(n) > last[d]}
      BY <1>0, SinceInOrder
    <3>2. QED
      BY <2>1, <3>1 DEF Members
  <2>3. Received(d)' = Received(d)
    BY <2>1 DEF Received
  <2>4. ASSUME NEW i \in Received(d), NEW m \in Members(wire[d])' PROVE shown[d][i].id < m
    <3>1. shown[d][i].id \in 1 .. Len(log) /\ shown[d][i].id <= lost + last[d]
      BY <1>2, <1>9
    <3>2. m \in Stored(view[d]) /\ Number(m) > last[d]
      BY <2>2, <2>4
    <3>3. m \in 1 .. Len(log) /\ m - lost > last[d]
      BY <3>2 DEF Stored, Number
    <3>4. last[d] \in Nat
      BY <1>0
    <3>5. QED
      BY <1>0, <3>1, <3>3, <3>4
  <2>5. QED
    BY <1>2, <2>1, <2>3, <2>4
<1>10. CASE Fails(d) \/ Asks(d)
  <2>1. /\ UNCHANGED <<log, lost, last, view, shown>>
        /\ wire'[d] = wire[d] \/ wire'[d] = <<>>
    BY <1>0, <1>10 DEF Fails, OnError, Asks, server, browser, hook
  <2>2. QED
    BY <1>3, <2>1
<1>11. CASE Deliver(d)
  <2> DEFINE h == Head(wire[d])
  <2>1. /\ last'[d] = Number(h) /\ wire'[d] = Tail(wire[d]) /\ UNCHANGED <<view, log, lost>>
    BY <1>0, <1>11 DEF Deliver, server
  <2>2. /\ h \in Members(wire[d]) /\ h \in Stored(view[d]) /\ view[d] \in Id
        /\ Members(Tail(wire[d])) = {n \in Members(wire[d]) : n > h}
    BY <1>11, HeadIsNext
  <2>3. h \in 1 .. Len(log) /\ log[h] = view[d] /\ lost + Number(h) = h
    BY <1>0, <2>2 DEF Stored, Number
  <2>4. Streamed(h).of = view[d] /\ Streamed(h).id = h /\ ~Streamed(h).polled
    BY <2>3 DEF Streamed
  <2> HIDE DEF h
  <2>5. /\ Received(d)' = Received(d) \cup {Len(shown[d]) + 1} /\ Len(shown[d]) \in Nat
        /\ \A i \in Received(d) : i \in 1 .. Len(shown[d]) /\ shown'[d][i] = shown[d][i]
        /\ shown'[d][Len(shown[d]) + 1] = Streamed(h)
    BY <1>11, DeliveryReceives DEF h
  <2>6. ASSUME NEW i \in Received(d)'
        PROVE  \/ i = Len(shown[d]) + 1 /\ shown'[d][i] = Streamed(h)
               \/ i \in Received(d) /\ shown'[d][i] = shown[d][i]
    BY <2>5
  <2>7. ASSUME NEW i \in Received(d)
        PROVE  Of(d, i) /\ shown[d][i].id \in Nat /\ shown[d][i].id < h
    BY <1>0, <1>2, <2>2, EntryTyped
  <2>8. ASSUME NEW i \in Received(d)', NEW j \in Received(d)', i < j
        PROVE  shown'[d][i].id < shown'[d][j].id
    <3>1. i \in Received(d) /\ shown'[d][i] = shown[d][i]
      BY <2>5, <2>6, <2>8
    <3>2. shown[d][i].id < h
      BY <2>7, <3>1
    <3>3. CASE j \in Received(d) /\ shown'[d][j] = shown[d][j]
      BY <1>2, <2>8, <3>1, <3>3
    <3>4. CASE shown'[d][j] = Streamed(h)
      BY <2>4, <3>1, <3>2, <3>4
    <3>5. QED
      BY <2>6, <3>3, <3>4
  <2>9. ASSUME NEW i \in Received(d)'
        PROVE  Of(d, i)' /\ shown'[d][i].id \in Nat /\ shown'[d][i].id <= h
    <3>1. CASE i \in Received(d) /\ shown'[d][i] = shown[d][i]
      <4>1. Of(d, i) /\ shown[d][i].id \in Nat /\ shown[d][i].id < h
        BY <2>7, <3>1
      <4>2. QED
        BY <2>1, <2>3, <3>1, <4>1
    <3>2. CASE shown'[d][i] = Streamed(h)
      BY <2>1, <2>3, <2>4, <3>2
    <3>3. QED
      BY <2>6, <3>1, <3>2
  <2>10. Members(wire[d])' = {n \in Members(wire[d]) : n > h}
    BY <2>1, <2>2 DEF Members
  <2>11. ASSUME NEW i \in Received(d)' PROVE Past(d, i)'
    <3>1. shown'[d][i].id \in Nat /\ shown'[d][i].id <= h
      BY <2>9
    <3>2. ASSUME NEW m \in Members(wire[d])' PROVE shown'[d][i].id < m
      <4>1. m \in Members(wire[d]) /\ m > h
        BY <2>10, <3>2
      <4>2. m \in Stored(view[d])
        BY <1>11, <4>1 DEF Deliver, Wired
      <4>3. m \in Int
        BY <4>2 DEF Stored
      <4>4. QED
        BY <2>3, <3>1, <4>1, <4>3
    <3>3. QED
      BY <2>1, <2>3, <3>1, <3>2
  <2>12. QED
    BY <2>1, <2>8, <2>9, <2>11
<1>12. ASSUME NEW a \in polls[d], PollArrive(d, a) PROVE Ok(d)'
  <2>1. UNCHANGED <<view, last, wire, log, lost>>
    BY <1>12 DEF PollArrive, browser, server
  <2>2. /\ Received(d)' = Received(d)
        /\ \A i \in Received(d) : shown'[d][i] = shown[d][i]
    BY <1>12, PollsReceiveNothing
  <2>3. Members(wire[d])' = Members(wire[d])
    BY <2>1 DEF Members
  <2>4. QED
    BY <1>2, <2>1, <2>2, <2>3
<1>13. ASSUME NEW c \in Client,
              \/ \E e \in Id \cup {None} : View(c, e)
              \/ view[c] # None /\ Stream(c)
              \/ Deliver(c) \/ Fails(c) \/ Asks(c)
              \/ \E a \in polls[c] : PollArrive(c, a)
       PROVE  Ok(d)'
  <2> HIDE DEF Ok
  <2>1. CASE c = d
    BY <1>8, <1>9, <1>10, <1>11, <1>12, <1>13, <2>1
  <2>2. CASE c # d
    <3>1. UNCHANGED <<log, lost>>
      BY <1>13 DEF View, Stream, Deliver, Fails, OnError, Asks, PollArrive, server
    <3>2. Kept(d)
      BY <1>13, <2>2, OthersKept
    <3>3. QED
      BY <1>3, <3>1, <3>2 DEF Kept
  <2>3. QED
    BY <2>1, <2>2
<1>14. QED
  <2> HIDE DEF Ok
  <2>1. QED
    BY <1>4, <1>5, <1>6, <1>7, <1>13, StepKinds

\* Nothing is skipped: what is delivered is the least of what is on its way.
LEMMA CompleteStep ==
    ASSUME TypeOK, Connected, Wired, Complete, [Next]_vars
    PROVE  Complete'
<1> DEFINE Told(d) == last[d] <= carried[d] \/ lost + last[d] <= Len(log)
           All(d) == view[d] # None =>
                        \A n \in Stored(view[d]) :
                          Number(n) > carried[d] /\ Number(n) <= last[d] => n \in ReceivedIds(d)
           Ok(d) == Told(d) /\ All(d)
<1>0. /\ view \in [Client -> Id \cup {None}] /\ last \in [Client -> 0 .. MaxEvents]
      /\ carried \in [Client -> 0 .. MaxEvents] /\ MaxEvents \in Nat
      /\ Len(log) \in Nat /\ lost \in 0 .. Len(log) /\ None \notin Id
  BY EventStreamAssumption DEF TypeOK
<1>1. SUFFICES ASSUME NEW d \in Client PROVE Ok(d)'
  BY DEF Complete
<1>2. Ok(d)
  BY DEF Complete
<1>3. ASSUME ReceivedIds(d)' = ReceivedIds(d), last'[d] = last[d], carried'[d] = carried[d],
             view'[d] = view[d], log' = log, lost' = lost
      PROVE  Ok(d)'
  <2>1. \A x : Stored(x)' = Stored(x)
    BY <1>3 DEF Stored
  <2>2. \A n : Number(n)' = Number(n)
    BY <1>3 DEF Number
  <2>3. Told(d)'
    BY <1>2, <1>3
  <2>4. All(d)'
    BY <1>2, <1>3, <2>1, <2>2
  <2>5. QED
    BY <2>3, <2>4
<1>4. ASSUME shown'[d] = shown[d] PROVE ReceivedIds(d)' = ReceivedIds(d)
  BY <1>4 DEF ReceivedIds, Received
<1>5. CASE UNCHANGED vars
  BY <1>3, <1>4, <1>5 DEF vars
<1>6. CASE Restart
  <2>1. carried' = last /\ last' = last /\ lost' = Len(log) /\ log' = log
    BY <1>6 DEF Restart
  <2>2. \A x : Stored(x)' = {}
    BY <1>0, <2>1 DEF Stored
  <2>3. last[d] <= last[d]
    BY <1>0
  <2>4. QED
    BY <2>1, <2>2, <2>3
<1>7. ASSUME NEW e \in Id, Publishes(e) PROVE Ok(d)'
  <2>1. UNCHANGED <<view, last, carried, shown, lost>>
    BY <1>7 DEF Publishes, Publish, hook
  <2>2. /\ Len(log') = Len(log) + 1
        /\ \A x : Stored(x)' = IF x = e THEN Stored(x) \cup {Len(log) + 1} ELSE Stored(x)
    BY <1>7, NewEvent
  <2>3. ReceivedIds(d)' = ReceivedIds(d) /\ \A n : Number(n)' = Number(n)
    BY <1>4, <2>1 DEF Number
  <2>4. last[d] \in Nat /\ carried[d] \in Nat /\ (last[d] <= carried[d] \/ lost + last[d] <= Len(log))
    BY <1>0, <1>2
  <2>5. Told(d)'
    BY <1>0, <2>1, <2>2, <2>4
  <2>6. ASSUME Number(Len(log) + 1) > carried[d], Number(Len(log) + 1) <= last[d] PROVE FALSE
    BY <1>0, <2>4, <2>6 DEF Number
  <2>7. All(d)'
    BY <1>2, <2>1, <2>2, <2>3, <2>6
  <2>8. QED
    BY <2>5, <2>7
<1>8. ASSUME NEW e \in Id, Lists(e) PROVE Ok(d)'
  <2>1. UNCHANGED <<view, last, carried, shown, log, lost>>
    BY <1>8 DEF Lists, browser, hook
  <2>2. QED
    BY <1>3, <1>4, <2>1
<1>9. ASSUME NEW e \in Id \cup {None}, View(d, e) PROVE Ok(d)'
  <2>1. last'[d] = 0 /\ carried'[d] = 0 /\ UNCHANGED <<log, lost>>
    BY <1>0, <1>9 DEF View, server
  <2>2. ASSUME NEW n \in Stored(view[d])' PROVE ~(Number(n)' > 0 /\ Number(n)' <= 0)
    <3>1. n \in Int /\ lost' \in Int
      BY <1>0, <2>1, <2>2 DEF Stored
    <3>2. Number(n)' = n - lost'
      BY DEF Number
    <3>3. n - lost' \in Int
      BY <3>1
    <3>4. QED
      BY <3>2, <3>3
  <2>3. QED
    BY <2>1, <2>2
<1>10. CASE Stream(d) \/ Fails(d) \/ Asks(d)
  <2>1. UNCHANGED <<view, last, carried, shown, log, lost>>
    BY <1>10 DEF Stream, Fails, OnError, Asks, server, browser, hook
  <2>2. QED
    BY <1>3, <1>4, <2>1
<1>11. CASE Deliver(d)
  <2> DEFINE h == Head(wire[d])
  <2>1. last'[d] = Number(h) /\ conn[d] = "open" /\ UNCHANGED <<view, carried, log, lost>>
    BY <1>0, <1>11 DEF Deliver, server
  <2>2. h \in Stored(view[d]) /\ \A n \in Members(wire[d]) : h <= n
    BY <1>11, HeadIsNext
  <2>3. Streamed(h).id = h
    BY DEF Streamed
  <2>4. /\ Received(d)' = Received(d) \cup {Len(shown[d]) + 1}
        /\ \A i \in Received(d) : shown'[d][i] = shown[d][i]
        /\ shown'[d][Len(shown[d]) + 1] = Streamed(h)
    BY <1>11, DeliveryReceives
  <2> HIDE DEF h
  <2>5. ReceivedIds(d)' = ReceivedIds(d) \cup {h}
    <3>1. ReceivedIds(d)' = {shown'[d][i].id : i \in Received(d)'}
      BY DEF ReceivedIds
    <3>2. QED
      BY <2>3, <2>4, <3>1 DEF ReceivedIds
  <2>6. h \in 1 .. Len(log) /\ lost + Number(h) = h
    BY <1>0, <2>2 DEF Stored, Number
  <2>7. Told(d)'
    BY <1>0, <2>1, <2>6
  <2>8. Stored(view[d])' = Stored(view[d]) /\ \A n : Number(n)' = Number(n)
    BY <2>1 DEF Stored, Number
  <2>9. ASSUME NEW n \in Stored(view[d]), Number(n) > carried[d], Number(n) <= Number(h)
        PROVE  n \in ReceivedIds(d)'
    <3>1. n \in 1 .. Len(log) /\ n <= h
      BY <1>0, <2>6, <2>9 DEF Stored, Number
    <3>2. CASE Number(n) <= last[d]
      <4>1. view[d] # None
        BY <2>1 DEF Connected
      <4>2. n \in ReceivedIds(d)
        BY <1>2, <2>9, <3>2, <4>1
      <4>3. QED
        BY <2>5, <4>2
    <3>3. CASE Number(n) > last[d]
      <4>1. n \in Members(wire[d])
        BY <2>1, <2>9, <3>3 DEF Wired
      <4>2. n = h
        BY <2>2, <2>6, <3>1, <4>1
      <4>3. QED
        BY <2>5, <4>2
    <3>4. Number(n) \in Int /\ last[d] \in Int
      BY <1>0, <3>1 DEF Number
    <3>5. QED
      BY <3>2, <3>3, <3>4
  <2>10. All(d)'
    BY <2>1, <2>8, <2>9
  <2>11. QED
    BY <2>7, <2>10
<1>12. ASSUME NEW a \in polls[d], PollArrive(d, a) PROVE Ok(d)'
  <2>1. UNCHANGED <<view, last, carried, log, lost>>
    BY <1>12 DEF PollArrive, browser, server
  <2>2. /\ Received(d)' = Received(d)
        /\ \A i \in Received(d) : shown'[d][i] = shown[d][i]
    BY <1>12, PollsReceiveNothing
  <2>3. ReceivedIds(d)' = ReceivedIds(d)
    <3>1. ReceivedIds(d)' = {shown'[d][i].id : i \in Received(d)'}
      BY DEF ReceivedIds
    <3>2. QED
      BY <2>2, <3>1 DEF ReceivedIds
  <2>4. QED
    BY <1>3, <2>1, <2>3
<1>13. ASSUME NEW c \in Client,
              \/ \E e \in Id \cup {None} : View(c, e)
              \/ view[c] # None /\ Stream(c)
              \/ Deliver(c) \/ Fails(c) \/ Asks(c)
              \/ \E a \in polls[c] : PollArrive(c, a)
       PROVE  Ok(d)'
  <2> HIDE DEF Ok
  <2>1. CASE c = d
    BY <1>9, <1>10, <1>11, <1>12, <1>13, <2>1
  <2>2. CASE c # d
    <3>1. UNCHANGED <<log, lost>>
      BY <1>13 DEF View, Stream, Deliver, Fails, OnError, Asks, PollArrive, server
    <3>2. Kept(d)
      BY <1>13, <2>2, OthersKept
    <3>3. QED
      BY <1>3, <1>4, <3>1, <3>2 DEF Kept
  <2>3. QED
    BY <2>1, <2>2
<1>14. QED
  <2> HIDE DEF Ok
  <2>1. QED
    BY <1>5, <1>6, <1>7, <1>8, <1>13, StepKinds
-------------------------------------------------------------------------------
\* What the page has received is told by the numbers the property reads from it.
LEMMA IdsInOrder ==
    ASSUME TypeOK, InOrder, NEW c \in Client
    PROVE  Ids(c) \in Seq(Nat) /\ Ascending(Ids(c)) /\ Members(Ids(c)) = ReceivedIds(c)
<1> DEFINE h == shown[c]
           T == {b \in Range(h) : ~b.polled}
           s == Filtered(h, T)
<1>1. h \in Seq(Entries)
  BY DEF TypeOK
<1>2. s \in Seq(Entries) /\ \E at : Chooses(s, at, h, T, Len(h))
  BY <1>1, Filtering
<1>3. Ids(c) = [n \in 1 .. Len(s) |-> s[n].id]
  BY DEF Ids
<1>4. \A k \in 1 .. Len(h) : h[k] \in T <=> k \in Received(c)
  BY <1>1 DEF Received, Range
<1> HIDE DEF s, T
<1>5. PICK at : Chooses(s, at, h, T, Len(h))
  BY <1>2
<1>6. /\ at \in [1 .. Len(s) -> 1 .. Len(h)] /\ Len(s) \in Nat
      /\ \A i \in 1 .. Len(s) : s[i] = h[at[i]] /\ at[i] \in Received(c)
      /\ \A i, j \in 1 .. Len(s) : i < j => at[i] < at[j]
      /\ \A k \in Received(c) : \E i \in 1 .. Len(s) : at[i] = k
  <2>1. /\ at \in [1 .. Len(s) -> 1 .. Len(h)]
        /\ \A i \in 1 .. Len(s) : s[i] = h[at[i]] /\ s[i] \in T
        /\ \A i, j \in 1 .. Len(s) : i < j => at[i] < at[j]
        /\ \A k \in 1 .. Len(h) : h[k] \in T => \E i \in 1 .. Len(s) : at[i] = k
    BY <1>5 DEF Chooses
  <2>2. \A i \in 1 .. Len(s) : at[i] \in Received(c)
    BY <2>1, <1>4
  <2>3. \A k \in Received(c) : k \in 1 .. Len(h)
    BY DEF Received
  <2>4. \A k \in Received(c) : \E i \in 1 .. Len(s) : at[i] = k
    BY <2>1, <2>3, <1>4
  <2>5. Len(s) \in Nat
    BY <1>2
  <2>6. QED
    BY <2>1, <2>2, <2>4, <2>5
<1>7. ASSUME NEW i \in 1 .. Len(s) PROVE s[i].id = shown[c][at[i]].id /\ s[i].id \in Nat
  <2>1. at[i] \in Received(c) /\ s[i] = shown[c][at[i]]
    BY <1>6
  <2>2. shown[c][at[i]].id \in Nat
    BY <2>1, EntryTyped
  <2>3. QED
    BY <2>1, <2>2
<1> HIDE DEF h
<1>8. Ids(c) \in Seq(Nat) /\ Len(Ids(c)) = Len(s)
  BY <1>3, <1>6, <1>7
<1>9. Ascending(Ids(c))
  <2>1. SUFFICES ASSUME NEW i \in 1 .. Len(s), NEW j \in 1 .. Len(s), i < j
                 PROVE  s[i].id < s[j].id
    BY <1>3, <1>8 DEF Ascending
  <2>2. at[i] \in Received(c) /\ at[j] \in Received(c) /\ at[i] < at[j]
    BY <1>6, <2>1
  <2>3. shown[c][at[i]].id < shown[c][at[j]].id
    BY <2>2 DEF InOrder
  <2>4. QED
    BY <1>7, <2>3
<1>10. Members(Ids(c)) = ReceivedIds(c)
  <2>1. \A i \in 1 .. Len(s) : Ids(c)[i] = shown[c][at[i]].id
    BY <1>3, <1>7
  <2>2. Members(Ids(c)) = {Ids(c)[i] : i \in 1 .. Len(s)}
    BY <1>8 DEF Members
  <2>3. Members(Ids(c)) \subseteq ReceivedIds(c)
    BY <1>6, <2>1, <2>2 DEF ReceivedIds
  <2>4. ASSUME NEW x \in ReceivedIds(c) PROVE x \in Members(Ids(c))
    <3>1. PICK k \in Received(c) : x = shown[c][k].id
      BY DEF ReceivedIds
    <3>2. PICK i \in 1 .. Len(s) : at[i] = k
      BY <1>6
    <3>3. QED
      BY <2>1, <2>2, <3>1, <3>2
  <2>5. QED
    BY <2>3, <2>4
<1>11. QED
  BY <1>8, <1>9, <1>10

\* The properties follow from the parts of the invariant.
LEMMA ExactFromParts ==
    ASSUME StreamInv
    PROVE  StreamExact
<1>1. TypeOK /\ Connected /\ Wired /\ InOrder /\ Complete
  BY DEF StreamInv
<1>2. SUFFICES ASSUME NEW c \in Client, view[c] # None
               PROVE  LET seen == Brought(c) IN
                      /\ \A i \in DOMAIN seen : log[seen[i]] = view[c]
                      /\ \A i, j \in DOMAIN seen : i < j => seen[i] < seen[j]
                      /\ \A n \in Range(EventsOf(view[c])) :
                           /\ Number(n) > carried[c]
                           /\ conn[c] = "open" \/ \E i \in DOMAIN seen : n <= seen[i]
                           => \E i \in DOMAIN seen : seen[i] = n
  BY DEF StreamExact
<1> DEFINE s == Ids(c)
           w == wire[c]
           seen == s \o w
<1>3. s \in Seq(Nat) /\ Ascending(s) /\ Members(s) = ReceivedIds(c)
  BY <1>1, IdsInOrder
<1>4. w \in Seq(Nat) /\ Ascending(w) /\ Members(w) \subseteq Stored(view[c])
  <2>1. w \in Seq(1 .. MaxEvents) /\ MaxEvents \in Nat
    BY <1>1, EventStreamAssumption DEF TypeOK
  <2>2. CASE conn[c] = "open"
    BY <1>1, <2>1, <2>2 DEF Wired
  <2>3. CASE conn[c] # "open"
    <3>1. w = <<>>
      BY <1>1, <2>3 DEF Connected
    <3>2. QED
      BY <3>1 DEF Ascending, Members
  <2>4. QED
    BY <2>2, <2>3
<1>5. ASSUME NEW n \in Members(s)
      PROVE  n \in Nat /\ log[n] = view[c] /\ n <= lost + last[c] /\ \A m \in Members(w) : n < m
  <2>1. PICK i \in Received(c) : n = shown[c][i].id
    BY <1>3, <1>5 DEF ReceivedIds
  <2>2. QED
    BY <1>1, <1>2, <2>1, EntryTyped DEF InOrder
<1> HIDE DEF s, w
<1>6. /\ Len(s) \in Nat /\ Len(w) \in Nat /\ Len(seen) = Len(s) + Len(w) /\ seen \in Seq(Nat)
      /\ \A i \in 1 .. Len(s) : seen[i] = s[i] /\ seen[i] \in Members(s)
      /\ \A i \in Len(s) + 1 .. Len(s) + Len(w) :
           /\ i - Len(s) \in 1 .. Len(w) /\ seen[i] = w[i - Len(s)] /\ seen[i] \in Members(w)
  BY <1>3, <1>4 DEF Members
<1>7. DOMAIN seen = 1 .. Len(s) + Len(w)
  BY <1>6
<1>8. ASSUME NEW n \in Members(s) \cup Members(w) PROVE \E i \in DOMAIN seen : seen[i] = n
  <2>1. CASE n \in Members(s)
    <3>1. PICK i \in 1 .. Len(s) : s[i] = n
      BY <2>1 DEF Members
    <3>2. seen[i] = s[i] /\ i \in 1 .. Len(s) + Len(w)
      BY <1>6, <3>1
    <3>3. QED
      BY <1>7, <3>1, <3>2
  <2>2. CASE n \in Members(w)
    <3>1. PICK i \in 1 .. Len(w) : w[i] = n
      BY <2>2 DEF Members
    <3>2. i + Len(s) \in Len(s) + 1 .. Len(s) + Len(w) /\ (i + Len(s)) - Len(s) = i
      BY <1>6, <3>1
    <3>3. seen[i + Len(s)] = n /\ i + Len(s) \in DOMAIN seen
      BY <1>6, <1>7, <3>1, <3>2
    <3>4. QED
      BY <3>3
  <2>3. QED
    BY <2>1, <2>2
<1> HIDE DEF seen
<1>9. ASSUME NEW i \in DOMAIN seen PROVE log[seen[i]] = view[c]
  <2>1. CASE i \in 1 .. Len(s)
    BY <1>5, <1>6, <2>1
  <2>2. CASE i \in Len(s) + 1 .. Len(s) + Len(w)
    <3>1. seen[i] \in Stored(view[c])
      BY <1>4, <1>6, <2>2
    <3>2. QED
      BY <3>1 DEF Stored
  <2>3. QED
    BY <1>6, <1>7, <2>1, <2>2
<1>10. ASSUME NEW i \in DOMAIN seen, NEW j \in DOMAIN seen, i < j PROVE seen[i] < seen[j]
  <2>1. CASE j \in 1 .. Len(s)
    <3>1. i \in 1 .. Len(s) /\ seen[i] = s[i] /\ seen[j] = s[j]
      BY <1>6, <1>7, <1>10, <2>1
    <3>2. QED
      BY <1>3, <1>10, <2>1, <3>1 DEF Ascending
  <2>2. CASE i \in 1 .. Len(s) /\ j \in Len(s) + 1 .. Len(s) + Len(w)
    BY <1>5, <1>6, <2>2
  <2>3. CASE i \in Len(s) + 1 .. Len(s) + Len(w) /\ j \in Len(s) + 1 .. Len(s) + Len(w)
    <3>1. /\ i - Len(s) \in 1 .. Len(w) /\ j - Len(s) \in 1 .. Len(w)
          /\ seen[i] = w[i - Len(s)] /\ seen[j] = w[j - Len(s)]
      BY <1>6, <2>3
    <3>2. i - Len(s) < j - Len(s)
      BY <1>6, <1>7, <1>10
    <3>3. w[i - Len(s)] < w[j - Len(s)]
      BY <1>4, <3>1, <3>2 DEF Ascending
    <3>4. QED
      BY <3>1, <3>3
  <2>4. QED
    BY <1>6, <1>7, <1>10, <2>1, <2>2, <2>3
<1>11. ASSUME NEW n \in Range(EventsOf(view[c])), Number(n) > carried[c],
              conn[c] = "open" \/ \E i \in DOMAIN seen : n <= seen[i]
       PROVE  \E i \in DOMAIN seen : seen[i] = n
  <2>1. n \in Stored(view[c])
    BY <1>1, <1>11, EventsInOrder DEF Range, Members
  <2>2. n \in Nat /\ lost \in Nat /\ last[c] \in Nat
    <3>1. n \in Nat
      BY <2>1 DEF Stored
    <3>2. lost \in Nat /\ last[c] \in Nat
      BY <1>1, EventStreamAssumption DEF TypeOK
    <3>3. QED
      BY <3>1, <3>2
  <2>3. CASE Number(n) <= last[c]
    <3>1. n \in ReceivedIds(c)
      BY <1>1, <1>2, <1>11, <2>1, <2>3 DEF Complete
    <3>2. QED
      BY <1>3, <1>8, <3>1
  <2>4. CASE Number(n) > last[c] /\ conn[c] = "open"
    <3>1. n \in Members(w)
      BY <1>1, <2>1, <2>4 DEF Wired, w
    <3>2. QED
      BY <1>8, <3>1
  <2>5. CASE Number(n) > last[c] /\ conn[c] # "open"
    <3>1. w = <<>> /\ Len(w) = 0
      BY <1>1, <2>5 DEF Connected, w
    <3>2. PICK i \in DOMAIN seen : n <= seen[i]
      BY <1>11, <2>5
    <3>3. seen[i] \in Members(s)
      BY <1>6, <1>7, <3>1
    <3>4. seen[i] \in Nat /\ seen[i] <= lost + last[c]
      BY <1>5, <3>3
    <3>5. QED
      BY <2>2, <2>5, <3>2, <3>4 DEF Number
  <2>6. QED
    BY <2>2, <2>3, <2>4, <2>5 DEF Number
<1>12. Brought(c) = seen
  BY DEF Brought, seen, s, w
<1>13. QED
  BY <1>9, <1>10, <1>11, <1>12

LEMMA OnlyPollsFromParts ==
    ASSUME StreamInv
    PROVE  OnlyPollsMisplace
<1>1. TypeOK /\ InOrder
  BY DEF StreamInv
<1>2. SUFFICES ASSUME NEW c \in Client, NEW j \in DOMAIN shown[c], ~shown[c][j].polled
               PROVE  /\ view[c] # None => shown[c][j].of = view[c]
                      /\ \A i \in 1 .. (j - 1) :
                           shown[c][i].of = shown[c][j].of /\ ~shown[c][i].polled
                              => shown[c][i].id < shown[c][j].id
  BY DEF OnlyPollsMisplace
<1>3. shown[c] \in Seq(Entries) /\ Len(shown[c]) \in Nat /\ j \in 1 .. Len(shown[c])
  BY <1>1, <1>2 DEF TypeOK
<1>4. j \in Received(c)
  BY <1>2, <1>3 DEF Received
<1>5. ASSUME NEW i \in 1 .. (j - 1), ~shown[c][i].polled
      PROVE  shown[c][i].id < shown[c][j].id
  <2>1. i \in Received(c) /\ i < j
    BY <1>3, <1>5 DEF Received
  <2>2. QED
    BY <1>1, <1>4, <2>1 DEF InOrder
<1>6. view[c] # None => shown[c][j].of = view[c]
  BY <1>1, <1>4 DEF InOrder
<1>7. QED
  BY <1>5, <1>6

LEMMA StreamInductive == StreamInv /\ [Next]_vars => StreamInv'
<1>1. SUFFICES ASSUME StreamInv, [Next]_vars PROVE StreamInv'
  OBVIOUS
<1>2. TypeOK /\ Connected /\ Wired /\ InOrder /\ Complete
  BY <1>1 DEF StreamInv
<1>3. TypeOK' /\ Connected'
  BY <1>1, <1>2, TypesStep, ConnectedStep
<1>4. Wired' /\ InOrder' /\ Complete'
  BY <1>1, <1>2, WiredStep, InOrderStep, CompleteStep
<1>5. QED
  BY <1>3, <1>4 DEF StreamInv

\* What a page was told, what is on its way to it and what the store holds agree in
\* every reachable state, before and after restarts that number events anew
\* (apps/api/src/transaction/transaction.service.ts:64-81): the invariant the theorems
\* below rest on.
THEOREM StreamHolds == Spec => []StreamInv
<1>1. QED
  BY StreamInitially, StreamInductive, PTL DEF Spec

\* Every variable of the timelines has its type, whatever number of ids, pages, events
\* and faults there are (app/hooks/useEscrowStream.ts, api/services/eventStore.ts).
THEOREM StreamTyped == Spec => []TypeOK
<1>1. StreamInv => TypeOK
  BY DEF StreamInv
<1>2. QED
  BY <1>1, StreamHolds, PTL

\* What the stream brings a page is of its id, in order and without a duplicate, whatever
\* broke, reconnected, restarted or was published in between; and nothing is missing,
\* but what a Last-Event-ID older than the last restart hides
\* (the promise of api/services/eventStore.ts:4-7, as far as it holds).
THEOREM StreamsExact == Spec => []StreamExact
<1>1. QED
  BY ExactFromParts, StreamHolds, PTL

\* An entry of the stream is of the id on the page and newer than every entry of the
\* stream before it, across restarts too: only an answer of a poll can be stale or of
\* another page (app/hooks/useEscrowStream.ts:99-138).
THEOREM OnlyPollsMisplaceEntries == Spec => []OnlyPollsMisplace
<1>1. QED
  BY OnlyPollsFromParts, StreamHolds, PTL
===============================================================================
