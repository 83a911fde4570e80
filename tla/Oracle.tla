--------------------------------- MODULE Oracle ---------------------------------
(***************************************************************************)
(* The FX oracle, for one currency pair: providers quote, the aggregator   *)
(* takes a lower median, rejects outliers and takes it again, and the rate *)
(* service keeps the last rate for when no provider answers.  Calls of     *)
(* getRate may overlap; the service neither shares nor orders them.        *)
(*                                                                         *)
(* A rate is an integer.  Quotes are private to their call until all have  *)
(* settled, so they are taken together when it ends, each at some time     *)
(* since it began.  One tick of the clock is the fetch timeout.  A         *)
(* provider that fails, in whatever way, gives no quote.                   *)
(***************************************************************************)
EXTENDS Integers, FiniteSetsExt

CONSTANTS
    Rate,               \* rates and prices the outside world may report
    Call,               \* getRate calls; each is made once
    StalenessThreshold, \* age in ticks from which a rate is stale
    MaxTime             \* bound: ticks

VARIABLES
    now,
    calls,      \* call -> "idle", "fetching", "served" or "threw"
    lastKnown,      \* the last known rate
    answers,    \* call -> when the rate it returned was taken
    \* History.
    began,      \* call -> when it began
    known,      \* call -> age of the newest rate served before it began
    overlap,    \* two calls were fetching at once
    last        \* quotes and rate of the aggregation just made

oracleVars == <<now, calls, lastKnown, answers, began, known, overlap, last>>

NoQuotes == [quotes |-> <<>>, rate |-> 0]
NoRate == [found |-> FALSE, rate |-> 0, fetchedAt |-> 0, isStale |-> FALSE]

Init ==
    /\ now = 1
    /\ calls = [c \in Call |-> "idle"]
    /\ lastKnown = NoRate
    /\ answers = [c \in Call |-> 0]
    /\ began = [c \in Call |-> 0] /\ known = [c \in Call |-> 0]
    /\ overlap = FALSE
    /\ last = NoQuotes

-----------------------------------------------------------------------------
(* The aggregator.  q maps the providers that answered to their quotes. *)

\* The element at floor((n - 1) / 2) of the sorted quotes of S.
LowerMedian(q, S) ==
    LET mid == (Cardinality(S) - 1) \div 2
    IN  CHOOSE r \in {q[p] : p \in S} :
          /\ Cardinality({p \in S : q[p] < r}) <= mid
          /\ Cardinality({p \in S : q[p] <= r}) > mid

Distance(x, y) == IF x < y THEN y - x ELSE x - y

\* For a mutant: the deviation keeps its sign.
IsOutlierAbove(x, median) == (x - median) * 50 > median

\* |x - median| / median > 2 %: nothing deviates from a negative median, and
\* everything else from zero.
IsOutlier(x, median) == median >= 0 /\ Distance(x, median) * 50 > median

Kept(q) ==
    LET median == LowerMedian(q, DOMAIN q)
    IN  {p \in DOMAIN q : ~IsOutlier(q[p], median)}

\* The first median is never an outlier, so a quote is always kept; fetchedAt
\* is when the oldest of them was taken.
Aggregate(q, fetchedAt) ==
    [found |-> TRUE, rate |-> LowerMedian(q, Kept(q)), fetchedAt |-> fetchedAt,
     isStale |-> now - fetchedAt >= StalenessThreshold]

\* The central rate, if it is positive.
CbnQuotes == {r \in Rate : r > 0}

\* Whatever number the answer holds.
FlutterwaveQuotes == Rate

\* The middle of the best bid and the best ask, if both are positive.
StellarDexQuotes ==
    {r \in Rate : \E bid, ask \in Rate : bid > 0 /\ ask > 0 /\ bid + ask = 2 * r}

Answers == [cbn |-> CbnQuotes, flutterwave |-> FlutterwaveQuotes,
            stellarDex |-> StellarDexQuotes]

Quotes == {q \in UNION {[S -> Rate] : S \in SUBSET DOMAIN Answers} :
             \A p \in DOMAIN q : q[p] \in Answers[p]}

-----------------------------------------------------------------------------
(* The rate service. *)

Fetching == {c \in Call : calls[c] = "fetching"}

GetRate(c) ==
    /\ calls[c] = "idle"
    /\ calls' = [calls EXCEPT ![c] = "fetching"]
    /\ began' = [began EXCEPT ![c] = now]
    /\ known' = [known EXCEPT ![c] = Max({answers[d] : d \in Call})]
    /\ overlap' = (overlap \/ Fetching # {})
    /\ last' = NoQuotes
    /\ UNCHANGED <<now, lastKnown, answers>>

\* A fresh rate is cached whatever the cache holds.
Fresh(c, q, at) ==
    /\ calls[c] = "fetching" /\ DOMAIN q # {}
    /\ lastKnown' = Aggregate(q, at)
    /\ answers' = [answers EXCEPT ![c] = at]
    /\ calls' = [calls EXCEPT ![c] = "served"]
    /\ last' = [quotes |-> q, rate |-> lastKnown'.rate]
    /\ UNCHANGED <<now, began, known, overlap>>

\* NoRateAvailableError: the cached rate, with the flag it was cached with,
\* or the error.
Fallback(c) ==
    /\ calls[c] = "fetching"
    /\ answers' = [answers EXCEPT ![c] = lastKnown.fetchedAt]
    /\ calls' = [calls EXCEPT ![c] = IF lastKnown.found THEN "served" ELSE "threw"]
    /\ last' = NoQuotes
    /\ UNCHANGED <<now, lastKnown, began, known, overlap>>

\* A fetch is aborted when its timeout has passed.
Tick ==
    /\ now < MaxTime /\ now' = now + 1
    /\ \A c \in Fetching : began[c] = now
    /\ last' = NoQuotes
    /\ UNCHANGED <<calls, lastKnown, answers, began, known, overlap>>

Next ==
    \/ \E c \in Call :
         \/ GetRate(c) \/ Fallback(c)
         \/ \E q \in Quotes, at \in began[c] .. now : Fresh(c, q, at)
    \/ Tick

Spec == Init /\ [][Next]_oracleVars

-----------------------------------------------------------------------------
(* Properties. *)

\* Fewer than half of the quotes, however wrong, do not move the rate more
\* than 2 % out of the range of the others.
MajorityBoundsRate ==
    \A H \in SUBSET DOMAIN last.quotes :
        LET honest == {last.quotes[p] : p \in H}
        IN  2 * Cardinality(H) > Cardinality(DOMAIN last.quotes) /\ Min(honest) > 0 =>
              98 * Min(honest) <= 100 * last.rate /\ 100 * last.rate <= 102 * Max(honest)

\* A rate older than one served before the call began comes from calls that
\* overlapped, the slower of which cached the older rate.
NeverOlder ==
    \A c \in Call : calls[c] = "served" => answers[c] >= known[c] \/ overlap

ServedRateHasCause == MajorityBoundsRate /\ NeverOlder
===============================================================================
