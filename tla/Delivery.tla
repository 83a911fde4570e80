------------------------------- MODULE Delivery -------------------------------
(***************************************************************************)
(* The outbox of the app in front of the idempotency middleware of the     *)
(* API: one key per queued payment, kept over all its attempts.  A fetch   *)
(* that breaks leaves its request running, and a request that never left   *)
(* is a fetch that rejects.                                                *)
(***************************************************************************)
EXTENDS Outbox, Idempotency

\* A payment's key is the payment itself, and a fetch is its request.
ASSUME DeliveryAssumption == Payment \subseteq Key /\ Request \subseteq Fetch

vars == <<clientVars, serverVars>>

Init == ClientInit /\ ServerInit

SendFetch(d, p) ==
    \E r \in Request, s \in Server : StartFetch(d, p, r) /\ Arrive(r, p, s)

ReceiveAnswer(d, p) ==
    /\ fetching[d] # Nothing /\ answer[fetching[d]] # None
    /\ FetchAnswered(d, p, answer[fetching[d]])
    /\ UNCHANGED serverVars

DrainStep(d) ==
    \/ BeginDrain(d) /\ UNCHANGED serverVars
    \/ \E p \in Payment :
          \/ DropItem(d, p) /\ UNCHANGED serverVars
          \/ SendFetch(d, p)
          \/ ReceiveAnswer(d, p)
          \/ FetchRejects(d, p) /\ UNCHANGED serverVars

Next ==
    \/ \E p \in Payment : EnqueuePayment(p) /\ UNCHANGED serverVars
    \/ \E d \in Drain : DrainStep(d)
    \/ ClosePage /\ UNCHANGED serverVars
    \/ ServerStep /\ UNCHANGED clientVars

Spec == Init /\ [][Next]_vars

-------------------------------------------------------------------------------
\* Properties.

TypeOK == ClientTypeOK /\ ServerTypeOK

\* Nobody will send the payment again: not queued, not about to be put back, and
\* no request for it under way.
Quiet(p) ==
    /\ p \in queued /\ outbox[p] = Nothing
    /\ \A d \in Drain : todo[d][p] = Nothing
    /\ \A r \in Request : key[r] = p => at[r] = "done"

\* A payment leaves the outbox for good only when it was made, given up after
\* MAX_ATTEMPTS, or its handler failed: lost requests, stale drains, closed pages
\* and expired or unreachable records never lose it.  What the outbox counts as
\* delivered was made, or its handler failed: a 409, which it takes for `already
\* processed`, may come from a first request that is still in progress.
LossHasCause ==
    \A p \in Payment :
        Quiet(p) => executions[p] > 0 \/ p \in dropped \ accepted \/ troubled[p]
===============================================================================
