------------------------------- MODULE Custody --------------------------------
(***************************************************************************)
(* What the remittance contract does with the money it holds, and nothing  *)
(* else: no roles, no oracles, no arbiters, no governance.  An escrow is   *)
(* opened with an amount, and that amount leaves in one settlement, split  *)
(* between its sender and its agent.  Once the escrow's timeout ledger has *)
(* been reached the contract also honours further claims of the sender, in *)
(* full, whatever became of the escrow before (src/contract.rs,            *)
(* claim_refund); Remittance.tla shows that this is the only way more than *)
(* the amount can ever leave.                                              *)
(***************************************************************************)
EXTENDS Integers

CONSTANTS
    Id,         \* escrow ids
    Amount      \* the amounts an escrow may hold

VARIABLES
    amount,     \* what was deposited for an id, 0 while it is unused
    toSender,   \* what has been paid to the escrow's sender so far
    toAgent,    \* what has been paid to the escrow's agent so far
    overdue     \* the ids whose timeout has passed

custodyVars == <<amount, toSender, toAgent, overdue>>

Unpaid(i) == toSender[i] = 0 /\ toAgent[i] = 0

Init ==
    /\ amount = [i \in Id |-> 0]
    /\ toSender = [i \in Id |-> 0]
    /\ toAgent = [i \in Id |-> 0]
    /\ overdue = {}

\* A deposit opens an id that has never been used.
Open(i) ==
    /\ amount[i] = 0
    /\ \E a \in Amount : amount' = [amount EXCEPT ![i] = a]
    /\ UNCHANGED <<toSender, toAgent, overdue>>

\* The whole amount leaves at once, and the two shares add up to it.
Settle(i) ==
    /\ amount[i] # 0
    /\ Unpaid(i)
    /\ \E share \in 0..amount[i] :
          /\ toSender' = [toSender EXCEPT ![i] = share]
          /\ toAgent' = [toAgent EXCEPT ![i] = amount[i] - share]
    /\ UNCHANGED <<amount, overdue>>

\* Past its timeout, a settled escrow can still be claimed by its sender.
LateClaim(i) ==
    /\ i \in overdue
    /\ ~Unpaid(i)
    /\ toSender' = [toSender EXCEPT ![i] = @ + amount[i]]
    /\ UNCHANGED <<amount, toAgent, overdue>>

\* Time passes: opened escrows become overdue and stay so.
Expire ==
    /\ \E due \in SUBSET {i \in Id : amount[i] # 0} : overdue' = overdue \cup due
    /\ UNCHANGED <<amount, toSender, toAgent>>

Next ==
    \/ Expire
    \/ \E i \in Id : Open(i) \/ Settle(i) \/ LateClaim(i)

Spec == Init /\ [][Next]_custodyVars
===============================================================================
