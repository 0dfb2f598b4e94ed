------------------------------ MODULE HedgeCost ------------------------------
(***************************************************************************)
(* The cost of one request, in its row of message_request: what the winner *)
(* of the race cost, and the losers that were drained and billed.  Each    *)
(* write is one UPDATE.  Amounts are not added up: `cost` says how often   *)
(* each provider's is part of cost_usd.                                    *)
(***************************************************************************)
EXTENDS Integers

CONSTANT Providers

VARIABLE row

Rows == [cost : [Providers -> Nat], losers : SUBSET Providers]

InitRow == row = [cost |-> [p \in Providers |-> 0], losers |-> {}]

\* updateMessageRequestCostWithBreakdown
OverwriteCost(w) ==
    row' = [row EXCEPT !.cost = [p \in Providers |-> IF p = w THEN 1 ELSE 0]]

\* updateMessageRequestWinnerCost: winnerCost + SUM(hedge_losers)
WriteWinnerCost(w) ==
    row' = [row EXCEPT !.cost =
               [p \in Providers |-> IF p = w \/ p \in row.losers THEN 1 ELSE 0]]

\* addMessageRequestHedgeLoserCost: WHERE NOT hedge_losers @> this one
AddLoserCost(p) ==
    row' = IF p \in row.losers
             THEN row
             ELSE [cost |-> [row.cost EXCEPT ![p] = @ + 1],
                   losers |-> row.losers \cup {p}]
=============================================================================
