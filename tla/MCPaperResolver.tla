-------------------------- MODULE MCPaperResolver --------------------------
(***************************************************************************)
(* Instances of PaperResolver for TLC: trades t1 and t2 on the two sides   *)
(* of one market; the hourly agent and an operator.                        *)
(***************************************************************************)
EXTENDS PaperResolver, TLC

CONSTANTS t1, t2, m1, hourly, manual

TwoTrades == {t1, t2}
OneMarket == {m1}
BothSides == (t1 :> "no") @@ (t2 :> "yes")
SameMarket == [k \in TwoTrades |-> m1]
Agent == {hourly}
Both == {hourly, manual}
=============================================================================
