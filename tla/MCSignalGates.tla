---------------------------- MODULE MCSignalGates ----------------------------
EXTENDS SignalGates
CONSTANTS e1, e2, m1, m2, c1, r1, r2
MCMarketsOf == (e1 :> <<m1, m2>>) @@ (e2 :> << >>)
MCCategories == <<c1>>
MCCategoryOf == [e \in Event |-> c1]
MCFeed == <<r1, r2>>
MCSignal == [r \in ToSet(MCFeed) |->
  [key |-> 1, event |-> IF r = r1 THEN e1 ELSE e2, action |-> "open",
   genuine |-> TRUE, size |-> IF r = r1 THEN 10 ELSE 9]]
==============================================================================
