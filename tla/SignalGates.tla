----------------------------- MODULE SignalGates -----------------------------
(***************************************************************************)
(* What decides about a signal: processSignal's gates (processSignal.ts),  *)
(* the mapping to a market (defaultMapSignal in runFollower.ts), the risk  *)
(* guards (guards.ts), the order Jupiter builds (jupPredictionClient.ts)   *)
(* and the check of its signers (assertSafeTx.ts), inside the part of      *)
(* runFollower's loop that refreshes the snapshot and moves the cursor.    *)
(*                                                                         *)
(* Module Follower has the files, their failures and the kill switch, and  *)
(* leaves the verdict open; here the files are sound and the verdict is    *)
(* computed, one step between two awaits.                                  *)
(***************************************************************************)
EXTENDS MarketSnapshot

CONSTANTS
  Feed,      \* the rows, in the order they arrive
  Signal,    \* what each row says
  Source,    \* "file": triggerToEnvelope;  "injected": a caller's rows
  Nav, Deployed, DayPnl, CumPnl,  \* opts.vault, read once from the environment
  Manager, Foreign                \* signers

Caps == [trade |-> 1, deploy |-> 4, day |-> 1, hard |-> 2, min |-> 10]

ASSUME GatesAssumption ==
  /\ Feed \in Seq(ToSet(Feed))
  /\ Signal \in [ToSet(Feed) -> [key : Nat, event : Event \cup {None},
                  action : {"open", "close", "claim"}, genuine : BOOLEAN,
                  size : Nat]]
  /\ Source \in {"file", "injected"}
  /\ {Nav, Deployed, DayPnl, CumPnl} \subseteq Int

VARIABLES
  pc,      \* where the loop is
  arrived, \* rows in the feed so far
  cursor,  \* state.lastCursor, as a position in the feed
  upto,    \* nextCursor of the batch
  pos,     \* the row under way
  threw,   \* batchThrew
  pick,    \* the market the row was mapped to
  seen,    \* the dedup keys of state.intents
  verdict, \* history: what became of the row before, in this batch
  failed,  \* history: this iteration's refresh failed
  since    \* history: ticks since this iteration began
loopVars == <<pc, cursor, upto, pos, threw, pick, seen, verdict>>
histVars == <<failed, since>>
vars == <<snapVars, loopVars, histVars, arrived>>

-----------------------------------------------------------------------------
(* Rows.                                                                   *)

\* triggerToEnvelope writes 0: "sizing is done by the follower's checkGuards".
Sized(n) == IF Source = "file" THEN 0 ELSE Signal[Feed[n]].size

\* Of the file's rows action and signature are triggerToEnvelope's own.
Sig(n) == [Signal[Feed[n]] EXCEPT
             !.action = IF Source = "file" THEN "open" ELSE @,
             !.genuine = IF Source = "file" THEN TRUE ELSE @,
             !.size = Sized(n)]

Beyond(pct, x) == x * 100 > Nav * pct
LossTrips(pct, pnl) == pnl < 0 /\ -pnl * 100 >= Nav * pct

CheckGuards(size) ==
  IF Nav <= 0 \/ Deployed < 0 \/ size < 0 THEN "invalid_input"
  ELSE IF Beyond(Caps.trade, size) THEN "per_trade_cap_exceeded"
  ELSE IF Beyond(Caps.deploy, size + Deployed) THEN "deploy_cap_exceeded"
  ELSE IF LossTrips(Caps.day, DayPnl) THEN "day_stop_tripped"
  ELSE IF LossTrips(Caps.hard, CumPnl) THEN "hard_stop_tripped"
  ELSE IF size < Caps.min THEN "below_min_size"
  ELSE "ok"

-----------------------------------------------------------------------------
(* The loop.                                                               *)

Goto(l) == pc' = l

\* Mutant of Decide: the market of one row is left for the next.
DecideKeeps(o) ==
  /\ verdict' = o
  /\ pick' = pick /\ pos' = pos + 1 /\ Goto("row")
  /\ UNCHANGED <<snapVars, histVars, arrived, cursor, upto>>

\* The row is decided; the loop goes on with the next one.
Decide(o) ==
  /\ verdict' = o
  /\ pick' = None /\ pos' = pos + 1 /\ Goto("row")
  /\ UNCHANGED <<snapVars, histVars, arrived, cursor, upto>>
Skipped(o) == Decide(o) /\ UNCHANGED <<threw, seen>>

\* Anything but a JupApiError, such as a body that breaks off after the headers.
Throws == Decide("threw") /\ threw' = TRUE /\ UNCHANGED seen

\* A request of Jupiter that fails: no connection, an HTTP error and an answer
\* of another shape are JupApiErrors, and the row is over.
CallFails == Skipped("jup_api_error") \/ Throws

\* The process starts: boot, and a first snapshot without which it stops.
Boot ==
  /\ pc = "boot" /\ StartBuild /\ Goto("bootRead")
  /\ UNCHANGED <<cursor, upto, pos, threw, pick, seen, verdict, histVars, arrived>>

RefreshDue == snap.age > TTL

Top ==
  /\ pc = "top"
  /\ IF RefreshDue THEN StartBuild /\ Goto("refresh")
                   ELSE UNCHANGED snapVars /\ Goto("fetch")
  /\ UNCHANGED <<cursor, upto, pos, threw, pick, seen, verdict, arrived,
                 histVars>>

\* "snapshot refresh failed; continuing with stale".
Reading ==
  /\ pc \in {"bootRead", "refresh"}
  /\ \/ /\ ReadPage /\ UNCHANGED failed
        /\ IF build' # None THEN UNCHANGED pc
           ELSE Goto(IF pc = "refresh" THEN "fetch" ELSE "top")
     \/ /\ BuildFails /\ failed' = (pc = "refresh")
        /\ Goto(IF pc = "refresh" THEN "fetch" ELSE "boot")
  /\ UNCHANGED <<cursor, upto, pos, threw, pick, seen, verdict, since, arrived>>

Fetch ==
  /\ pc = "fetch"
  /\ upto' = arrived /\ pos' = cursor + 1 /\ Goto("row")
  /\ UNCHANGED <<snapVars, histVars, arrived, cursor, threw, pick, seen, verdict>>

\* Signature, dedup, action and the resolver: no await between them.
GateRow ==
  LET s == Sig(pos)
      r == Resolve(s.event)
      reason == IF ~s.genuine THEN "bad_signature"
                ELSE IF s.key \in seen THEN "dedup_replay"
                ELSE IF s.action # "open" THEN "action_not_yet_supported"
                ELSE r.skip
  IN /\ pc = "row" /\ pos <= upto
     /\ \/ reason # "none" /\ Skipped(reason)
        \/ /\ reason = "none"
           /\ pick' = r.market /\ Goto("market")
           /\ UNCHANGED <<snapVars, histVars, arrived, cursor, upto, pos,
                          threw, seen, verdict>>

\* getMarket and getOrderbook.  Neither the market's status nor its closeTime
\* nor the liquidity is looked at, only whether there is a price to buy at.
MapMarket ==
  /\ pc = "market"
  /\ \/ /\ Goto("order")
        /\ UNCHANGED <<snapVars, histVars, arrived, cursor, upto, pos, threw,
                       pick, seen, verdict>>
     \/ Skipped("no_pricing") \/ CallFails

\* assertSafeOrderTx: the signers of the transaction; assertSafeOrderResponse says
\* nothing of an order that opens.
Safe(tx) == tx # None /\ tx \subseteq {Manager}

\* The guards, createOrder and the checks of what it answers.
Order ==
  LET s == Sig(pos)
      guard == CheckGuards(s.size)
  IN /\ pc = "order"
     /\ \/ guard # "ok" /\ Skipped(guard)
        \/ /\ guard = "ok"
           /\ \/ CallFails
              \/ \E tx \in {None} \cup SUBSET {Manager, Foreign} :
                   IF Safe(tx)
                     THEN /\ Decide("would_sign")
                          /\ seen' = seen \cup {s.key} /\ UNCHANGED threw
                     ELSE Skipped("tx_assertion_failed")

\* What belongs to one iteration is gone after it.
NoBatch == /\ upto' = 0 /\ pos' = 1 /\ threw' = FALSE /\ verdict' = "none"
           /\ since' = 0 /\ failed' = FALSE

\* A batch with a throw in it keeps the cursor and comes again.
EndOfBatch ==
  /\ pc = "row" /\ pos > upto
  /\ cursor' = IF threw THEN cursor ELSE upto
  /\ NoBatch /\ Goto("top")
  /\ UNCHANGED <<snapVars, arrived, pick, seen>>

\* The process ends at an await, or is ended; launchd starts it again.
Restart ==
  /\ pc # "boot" /\ Goto("boot")
  /\ build' = None /\ snap' = Empty /\ pick' = None
  /\ NoBatch
  /\ UNCHANGED <<jupiter, arrived, cursor, seen>>

Arrive ==
  /\ arrived < Len(Feed) /\ arrived' = arrived + 1
  /\ UNCHANGED <<snapVars, loopVars, histVars>>

InIteration == pc \in {"refresh", "fetch", "row", "market", "order"}

Tick == /\ TickSnapshot /\ since' = IF InIteration THEN Older(since) ELSE 0
        /\ UNCHANGED <<loopVars, failed, arrived>>

Jupiter ==
  /\ \/ \E e \in Event : List(e) \/ Delist(e) \/ Ends(e)
     \/ \E m \in Market : Shut(m)
  /\ UNCHANGED <<loopVars, histVars, arrived>>

Init ==
  /\ SnapInit
  /\ pc = "boot" /\ arrived = 0 /\ cursor = 0 /\ upto = 0 /\ pos = 1
  /\ threw = FALSE /\ pick = None /\ seen = {}
  /\ verdict = "none"
  /\ failed = FALSE /\ since = 0

Next ==
  \/ Boot \/ Top \/ Reading \/ Fetch \/ GateRow \/ MapMarket \/ Order
  \/ EndOfBatch \/ Restart \/ Arrive \/ Tick \/ Jupiter

Spec == Init /\ [][Next]_vars

-----------------------------------------------------------------------------
(* Properties.                                                             *)

TypeOK ==
  /\ SnapType
  /\ pc \in {"boot", "bootRead", "top", "refresh", "fetch", "row", "market",
             "order"}
  /\ {arrived, cursor, upto} \subseteq 0 .. Len(Feed)
  /\ pos \in 1 .. Len(Feed) + 1 /\ {threw, failed} \subseteq BOOLEAN
  /\ pick \in Market \cup {None} /\ (pick # None <=> pc \in {"market", "order"})
  /\ seen \subseteq Nat /\ since \in Age
  /\ upto <= arrived /\ cursor <= arrived

Becomes(o) == pos' = pos + 1 /\ verdict' = o /\ pc = "row"
EventNow == Sig(pos).event

\* A signal is dropped for want of a market only if its event really was off
\* Jupiter's list at some moment within the TTL, unless the listing was longer
\* than the pages read or lost an event while it was being read.
MissingExplained ==
  [][Becomes("no_jup_market") /\ EventNow \in Watched =>
       \/ unlisted[EventNow] <= TTL
       \/ CategoryOf[EventNow] \in snap.shifted \cup snap.cut]_vars

\* A signal is dropped for a stale snapshot only if this iteration's refresh
\* failed or time has passed since the iteration began: the resolver and the
\* refresh agree on what is stale.
StaleExplained == [][Becomes("snapshot_stale") => failed \/ since > 0]_vars

\* A signal goes to a market that has been shut for longer than the TTL only if
\* none of its event's markets is open.
PickIsRecent ==
  [][pc = "row" /\ pc' = "market" =>
       \/ shutFor[pick'] <= TTL
       \/ ToSet(MarketsOf[EventNow]) \cap open = {}]_vars

\* "sizing is done by the follower's checkGuards from vault NAV": a trigger is
\* too small only for a vault whose largest trade is below the minimum.
TriggersAreSized ==
  verdict = "below_min_size" => Nav * Caps.trade < Caps.min * 100
==============================================================================
