--------------------------- MODULE PaperResolver ---------------------------
(***************************************************************************)
(* The paper-trade resolver (voltr/src/follower/paperResolver.ts): it      *)
(* walks the paper ledger the follower writes, asks Jupiter for each       *)
(* trade's market and appends the outcomes to paper-results.ndjson.        *)
(*                                                                         *)
(* A runner is one way of starting it: the hourly launchd agent, an        *)
(* operator's `pnpm follower:resolve`.  Runs of different runners overlap; *)
(* nothing locks the two files.  A run reads both files at its start,      *)
(* judges one trade after another, each on its own request, and appends    *)
(* all its rows at the end.  Of the results file only the rows that can be *)
(* parsed and are not "pending" matter to a reader, and not their order:   *)
(* it is a count of rows.                                                  *)
(***************************************************************************)
EXTENDS Integers, Sequences, FiniteSets

CONSTANTS
  Key,        \* dedup keys of paper trades
  Market,     \* Jupiter markets
  MarketOf,   \* jup_market_id of each trade
  SideOf,     \* side of each trade
  Runner,     \* who starts runs
  Scheduled,  \* the runners that never stop starting them
  MaxCopies,  \* BOUND: ledger rows of one key; 1 when none is booked twice
  MaxFaults   \* BOUND: failed requests, failed writes and crashes, together

ASSUME ResolverAssumption ==
  /\ MarketOf \in [Key -> Market]
  /\ SideOf \in [Key -> {"yes", "no"}]
  /\ Scheduled \subseteq Runner
  /\ MaxCopies \in Nat /\ MaxFaults \in Nat

VARIABLES
  market,     \* Jupiter's answer for each market: its status and result
  trades,     \* paper-trades.ndjson: the dedup keys of its rows
  results,    \* paper-results.ndjson: its rows of each key and final status
  torn,       \* the results file ends in the middle of a line
  run,        \* the run of each runner
  faults      \* faults so far

vars == <<market, trades, results, torn, run, faults>>

\* "closed" has no result yet; "yes" and "no" are closed with that result.
MarketState == {"open", "closed", "cancelled", "yes", "no"}
Status == {"pending", "won", "lost", "error"}
FinalStatus == Status \ {"pending"}
Row == [key : Key, status : Status]
Run == [pc : {"idle", "results", "judge", "append"}, trades : Seq(Key),
        resolved : SUBSET Key, next : Nat \ {0}, rows : Seq(Row)]
NoRun == [pc |-> "idle", trades |-> << >>, resolved |-> {}, next |-> 1,
          rows |-> << >>]

Init ==
  /\ market = [m \in Market |-> "open"]
  /\ trades = << >> /\ torn = FALSE
  /\ results = [k \in Key |-> [s \in FinalStatus |-> 0]]
  /\ run = [p \in Runner |-> NoRun]
  /\ faults = 0

\* How often x occurs in a sequence.
Copies(seq, x) == Cardinality({i \in DOMAIN seq : seq[i] = x})

\* The results once rows are appended to them.
Counted(rows) ==
  [k \in Key |-> [s \in FinalStatus |->
     results[k][s] + Copies(rows, [key |-> k, status |-> s])]]

Fault == faults < MaxFaults /\ faults' = faults + 1
NoFault == UNCHANGED faults

----------------------------------------------------------------------------
(* Jupiter and the follower. *)

\* A market closes, then gets a result, or is cancelled; it may also get
\* its result at once.
MarketMoves(m) ==
  /\ \/ market[m] = "open" /\ market' = [market EXCEPT ![m] = "closed"]
     \/ /\ market[m] \in {"open", "closed"}
        /\ \E s \in {"yes", "no", "cancelled"} : market' = [market EXCEPT ![m] = s]
  /\ UNCHANGED <<trades, results, torn, run, faults>>

\* The follower appends a paper trade; after a restart or a rotation of its
\* input it may append the same one again.
Append1(k) ==
  /\ Copies(trades, k) < MaxCopies
  /\ trades' = Append(trades, k)
  /\ UNCHANGED <<market, results, torn, run, faults>>

----------------------------------------------------------------------------
(* A run. *)

ReadTrades(p) ==
  /\ run[p].pc = "idle"
  /\ run' = [run EXCEPT ![p] = [NoRun EXCEPT !.pc = "results", !.trades = trades]]
  /\ UNCHANGED <<market, trades, results, torn, faults>>

\* Mutant of ResolvedKeys: only won and lost rows count.
WonOrLostKeys == {k \in Key : \E s \in {"won", "lost"} : results[k][s] > 0}

\* resolvedKeys: the keys of every row that is not pending.
ResolvedKeys == {k \in Key : \E s \in FinalStatus : results[k][s] > 0}

ReadResults(p) ==
  /\ run[p].pc = "results"
  /\ run' = [run EXCEPT ![p].pc = "judge", ![p].resolved = ResolvedKeys]
  /\ UNCHANGED <<market, trades, results, torn, faults>>

Trade(p) == run[p].trades[run[p].next]
Judging(p) == run[p].pc = "judge" /\ run[p].next <= Len(run[p].trades)

\* Mutant of AlreadyResolved: `break` for `continue`.
StopAtResolved(p) ==
  /\ Judging(p)
  /\ Trade(p) \in run[p].resolved
  /\ run' = [run EXCEPT ![p].next = Len(run[p].trades) + 1]
  /\ UNCHANGED <<market, trades, results, torn, faults>>

AlreadyResolved(p) ==
  /\ Judging(p)
  /\ Trade(p) \in run[p].resolved
  /\ run' = [run EXCEPT ![p].next = @ + 1]
  /\ UNCHANGED <<market, trades, results, torn, faults>>

\* Mutant of Outcome: no result counts as the other side's.
OutcomeClosedIsLost(k) ==
  LET s == market[MarketOf[k]] IN
  IF s = "open" THEN "pending" ELSE IF s = SideOf[k] THEN "won" ELSE "lost"

\* What the market says of a trade.  Without a result it is pending, on a
\* cancelled market too: a "voided" row takes a result that the client's
\* schema does not let through.
Outcome(k) ==
  LET s == market[MarketOf[k]] IN
  IF s \in {"open", "closed", "cancelled"} THEN "pending"
  ELSE IF s = SideOf[k] THEN "won" ELSE "lost"

\* One getMarket: its answer, or an error for whatever it throws.
Judge(p) ==
  /\ Judging(p)
  /\ Trade(p) \notin run[p].resolved
  /\ \E status \in {Outcome(Trade(p)), "error"} :
       /\ IF status = "error" THEN Fault ELSE NoFault
       /\ run' = [run EXCEPT ![p].next = @ + 1,
                    ![p].rows = Append(@, [key |-> Trade(p), status |-> status])]
  /\ UNCHANGED <<market, trades, results, torn>>

Judged(p) ==
  /\ run[p].pc = "judge"
  /\ run[p].next > Len(run[p].trades)
  /\ run' = [run EXCEPT ![p] = IF @.rows = << >> THEN NoRun
                               ELSE [@ EXCEPT !.pc = "append"]]
  /\ UNCHANGED <<market, trades, results, torn, faults>>

\* The rows a reader can parse once `rows` follow the file: the first is
\* glued to a torn line.
Readable(rows) == IF torn /\ rows # << >> THEN Tail(rows) ELSE rows

\* appendFile writes every row; or some of them and a part of the next one,
\* or nothing, and the run fails.
AppendResults(p) ==
  /\ run[p].pc = "append"
  /\ \/ /\ results' = Counted(Readable(run[p].rows))
        /\ torn' = FALSE
        /\ NoFault
     \/ /\ Fault
        /\ \E n \in 0..(Len(run[p].rows) - 1) :
             results' = Counted(Readable(SubSeq(run[p].rows, 1, n)))
        /\ torn' = TRUE
     \/ Fault /\ UNCHANGED <<results, torn>>
  /\ run' = [run EXCEPT ![p] = NoRun]
  /\ UNCHANGED <<market, trades>>

Crash(p) ==
  /\ run[p].pc # "idle"
  /\ Fault
  /\ run' = [run EXCEPT ![p] = NoRun]
  /\ UNCHANGED <<market, trades, results, torn>>

RunStep(p) ==
  \/ ReadTrades(p) \/ ReadResults(p) \/ AlreadyResolved(p)
  \/ Judge(p) \/ Judged(p) \/ AppendResults(p)

Next ==
  \/ \E m \in Market : MarketMoves(m)
  \/ \E k \in Key : Append1(k)
  \/ \E p \in Runner : RunStep(p) \/ Crash(p)

Spec == Init /\ [][Next]_vars
FairSpec == Spec /\ \A p \in Scheduled : WF_vars(RunStep(p))

----------------------------------------------------------------------------
(* What the resolver promises. *)

\* TypeOK: every variable has its shape, and only final rows are counted.
TypeOK ==
  /\ market \in [Market -> MarketState]
  /\ trades \in Seq(Key)
  /\ results \in [Key -> [FinalStatus -> Nat]]
  /\ torn \in BOOLEAN
  /\ run \in [Runner -> Run]
  /\ faults \in Nat

HasResult(k) == market[MarketOf[k]] \in {"yes", "no"}
Verdicts(k) == results[k]["won"] + results[k]["lost"]
\* The rows of k that keep later runs from judging it, error rows included.
FinalRows(k) == Verdicts(k) + results[k]["error"]

\* VerdictsTrue: a trade marked won or lost is on a market that has its
\* result, and the mark agrees with it, however old the run's view of the
\* files was when it was written.
VerdictsTrue ==
  \A k \in Key :
    /\ results[k]["won"] > 0 => market[MarketOf[k]] = SideOf[k]
    /\ results[k]["lost"] > 0 => HasResult(k) /\ market[MarketOf[k]] # SideOf[k]

\* FinalRowsBounded: a trade is never counted more often in the results than
\* once per ledger row and runner: once a final row is in the file, no run
\* begun later adds another.
FinalRowsBounded ==
  \A k \in Key : FinalRows(k) <= Copies(trades, k) * Cardinality(Runner)

\* ResultsReachTrades: a market's result reaches each of its trades as a won
\* or lost row, whatever failed writes, torn lines and crashes come before,
\* unless an error row of the trade is in the file.  Such a row stands for
\* one failed request, be the market still open, and is never judged again:
\* that trade does not get its verdict.
ResultsReachTrades ==
  \A k \in Key :
    [](results[k]["error"] = 0)
      => (Copies(trades, k) > 0 /\ HasResult(k) ~> Verdicts(k) > 0)
=============================================================================
