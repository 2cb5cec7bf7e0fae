------------------------------ MODULE Rotator ------------------------------
(***************************************************************************)
(* The rotation bot (voltr/src/main.ts with signal.ts, guards.ts,          *)
(* rotate.ts and vault.ts): a cron job that moves a vault towards the      *)
(* weights of the latest signal, in a few transactions, and remembers the  *)
(* signal it did that for.                                                 *)
(*                                                                         *)
(* Values are whole base units of the vault's asset, and the vault's total *)
(* is constant: prices move value from one token to another.  Amounts are  *)
(* planned as exact fractions, as the code plans them in floating point,   *)
(* and rounded to base units when the instructions are built.  Signals     *)
(* have passed readSignalFile's schema.                                    *)
(***************************************************************************)
EXTENDS Integers, Sequences, Sums

CONSTANTS
  Order,      \* the universe, in the order of weights_bp
  Cash,       \* "CASH", the lending strategy of the universe
  Nav,        \* the vault's total value
  Total,      \* TOTAL_BP
  MaxWeight,  \* MAX_WEIGHT_BP
  MaxDelta,   \* MAX_DELTA_BP
  Band,       \* NO_TRADE_BAND_USDC_MIN
  Chunk,      \* CHUNK, instructions per transaction
  Cooldown,   \* COOLDOWN_SECONDS
  Freshness,  \* FRESHNESS_MAX_MS
  Signal,     \* the signals that may be published
  Weights,    \* weights_bp of each signal, signed
  Confident,  \* the signals with confidence >= CONFIDENCE_MIN
  Vaults,     \* the vaults a history may start with
  MaxTime,    \* BOUND: the end of the clock
  MaxFaults   \* BOUND: failures, crashes and price moves, together

Token == {Order[i] : i \in DOMAIN Order}
NoSignal == [name |-> "none", at |-> 0]
NoState == [ts |-> 0, hash |-> NoSignal]

Abs(x) == IF x < 0 THEN -x ELSE x

\* A holding's value and the vault's idle asset make up the vault's total.
Vault == {v \in [alloc : [Token -> Nat], idle : Nat] : SumOf(v.alloc) + v.idle = Nav}

ASSUME RotatorAssumption ==
  /\ Order \in Seq(Token) /\ Cash \in Token /\ Token # {Cash}
  /\ \A i, j \in DOMAIN Order : Order[i] = Order[j] => i = j
  /\ Nav \in Nat \ {0} /\ Total \in Nat \ {0}
  /\ {MaxWeight, MaxDelta, Band, Cooldown, Freshness} \subseteq Nat
  /\ Chunk \in Nat \ {0}
  /\ Weights \in [Signal -> [Token -> Int]]
  /\ \A s \in Signal : SumOf([t \in Token |-> Abs(Weights[s][t])]) = Total
  /\ Confident \subseteq Signal
  /\ \A v \in Vaults : v \in Vault
  /\ MaxTime \in Nat /\ MaxFaults \in Nat

\* No signal that passes the guards takes a vault from all cash to less than
\* what cash may be.
ASSUME CapsAssumption == MaxWeight + MaxDelta < Total

VARIABLES
  now,        \* the clock
  latest,     \* the newest signal file: [name, at], its content and timestamp
  alloc,      \* the value each strategy holds, on chain
  idle,       \* the vault's idle asset, on chain
  state,      \* voltr_state.json: [ts, hash]; the hash is of [name, at]
  pc,         \* where the run is
  cur,        \* the signal the run has read
  ts,         \* nowTs of the run
  steps,      \* the rest of the run's instructions
  failed,     \* history: a transaction of the run executed with an error
  moved,      \* history: prices moved since the run read the vault
  faults      \* faults so far

chain == <<alloc, idle>>
runVars == <<pc, cur, ts, steps, failed, moved>>
vars == <<now, latest, chain, state, runVars, faults>>

Init ==
  /\ now = 0
  /\ latest = NoSignal
  /\ \E v \in Vaults : alloc = v.alloc /\ idle = v.idle
  /\ state = NoState
  /\ pc = "off" /\ cur = NoSignal /\ ts = 0 /\ steps = << >>
  /\ failed = FALSE /\ moved = FALSE
  /\ faults = 0

Fault == faults < MaxFaults /\ faults' = faults + 1
NoFault == UNCHANGED faults

Off ==
  /\ pc' = "off" /\ cur' = NoSignal /\ ts' = 0 /\ steps' = << >>
  /\ failed' = FALSE /\ moved' = FALSE

----------------------------------------------------------------------------
(* From signal to weights, and the guards. *)

Pos(x) == IF x > 0 THEN x ELSE 0
Shorts(s) == SumOf([t \in Token |-> Pos(-Weights[s][t])])

\* longOnlyWeights: shorts become cash; without confidence all of it does.
LongOnly(s) ==
  IF s \in Confident
  THEN [t \in Token |-> Pos(Weights[s][t]) + IF t = Cash THEN Shorts(s) ELSE 0]
  ELSE [t \in Token |-> IF t = Cash THEN Total ELSE 0]

\* Math.round(n / d), for n and d not negative.
Round(n, d) == (2 * n + d) \div (2 * d)

\* The vault's weights as the run sees them, idle counted as cash.
CurrentWeight(t) ==
  Round(alloc[t] * Total, Nav) + IF t = Cash THEN Round(idle * Total, Nav) ELSE 0

\* Mutant of MaxDeltaOk: the guard is forgotten.
AnyDelta(w) == TRUE
MaxDeltaOk(w) == \A t \in Token : Abs(CurrentWeight(t) - w[t]) <= MaxDelta

\* applyGuards, but for what it asks of the hot wallet and of the NAV.
GuardsOk(w) ==
  /\ \A t \in Token : w[t] >= 0
  /\ Abs(SumOf(w) - Total) <= 1
  /\ \A t \in Token : w[t] <= MaxWeight
  /\ MaxDeltaOk(w)

----------------------------------------------------------------------------
(* planRotation.  Deltas are in units of 1 / Total. *)

Delta(w, t) == w[t] * Nav - alloc[t] * Total

\* The tokens of a set, in the order of weights_bp.
InOrder(S) ==
  LET upTo[n \in 0..Len(Order)] ==
        IF n = 0 THEN << >>
        ELSE IF Order[n] \in S THEN Append(upTo[n - 1], Order[n]) ELSE upTo[n - 1]
  IN  upTo[Len(Order)]

\* The tokens the plan withdraws from, and those it deposits to.
Over(w)  == InOrder({t \in Token : Delta(w, t) < 0 /\ -Delta(w, t) >= Band * Total})
Under(w) == InOrder({t \in Token : Delta(w, t) > 0 /\ Delta(w, t) >= Band * Total})

SumOver(w, seq) == SumOf([i \in 1..Len(seq) |-> Abs(Delta(w, seq[i]))])
\* Mutant of WillHaveIdle: what the withdrawals return is forgotten.
IdleNow(w) == idle * Total
WillHaveIdle(w) == idle * Total + SumOver(w, Over(w))

Withdraws(w) ==
  [i \in 1..Len(Over(w)) |->
     [token |-> Over(w)[i], amount |-> -Round(-Delta(w, Over(w)[i]), Total)]]

\* Deposits that would not fit are scaled down together.
Deposits(w) ==
  LET need == SumOver(w, Under(w))
      have == WillHaveIdle(w)
  IN  [i \in 1..Len(Under(w)) |->
        [token |-> Under(w)[i],
         amount |-> IF need > have
                    THEN Round(Delta(w, Under(w)[i]) * have, need * Total)
                    ELSE Round(Delta(w, Under(w)[i]), Total)]]

\* Mutant of Plan: the deposits come first.
PlanDepositsFirst(w) == Deposits(w) \o Withdraws(w)

\* A step adds its amount to a strategy and takes it from idle.
Plan(w) == Withdraws(w) \o Deposits(w)

\* No instruction can be built for nothing: the deposits must not have been
\* scaled down to zero.
Buildable(w) == Under(w) = << >> \/ WillHaveIdle(w) > 0

----------------------------------------------------------------------------
(* The run. *)

\* The clock advances, also while a run is on.
Tick ==
  /\ now < MaxTime /\ now' = now + 1
  /\ UNCHANGED <<latest, chain, state, runVars, faults>>

\* A signal file is published, with the time of day in it.
Publish(s) ==
  /\ latest' = [name |-> s, at |-> now]
  /\ UNCHANGED <<now, chain, state, runVars, faults>>

\* readSignalFile: there is a signal, and it is not too old.
Fresh == latest # NoSignal /\ now - latest.at <= Freshness

\* A run starts, by cron or by hand.  It ends at once when the signal is
\* missing, stale, or the one already rotated on.
Start ==
  /\ pc = "off"
  /\ Fresh
  /\ latest # state.hash
  /\ pc' = "fetch" /\ cur' = latest
  /\ UNCHANGED <<now, latest, chain, state, ts, steps, failed, moved, faults>>

\* Mutant of Cooled: the time elapsed is counted from the signal's.
CooledSignal == state = NoState \/ now - state.hash.at >= Cooldown
Cooled == state = NoState \/ now - state.ts >= Cooldown

\* The vault is read, cooldown and guards are passed, and there is something
\* to do.
Rotate ==
  /\ pc = "fetch"
  /\ LET w == LongOnly(cur.name) IN
     /\ Cooled /\ GuardsOk(w)
     /\ Plan(w) # << >> /\ Buildable(w)
     /\ steps' = Plan(w)
  /\ pc' = "send" /\ ts' = now
  /\ UNCHANGED <<now, latest, chain, state, cur, failed, moved, faults>>

NothingDue ==
  /\ pc = "fetch"
  /\ LET w == LongOnly(cur.name) IN
     Cooled /\ GuardsOk(w) /\ Plan(w) = << >>

\* Nothing to do counts as a rotation.
InBand ==
  /\ NothingDue
  /\ state' = [ts |-> now, hash |-> cur]
  /\ Off
  /\ UNCHANGED <<now, latest, chain, faults>>

\* The cooldown, a guard or a step of nothing ends the run; so do an unfunded
\* hot wallet, a NAV out of bounds and a call that fails.
Refuse ==
  /\ pc = "fetch"
  /\ \/ NoFault
        /\ LET w == LongOnly(cur.name)
           IN  ~Cooled \/ ~GuardsOk(w) \/ ~Buildable(w)
     \/ Fault
  /\ Off
  /\ UNCHANGED <<now, latest, chain, state>>

----------------------------------------------------------------------------
(* sendBatch: one transaction after another, each sent once its preflight  *)
(* passes and waited for.                                                  *)

Tx == SubSeq(steps, 1, IF Len(steps) < Chunk THEN Len(steps) ELSE Chunk)
Rest == SubSeq(steps, Len(Tx) + 1, Len(steps))

\* What the first n of some steps take from idle, and add to a strategy.
Spends(q, n) == SumOf([i \in 1..n |-> q[i].amount])
Moves(q, n, t) == SumOf([i \in 1..n |-> IF q[i].token = t THEN q[i].amount ELSE 0])

\* Every instruction finds what it moves.
Covered ==
  \A n \in 1..Len(Tx) :
    /\ idle >= Spends(Tx, n)
    /\ \A t \in Token : alloc[t] + Moves(Tx, n, t) >= 0

Execute ==
  /\ Covered
  /\ alloc' = [t \in Token |-> alloc[t] + Moves(Tx, Len(Tx), t)]
  /\ idle' = idle - Spends(Tx, Len(Tx))

Sending == pc = "send" /\ steps # << >>

SendOk ==
  /\ Sending
  /\ Execute
  /\ steps' = Rest
  /\ UNCHANGED <<now, latest, state, pc, cur, ts, failed, moved, faults>>

\* The transaction passed its preflight and executed with an error, which
\* confirmTransaction returns and nobody reads.
SendErr ==
  /\ Sending
  /\ Covered /\ Fault
  /\ failed' = TRUE
  /\ steps' = Rest
  /\ UNCHANGED <<now, latest, chain, state, pc, cur, ts, moved>>

\* The preflight rejects the transaction.
Rejected ==
  /\ Sending
  /\ ~Covered
  /\ Off
  /\ UNCHANGED <<now, latest, chain, state, faults>>

\* Sending, or waiting, throws; the transaction may still have executed.
SendThrows ==
  /\ Sending
  /\ Fault
  /\ Execute \/ UNCHANGED chain
  /\ Off
  /\ UNCHANGED <<now, latest, state>>

\* Ledger row, then state file.
Commit ==
  /\ pc = "send" /\ steps = << >>
  /\ state' = [ts |-> ts, hash |-> cur]
  /\ Off
  /\ UNCHANGED <<now, latest, chain, faults>>

\* The process dies; in the middle of writeState it leaves a file that the
\* next run cannot parse.
Crash ==
  /\ Fault
  /\ \/ pc = "send" /\ state' = state
     \/ /\ NothingDue \/ (pc = "send" /\ steps = << >>)
        /\ state' = NoState
  /\ Off
  /\ UNCHANGED <<now, latest, chain>>

\* Prices move value from one token to another.
PriceMove(s, t) ==
  /\ s # t /\ alloc[s] > 0
  /\ Fault
  /\ alloc' = [alloc EXCEPT ![s] = @ - 1, ![t] = @ + 1]
  /\ moved' = (pc = "send")
  /\ UNCHANGED <<now, latest, idle, state, pc, cur, ts, steps, failed>>

Next ==
  \/ Tick
  \/ \E s \in Signal : Publish(s)
  \/ Start \/ Rotate \/ InBand \/ Refuse
  \/ SendOk \/ SendErr \/ Rejected \/ SendThrows
  \/ Commit \/ Crash
  \/ \E s, t \in Token : PriceMove(s, t)

Spec == Init /\ [][Next]_vars

----------------------------------------------------------------------------
(* What the bot promises. *)

Recorded == state' # state /\ state' # NoState

\* RotatesToTarget: when a rotation is recorded whose transactions all
\* executed, over prices that stood still, every token is within the
\* no-trade bands of the weights of the signal it is recorded for, however
\* partial the runs before it were (planRotation, sendBatch).
OffTarget(s, t) == Abs(Delta(LongOnly(s), t))
RotatesToTarget ==
  [][Recorded /\ ~failed /\ ~moved =>
       \A t \in Token : OffTarget(state'.hash.name, t)
                          <= Total * (Band * (Len(Order) - 1) + 1)]_vars

\* SpacedRecords: a recorded rotation is a cooldown after the one the state
\* file held, though runs may start at any time, fail anywhere and take long
\* (the cooldown guard of main.ts).
SpacedRecords ==
  [][Recorded /\ state # NoState => state'.ts - state.ts >= Cooldown]_vars

\* CashIsAbsorbing: no signal leads out of a vault that is all cash, as a new
\* one is: cash may weigh MAX_WEIGHT_BP at the most, and no weight may change
\* by more than MAX_DELTA_BP (applyGuards over the weights of main.ts).
AllCash == \A t \in Token \ {Cash} : alloc[t] = 0
CashIsAbsorbing ==
  [][AllCash /\ pc = "fetch" => pc' # "send" /\ state' = state]_vars

\* CashSignalServed: a run that is forced to all cash, fails in no call and is
\* not within a cooldown ends as a success, not at a guard (the exit codes of
\* main.ts, CONFIDENCE_MIN in signal.ts).
CashSignalServed ==
  [][/\ pc = "fetch" /\ pc' = "off"
     /\ cur.name \notin Confident /\ Cooled /\ faults' = faults
     => Recorded]_vars

\* PlanIsFunded: while no transaction has failed and no price has moved, every
\* transaction of the plan finds what it moves, but for the rounding of each
\* amount to base units (the order and the scaling of planRotation).
PlanIsFunded ==
  Sending /\ ~failed /\ ~moved =>
    \A n \in 1..Len(Tx) :
      /\ 2 * (Spends(Tx, n) - idle) <= Len(Order)
      /\ \A t \in Token : alloc[t] + Moves(Tx, n, t) >= 0
=============================================================================
