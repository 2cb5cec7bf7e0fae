------------------------ MODULE PaperResolverProofs ------------------------
(***************************************************************************)
(* Theorems about PaperResolver, for any trades and markets, any runners   *)
(* and any number of copies and faults.                                    *)
(***************************************************************************)
EXTENDS PaperResolver, FiniteSetTheorems, SequenceTheorems, TLAPS

(***************************************************************************)
(* Lemmas about counting rows.                                             *)
(***************************************************************************)

\* How often something occurs is a number, and more than none only for
\* what does occur.
LEMMA CopiesProps ==
  ASSUME NEW S, NEW seq \in Seq(S), NEW x
  PROVE  /\ Copies(seq, x) \in Nat
         /\ Copies(seq, x) > 0 => \E i \in DOMAIN seq : seq[i] = x
<1> DEFINE at == {i \in DOMAIN seq : seq[i] = x}
<1>1. DOMAIN seq = 1..Len(seq) /\ Len(seq) \in Nat
  OBVIOUS
<1>2. IsFiniteSet(1..Len(seq))
  BY <1>1, FS_Interval
<1>3. at \in SUBSET (1..Len(seq))
  BY <1>1
<1>4. IsFiniteSet(at)
  BY <1>2, <1>3, FS_Subset
<1>5. Cardinality(at) \in Nat
  BY <1>4, FS_CardinalityType
<1>6. Cardinality(at) = 0 \/ at # {}
  BY FS_EmptySet
<1> QED
  BY <1>5, <1>6 DEF Copies

\* What a reader can parse of appended rows, and what a short write leaves
\* of them, are some of those rows.
LEMMA ReadableProps ==
  ASSUME NEW rows \in Seq(Row), torn \in BOOLEAN
  PROVE  /\ Readable(rows) \in Seq(Row)
         /\ \A i \in DOMAIN Readable(rows) :
              \E j \in DOMAIN rows : Readable(rows)[i] = rows[j]
<1>1. CASE torn /\ rows # << >>
  <2>1. /\ Tail(rows) \in Seq(Row)
        /\ Len(Tail(rows)) = Len(rows) - 1
        /\ \A i \in 1..Len(Tail(rows)) : Tail(rows)[i] = rows[i + 1]
    BY <1>1, HeadTailProperties
  <2>2. \A i \in DOMAIN Tail(rows) : i + 1 \in DOMAIN rows
    BY <2>1
  <2> QED
    BY <1>1, <2>1, <2>2 DEF Readable
<1>2. CASE ~(torn /\ rows # << >>)
  BY <1>2 DEF Readable
<1> QED
  BY <1>1, <1>2

LEMMA PrefixProps ==
  ASSUME NEW rows \in Seq(Row), NEW n \in 0..(Len(rows) - 1)
  PROVE  /\ SubSeq(rows, 1, n) \in Seq(Row)
         /\ \A i \in DOMAIN SubSeq(rows, 1, n) :
              \E j \in DOMAIN rows : SubSeq(rows, 1, n)[i] = rows[j]
<1>1. Len(rows) \in Nat /\ 1 \in 1..Len(rows)+1 /\ n \in (1-1)..Len(rows)
  OBVIOUS
<1>2. /\ SubSeq(rows, 1, n) \in Seq(Row)
      /\ Len(SubSeq(rows, 1, n)) = n
      /\ \A i \in 1..n : SubSeq(rows, 1, n)[i] = rows[i]
  BY <1>1, SubSeqProperties
<1>3. \A i \in DOMAIN SubSeq(rows, 1, n) : i \in 1..n /\ i \in DOMAIN rows
  BY <1>1, <1>2
<1> QED
  BY <1>2, <1>3

\* Appended rows are counted: the counts stay numbers, and only a row that
\* is among them turns a zero into more.
LEMMA CountedProps ==
  ASSUME results \in [Key -> [FinalStatus -> Nat]], NEW rows \in Seq(Row)
  PROVE  /\ Counted(rows) \in [Key -> [FinalStatus -> Nat]]
         /\ \A k \in Key, s \in FinalStatus :
              Counted(rows)[k][s] > 0 =>
                \/ results[k][s] > 0
                \/ \E i \in DOMAIN rows : rows[i] = [key |-> k, status |-> s]
<1>1. ASSUME NEW k \in Key, NEW s \in FinalStatus
      PROVE  /\ results[k][s] + Copies(rows, [key |-> k, status |-> s]) \in Nat
             /\ results[k][s] + Copies(rows, [key |-> k, status |-> s]) > 0 =>
                  \/ results[k][s] > 0
                  \/ \E i \in DOMAIN rows : rows[i] = [key |-> k, status |-> s]
  <2> DEFINE r == [key |-> k, status |-> s]
  <2>1. /\ Copies(rows, r) \in Nat
        /\ Copies(rows, r) > 0 => \E i \in DOMAIN rows : rows[i] = r
    BY CopiesProps
  <2>2. results[k][s] \in Nat
    OBVIOUS
  <2> HIDE DEF r
  <2>3. /\ results[k][s] + Copies(rows, r) \in Nat
        /\ results[k][s] + Copies(rows, r) > 0 =>
             results[k][s] > 0 \/ \E i \in DOMAIN rows : rows[i] = r
    BY <2>1, <2>2
  <2> QED
    BY <2>3 DEF r
<1> QED
  BY <1>1 DEF Counted

(***************************************************************************)
(* Type correctness.                                                       *)
(***************************************************************************)

LEMMA OutcomeType == ASSUME NEW k PROVE Outcome(k) \in Status
BY DEF Outcome, Status

LEMMA NoRunType == NoRun \in Run
BY EmptySeq DEF NoRun, Run

LEMMA InitType == Init => TypeOK
<1> SUFFICES ASSUME Init PROVE TypeOK
  OBVIOUS
<1>1. results \in [Key -> [FinalStatus -> Nat]]
  <2>1. [s \in FinalStatus |-> 0] \in [FinalStatus -> Nat]
    OBVIOUS
  <2> QED
    BY <2>1 DEF Init
<1>2. market \in [Market -> MarketState]
  BY DEF Init, MarketState
<1>3. trades \in Seq(Key) /\ torn \in BOOLEAN /\ faults \in Nat
  BY EmptySeq DEF Init
<1>4. run \in [Runner -> Run]
  BY NoRunType DEF Init
<1> QED
  BY <1>1, <1>2, <1>3, <1>4 DEF TypeOK

\* A run stays a run when a field of it gets another value of its type.
LEMMA PcType ==
  ASSUME NEW r \in Run, NEW pc \in {"idle", "results", "judge", "append"}
  PROVE  [r EXCEPT !.pc = pc] \in Run
BY DEF Run

LEMMA ResolvedType ==
  ASSUME NEW r \in Run, NEW ks \in SUBSET Key
  PROVE  [r EXCEPT !.resolved = ks] \in Run
BY DEF Run

LEMMA NextTradeType ==
  ASSUME NEW r \in Run
  PROVE  [r EXCEPT !.next = r.next + 1] \in Run
<1>1. r.next \in Nat \ {0}
  BY DEF Run
<1>2. r.next + 1 \in Nat \ {0}
  BY <1>1
<1> QED
  BY <1>2 DEF Run

LEMMA RowsType ==
  ASSUME NEW r \in Run, NEW rows \in Seq(Row)
  PROVE  [r EXCEPT !.rows = rows] \in Run
BY DEF Run

\* Every step of a run leaves a run.
LEMMA RunStepType ==
  ASSUME TypeOK, NEW p \in Runner, RunStep(p) \/ Crash(p)
  PROVE  TypeOK'
<1> USE DEF TypeOK, Fault, NoFault
<1>0. /\ run[p] \in Run /\ run[p].trades \in Seq(Key) /\ run[p].rows \in Seq(Row)
      /\ run[p].next \in Nat \ {0} /\ run[p].resolved \subseteq Key
  BY DEF Run
<1>1. CASE ReadTrades(p)
  <2>1. [NoRun EXCEPT !.pc = "results", !.trades = trades] \in Run
    BY NoRunType DEF Run, NoRun
  <2> QED
    BY <1>1, <2>1 DEF ReadTrades
<1>2. CASE ReadResults(p)
  <2>1. ResolvedKeys \subseteq Key
    BY DEF ResolvedKeys
  <2>2. [run[p] EXCEPT !.pc = "judge"] \in Run
    BY <1>0, PcType
  <2>3. [[run[p] EXCEPT !.pc = "judge"] EXCEPT !.resolved = ResolvedKeys] \in Run
    BY <2>1, <2>2, ResolvedType
  <2>4. run' = [run EXCEPT ![p] =
                  [[run[p] EXCEPT !.pc = "judge"] EXCEPT !.resolved = ResolvedKeys]]
    BY <1>2 DEF ReadResults
  <2> QED
    BY <1>2, <2>3, <2>4 DEF ReadResults
<1>3. CASE AlreadyResolved(p)
  <2>1. [run[p] EXCEPT !.next = run[p].next + 1] \in Run
    BY <1>0, NextTradeType
  <2> QED
    BY <1>3, <2>1 DEF AlreadyResolved
<1>4. CASE Judge(p)
  <2>1. Trade(p) \in Key
    BY <1>0, <1>4 DEF Judge, Judging, Trade
  <2>2. PICK status \in {Outcome(Trade(p)), "error"} :
          /\ IF status = "error" THEN Fault ELSE NoFault
          /\ run' = [run EXCEPT ![p].next = @ + 1,
               ![p].rows = Append(@, [key |-> Trade(p), status |-> status])]
    BY <1>4 DEF Judge
  <2>3. [key |-> Trade(p), status |-> status] \in Row
    BY <2>1, <2>2, OutcomeType DEF Row, Status
  <2>4. Append(run[p].rows, [key |-> Trade(p), status |-> status]) \in Seq(Row)
    BY <1>0, <2>3, AppendProperties
  <2>5. [[run[p] EXCEPT !.next = run[p].next + 1] EXCEPT
           !.rows = Append(run[p].rows, [key |-> Trade(p), status |-> status])] \in Run
    BY <1>0, <2>4, NextTradeType, RowsType
  <2>6. run' = [run EXCEPT ![p] = [[run[p] EXCEPT !.next = run[p].next + 1] EXCEPT
           !.rows = Append(run[p].rows, [key |-> Trade(p), status |-> status])]]
    BY <1>0, <2>2 DEF Run
  <2>7. run' \in [Runner -> Run]
    BY <2>5, <2>6
  <2>8. faults' \in Nat
    BY <2>2
  <2> QED
    BY <1>4, <2>7, <2>8 DEF Judge
<1>5. CASE Judged(p)
  <2>1. [run[p] EXCEPT !.pc = "append"] \in Run
    BY <1>0, PcType
  <2> QED
    BY <1>5, <2>1, NoRunType DEF Judged
<1>6. CASE AppendResults(p)
  <2>1. Readable(run[p].rows) \in Seq(Row)
    BY <1>0, ReadableProps
  <2>2. \A n \in 0..(Len(run[p].rows) - 1) :
          Readable(SubSeq(run[p].rows, 1, n)) \in Seq(Row)
    BY <1>0, PrefixProps, ReadableProps
  <2>3. \A rows \in Seq(Row) : Counted(rows) \in [Key -> [FinalStatus -> Nat]]
    BY CountedProps
  <2>4. results' \in [Key -> [FinalStatus -> Nat]]
    BY <1>6, <2>1, <2>2, <2>3 DEF AppendResults
  <2>5. torn' \in BOOLEAN
    BY <1>6 DEF AppendResults
  <2>6. faults' = faults \/ faults' = faults + 1
    BY <1>6 DEF AppendResults
  <2>7. faults' \in Nat
    BY <2>6
  <2> QED
    BY <1>6, <2>4, <2>5, <2>7, NoRunType DEF AppendResults
<1>7. CASE Crash(p)
  BY <1>7, NoRunType DEF Crash
<1> QED
  BY <1>1, <1>2, <1>3, <1>4, <1>5, <1>6, <1>7 DEF RunStep

LEMMA NextType == TypeOK /\ [Next]_vars => TypeOK'
<1> SUFFICES ASSUME TypeOK, [Next]_vars PROVE TypeOK'
  OBVIOUS
<1>1. ASSUME NEW m \in Market, MarketMoves(m) PROVE TypeOK'
  BY <1>1 DEF MarketMoves, TypeOK, MarketState
<1>2. ASSUME NEW k \in Key, Append1(k) PROVE TypeOK'
  BY <1>2, AppendProperties DEF Append1, TypeOK
<1>3. ASSUME NEW p \in Runner, RunStep(p) \/ Crash(p) PROVE TypeOK'
  BY <1>3, RunStepType
<1>4. CASE UNCHANGED vars
  BY <1>4 DEF vars, TypeOK
<1> QED
  BY <1>1, <1>2, <1>3, <1>4 DEF Next

\* TypeCorrect: the resolver's files and runs keep their shape.
THEOREM TypeCorrect == Spec => []TypeOK
<1>1. Init => TypeOK
  BY InitType
<1>2. TypeOK /\ [Next]_vars => TypeOK'
  BY NextType
<1> QED
  BY <1>1, <1>2, PTL DEF Spec

(***************************************************************************)
(* Verdicts.  A row waits in the memory of a run while markets move and    *)
(* others write, so the invariant speaks of the rows in memory as well as  *)
(* of those in the file.                                                   *)
(***************************************************************************)

\* A verdict that agrees with the market.
TrueVerdict(k, s) ==
  /\ s = "won" => market[MarketOf[k]] = SideOf[k]
  /\ s = "lost" => HasResult(k) /\ market[MarketOf[k]] # SideOf[k]

RowsTrue(rows) ==
  \A i \in DOMAIN rows : TrueVerdict(rows[i].key, rows[i].status)

RunsTrue == \A p \in Runner : RowsTrue(run[p].rows)

ResultsTrue ==
  \A k \in Key, s \in FinalStatus : results[k][s] > 0 => TrueVerdict(k, s)

IInv == TypeOK /\ RunsTrue /\ ResultsTrue

LEMMA ResultsTrueIsVerdictsTrue == ResultsTrue => VerdictsTrue
BY DEF ResultsTrue, VerdictsTrue, TrueVerdict, FinalStatus, Status

\* A market's result is final, so a true verdict stays true.
LEMMA VerdictsStay ==
  ASSUME TypeOK, NEW m \in Market, MarketMoves(m), NEW k \in Key, NEW s,
         TrueVerdict(k, s)
  PROVE  TrueVerdict(k, s)'
<1>1. MarketOf[k] \in Market /\ SideOf[k] \in {"yes", "no"}
  BY ResolverAssumption
<1>2. market[MarketOf[k]] \in {"yes", "no"} =>
        market'[MarketOf[k]] = market[MarketOf[k]]
  BY <1>1 DEF MarketMoves, TypeOK
<1> QED
  BY <1>1, <1>2 DEF TrueVerdict, HasResult

\* The verdict of a judgement is true when it is made.
LEMMA OutcomeTrue ==
  ASSUME TypeOK, NEW k \in Key
  PROVE  TrueVerdict(k, Outcome(k)) /\ TrueVerdict(k, "error")
<1>1. market[MarketOf[k]] \in MarketState /\ SideOf[k] \in {"yes", "no"}
  BY ResolverAssumption DEF TypeOK
<1> QED
  BY <1>1 DEF Outcome, TrueVerdict, HasResult, MarketState

\* What a market does changes no verdict, in memory or in the file.
LEMMA MarketMovesTrue ==
  ASSUME IInv, NEW m \in Market, MarketMoves(m)
  PROVE  RunsTrue' /\ ResultsTrue'
<1> USE DEF IInv
<1>1. run' = run /\ results' = results
  BY DEF MarketMoves
<1>2. RunsTrue'
  <2> SUFFICES ASSUME NEW p \in Runner, NEW i \in DOMAIN run[p].rows
               PROVE  TrueVerdict(run[p].rows[i].key, run[p].rows[i].status)'
    BY <1>1 DEF RunsTrue, RowsTrue
  <2>1. run[p].rows[i].key \in Key
    <3>1. run[p].rows \in Seq(Row)
      BY DEF TypeOK, Run
    <3>2. run[p].rows[i] \in Row
      BY <3>1
    <3> QED
      BY <3>2 DEF Row
  <2>2. TrueVerdict(run[p].rows[i].key, run[p].rows[i].status)
    BY DEF RunsTrue, RowsTrue
  <2> QED
    BY <1>1, <2>1, <2>2, VerdictsStay
<1>3. ResultsTrue'
  BY <1>1, VerdictsStay DEF ResultsTrue
<1> QED
  BY <1>2, <1>3

\* While the markets stand still, a step of a run keeps the rows in memory
\* true: it holds those it had, one more judgement, or none.
LEMMA RunStepRunsTrue ==
  ASSUME IInv, NEW p \in Runner, RunStep(p) \/ Crash(p)
  PROVE  RunsTrue'
<1> USE DEF IInv
<1>0. /\ market' = market
      /\ run \in [Runner -> Run] /\ run[p] \in Run /\ run[p].rows \in Seq(Row)
      /\ RowsTrue(run[p].rows)
  BY DEF RunStep, ReadTrades, ReadResults, AlreadyResolved, Judge, Judged,
         AppendResults, Crash, TypeOK, Run, RunsTrue
<1>1. \A k, s : TrueVerdict(k, s)' <=> TrueVerdict(k, s)
  BY <1>0 DEF TrueVerdict, HasResult
<1>2. SUFFICES \E r : run' = [run EXCEPT ![p] = r] /\ RowsTrue(r.rows)
  <2>1. PICK r : run' = [run EXCEPT ![p] = r] /\ RowsTrue(r.rows)
    BY <1>2
  <2>2. \A q \in Runner : RowsTrue(run'[q].rows)
    BY <1>0, <2>1 DEF RunsTrue
  <2> QED
    BY <1>1, <2>2 DEF RunsTrue, RowsTrue
<1>3. RowsTrue(NoRun.rows)
  BY DEF RowsTrue, NoRun
<1>4. CASE ReadTrades(p)
  <2>1. [NoRun EXCEPT !.pc = "results", !.trades = trades].rows = NoRun.rows
    BY DEF NoRun
  <2> QED
    BY <1>3, <1>4, <2>1 DEF ReadTrades
<1>5. CASE ReadResults(p)
  <2>1. run' = [run EXCEPT ![p] =
                  [[run[p] EXCEPT !.pc = "judge"] EXCEPT !.resolved = ResolvedKeys]]
    BY <1>5 DEF ReadResults
  <2>2. [[run[p] EXCEPT !.pc = "judge"] EXCEPT !.resolved = ResolvedKeys].rows
          = run[p].rows
    BY <1>0 DEF Run
  <2> QED
    BY <1>0, <2>1, <2>2
<1>6. CASE AlreadyResolved(p)
  <2>1. [run[p] EXCEPT !.next = run[p].next + 1].rows = run[p].rows
    BY <1>0 DEF Run
  <2> QED
    BY <1>0, <1>6, <2>1 DEF AlreadyResolved
<1>7. CASE Judge(p)
  <2>1. Trade(p) \in Key
    BY <1>0, <1>7 DEF Judge, Judging, Trade, Run
  <2>2. PICK status \in {Outcome(Trade(p)), "error"} :
          run' = [run EXCEPT ![p].next = @ + 1,
               ![p].rows = Append(@, [key |-> Trade(p), status |-> status])]
    BY <1>7 DEF Judge
  <2> DEFINE row == [key |-> Trade(p), status |-> status]
  <2>3. row \in Row /\ TrueVerdict(row.key, row.status)
    BY <2>1, <2>2, OutcomeType, OutcomeTrue DEF Row, Status
  <2>4. run' = [run EXCEPT ![p] = [[run[p] EXCEPT !.next = run[p].next + 1] EXCEPT
                                     !.rows = Append(run[p].rows, row)]]
    BY <1>0, <2>2 DEF Run
  <2> HIDE DEF row
  <2>5. [[run[p] EXCEPT !.next = run[p].next + 1] EXCEPT
            !.rows = Append(run[p].rows, row)].rows = Append(run[p].rows, row)
    BY <1>0 DEF Run
  <2>6. RowsTrue(Append(run[p].rows, row))
    <3>1. \A i \in DOMAIN Append(run[p].rows, row) :
            \/ i \in DOMAIN run[p].rows /\ Append(run[p].rows, row)[i] = run[p].rows[i]
            \/ Append(run[p].rows, row)[i] = row
      BY <1>0, <2>3, AppendProperties
    <3> QED
      BY <1>0, <2>3, <3>1 DEF RowsTrue
  <2> QED
    BY <2>4, <2>5, <2>6
<1>8. CASE Judged(p)
  <2>1. [run[p] EXCEPT !.pc = "append"].rows = run[p].rows
    BY <1>0 DEF Run
  <2> QED
    BY <1>0, <1>3, <1>8, <2>1 DEF Judged
<1>9. CASE AppendResults(p)
  BY <1>3, <1>9 DEF AppendResults
<1>10. CASE Crash(p)
  BY <1>3, <1>10 DEF Crash
<1> QED
  BY <1>4, <1>5, <1>6, <1>7, <1>8, <1>9, <1>10 DEF RunStep

\* Appending true rows, all of them or a part, keeps the file true.
LEMMA CountedTrue ==
  ASSUME IInv, NEW rows \in Seq(Row), RowsTrue(rows),
         NEW k \in Key, NEW s \in FinalStatus,
         Counted(Readable(rows))[k][s] > 0
  PROVE  TrueVerdict(k, s)
<1> USE DEF IInv
<1>1. torn \in BOOLEAN /\ results \in [Key -> [FinalStatus -> Nat]]
  BY DEF TypeOK
<1>2. /\ Readable(rows) \in Seq(Row)
      /\ \A i \in DOMAIN Readable(rows) :
           \E j \in DOMAIN rows : Readable(rows)[i] = rows[j]
  BY <1>1, ReadableProps
<1>3. \/ results[k][s] > 0
      \/ \E i \in DOMAIN Readable(rows) :
           Readable(rows)[i] = [key |-> k, status |-> s]
  BY <1>1, <1>2, CountedProps
<1>4. CASE results[k][s] > 0
  BY <1>4 DEF ResultsTrue
<1>5. ASSUME NEW i \in DOMAIN Readable(rows),
             Readable(rows)[i] = [key |-> k, status |-> s]
      PROVE  TrueVerdict(k, s)
  <2>1. PICK j \in DOMAIN rows : rows[j] = [key |-> k, status |-> s]
    BY <1>2, <1>5
  <2> QED
    BY <2>1 DEF RowsTrue
<1> QED
  BY <1>3, <1>4, <1>5

LEMMA RunStepResultsTrue ==
  ASSUME IInv, NEW p \in Runner, RunStep(p) \/ Crash(p)
  PROVE  ResultsTrue'
<1> USE DEF IInv
<1>0. /\ market' = market
      /\ run[p].rows \in Seq(Row) /\ RowsTrue(run[p].rows)
  BY DEF RunStep, ReadTrades, ReadResults, AlreadyResolved, Judge, Judged,
         AppendResults, Crash, TypeOK, Run, RunsTrue
<1>1. \A k, s : TrueVerdict(k, s)' <=> TrueVerdict(k, s)
  BY <1>0 DEF TrueVerdict, HasResult
<1>2. CASE results' = results
  BY <1>1, <1>2 DEF ResultsTrue
<1>3. CASE results' = Counted(Readable(run[p].rows))
  BY <1>0, <1>1, <1>3, CountedTrue DEF ResultsTrue
<1>4. ASSUME NEW n \in 0..(Len(run[p].rows) - 1),
             results' = Counted(Readable(SubSeq(run[p].rows, 1, n)))
      PROVE  ResultsTrue'
  <2> DEFINE rows == SubSeq(run[p].rows, 1, n)
  <2>1. /\ rows \in Seq(Row)
        /\ \A i \in DOMAIN rows : \E j \in DOMAIN run[p].rows : rows[i] = run[p].rows[j]
    BY <1>0, PrefixProps
  <2> HIDE DEF rows
  <2>2. RowsTrue(rows)
    BY <1>0, <2>1 DEF RowsTrue
  <2>3. results' = Counted(Readable(rows))
    BY <1>4 DEF rows
  <2> QED
    BY <1>1, <2>1, <2>2, <2>3, CountedTrue DEF ResultsTrue
<1>5. CASE AppendResults(p)
  BY <1>2, <1>3, <1>4, <1>5 DEF AppendResults
<1>6. CASE ~AppendResults(p)
  <2>1. results' = results
    BY <1>6 DEF RunStep, ReadTrades, ReadResults, AlreadyResolved, Judge, Judged, Crash
  <2> QED
    BY <1>2, <2>1
<1> QED
  BY <1>5, <1>6

LEMMA InitInv == Init => IInv
<1> SUFFICES ASSUME Init PROVE IInv
  OBVIOUS
<1>1. RunsTrue
  BY DEF Init, RunsTrue, RowsTrue, NoRun
<1>2. ResultsTrue
  BY DEF Init, ResultsTrue
<1> QED
  BY <1>1, <1>2, InitType DEF IInv

LEMMA NextInv == IInv /\ [Next]_vars => IInv'
<1> SUFFICES ASSUME IInv, [Next]_vars PROVE RunsTrue' /\ ResultsTrue'
  BY NextType DEF IInv
<1>1. ASSUME NEW m \in Market, MarketMoves(m) PROVE RunsTrue' /\ ResultsTrue'
  BY <1>1, MarketMovesTrue
<1>2. CASE UNCHANGED <<market, results, run>>
  BY <1>2 DEF IInv, RunsTrue, RowsTrue, ResultsTrue, TrueVerdict, HasResult
<1>3. ASSUME NEW k \in Key, Append1(k) PROVE RunsTrue' /\ ResultsTrue'
  BY <1>2, <1>3 DEF Append1
<1>4. ASSUME NEW p \in Runner, RunStep(p) \/ Crash(p)
      PROVE  RunsTrue' /\ ResultsTrue'
  BY <1>4, RunStepRunsTrue, RunStepResultsTrue
<1>5. CASE UNCHANGED vars
  BY <1>2, <1>5 DEF vars
<1> QED
  BY <1>1, <1>3, <1>4, <1>5 DEF Next

\* VerdictsHold: whatever runs overlap, crash or write only a part of their
\* rows, no trade is ever marked won or lost against its market's result.
THEOREM VerdictsHold == Spec => []VerdictsTrue
<1>1. Init => IInv
  BY InitInv
<1>2. IInv /\ [Next]_vars => IInv'
  BY NextInv
<1>3. IInv => VerdictsTrue
  BY ResultsTrueIsVerdictsTrue DEF IInv
<1> QED
  BY <1>1, <1>2, <1>3, PTL DEF Spec

-----------------------------------------------------------------------------
(* The number of final rows a trade gets in the results, for any trades    *)
(* and any finite set of runners.                                          *)
(*                                                                         *)
(* A run adds at most one row for each copy of a trade in the ledger it    *)
(* read, and none for a trade that was resolved when it read the results.  *)
(* So once a trade has a row, only the runs that had read the results      *)
(* before can add to it: what is written and what these may still write    *)
(* are counted together.                                                   *)

\* The rows of a sequence that are about trade k.
KeyRows(rows, k) == {i \in DOMAIN rows : rows[i].key = k}

\* The copies of trade k that run r has walked over.
Walked(r, k) == {i \in 1..(r.next - 1) : r.trades[i] = k}

\* The runs that may still write a row for k.
Late(k) == {p \in Runner : run[p].pc \in {"judge", "append"} /\ k \notin run[p].resolved}

\* What a run has in memory about k.
RunBound(r, k) ==
  /\ r.next <= Len(r.trades) + 1
  /\ Cardinality(KeyRows(r.rows, k)) <= Cardinality(Walked(r, k))
  /\ Copies(r.trades, k) <= Copies(trades, k)
  /\ r.pc \in {"idle", "results"} => r.rows = << >>
  /\ k \in r.resolved => KeyRows(r.rows, k) = {}

FileBound(k) ==
  FinalRows(k) > 0 => FinalRows(k) + Copies(trades, k) * Cardinality(Late(k))
                   <= Copies(trades, k) * Cardinality(Runner)

RowsInv == \A k \in Key : FileBound(k) /\ \A p \in Runner : RunBound(run[p], k)

(***************************************************************************)
(* Counting.                                                               *)
(***************************************************************************)

LEMMA KeyRowsFinite ==
  ASSUME NEW rows \in Seq(Row), NEW k
  PROVE  /\ IsFiniteSet(KeyRows(rows, k))
         /\ Cardinality(KeyRows(rows, k)) \in Nat
<1>1. IsFiniteSet(1..Len(rows)) /\ KeyRows(rows, k) \in SUBSET (1..Len(rows))
  BY FS_Interval DEF KeyRows
<1> QED
  BY <1>1, FS_Subset, FS_CardinalityType

LEMMA WalkedFinite ==
  ASSUME NEW r \in Run, NEW k
  PROVE  IsFiniteSet(Walked(r, k)) /\ Cardinality(Walked(r, k)) \in Nat
<1>1. r.next - 1 \in Int
  BY DEF Run
<1>2. IsFiniteSet(1..(r.next - 1)) /\ Walked(r, k) \in SUBSET (1..(r.next - 1))
  BY <1>1, FS_Interval DEF Walked
<1> QED
  BY <1>2, FS_Subset, FS_CardinalityType

\* A reader parses no more rows about a trade than were written.
LEMMA ReadableRows ==
  ASSUME NEW rows \in Seq(Row), torn \in BOOLEAN, NEW k
  PROVE  Cardinality(KeyRows(Readable(rows), k)) <= Cardinality(KeyRows(rows, k))
<1>1. CASE torn /\ rows # << >>
  <2> DEFINE f == [i \in KeyRows(Tail(rows), k) |-> i + 1]
  <2>1. /\ Tail(rows) \in Seq(Row)
        /\ Len(Tail(rows)) = Len(rows) - 1
        /\ \A i \in 1..Len(Tail(rows)) : Tail(rows)[i] = rows[i + 1]
    BY <1>1, HeadTailProperties
  <2>2. \A i \in KeyRows(Tail(rows), k) : i \in Nat /\ i + 1 \in KeyRows(rows, k)
    BY <2>1 DEF KeyRows
  <2>3. f \in Injection(KeyRows(Tail(rows), k), KeyRows(rows, k))
    BY <2>2 DEF Injection, IsInjective
  <2> HIDE DEF f
  <2>4. Cardinality(KeyRows(Tail(rows), k)) <= Cardinality(KeyRows(rows, k))
    BY <2>3, KeyRowsFinite, FS_Injection
  <2> QED
    BY <1>1, <2>4 DEF Readable
<1>2. CASE ~(torn /\ rows # << >>)
  BY <1>2, KeyRowsFinite DEF Readable
<1> QED
  BY <1>1, <1>2

LEMMA PrefixRows ==
  ASSUME NEW rows \in Seq(Row), NEW n \in 0..(Len(rows) - 1), NEW k
  PROVE  Cardinality(KeyRows(SubSeq(rows, 1, n), k)) <= Cardinality(KeyRows(rows, k))
<1>1. Len(rows) \in Nat /\ 1 \in 1..Len(rows)+1 /\ n \in (1-1)..Len(rows)
  OBVIOUS
<1>2. /\ Len(SubSeq(rows, 1, n)) = n /\ SubSeq(rows, 1, n) \in Seq(Row)
      /\ \A i \in 1..n : SubSeq(rows, 1, n)[i] = rows[i]
  BY <1>1, SubSeqProperties
<1>3. KeyRows(SubSeq(rows, 1, n), k) \in SUBSET KeyRows(rows, k)
  BY <1>1, <1>2 DEF KeyRows
<1> QED
  BY <1>3, KeyRowsFinite, FS_Subset

\* Each row is counted under one status at the most.
LEMMA StatusesDisjoint ==
  ASSUME NEW rows \in Seq(Row), NEW k \in Key
  PROVE  Copies(rows, [key |-> k, status |-> "won"])
           + Copies(rows, [key |-> k, status |-> "lost"])
           + Copies(rows, [key |-> k, status |-> "error"])
           <= Cardinality(KeyRows(rows, k))
<1> DEFINE of(s) == {i \in DOMAIN rows : rows[i] = [key |-> k, status |-> s]}
<1>1. \A s : of(s) \in SUBSET KeyRows(rows, k)
  BY DEF KeyRows
<1>2. /\ of("won") \cap of("lost") = {}
      /\ (of("won") \cup of("lost")) \cap of("error") = {}
  OBVIOUS
<1>3. \A s : Copies(rows, [key |-> k, status |-> s]) = Cardinality(of(s))
  BY DEF Copies
<1> HIDE DEF of
<1>4. \A s : IsFiniteSet(of(s)) /\ Cardinality(of(s)) \in Nat
  BY <1>1, KeyRowsFinite, FS_Subset, FS_CardinalityType
<1>5. /\ IsFiniteSet(of("won") \cup of("lost"))
      /\ Cardinality(of("won") \cup of("lost"))
           = Cardinality(of("won")) + Cardinality(of("lost"))
           - Cardinality(of("won") \cap of("lost"))
  BY <1>4, FS_Union
<1>6. Cardinality((of("won") \cup of("lost")) \cup of("error"))
        = Cardinality(of("won") \cup of("lost")) + Cardinality(of("error"))
        - Cardinality((of("won") \cup of("lost")) \cap of("error"))
  BY <1>4, <1>5, FS_Union
<1>7. /\ Cardinality(of("won") \cap of("lost")) = 0
      /\ Cardinality((of("won") \cup of("lost")) \cap of("error")) = 0
  BY <1>2, FS_EmptySet
<1>8. Cardinality((of("won") \cup of("lost")) \cup of("error"))
        = Cardinality(of("won")) + Cardinality(of("lost")) + Cardinality(of("error"))
  BY <1>4, <1>5, <1>6, <1>7
<1>9. (of("won") \cup of("lost")) \cup of("error") \in SUBSET KeyRows(rows, k)
  BY <1>1
<1>10. Cardinality((of("won") \cup of("lost")) \cup of("error"))
         <= Cardinality(KeyRows(rows, k))
  BY <1>9, KeyRowsFinite, FS_Subset
<1> QED
  BY <1>3, <1>8, <1>10

LEMMA Sums ==
  ASSUME NEW a \in Nat, NEW b \in Nat, NEW c \in Nat,
         NEW x \in Nat, NEW y \in Nat, NEW z \in Nat, NEW n \in Nat, x + y + z <= n
  PROVE  (a + x) + (b + y) + (c + z) \in (a + b + c) .. (a + b + c + n)
OBVIOUS

\* Rows of k in the file after a write.
LEMMA CountedRows ==
  ASSUME results \in [Key -> [FinalStatus -> Nat]], NEW rows \in Seq(Row), NEW k \in Key
  PROVE  Counted(rows)[k]["won"] + Counted(rows)[k]["lost"] + Counted(rows)[k]["error"]
           \in FinalRows(k) .. (FinalRows(k) + Cardinality(KeyRows(rows, k)))
<1> DEFINE c(s) == Copies(rows, [key |-> k, status |-> s])
<1>1. \A s \in FinalStatus : Counted(rows)[k][s] = results[k][s] + c(s)
  BY DEF Counted
<1>2. \A s \in FinalStatus : c(s) \in Nat /\ results[k][s] \in Nat
  BY CopiesProps
<1>3. c("won") + c("lost") + c("error") <= Cardinality(KeyRows(rows, k))
  BY StatusesDisjoint
<1>4. Cardinality(KeyRows(rows, k)) \in Nat
  BY KeyRowsFinite
<1>5. {"won", "lost", "error"} \subseteq FinalStatus
  BY DEF FinalStatus, Status
<1> DEFINE n == Cardinality(KeyRows(rows, k))
<1> HIDE DEF c, n
<1>6. /\ Counted(rows)[k]["won"] = results[k]["won"] + c("won")
      /\ Counted(rows)[k]["lost"] = results[k]["lost"] + c("lost")
      /\ Counted(rows)[k]["error"] = results[k]["error"] + c("error")
  BY <1>1, <1>5
<1>7. \A s \in {"won", "lost", "error"} : c(s) \in Nat /\ results[k][s] \in Nat
  BY <1>2, <1>5
<1>8. c("won") + c("lost") + c("error") <= n /\ n \in Nat
  BY <1>3, <1>4 DEF n
<1>9. Counted(rows)[k]["won"] + Counted(rows)[k]["lost"] + Counted(rows)[k]["error"]
        \in FinalRows(k) .. (FinalRows(k) + n)
  <2>1. (results[k]["won"] + c("won")) + (results[k]["lost"] + c("lost"))
          + (results[k]["error"] + c("error")) \in FinalRows(k) .. (FinalRows(k) + n)
    BY <1>7, <1>8, Sums DEF FinalRows, Verdicts
  <2> QED
    BY <1>6, <2>1
<1> QED
  BY <1>9 DEF n

\* Another copy of a trade in the ledger.
LEMMA AppendCopies ==
  ASSUME NEW S, NEW seq \in Seq(S), NEW x \in S, NEW y
  PROVE  Copies(Append(seq, x), y) \in {Copies(seq, y), Copies(seq, y) + 1}
<1> DEFINE at == {i \in DOMAIN seq : seq[i] = y}
           new == {i \in DOMAIN Append(seq, x) : Append(seq, x)[i] = y}
<1>1. /\ Len(Append(seq, x)) = Len(seq) + 1 /\ Append(seq, x) \in Seq(S)
      /\ \A i \in 1..Len(seq) : Append(seq, x)[i] = seq[i]
      /\ Append(seq, x)[Len(seq) + 1] = x
  BY AppendProperties
<1>2. IsFiniteSet(1..Len(seq)) /\ at \in SUBSET (1..Len(seq))
  BY FS_Interval
<1>3. IsFiniteSet(at)
  BY <1>2, FS_Subset
<1>4. new = IF x = y THEN at \cup {Len(seq) + 1} ELSE at
  BY <1>1
<1>5. Len(seq) + 1 \notin at
  OBVIOUS
<1>6. Copies(seq, y) = Cardinality(at) /\ Copies(Append(seq, x), y) = Cardinality(new)
  BY DEF Copies
<1> HIDE DEF at, new
<1>7. Cardinality(at \cup {Len(seq) + 1}) = Cardinality(at) + 1
  BY <1>3, <1>5, FS_AddElement
<1> QED
  BY <1>4, <1>6, <1>7

(***************************************************************************)
(* The runs' side.                                                         *)
(***************************************************************************)

LEMMA NoRunBound ==
  ASSUME TypeOK, NEW k \in Key
  PROVE  RunBound(NoRun, k)
<1>1. KeyRows(<< >>, k) = {} /\ Walked(NoRun, k) = {} /\ Copies(<< >>, k) = 0
  BY FS_EmptySet DEF KeyRows, Walked, NoRun, Copies
<1>2. Copies(trades, k) \in Nat
  BY CopiesProps DEF TypeOK
<1>3. Cardinality({}) = 0
  BY FS_EmptySet
<1>4. /\ NoRun.next = 1 /\ NoRun.trades = << >> /\ NoRun.rows = << >>
      /\ NoRun.resolved = {}
  BY DEF NoRun
<1>5. 1 <= Len(<< >>) + 1
  OBVIOUS
<1>6. Cardinality(KeyRows(NoRun.rows, k)) <= Cardinality(Walked(NoRun, k))
  <2>1. KeyRows(NoRun.rows, k) = {}
    BY <1>1, <1>4
  <2> QED
    BY <1>1, <1>3, <2>1
<1>7. Copies(NoRun.trades, k) <= Copies(trades, k)
  BY <1>1, <1>2, <1>4
<1> QED
  BY <1>1, <1>4, <1>5, <1>6, <1>7 DEF RunBound

\* A row in memory more.
LEMMA AppendRow ==
  ASSUME NEW rows \in Seq(Row), NEW row \in Row, NEW k
  PROVE  /\ row.key = k =>
              Cardinality(KeyRows(Append(rows, row), k)) = Cardinality(KeyRows(rows, k)) + 1
         /\ row.key # k => KeyRows(Append(rows, row), k) = KeyRows(rows, k)
<1>1. /\ Len(Append(rows, row)) = Len(rows) + 1 /\ Append(rows, row) \in Seq(Row)
      /\ \A i \in 1..Len(rows) : Append(rows, row)[i] = rows[i]
      /\ Append(rows, row)[Len(rows) + 1] = row
  BY AppendProperties
<1>2. DOMAIN rows = 1..Len(rows) /\ DOMAIN Append(rows, row) = 1..(Len(rows) + 1)
  BY <1>1
<1>3. Len(rows) \in Nat
  OBVIOUS
<1>4. KeyRows(Append(rows, row), k)
        = IF row.key = k THEN KeyRows(rows, k) \cup {Len(rows) + 1} ELSE KeyRows(rows, k)
  <2> DEFINE more == Append(rows, row)
  <2> HIDE DEF more
  <2>1. /\ DOMAIN more = 1..(Len(rows) + 1) /\ more[Len(rows) + 1] = row
        /\ \A i \in 1..Len(rows) : more[i] = rows[i]
    BY <1>1, <1>2 DEF more
  <2>2. KeyRows(more, k)
          = IF row.key = k THEN KeyRows(rows, k) \cup {Len(rows) + 1} ELSE KeyRows(rows, k)
    BY <1>2, <1>3, <2>1 DEF KeyRows
  <2> QED
    BY <2>2 DEF more
<1>5. Len(rows) + 1 \notin KeyRows(rows, k)
  BY <1>2, <1>3 DEF KeyRows
<1>6. Cardinality(KeyRows(rows, k) \cup {Len(rows) + 1}) = Cardinality(KeyRows(rows, k)) + 1
  BY <1>5, KeyRowsFinite, FS_AddElement
<1> QED
  BY <1>4, <1>6

\* Walking over a trade.
LEMMA WalkOn ==
  ASSUME TypeOK, NEW r \in Run, NEW k, r.next <= Len(r.trades)
  PROVE  LET s == [r EXCEPT !.next = r.next + 1]
         IN  /\ r.trades[r.next] = k =>
                  Cardinality(Walked(s, k)) = Cardinality(Walked(r, k)) + 1
             /\ r.trades[r.next] # k => Walked(s, k) = Walked(r, k)
<1> DEFINE s == [r EXCEPT !.next = r.next + 1]
<1>1. /\ s.next = r.next + 1 /\ s.trades = r.trades
      /\ r.next \in Nat \ {0}
  BY DEF Run
<1>2. 1..(s.next - 1) = (1..(r.next - 1)) \cup {r.next}
  BY <1>1
<1> HIDE DEF s
<1>3. Walked(s, k) = IF r.trades[r.next] = k THEN Walked(r, k) \cup {r.next}
                                             ELSE Walked(r, k)
  BY <1>1, <1>2 DEF Walked
<1>4. r.next \notin Walked(r, k)
  BY <1>1 DEF Walked
<1>5. IsFiniteSet(Walked(r, k))
  BY WalkedFinite
<1>6. Cardinality(Walked(r, k) \cup {r.next}) = Cardinality(Walked(r, k)) + 1
  BY <1>4, <1>5, FS_AddElement
<1> QED
  BY <1>3, <1>6 DEF s

\* A step of a run leaves a run within its bound.
LEMMA RunStepBound ==
  ASSUME TypeOK, NEW k \in Key, NEW p \in Runner, RunBound(run[p], k),
         RunStep(p) \/ Crash(p)
  PROVE  RunBound(run'[p], k)
<1>0. /\ run \in [Runner -> Run] /\ run[p] \in Run /\ run[p].trades \in Seq(Key)
      /\ run[p].rows \in Seq(Row) /\ run[p].next \in Nat \ {0}
      /\ trades \in Seq(Key)
  BY DEF TypeOK, Run
<1> DEFINE r == run[p]
<1>1. CASE ReadTrades(p)
  <2>1. run'[p] = [NoRun EXCEPT !.pc = "results", !.trades = trades]
    BY <1>0, <1>1 DEF ReadTrades
  <2>2. /\ run'[p].next = 1 /\ run'[p].trades = trades /\ run'[p].rows = << >>
        /\ run'[p].resolved = {}
    BY <2>1 DEF NoRun
  <2>3. Walked(run'[p], k) = {} /\ KeyRows(run'[p].rows, k) = {}
    BY <2>2 DEF Walked, KeyRows
  <2>4. Cardinality({}) = 0 /\ Len(trades) \in Nat /\ Copies(trades, k) \in Nat
    BY <1>0, FS_EmptySet, CopiesProps
  <2>5. Cardinality(KeyRows(run'[p].rows, k)) <= Cardinality(Walked(run'[p], k))
    BY <2>3, <2>4
  <2>6. /\ run'[p].next <= Len(run'[p].trades) + 1
        /\ Copies(run'[p].trades, k) <= Copies(trades, k)
    BY <2>2, <2>4
  <2> QED
    BY <2>2, <2>3, <2>5, <2>6 DEF RunBound
<1>2. CASE ReadResults(p)
  <2>1. /\ run'[p].next = r.next /\ run'[p].trades = r.trades
        /\ run'[p].rows = r.rows /\ run'[p].pc = "judge" /\ r.pc = "results"
    BY <1>0, <1>2 DEF ReadResults, Run
  <2>2. Walked(run'[p], k) = Walked(r, k)
    BY <2>1 DEF Walked
  <2>3. r.rows = << >>
    BY <2>1 DEF RunBound
  <2>4. KeyRows(r.rows, k) = {}
    BY <2>3 DEF KeyRows
  <2> QED
    BY <2>1, <2>2, <2>4 DEF RunBound
<1>3. CASE AlreadyResolved(p)
  <2> DEFINE s == [r EXCEPT !.next = r.next + 1]
  <2>1. run'[p] = s /\ r.pc = "judge" /\ r.next <= Len(r.trades)
    BY <1>0, <1>3 DEF AlreadyResolved, Judging
  <2>2. /\ s.next = r.next + 1 /\ s.trades = r.trades /\ s.rows = r.rows
        /\ s.pc = "judge" /\ s.resolved = r.resolved
    BY <1>0, <2>1 DEF Run
  <2>3. Cardinality(Walked(s, k)) >= Cardinality(Walked(r, k))
    BY <1>0, <2>1, WalkOn, WalkedFinite
  <2>4. /\ Cardinality(KeyRows(s.rows, k)) <= Cardinality(Walked(s, k))
        /\ s.next <= Len(s.trades) + 1
    <3>1. /\ Cardinality(KeyRows(r.rows, k)) \in Nat
          /\ Cardinality(Walked(r, k)) \in Nat /\ Cardinality(Walked(s, k)) \in Nat
      BY <1>0, NextTradeType, KeyRowsFinite, WalkedFinite
    <3>2. Cardinality(KeyRows(r.rows, k)) <= Cardinality(Walked(r, k))
      BY DEF RunBound
    <3>3. Len(r.trades) \in Nat
      BY <1>0
    <3> HIDE DEF s
    <3> QED
      BY <1>0, <2>1, <2>2, <2>3, <3>1, <3>2, <3>3
  <2> HIDE DEF s
  <2> QED
    BY <2>1, <2>2, <2>4 DEF RunBound
<1>4. CASE Judge(p)
  <2>1. r.pc = "judge" /\ r.next <= Len(r.trades) /\ Trade(p) = r.trades[r.next]
        /\ Trade(p) \notin r.resolved /\ Trade(p) \in Key
    BY <1>0, <1>4 DEF Judge, Judging, Trade
  <2>2. PICK status \in {Outcome(Trade(p)), "error"} :
          run' = [run EXCEPT ![p].next = @ + 1,
               ![p].rows = Append(@, [key |-> Trade(p), status |-> status])]
    BY <1>4 DEF Judge
  <2> DEFINE row == [key |-> Trade(p), status |-> status]
             rows == Append(r.rows, row)
             s == [r EXCEPT !.next = r.next + 1]
  <2>3. row \in Row /\ row.key = Trade(p)
    BY <2>1, <2>2, OutcomeType DEF Row, Status
  <2>4. run'[p] = [s EXCEPT !.rows = rows]
    BY <1>0, <2>2 DEF Run
  <2>5. s \in Run /\ s.next = r.next + 1 /\ s.trades = r.trades
        /\ s.pc = "judge" /\ s.resolved = r.resolved
    BY <1>0, <2>1, NextTradeType DEF Run
  <2> HIDE DEF row, s, rows
  <2>6. /\ run'[p].next = r.next + 1 /\ run'[p].trades = r.trades
        /\ run'[p].rows = rows /\ run'[p].pc = "judge"
        /\ run'[p].resolved = r.resolved
    BY <2>4, <2>5 DEF Run
  <2>7. /\ Trade(p) = k => Cardinality(KeyRows(rows, k)) = Cardinality(KeyRows(r.rows, k)) + 1
        /\ Trade(p) # k => KeyRows(rows, k) = KeyRows(r.rows, k)
    BY <1>0, <2>3, AppendRow DEF rows
  <2>8. Walked(run'[p], k) = Walked(s, k)
    BY <2>5, <2>6 DEF Walked
  <2>9. /\ Trade(p) = k => Cardinality(Walked(s, k)) = Cardinality(Walked(r, k)) + 1
        /\ Trade(p) # k => Walked(s, k) = Walked(r, k)
    BY <1>0, <2>1, WalkOn DEF s
  <2>10. /\ Cardinality(KeyRows(r.rows, k)) \in Nat /\ Cardinality(Walked(r, k)) \in Nat
         /\ Cardinality(KeyRows(r.rows, k)) <= Cardinality(Walked(r, k))
    BY <1>0, KeyRowsFinite, WalkedFinite DEF RunBound
  <2>11. Cardinality(KeyRows(rows, k)) <= Cardinality(Walked(s, k))
    BY <2>7, <2>9, <2>10
  <2>12. run'[p].next <= Len(run'[p].trades) + 1
    BY <1>0, <2>1, <2>6
  <2>13. k \in r.resolved => KeyRows(rows, k) = {}
    BY <2>1, <2>7 DEF RunBound
  <2> QED
    BY <2>6, <2>8, <2>11, <2>12, <2>13 DEF RunBound
<1>5. CASE Judged(p)
  <2>1. run'[p] = NoRun \/ run'[p] = [r EXCEPT !.pc = "append"]
    BY <1>0, <1>5 DEF Judged
  <2>2. CASE run'[p] = [r EXCEPT !.pc = "append"]
    <3>1. /\ run'[p].next = r.next /\ run'[p].trades = r.trades
          /\ run'[p].rows = r.rows /\ run'[p].pc = "append"
          /\ run'[p].resolved = r.resolved
      BY <1>0, <2>2 DEF Run
    <3>2. Walked(run'[p], k) = Walked(r, k)
      BY <3>1 DEF Walked
    <3> QED
      BY <3>1, <3>2 DEF RunBound
  <2> QED
    BY <2>1, <2>2, NoRunBound
<1>6. CASE AppendResults(p) \/ Crash(p)
  BY <1>0, <1>6, NoRunBound DEF AppendResults, Crash
<1> QED
  BY <1>1, <1>2, <1>3, <1>4, <1>5, <1>6 DEF RunStep

\* A run writes about a trade at most once for each copy in the ledger.
LEMMA RunRows ==
  ASSUME TypeOK, NEW k \in Key, NEW p \in Runner, RunBound(run[p], k)
  PROVE  Cardinality(KeyRows(run[p].rows, k)) <= Copies(trades, k)
<1> DEFINE r == run[p]
<1>1. /\ r \in Run /\ r.trades \in Seq(Key) /\ r.rows \in Seq(Row)
      /\ r.next \in Nat \ {0} /\ trades \in Seq(Key)
  BY DEF TypeOK, Run
<1>2. Walked(r, k) \in SUBSET {i \in DOMAIN r.trades : r.trades[i] = k}
  BY <1>1 DEF Walked, RunBound
<1>3. IsFiniteSet({i \in DOMAIN r.trades : r.trades[i] = k})
  <2>1. /\ IsFiniteSet(1..Len(r.trades))
        /\ {i \in DOMAIN r.trades : r.trades[i] = k} \in SUBSET (1..Len(r.trades))
    <3>1. DOMAIN r.trades = 1..Len(r.trades) /\ Len(r.trades) \in Nat
      BY <1>1
    <3> QED
      BY <3>1, FS_Interval
  <2> QED
    BY <2>1, FS_Subset
<1>4. Cardinality(Walked(r, k)) <= Copies(r.trades, k)
  BY <1>2, <1>3, FS_Subset DEF Copies
<1>5. /\ Cardinality(KeyRows(r.rows, k)) \in Nat /\ Cardinality(Walked(r, k)) \in Nat
      /\ Copies(r.trades, k) \in Nat /\ Copies(trades, k) \in Nat
  BY <1>1, KeyRowsFinite, WalkedFinite, CopiesProps
<1>6. /\ Cardinality(KeyRows(r.rows, k)) <= Cardinality(Walked(r, k))
      /\ Copies(r.trades, k) <= Copies(trades, k)
  BY DEF RunBound
<1> QED
  BY <1>4, <1>5, <1>6

(***************************************************************************)
(* The runs that may still write.                                          *)
(***************************************************************************)

LEMMA LateFinite ==
  ASSUME IsFiniteSet(Runner), NEW k
  PROVE  /\ IsFiniteSet(Late(k)) /\ Cardinality(Late(k)) \in Nat
         /\ Cardinality(Runner) \in Nat /\ Cardinality(Late(k)) <= Cardinality(Runner)
<1>1. Late(k) \in SUBSET Runner
  BY DEF Late
<1> QED
  BY <1>1, FS_Subset, FS_CardinalityType

\* A step that does not read the results adds no run to them.
LEMMA LateStep ==
  ASSUME TypeOK, NEW k, NEW p \in Runner, RunStep(p) \/ Crash(p), ~ReadResults(p)
  PROVE  Late(k)' \subseteq Late(k)
<1>0. run \in [Runner -> Run] /\ run[p] \in Run
  BY DEF TypeOK
<1>1. CASE ReadTrades(p)
  <2>1. /\ [NoRun EXCEPT !.pc = "results", !.trades = trades].pc = "results"
        /\ run' = [run EXCEPT ![p] = [NoRun EXCEPT !.pc = "results", !.trades = trades]]
    BY <1>1 DEF ReadTrades, NoRun
  <2> QED
    BY <1>0, <2>1 DEF Late
<1>2. CASE AlreadyResolved(p)
  <2>1. run' = [run EXCEPT ![p] = [run[p] EXCEPT !.next = run[p].next + 1]]
    BY <1>2 DEF AlreadyResolved
  <2>2. /\ [run[p] EXCEPT !.next = run[p].next + 1].pc = run[p].pc
        /\ [run[p] EXCEPT !.next = run[p].next + 1].resolved = run[p].resolved
    BY <1>0 DEF Run
  <2> QED
    BY <1>0, <2>1, <2>2 DEF Late
<1>3. CASE Judge(p)
  <2>1. PICK status \in {Outcome(Trade(p)), "error"} :
          run' = [run EXCEPT ![p].next = @ + 1,
               ![p].rows = Append(@, [key |-> Trade(p), status |-> status])]
    BY <1>3 DEF Judge
  <2> DEFINE rows == Append(run[p].rows, [key |-> Trade(p), status |-> status])
             s == [[run[p] EXCEPT !.next = run[p].next + 1] EXCEPT !.rows = rows]
  <2>2. run' = [run EXCEPT ![p] = s]
    BY <1>0, <2>1 DEF Run
  <2> HIDE DEF rows
  <2>3. s.pc = run[p].pc /\ s.resolved = run[p].resolved
    BY <1>0 DEF Run
  <2> HIDE DEF s
  <2> QED
    BY <1>0, <2>2, <2>3 DEF Late
<1>4. CASE Judged(p)
  <2>1. /\ run[p].pc = "judge"
        /\ \/ run' = [run EXCEPT ![p] = NoRun]
           \/ run' = [run EXCEPT ![p] = [run[p] EXCEPT !.pc = "append"]]
    BY <1>4 DEF Judged
  <2>2. /\ NoRun.pc = "idle"
        /\ [run[p] EXCEPT !.pc = "append"].resolved = run[p].resolved
    BY <1>0 DEF Run, NoRun
  <2> QED
    BY <1>0, <2>1, <2>2 DEF Late
<1>5. CASE AppendResults(p) \/ Crash(p)
  <2>1. run' = [run EXCEPT ![p] = NoRun] /\ NoRun.pc = "idle"
    BY <1>5 DEF AppendResults, Crash, NoRun
  <2> QED
    BY <1>0, <2>1 DEF Late
<1> QED
  BY <1>1, <1>2, <1>3, <1>4, <1>5 DEF RunStep

\* A run that reads the results is late only for a trade without a row.
LEMMA LateRead ==
  ASSUME TypeOK, NEW k \in Key, NEW p \in Runner, ReadResults(p), FinalRows(k) > 0
  PROVE  Late(k)' \subseteq Late(k)
<1>1. run \in [Runner -> Run] /\ run[p] \in Run
  BY DEF TypeOK
<1> DEFINE s == [[run[p] EXCEPT !.pc = "judge"] EXCEPT !.resolved = ResolvedKeys]
<1>2. run' = [run EXCEPT ![p] = s]
  BY DEF ReadResults
<1>3. s.resolved = ResolvedKeys
  BY <1>1 DEF Run
<1>4. /\ results[k]["won"] \in Nat /\ results[k]["lost"] \in Nat
      /\ results[k]["error"] \in Nat
  <2>1. {"won", "lost", "error"} \subseteq FinalStatus
    BY DEF FinalStatus, Status
  <2> QED
    BY <2>1 DEF TypeOK
<1>5. \E f \in {"won", "lost", "error"} : results[k][f] > 0
  BY <1>4 DEF FinalRows, Verdicts
<1>6. k \in ResolvedKeys
  BY <1>5 DEF ResolvedKeys, FinalStatus, Status
<1> HIDE DEF s
<1> QED
  BY <1>1, <1>2, <1>3, <1>6 DEF Late

\* A run that writes is no longer late.
LEMMA LateWrite ==
  ASSUME TypeOK, NEW k, NEW p \in Runner, AppendResults(p)
  PROVE  Late(k)' = Late(k) \ {p}
<1>1. /\ run \in [Runner -> Run] /\ run' = [run EXCEPT ![p] = NoRun]
      /\ NoRun.pc = "idle"
  BY DEF TypeOK, AppendResults, NoRun
<1> QED
  BY <1>1 DEF Late

(***************************************************************************)
(* The file's side.                                                        *)
(***************************************************************************)

LEMMA RowsNat == ASSUME TypeOK, NEW k \in Key PROVE FinalRows(k) \in Nat
<1>1. {"won", "lost", "error"} \subseteq FinalStatus
  BY DEF FinalStatus, Status
<1>2. \A f \in {"won", "lost", "error"} : results[k][f] \in Nat
  BY <1>1 DEF TypeOK
<1> QED
  BY <1>2 DEF FinalRows, Verdicts

\* A write adds no more rows about a trade than the run holds.
LEMMA Written ==
  ASSUME TypeOK, NEW k \in Key, NEW p \in Runner, AppendResults(p)
  PROVE  FinalRows(k)' \in FinalRows(k) .. (FinalRows(k) + Cardinality(KeyRows(run[p].rows, k)))
<1> DEFINE n == Cardinality(KeyRows(run[p].rows, k))
<1>1. /\ run[p].rows \in Seq(Row) /\ torn \in BOOLEAN
      /\ results \in [Key -> [FinalStatus -> Nat]]
  BY DEF TypeOK, Run
<1>2. n \in Nat /\ FinalRows(k) \in Nat
  BY <1>1, KeyRowsFinite, RowsNat
<1>3. ASSUME NEW rows \in Seq(Row), Cardinality(KeyRows(rows, k)) <= n,
             results' = Counted(Readable(rows))
      PROVE  FinalRows(k)' \in FinalRows(k) .. (FinalRows(k) + n)
  <2> DEFINE m == Cardinality(KeyRows(Readable(rows), k))
  <2>1. Readable(rows) \in Seq(Row) /\ m <= Cardinality(KeyRows(rows, k))
    BY <1>1, ReadableProps, ReadableRows
  <2>2. m \in Nat /\ Cardinality(KeyRows(rows, k)) \in Nat
    BY <2>1, KeyRowsFinite
  <2>3. FinalRows(k)' \in FinalRows(k) .. (FinalRows(k) + m)
    BY <1>1, <1>3, <2>1, CountedRows DEF FinalRows, Verdicts
  <2> HIDE DEF m, n
  <2> QED
    <3>1. FinalRows(k)' \in Int /\ FinalRows(k) <= FinalRows(k)' /\ FinalRows(k)' <= FinalRows(k) + m
      BY <1>2, <2>2, <2>3
    <3>2. m <= n
      BY <1>2, <1>3, <2>1, <2>2
    <3> QED
      BY <1>2, <2>2, <3>1, <3>2
<1>4. CASE results' = Counted(Readable(run[p].rows))
  BY <1>1, <1>2, <1>3, <1>4
<1>5. ASSUME NEW i \in 0..(Len(run[p].rows) - 1),
             results' = Counted(Readable(SubSeq(run[p].rows, 1, i)))
      PROVE  FinalRows(k)' \in FinalRows(k) .. (FinalRows(k) + n)
  BY <1>1, <1>3, <1>5, PrefixProps, PrefixRows
<1>6. CASE results' = results
  <2>1. FinalRows(k)' = FinalRows(k)
    BY <1>6 DEF FinalRows, Verdicts
  <2>2. \A a, b \in Nat : a \in a .. (a + b)
    OBVIOUS
  <2>3. FinalRows(k) \in FinalRows(k) .. (FinalRows(k) + n)
    BY <1>2, <2>2
  <2> QED
    BY <2>1, <2>3
<1> QED
  BY <1>4, <1>5, <1>6 DEF AppendResults

\* The arithmetic of the bound: fewer late runs, a write, another copy.
LEMMA Fewer ==
  ASSUME NEW C \in Nat, NEW l \in Nat, NEW m \in Nat, m <= l
  PROVE  C * m <= C * l /\ C * m \in Nat /\ C * l \in Nat
OBVIOUS

LEMMA Budget ==
  ASSUME NEW C \in Nat, NEW R \in Nat, NEW l \in Nat, NEW n \in Nat, NEW x \in Nat,
         1 <= l, l <= R, x <= C, n > 0 => n + C * l <= C * R
  PROVE  (n + x) + C * (l - 1) <= C * R
<1>1. C * (l - 1) = C * l - C
  OBVIOUS
<1>2. C * l <= C * R /\ C * l \in Nat /\ C * R \in Nat
  BY Fewer
<1> QED
  BY <1>1, <1>2

LEMMA More ==
  ASSUME NEW C \in Nat, NEW R \in Nat, NEW l \in Nat, NEW n \in Nat,
         l <= R, n + C * l <= C * R
  PROVE  n + (C + 1) * l <= (C + 1) * R
<1>1. (C + 1) * l = C * l + l /\ (C + 1) * R = C * R + R
  OBVIOUS
<1>2. C * l \in Nat /\ C * R \in Nat
  BY Fewer
<1> QED
  BY <1>1, <1>2

(***************************************************************************)
(* The invariant.                                                          *)
(***************************************************************************)

LEMMA InitRows == Init => RowsInv
<1> SUFFICES ASSUME Init, NEW k \in Key PROVE FileBound(k) /\ \A p \in Runner : RunBound(run[p], k)
  BY DEF RowsInv
<1>1. FileBound(k)
  <2>1. /\ results[k]["won"] = 0 /\ results[k]["lost"] = 0 /\ results[k]["error"] = 0
    BY DEF Init, FinalStatus, Status
  <2> QED
    BY <2>1 DEF FileBound, FinalRows, Verdicts
<1>2. \A p \in Runner : RunBound(run[p], k)
  BY InitType, NoRunBound DEF Init
<1> QED
  BY <1>1, <1>2

\* The runs stay within their bounds.
LEMMA NextRunBound ==
  ASSUME TypeOK, NEW k \in Key, \A p \in Runner : RunBound(run[p], k), [Next]_vars
  PROVE  \A p \in Runner : RunBound(run[p], k)'
<1>1. CASE UNCHANGED <<trades, run>>
  BY <1>1 DEF RunBound, KeyRows, Walked, Copies
<1>2. ASSUME NEW m \in Market, MarketMoves(m) PROVE UNCHANGED <<trades, run>>
  BY <1>2 DEF MarketMoves
<1>3. ASSUME NEW j \in Key, Append1(j) PROVE \A p \in Runner : RunBound(run[p], k)'
  <2>1. trades' = Append(trades, j) /\ run' = run /\ trades \in Seq(Key)
    BY <1>3 DEF Append1, TypeOK
  <2>2. Copies(trades', k) \in {Copies(trades, k), Copies(trades, k) + 1}
    BY <2>1, AppendCopies
  <2>3. Copies(trades, k) \in Nat
    BY <2>1, CopiesProps
  <2> TAKE p \in Runner
  <2>4. run[p].trades \in Seq(Key)
    BY DEF TypeOK, Run
  <2>5. Copies(run[p].trades, k) \in Nat /\ Copies(run[p].trades, k) <= Copies(trades, k)
    BY <2>4, CopiesProps DEF RunBound
  <2>6. Copies(run[p].trades, k) <= Copies(trades', k)
    BY <2>2, <2>3, <2>5
  <2> QED
    BY <2>1, <2>6 DEF RunBound, KeyRows, Walked, Copies
<1>4. ASSUME NEW q \in Runner, RunStep(q) \/ Crash(q)
      PROVE  \A p \in Runner : RunBound(run[p], k)'
  <2>1. /\ trades' = trades
        /\ \A p \in Runner \ {q} : run'[p] = run[p]
    BY <1>4 DEF RunStep, ReadTrades, ReadResults, AlreadyResolved, Judge, Judged,
                AppendResults, Crash, TypeOK
  <2>2. RunBound(run'[q], k)
    BY <1>4, RunStepBound
  <2>3. \A p \in Runner : RunBound(run'[p], k)
    BY <2>1, <2>2
  <2> QED
    BY <2>1, <2>3 DEF RunBound, KeyRows, Walked, Copies
<1>5. CASE UNCHANGED vars
  BY <1>1, <1>5 DEF vars
<1> QED
  BY <1>1, <1>2, <1>3, <1>4, <1>5 DEF Next

\* The file stays within its bound while neither grows and no run becomes
\* late.
LEMMA FileKept ==
  ASSUME IsFiniteSet(Runner), TypeOK, NEW k \in Key, FileBound(k),
         results' = results, trades' = trades,
         FinalRows(k) > 0 => Late(k)' \subseteq Late(k)
  PROVE  FileBound(k)'
<1>1. FinalRows(k)' = FinalRows(k) /\ Copies(trades, k)' = Copies(trades, k)
  BY DEF FinalRows, Verdicts, Copies
<1> SUFFICES ASSUME FinalRows(k) > 0 PROVE FileBound(k)'
  BY <1>1 DEF FileBound
<1>2. Late(k)' \in SUBSET Late(k)
  OBVIOUS
<1>3. /\ IsFiniteSet(Late(k)) /\ Cardinality(Late(k)) \in Nat
      /\ Cardinality(Runner) \in Nat
  BY LateFinite
<1>4. Cardinality(Late(k)') \in Nat /\ Cardinality(Late(k)') <= Cardinality(Late(k))
  BY <1>2, <1>3, FS_Subset, FS_CardinalityType
<1>5. Copies(trades, k) \in Nat
  BY CopiesProps DEF TypeOK
<1> DEFINE C == Copies(trades, k)  R == Cardinality(Runner)
           l == Cardinality(Late(k))  m == Cardinality(Late(k)')
<1>6. FinalRows(k) + C * l <= C * R
  BY DEF FileBound
<1>7. FinalRows(k) \in Nat
  BY RowsNat
<1>8. C \in Nat /\ R \in Nat /\ l \in Nat /\ m \in Nat /\ m <= l
  BY <1>3, <1>4, <1>5
<1> HIDE DEF C, R, l, m
<1>9. C * m <= C * l /\ C * m \in Nat /\ C * l \in Nat /\ C * R \in Nat
  BY <1>8, Fewer
<1>10. FinalRows(k) + C * m <= C * R
  BY <1>6, <1>7, <1>9
<1> QED
  BY <1>1, <1>10 DEF FileBound, C, R, m

\* A write: a late run spends its share, another adds no row.
LEMMA FileWritten ==
  ASSUME IsFiniteSet(Runner), TypeOK, NEW k \in Key, FileBound(k),
         NEW p \in Runner, RunBound(run[p], k), AppendResults(p)
  PROVE  FileBound(k)'
<1> DEFINE C == Copies(trades, k)  R == Cardinality(Runner)
           l == Cardinality(Late(k))  n == Cardinality(KeyRows(run[p].rows, k))
           x == FinalRows(k)' - FinalRows(k)
<1>1. /\ IsFiniteSet(Late(k)) /\ l \in Nat /\ R \in Nat /\ l <= R
  BY LateFinite
<1>2. C \in Nat
  BY CopiesProps DEF TypeOK
<1>3. FinalRows(k) \in Nat
  BY RowsNat
<1>4. n \in Nat
  <2>1. run[p].rows \in Seq(Row)
    BY DEF TypeOK, Run
  <2> QED
    BY <2>1, KeyRowsFinite
<1>5. FinalRows(k)' \in FinalRows(k) .. (FinalRows(k) + n)
  BY Written
<1>6. Copies(trades, k)' = C
  BY DEF AppendResults, Copies
<1>7. Late(k)' = Late(k) \ {p}
  BY LateWrite
<1>8. FinalRows(k) > 0 => FinalRows(k) + C * l <= C * R
  BY DEF FileBound
<1>9. n <= C
  BY RunRows
<1>10. CASE p \in Late(k)
  <2>1. Cardinality(Late(k)') = l - 1 /\ 1 <= l
    <3>1. Cardinality(Late(k) \ {p}) = l - 1
      BY <1>1, <1>10, FS_RemoveElement
    <3>2. IsFiniteSet(Late(k) \ {p})
      BY <1>1, FS_RemoveElement
    <3>3. Cardinality(Late(k) \ {p}) \in Nat
      BY <3>2, FS_CardinalityType
    <3> QED
      BY <1>1, <1>7, <3>1, <3>3
  <2> HIDE DEF C, R, l, n
  <2>2. x \in Nat /\ x <= C /\ FinalRows(k)' = FinalRows(k) + x
    BY <1>2, <1>3, <1>4, <1>5, <1>9
  <2> HIDE DEF x
  <2>3. (FinalRows(k) + x) + C * (l - 1) <= C * R
    BY <1>1, <1>2, <1>3, <1>8, <2>1, <2>2, Budget
  <2> QED
    BY <1>6, <2>1, <2>2, <2>3 DEF FileBound, R
<1>11. CASE p \notin Late(k)
  <2>1. k \in run[p].resolved
    BY <1>11 DEF AppendResults, Late
  <2>2. n = 0
    BY <2>1, FS_EmptySet DEF RunBound
  <2>3. Late(k)' = Late(k)
    BY <1>7, <1>11
  <2> HIDE DEF n
  <2>4. FinalRows(k)' = FinalRows(k)
    BY <1>3, <1>5, <2>2
  <2> QED
    BY <1>6, <1>8, <2>3, <2>4 DEF FileBound
<1> QED
  BY <1>10, <1>11

\* Another copy of a trade raises the bound by more than what it allows.
LEMMA FileAppended ==
  ASSUME IsFiniteSet(Runner), TypeOK, NEW k \in Key, FileBound(k),
         NEW j \in Key, Append1(j)
  PROVE  FileBound(k)'
<1> DEFINE C == Copies(trades, k)  R == Cardinality(Runner)  l == Cardinality(Late(k))
<1>1. l \in Nat /\ R \in Nat /\ l <= R
  BY LateFinite
<1>2. C \in Nat
  BY CopiesProps DEF TypeOK
<1>3. FinalRows(k) \in Nat
  BY RowsNat
<1>4. FinalRows(k)' = FinalRows(k) /\ Late(k)' = Late(k)
  BY DEF Append1, FinalRows, Verdicts, Late
<1>5. Copies(trades', k) \in {C, C + 1}
  BY AppendCopies DEF Append1, TypeOK
<1>6. Copies(trades, k)' = Copies(trades', k)
  BY DEF Copies
<1>7. FinalRows(k) > 0 => FinalRows(k) + C * l <= C * R
  BY DEF FileBound
<1> HIDE DEF C, R, l
<1>8. FinalRows(k) > 0 => FinalRows(k) + (C + 1) * l <= (C + 1) * R
  BY <1>1, <1>2, <1>3, <1>7, More
<1>9. FinalRows(k) > 0 => FinalRows(k) + Copies(trades', k) * l <= Copies(trades', k) * R
  BY <1>5, <1>7, <1>8
<1> QED
  BY <1>4, <1>6, <1>9 DEF FileBound, R, l

LEMMA NextRows ==
  ASSUME IsFiniteSet(Runner), TypeOK, RowsInv, [Next]_vars
  PROVE  RowsInv'
<1> SUFFICES ASSUME NEW k \in Key
             PROVE  FileBound(k)' /\ \A p \in Runner : RunBound(run[p], k)'
  BY DEF RowsInv
<1>0. FileBound(k) /\ \A p \in Runner : RunBound(run[p], k)
  BY DEF RowsInv
<1>1. \A p \in Runner : RunBound(run[p], k)'
  BY <1>0, NextRunBound
<1>2. CASE UNCHANGED <<results, trades, run>>
  <2>1. Late(k)' = Late(k)
    BY <1>2 DEF Late
  <2> QED
    BY <1>0, <1>1, <1>2, <2>1, FileKept
<1>3. ASSUME NEW m \in Market, MarketMoves(m) PROVE FileBound(k)'
  BY <1>2, <1>3 DEF MarketMoves
<1>4. ASSUME NEW j \in Key, Append1(j) PROVE FileBound(k)'
  BY <1>0, <1>4, FileAppended
<1>5. ASSUME NEW p \in Runner, RunStep(p) \/ Crash(p) PROVE FileBound(k)'
  <2>1. CASE AppendResults(p)
    BY <1>0, <2>1, FileWritten
  <2>2. CASE ~AppendResults(p)
    <3>1. results' = results /\ trades' = trades
      BY <1>5, <2>2 DEF RunStep, ReadTrades, ReadResults, AlreadyResolved, Judge,
                        Judged, Crash
    <3>2. FinalRows(k) > 0 => Late(k)' \subseteq Late(k)
      BY <1>5, LateStep, LateRead
    <3> QED
      BY <1>0, <3>1, <3>2, FileKept
  <2> QED
    BY <2>1, <2>2
<1>6. CASE UNCHANGED vars
  BY <1>2, <1>6 DEF vars
<1> QED
  BY <1>1, <1>3, <1>4, <1>5, <1>6 DEF Next

LEMMA RowsInvBounds ==
  ASSUME IsFiniteSet(Runner), TypeOK, RowsInv
  PROVE  FinalRowsBounded
<1> SUFFICES ASSUME NEW k \in Key
             PROVE  FinalRows(k) <= Copies(trades, k) * Cardinality(Runner)
  BY DEF FinalRowsBounded
<1> DEFINE C == Copies(trades, k)  R == Cardinality(Runner)  l == Cardinality(Late(k))
<1>1. l \in Nat /\ R \in Nat
  BY LateFinite
<1>2. C \in Nat
  BY CopiesProps DEF TypeOK
<1>3. FinalRows(k) \in Nat
  BY RowsNat
<1>4. FinalRows(k) > 0 => FinalRows(k) + C * l <= C * R
  BY DEF RowsInv, FileBound
<1> HIDE DEF C, R, l
<1>5. C * l \in Nat /\ C * R \in Nat
  BY <1>1, <1>2, Fewer
<1>6. FinalRows(k) <= C * R
  BY <1>3, <1>4, <1>5
<1> QED
  BY <1>6 DEF C, R

\* RowsAreBounded: however the runs of any finite number of runners overlap,
\* crash or write only a part of their rows, and however often the follower
\* books a trade again, a trade has at most one final row for each of its
\* ledger rows and each runner.
THEOREM RowsAreBounded ==
  ASSUME IsFiniteSet(Runner)
  PROVE  Spec => []FinalRowsBounded
<1>1. Init => TypeOK /\ RowsInv
  BY InitType, InitRows
<1>2. (TypeOK /\ RowsInv) /\ [Next]_vars => (TypeOK /\ RowsInv)'
  BY NextType, NextRows
<1>3. TypeOK /\ RowsInv => FinalRowsBounded
  BY RowsInvBounds
<1> QED
  BY <1>1, <1>2, <1>3, PTL DEF Spec
=============================================================================
