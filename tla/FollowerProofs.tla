-------------------------- MODULE FollowerProofs ---------------------------
(***************************************************************************)
(* Theorems about Follower, for any set of rows and keys, any bounds and   *)
(* any MAX_DEDUP_KEYS: the store first, then the cursor, the ledger and    *)
(* the kill switch.                                                        *)
(***************************************************************************)
EXTENDS Follower, SequenceTheorems, TLAPS

(***************************************************************************)
(* Lemmas about the store's helpers.                                       *)
(***************************************************************************)

\* What the FIFO cap keeps: a suffix of at most MaxKeys keys.
LEMMA TrimProps ==
  ASSUME NEW keys \in Seq(Key)
  PROVE  /\ Trim(keys) \in Seq(Key)
         /\ Len(Trim(keys)) = IF Len(keys) > MaxKeys THEN MaxKeys ELSE Len(keys)
         /\ \A i \in 1..Len(Trim(keys)) :
              Trim(keys)[i] = keys[Len(keys) - Len(Trim(keys)) + i]
<1> USE FollowerAssumption
<1>1. CASE Len(keys) > MaxKeys
  <2> DEFINE a == Len(keys) - MaxKeys + 1
  <2>1. Trim(keys) = SubSeq(keys, a, Len(keys))
    BY <1>1 DEF Trim
  <2>2. a \in 1..Len(keys)+1 /\ Len(keys) \in a-1..Len(keys) /\ Len(keys) \in Nat
    BY <1>1
  <2>3. /\ SubSeq(keys, a, Len(keys)) \in Seq(Key)
        /\ Len(SubSeq(keys, a, Len(keys))) = MaxKeys
        /\ \A i \in 1..MaxKeys : SubSeq(keys, a, Len(keys))[i] = keys[a + i - 1]
    BY <1>1, <2>2, SubSeqProperties
  <2> QED
    BY <1>1, <2>1, <2>2, <2>3
<1>2. CASE ~(Len(keys) > MaxKeys)
  BY <1>2 DEF Trim
<1> QED
  BY <1>1, <1>2

\* One more intent keeps the shape of a state and the cap on its keys.
LEMMA RecordIntentProps ==
  ASSUME NEW s \in FollowerState, Len(s.keys) <= MaxKeys, NEW k \in Key
  PROVE  /\ RecordIntent(s, k) \in FollowerState
         /\ Len(RecordIntent(s, k).keys) <= MaxKeys
         /\ RecordIntent(s, k).cursor = s.cursor
         /\ RecordIntent(s, k).intents = Append(s.intents, k)
         /\ RecordIntent(s, k).keys = Trim(Append(s.keys, k))
<1> USE FollowerAssumption
<1>1. Append(s.keys, k) \in Seq(Key) /\ Append(s.intents, k) \in Seq(Key)
  BY AppendProperties DEF FollowerState
<1>2. /\ Trim(Append(s.keys, k)) \in Seq(Key)
      /\ Len(Trim(Append(s.keys, k))) <= MaxKeys
  <2> DEFINE ks == Append(s.keys, k)
  <2>1. ks \in Seq(Key) /\ Len(ks) \in Nat
    BY <1>1
  <2> HIDE DEF ks
  <2>2. /\ Trim(ks) \in Seq(Key)
        /\ Len(Trim(ks)) = IF Len(ks) > MaxKeys THEN MaxKeys ELSE Len(ks)
    BY <2>1, TrimProps
  <2>3. Trim(ks) \in Seq(Key) /\ Len(Trim(ks)) <= MaxKeys
    BY <2>1, <2>2
  <2> QED
    BY <2>3 DEF ks
<1> QED
  BY <1>1, <1>2 DEF RecordIntent, FollowerState

\* Moving the cursor keeps the shape of a state and nothing else changes.
LEMMA AdvanceCursorProps ==
  ASSUME NEW s \in FollowerState, batch \in Batch
  PROVE  /\ AdvanceCursor(s) \in FollowerState
         /\ AdvanceCursor(s).intents = s.intents
         /\ AdvanceCursor(s).keys = s.keys
BY DEF AdvanceCursor, FollowerState, Batch

\* Where a read starts is an offset, within the file.
LEMMA StartOffsetProps ==
  ASSUME NEW c \in Cursor, NEW s \in [ino : Nat, size : Nat]
  PROVE  StartOffset(c, s) \in 0..s.size
BY DEF StartOffset, Cursor

LEMMA StatResultType == FileType => StatResult \in [ino : Nat, size : Nat]
BY DEF FileType, StatResult

\* The lines past an offset of the file.
LEMMA LinesFromProps ==
  ASSUME FileType, NEW start \in Nat
  PROVE  /\ LinesFrom(start) \in Seq(Row)
         /\ Len(LinesFrom(start)) =
              IF start < Len(file.rows) THEN Len(file.rows) - start ELSE 0
         /\ \A i \in 1..Len(LinesFrom(start)) :
              LinesFrom(start)[i] = file.rows[start + i]
<1> DEFINE n == Len(file.rows)
<1>1. file.rows \in Seq(Row) /\ n \in Nat
  BY DEF FileType
<1>2. CASE start < n
  <2>1. start + 1 \in 1..n+1 /\ n \in (start + 1)-1..n
    BY <1>1, <1>2
  <2> QED
    BY <1>1, <1>2, <2>1, SubSeqProperties DEF LinesFrom
<1>3. CASE ~(start < n)
  BY <1>1, <1>3, SubSeqEmpty DEF LinesFrom
<1> QED
  BY <1>2, <1>3

(***************************************************************************)
(* Type correctness.                                                       *)
(***************************************************************************)

LEMMA FileTypeStep == FileType /\ Producer => FileType'
<1> SUFFICES ASSUME FileType, Producer PROVE FileType'
  OBVIOUS
<1> USE TriggerAssumption
<1>1. ASSUME NEW r \in Row, Emit(r) PROVE FileType'
  <2>1. Append(file.rows, r) \in Seq(Row) /\ <<r>> \in Seq(Row)
    BY AppendProperties DEF FileType
  <2>2. produced' \subseteq Row
    BY <1>1 DEF Emit, FileType
  <2>3. CASE file.ino = 0
    <3>1. lastIno' = lastIno + 1 /\ file' = [ino |-> lastIno + 1, rows |-> <<r>>]
      BY <1>1, <2>3 DEF Emit
    <3>2. /\ lastIno' \in Nat
          /\ file' \in [ino : Nat, rows : Seq(Row)]
          /\ file'.ino = lastIno'
      BY <2>1, <3>1 DEF FileType
    <3> QED
      BY <2>2, <3>2 DEF FileType
  <2>4. CASE file.ino # 0
    <3>1. /\ file' = [file EXCEPT !.rows = Append(file.rows, r)]
          /\ lastIno' = lastIno
      BY <1>1, <2>4 DEF Emit
    <3>2. /\ file' \in [ino : Nat, rows : Seq(Row)]
          /\ file'.ino = file.ino
      BY <3>1, <2>1 DEF FileType
    <3> QED
      BY <2>2, <3>1, <3>2 DEF FileType
  <2> QED
    BY <2>3, <2>4
<1>2. ASSUME NEW n \in 0..Len(file.rows), Rotate(n) PROVE FileType'
  <2>1. SubSeq(file.rows, Len(file.rows) - n + 1, Len(file.rows)) \in Seq(Row)
    <3>1. file.rows \in Seq(Row) /\ Len(file.rows) \in Nat
      BY DEF FileType
    <3>2. CASE n = 0
      BY <3>1, <3>2, SubSeqEmpty
    <3>3. CASE n # 0
      BY <3>1, <3>3, SubSeqProperties
    <3> QED
      BY <3>2, <3>3
  <2> QED
    BY <1>2, <2>1 DEF Rotate, FileType
<1>3. CASE MoveAway
  BY <1>3 DEF MoveAway, FileType
<1>4. CASE Truncate
  <2>1. /\ file' = [file EXCEPT !.rows = << >>]
        /\ UNCHANGED <<lastIno, produced>>
    BY <1>4 DEF Truncate
  <2>2. /\ file' \in [ino : Nat, rows : Seq(Row)]
        /\ file'.ino = file.ino
    BY <2>1, EmptySeq DEF FileType
  <2> QED
    BY <2>1, <2>2 DEF FileType
<1> QED
  BY <1>1, <1>2, <1>3, <1>4 DEF Producer

LEMMA TypeInit == Init => TypeOK
<1> SUFFICES ASSUME Init PROVE TypeOK
  OBVIOUS
<1>1. /\ EmptyState \in FollowerState /\ Len(EmptyState.keys) <= MaxKeys
      /\ NoBatch \in Batch /\ NoStat \in [ino : Nat, size : Nat]
  BY FollowerAssumption
  DEF EmptyState, FollowerState, Cursor, NoCursor, NoBatch, Batch, NoStat
<1>2. FileType
  BY DEF Init, FileInit, FileType
<1>3. verdict \in [Row -> Verdict]
  BY DEF Init, Verdict
<1>4. pc = "exited" /\ pc \in PC
  BY DEF Init, PC
<1>5. mem \in FollowerState /\ Len(mem.keys) <= MaxKeys
  BY <1>1 DEF Init
<1>6. disk \in FollowerState /\ Len(disk.keys) <= MaxKeys
  BY <1>1 DEF Init
<1>7. ledger \in Seq(Key) /\ st \in [ino : Nat, size : Nat] /\ batch \in Batch
  BY <1>1, EmptySeq DEF Init
<1>8. threw \in BOOLEAN /\ aborted \in BOOLEAN /\ kill \in BOOLEAN
  BY Zenon DEF Init
<1>9. pos \in Nat \ {0} /\ polls \in Nat /\ faults \in Nat
  BY DEF Init
<1>10. pc \in {"append", "saveRow"} => pos <= Len(batch.rows)
  BY <1>4
<1> QED
  BY <1>2, <1>3, <1>4, <1>5, <1>6, <1>7, <1>8, <1>9, <1>10 DEF TypeOK

LEMMA TypeStep == TypeOK /\ [Next]_vars => TypeOK'
<1> SUFFICES ASSUME TypeOK, [Next]_vars PROVE TypeOK'
  OBVIOUS
<1> USE FollowerAssumption
<1> USE DEF TypeOK, fileVars, loopVars, histVars, PC, Goto, NoFault, Fault
<1>e. /\ EmptyState \in FollowerState /\ Len(EmptyState.keys) <= MaxKeys
      /\ NoBatch \in Batch /\ NoStat \in [ino : Nat, size : Nat]
  BY DEF EmptyState, FollowerState, Cursor, NoCursor, NoBatch, Batch, NoStat
<1>f. UNCHANGED fileVars => FileType'
  BY DEF FileType
<1>r. InBatch => CurrentRow \in Row /\ CurrentKey \in Key
  BY DEF InBatch, CurrentRow, CurrentKey, Batch
<1>n. NoLocals => /\ st' \in [ino : Nat, size : Nat] /\ batch' \in Batch
                  /\ pos' \in Nat \ {0} /\ threw' \in BOOLEAN
  <2>1. 1 \in Nat \ {0}
    OBVIOUS
  <2> QED
    BY <1>e, <2>1, Zenon DEF NoLocals
<1>g. (NoFault \/ Fault) => faults' \in Nat
  OBVIOUS
<1>s. ASSUME NEW s \in FollowerState, Len(s.keys) <= MaxKeys, Save(s)
      PROVE  disk' \in FollowerState /\ Len(disk'.keys) <= MaxKeys /\ faults' \in Nat
  BY <1>s, <1>g DEF Save
<1>x. ASSUME Exit, faults' \in Nat PROVE TypeOK'
  BY <1>x, <1>e, <1>f, <1>n DEF Exit, Leave
<1>1. CASE Boot
  BY <1>1, <1>f DEF Boot, LoadState
<1>2. CASE BootFails
  BY <1>2, <1>f DEF BootFails
<1>3. CASE Aborted
  BY <1>3, <1>x DEF Aborted
<1>4. CASE CheckKill
  BY <1>4, <1>x, <1>f DEF CheckKill
<1>5. CASE Stat
  <2>1. StatResult \in [ino : Nat, size : Nat]
    BY StatResultType
  <2>2. st' \in [ino : Nat, size : Nat]
    BY <1>5, <2>1 DEF Stat
  <2>b. batch' \in Batch
    <3>1. [rows |-> << >>, next |-> NextCursor(StatResult, StatResult.size, 0)]
            \in Batch
      BY <2>1, EmptySeq DEF NextCursor, Batch, Cursor
    <3> QED
      BY <1>5, <3>1 DEF Stat
  <2>3. pc' \in PC \ {"append", "saveRow"}
    BY <1>5 DEF Stat
  <2> QED
    BY <1>5, <1>f, <2>2, <2>b, <2>3 DEF Stat
<1>6. CASE Read
  <2> DEFINE start == StartOffset(mem.cursor, st)
  <2>1. start \in Nat
    BY StartOffsetProps DEF FollowerState
  <2>2. LinesFrom(start) \in Seq(Row) /\ Len(LinesFrom(start)) \in Nat
    BY <2>1, LinesFromProps
  <2>3. batch' \in Batch
    BY <1>6, <2>1, <2>2 DEF Read, NextCursor, Batch, Cursor
  <2> QED
    BY <1>6, <1>e, <1>f, <2>3 DEF Read
<1>7. CASE FetchFails
  <2>1. NoLocals /\ faults' \in Nat
    BY <1>7, <1>g DEF FetchFails
  <2> QED
    BY <1>7, <1>f, <1>n, <2>1 DEF FetchFails
<1>8. CASE Idle
  <2>1. mem' \in FollowerState /\ Len(mem'.keys) <= MaxKeys
    BY <1>8 DEF Idle, FollowerState, Batch
  <2>2. disk' \in FollowerState /\ Len(disk'.keys) <= MaxKeys /\ faults' \in Nat
    BY <1>8, <1>s, <2>1 DEF Idle
  <2> QED
    BY <1>8, <1>f, <1>n, <2>1, <2>2 DEF Idle
<1>9. ASSUME NEW v \in Verdict, InBatch, Skipped(v) PROVE TypeOK'
  BY <1>9, <1>f, <1>r DEF Skipped, InBatch
<1>10. CASE SkipReplay
  BY <1>10, <1>9 DEF SkipReplay, Verdict
<1>11. CASE SkipOther
  BY <1>11, <1>9 DEF SkipOther, Answerable, NotSeen, Verdict
<1>12. CASE WouldSign
  BY <1>12, <1>f DEF WouldSign, Answerable, NotSeen, InBatch
<1>13. CASE Throw
  <2>1. faults' \in Nat
    BY <1>13, <1>g DEF Throw
  <2> QED
    BY <1>13, <1>f, <2>1 DEF Throw, AfterThrow
<1>14. CASE Book
  <2>1. CurrentRow \in Row /\ CurrentKey \in Key
    BY <1>14 DEF Book, CurrentRow, CurrentKey, Batch
  <2>2. mem' \in FollowerState /\ Len(mem'.keys) <= MaxKeys
    BY <1>14, <2>1, RecordIntentProps DEF Book, Booked
  <2>3. ledger' \in Seq(Key) /\ faults' \in Nat
    <3>1. Append(ledger, CurrentKey) \in Seq(Key)
      BY <2>1, AppendProperties
    <3>2. ledger' = Append(ledger, CurrentKey) \/ ledger' = ledger
      BY <1>14 DEF Book, Booked
    <3>3. faults' \in Nat
      BY <1>14, <1>g DEF Book, Booked
    <3> QED
      BY <3>1, <3>2, <3>3
  <2>4. verdict' \in [Row -> Verdict]
    BY <1>14, <2>1 DEF Book, Booked, Verdict
  <2> QED
    BY <1>14, <1>f, <2>2, <2>3, <2>4 DEF Book
<1>15. CASE SaveRow
  <2>1. disk' \in FollowerState /\ Len(disk'.keys) <= MaxKeys /\ faults' \in Nat
    BY <1>15, <1>s DEF SaveRow
  <2> QED
    BY <1>15, <1>f, <2>1 DEF SaveRow
<1>16. CASE BatchDone
  BY <1>16, <1>f DEF BatchDone
<1>17. CASE EndBatch
  <2>1. AdvanceCursor(mem) \in FollowerState /\ Len(AdvanceCursor(mem).keys) <= MaxKeys
    BY AdvanceCursorProps
  <2>2. disk' \in FollowerState /\ Len(disk'.keys) <= MaxKeys /\ faults' \in Nat
    BY <1>17, <1>s, <2>1 DEF EndBatch
  <2> QED
    BY <1>17, <1>e, <1>f, <1>n, <2>1, <2>2 DEF EndBatch, Leave
<1>18. CASE Wake
  BY <1>18, <1>f DEF Wake
<1>19. CASE SleepEndsProcess
  BY <1>19, <1>x DEF SleepEndsProcess
<1>20. CASE Crash
  BY <1>20, <1>x DEF Crash
<1>21. CASE Abort
  BY <1>21, <1>f DEF Abort
<1>22. CASE FlipKill
  BY <1>22, <1>f DEF FlipKill
<1>23. CASE Produce
  BY <1>23, FileTypeStep DEF Produce
<1>24. CASE UNCHANGED vars
  BY <1>24, <1>f DEF vars
<1> QED
  BY <1>1, <1>2, <1>3, <1>4, <1>5, <1>6, <1>7, <1>8, <1>10, <1>11, <1>12, <1>13,
     <1>14, <1>15, <1>16, <1>17, <1>18, <1>19, <1>20, <1>21, <1>22, <1>23, <1>24
  DEF Next, Daemon

\* Spec keeps every variable in its type, and the dedup FIFO within
\* MAX_DEDUP_KEYS, for every source file and every fault.
THEOREM TypeCorrect == Spec => []TypeOK
BY TypeInit, TypeStep, PTL DEF Spec

(***************************************************************************)
(* Dedup: the FIFO holds exactly the keys of the newest intents, so a key  *)
(* that is not in it was last recorded more than MaxKeys intents ago.      *)
(* That link between the two lists is what makes the window inductive.     *)
(***************************************************************************)

KeysAreTail(s) ==
  /\ Len(s.keys) = IF Len(s.intents) > MaxKeys THEN MaxKeys ELSE Len(s.intents)
  /\ \A i \in 1..Len(s.keys) :
       s.keys[i] = s.intents[Len(s.intents) - Len(s.keys) + i]

Consistent(s) == KeysAreTail(s) /\ Journal!Spaced(s.intents)

\* The inductive invariant.  While a process runs, its memory extends what
\* the state file holds; a row about to be booked is not in the FIFO.
StoreInv ==
  /\ Consistent(mem) /\ Consistent(disk)
  /\ pc # "exited" => Journal!Extends(disk.intents, mem.intents)
  /\ pc = "append" => ~Holds(mem.keys, CurrentKey)

LEMMA SameLists ==
  ASSUME NEW s, NEW t, Consistent(s), t.intents = s.intents, t.keys = s.keys
  PROVE  Consistent(t)
BY DEF Consistent, KeysAreTail

LEMMA ExtendsReflexive ==
  ASSUME NEW s \in Seq(Key) PROVE Journal!Extends(s, s)
BY DEF Journal!Extends

LEMMA ExtendsTransitive ==
  ASSUME NEW s \in Seq(Key), NEW t \in Seq(Key), NEW u \in Seq(Key),
         Journal!Extends(s, t), Journal!Extends(t, u)
  PROVE  Journal!Extends(s, u)
BY DEF Journal!Extends

\* Recording an intent whose key is not in the FIFO keeps the state
\* consistent and its journal growing.
LEMMA RecordConsistent ==
  ASSUME NEW s \in FollowerState, Consistent(s), NEW k \in Key,
         ~Holds(s.keys, k)
  PROVE  /\ Consistent(RecordIntent(s, k))
         /\ Journal!Extends(s.intents, RecordIntent(s, k).intents)
<1> USE FollowerAssumption
<1> DEFINE t == RecordIntent(s, k)
           n == Len(s.keys)
           m == Len(s.intents)
           ks == Append(s.keys, k)
<1>1. /\ n \in Nat /\ m \in Nat /\ n <= MaxKeys /\ MaxKeys \in Nat \ {0}
      /\ n = IF m > MaxKeys THEN MaxKeys ELSE m
      /\ s.keys \in Seq(Key) /\ s.intents \in Seq(Key)
  BY DEF Consistent, KeysAreTail, FollowerState
<1>2. /\ t.intents = Append(s.intents, k)
      /\ t.keys = Trim(ks)
  BY <1>1, RecordIntentProps
<1>3. /\ ks \in Seq(Key) /\ Len(ks) = n + 1
      /\ \A i \in 1..n : ks[i] = s.keys[i]
      /\ ks[n + 1] = k
  BY <1>1, AppendProperties
<1>4. /\ Len(t.intents) = m + 1
      /\ \A i \in 1..m : t.intents[i] = s.intents[i]
      /\ t.intents[m + 1] = k
  BY <1>1, <1>2, AppendProperties
<1>5. \A i \in 1..n : s.keys[i] = s.intents[m - n + i]
  BY DEF Consistent, KeysAreTail
<1>6. /\ Len(t.keys) = IF n + 1 > MaxKeys THEN MaxKeys ELSE n + 1
      /\ \A i \in 1..Len(t.keys) : t.keys[i] = ks[(n + 1) - Len(t.keys) + i]
  <2> HIDE DEF ks, t, n
  <2>1. /\ Len(Trim(ks)) = IF Len(ks) > MaxKeys THEN MaxKeys ELSE Len(ks)
        /\ \A i \in 1..Len(Trim(ks)) : Trim(ks)[i] = ks[Len(ks) - Len(Trim(ks)) + i]
    BY <1>3, TrimProps
  <2>2. Len(ks) = n + 1 /\ t.keys = Trim(ks)
    BY <1>2, <1>3
  <2> QED
    BY <2>1, <2>2, Zenon
<1> HIDE DEF t, n, m, ks
<1>7. KeysAreTail(t)
  <2>1. Len(t.keys) = IF Len(t.intents) > MaxKeys THEN MaxKeys ELSE Len(t.intents)
    BY <1>1, <1>4, <1>6
  <2>2. ASSUME NEW i \in 1..Len(t.keys)
        PROVE  t.keys[i] = t.intents[Len(t.intents) - Len(t.keys) + i]
    <3>1. t.keys[i] = ks[(n + 1) - Len(t.keys) + i]
      BY <1>6
    <3>2. CASE i = Len(t.keys)
      BY <3>1, <3>2, <1>1, <1>3, <1>4, <1>6
    <3>3. CASE i < Len(t.keys)
      <4> DEFINE j == (n + 1) - Len(t.keys) + i
      <4>1. j \in 1..n
        BY <3>3, <1>1, <1>6
      <4>2. t.keys[i] = s.intents[m - n + j]
        BY <3>1, <4>1, <1>3, <1>5
      <4>3. m - n + j \in 1..m /\ m - n + j = Len(t.intents) - Len(t.keys) + i
        BY <4>1, <1>1, <1>4, <1>6
      <4> QED
        BY <4>2, <4>3, <1>4
    <3> QED
      BY <3>2, <3>3, <1>1, <1>6
  <2> QED
    BY <2>1, <2>2 DEF KeysAreTail
<1>8. Journal!Spaced(t.intents)
  <2> SUFFICES ASSUME NEW i \in 1..(m + 1), NEW j \in 1..(m + 1), i < j,
                      t.intents[i] = t.intents[j]
               PROVE  j - i > MaxKeys
    <3>1. DOMAIN t.intents = 1..(m + 1)
      BY <1>1, <1>2, <1>4, AppendProperties
    <3> QED
      BY <3>1 DEF Journal!Spaced
  <2>1. CASE j <= m
    <3>1. i \in DOMAIN s.intents /\ j \in DOMAIN s.intents
      BY <2>1, <1>1 DEF m
    <3> QED
      BY <2>1, <3>1, <1>1, <1>4 DEF Consistent, Journal!Spaced
  <2>2. CASE j = m + 1
    <3>1. i \in 1..m /\ s.intents[i] = k
      BY <2>2, <1>1, <1>4
    <3>2. ~(i > m - n)
      <4>1. ASSUME i > m - n PROVE FALSE
        <5>1. i - (m - n) \in 1..n
          BY <4>1, <3>1, <1>1
        <5>2. s.keys[i - (m - n)] = k
          <6> DEFINE d == i - (m - n)
          <6>1. d \in 1..n /\ m - n + d = i
            BY <5>1, <3>1, <1>1
          <6> HIDE DEF d
          <6>2. s.keys[d] = s.intents[m - n + d]
            BY <6>1, <1>5
          <6>3. s.keys[d] = k
            BY <6>1, <6>2, <3>1
          <6> QED
            BY <6>3 DEF d
        <5> QED
          BY <5>1, <5>2, <1>1 DEF Holds, n
      <4> QED
        BY <4>1
    <3> QED
      BY <2>2, <3>1, <3>2, <1>1
  <2> QED
    BY <2>1, <2>2, <1>1
<1>9. Journal!Extends(s.intents, t.intents)
  BY <1>1, <1>4 DEF Journal!Extends, m
<1> QED
  BY <1>7, <1>8, <1>9 DEF Consistent, t

LEMMA StoreInit == Init => StoreInv
<1> SUFFICES ASSUME Init PROVE StoreInv
  OBVIOUS
<1>1. Consistent(EmptyState)
  BY FollowerAssumption
  DEF Consistent, KeysAreTail, EmptyState, Journal!Spaced
<1> QED
  BY <1>1 DEF Init, StoreInv

LEMMA StoreStep == TypeOK /\ StoreInv /\ [Next]_vars => StoreInv'
<1> SUFFICES ASSUME TypeOK, StoreInv, [Next]_vars PROVE StoreInv'
  OBVIOUS
<1> USE DEF StoreInv, Goto
<1>t. /\ mem \in FollowerState /\ Len(mem.keys) <= MaxKeys /\ batch \in Batch
      /\ disk \in FollowerState
      /\ mem.intents \in Seq(Key) /\ disk.intents \in Seq(Key)
  BY DEF TypeOK, FollowerState
<1>e. Consistent(EmptyState)
  BY FollowerAssumption
  DEF Consistent, KeysAreTail, EmptyState, Journal!Spaced
\* A step that touches neither state and does not reach the booking.
<1>u. ASSUME UNCHANGED <<mem, disk>>, pc' # "append", pc # "exited"
      PROVE  StoreInv'
  BY <1>u DEF Consistent, KeysAreTail, Journal!Spaced
\* The process ends.
<1>x. ASSUME Leave, Consistent(disk') PROVE StoreInv'
  BY <1>x, <1>e DEF Leave
<1>y. ASSUME Exit PROVE StoreInv'
  BY <1>y, <1>x DEF Exit, Consistent, KeysAreTail, Journal!Spaced
\* A save of a state that holds memory's lists.
<1>s. ASSUME NEW s \in FollowerState, s.intents = mem.intents, s.keys = mem.keys,
             pc # "exited", Save(s)
      PROVE  /\ Consistent(s) /\ Consistent(disk')
             /\ disk'.intents \in Seq(Key)
             /\ Journal!Extends(disk'.intents, s.intents)
  <2>1. Consistent(s)
    BY <1>s, SameLists
  <2>2. CASE disk' = s
    BY <1>s, <1>t, <2>1, <2>2, ExtendsReflexive
  <2>3. CASE disk' = disk
    BY <1>s, <1>t, <2>1, <2>3
  <2> QED
    BY <1>s, <2>2, <2>3 DEF Save
<1>1. CASE Boot
  BY <1>1, <1>t, ExtendsReflexive DEF Boot, LoadState
<1>2. CASE BootFails
  BY <1>2 DEF BootFails, loopVars, Consistent, KeysAreTail, Journal!Spaced
<1>3. CASE Aborted
  BY <1>3, <1>y DEF Aborted
<1>4. CASE CheckKill
  BY <1>4, <1>y, <1>u DEF CheckKill
<1>5. CASE Stat
  BY <1>5, <1>u DEF Stat
<1>6. CASE Read
  BY <1>6, <1>u DEF Read
<1>7. CASE FetchFails
  BY <1>7, <1>u DEF FetchFails
<1>8. CASE Idle
  <2>1. /\ mem' \in FollowerState
        /\ mem'.intents = mem.intents /\ mem'.keys = mem.keys
    BY <1>8, <1>t DEF Idle, FollowerState, Batch
  <2>2. pc # "exited" /\ pc' = "sleep" /\ Save(mem')
    BY <1>8 DEF Idle
  <2> QED
    BY <1>s, <2>1, <2>2
<1>9. ASSUME NEW v, InBatch, Skipped(v) PROVE StoreInv'
  BY <1>9, <1>u DEF Skipped, InBatch
<1>10. CASE SkipReplay
  BY <1>10, <1>9 DEF SkipReplay
<1>11. CASE SkipOther
  BY <1>11, <1>9 DEF SkipOther, Answerable, NotSeen
<1>12. CASE WouldSign
  <2>1. /\ pc = "row" /\ ~Holds(mem.keys, CurrentKey)
        /\ UNCHANGED <<mem, disk, batch, pos>>
    BY <1>12 DEF WouldSign, Answerable, NotSeen, InBatch
  <2> QED
    BY <2>1 DEF Holds, CurrentKey, CurrentRow, Consistent, KeysAreTail, Journal!Spaced
<1>13. CASE Throw
  BY <1>13, <1>u DEF Throw, NotSeen, InBatch, AfterThrow
<1>14. CASE Book
  <2>1. CurrentKey \in Key
    BY <1>14, <1>t, FollowerAssumption
    DEF Book, TypeOK, CurrentKey, CurrentRow, Batch
  <2>2. /\ pc = "append" /\ pc' = "saveRow" /\ UNCHANGED disk
        /\ mem' = mem \/ mem' = RecordIntent(mem, CurrentKey)
    BY <1>14 DEF Book, Booked
  <2>3. CASE mem' = mem
    BY <2>2, <2>3, <1>u
  <2>4. CASE mem' = RecordIntent(mem, CurrentKey)
    <3>1. /\ Consistent(mem')
          /\ Journal!Extends(mem.intents, mem'.intents)
      BY <1>t, <2>1, <2>2, <2>4, RecordConsistent
    <3>2. mem'.intents \in Seq(Key)
      BY <1>t, <2>1, <2>4, RecordIntentProps DEF FollowerState
    <3>3. Journal!Extends(disk.intents, mem'.intents)
      BY <1>t, <2>2, <3>1, <3>2, ExtendsTransitive
    <3> QED
      BY <2>2, <3>1, <3>3 DEF Consistent, KeysAreTail, Journal!Spaced
  <2> QED
    BY <2>2, <2>3, <2>4
<1>15. CASE SaveRow
  <2>1. /\ pc = "saveRow" /\ pc' = "row" /\ mem' = mem /\ Save(mem)
    BY <1>15 DEF SaveRow
  <2>2. /\ Consistent(disk')
        /\ Journal!Extends(disk'.intents, mem.intents)
    BY <1>s, <1>t, <2>1
  <2> QED
    BY <2>1, <2>2 DEF Consistent, KeysAreTail, Journal!Spaced
<1>16. CASE BatchDone
  BY <1>16, <1>u DEF BatchDone
<1>17. CASE EndBatch
  <2>1. /\ AdvanceCursor(mem) \in FollowerState
        /\ AdvanceCursor(mem).intents = mem.intents
        /\ AdvanceCursor(mem).keys = mem.keys
    BY <1>t, AdvanceCursorProps
  <2>2. pc # "exited" /\ Save(AdvanceCursor(mem))
    BY <1>17 DEF EndBatch
  <2>3. /\ Consistent(AdvanceCursor(mem)) /\ Consistent(disk')
        /\ Journal!Extends(disk'.intents, AdvanceCursor(mem).intents)
    BY <1>s, <2>1, <2>2
  <2> QED
    BY <1>17, <1>x, <2>3 DEF EndBatch
<1>18. CASE Wake
  BY <1>18, <1>u DEF Wake
<1>19. CASE SleepEndsProcess
  BY <1>19, <1>y DEF SleepEndsProcess
<1>20. CASE Crash
  BY <1>20, <1>y DEF Crash
<1>21. ASSUME UNCHANGED <<pc, mem, disk, batch, pos>> PROVE StoreInv'
  BY <1>21 DEF Holds, CurrentKey, CurrentRow, Consistent, KeysAreTail, Journal!Spaced
<1>22. CASE Abort
  BY <1>22, <1>21 DEF Abort
<1>23. CASE FlipKill
  BY <1>23, <1>21 DEF FlipKill, loopVars
<1>24. CASE Produce
  BY <1>24, <1>21 DEF Produce, loopVars
<1>25. CASE UNCHANGED vars
  BY <1>25, <1>21 DEF vars, loopVars
<1> QED
  BY <1>1, <1>2, <1>3, <1>4, <1>5, <1>6, <1>7, <1>8, <1>10, <1>11, <1>12, <1>13,
     <1>14, <1>15, <1>16, <1>17, <1>18, <1>19, <1>20, <1>22, <1>23, <1>24, <1>25
  DEF Next, Daemon

LEMMA StoreInvariant == Spec => [](TypeOK /\ StoreInv)
<1>1. Init => TypeOK /\ StoreInv
  BY TypeInit, StoreInit
<1>2. TypeOK /\ StoreInv /\ [Next]_vars => (TypeOK /\ StoreInv)'
  BY TypeStep, StoreStep
<1> QED
  BY <1>1, <1>2, PTL DEF Spec

\* In every behaviour, two intents of one dedup key, in memory or on disk,
\* are more than MAX_DEDUP_KEYS intents apart: alreadySeen and the FIFO of
\* state.ts bound the replays that rotations, held cursors, failed saves
\* and crashes can cause.
THEOREM DedupWindowHolds == Spec => []DedupWindow
<1>1. StoreInv => DedupWindow
  BY DEF StoreInv, DedupWindow, Consistent
<1> QED
  BY <1>1, StoreInvariant, PTL

\* The follower implements the intent journal: the state file's intents
\* start empty, and every step of any actor leaves them as they are or
\* appends to them within the window.
THEOREM ImplementsJournal == Spec => KeepsJournal
<1>1. Init => Journal!Init
  BY DEF Init, EmptyState, Journal!Init
<1>2. TypeOK /\ StoreInv /\ StoreInv' /\ [Next]_vars
        => [Journal!Commit]_(disk.intents)
  <2> SUFFICES ASSUME TypeOK, StoreInv, StoreInv', [Next]_vars
               PROVE  [Journal!Commit]_(disk.intents)
    OBVIOUS
  <2>1. Journal!Spaced(disk'.intents)
    BY DEF StoreInv, Consistent
  <2>2. /\ mem \in FollowerState /\ batch \in Batch
    BY DEF TypeOK
  <2>3. \/ UNCHANGED disk
        \/ /\ pc # "exited"
           /\ \/ Save(mem) \/ Save(AdvanceCursor(mem))
              \/ Idle
    <3>1. CASE UNCHANGED vars
      BY <3>1 DEF vars
    <3>2. CASE Boot \/ BootFails \/ Aborted \/ CheckKill \/ Stat \/ Read \/ FetchFails
      BY <3>2 DEF Boot, BootFails, Aborted, CheckKill, Stat, Read, FetchFails, Exit
    <3>3. CASE SkipReplay \/ SkipOther \/ WouldSign \/ Throw \/ Book \/ BatchDone
      BY <3>3 DEF SkipReplay, SkipOther, WouldSign, Throw, Book, BatchDone, Skipped
    <3>4. CASE Wake \/ SleepEndsProcess \/ Crash \/ Abort \/ FlipKill \/ Produce
      BY <3>4 DEF Wake, SleepEndsProcess, Crash, Abort, FlipKill, Produce, Exit
    <3>5. CASE Idle
      BY <3>5 DEF Idle
    <3>6. CASE SaveRow
      BY <3>6 DEF SaveRow
    <3>7. CASE EndBatch
      BY <3>7 DEF EndBatch
    <3> QED
      BY <3>1, <3>2, <3>3, <3>4, <3>5, <3>6, <3>7 DEF Next, Daemon
  <2>4. CASE UNCHANGED disk
    BY <2>4
  <2>5. ASSUME pc # "exited", disk'.intents = mem.intents
        PROVE  Journal!Extends(disk.intents, disk'.intents)
    BY <2>5 DEF StoreInv
  <2>6. CASE pc # "exited" /\ Save(mem)
    BY <2>1, <2>4, <2>5, <2>6 DEF Save, Journal!Commit
  <2>7. CASE pc # "exited" /\ Save(AdvanceCursor(mem))
    BY <2>1, <2>2, <2>4, <2>5, <2>7, AdvanceCursorProps DEF Save, Journal!Commit
  <2>8. CASE pc # "exited" /\ Idle
    <3>1. mem'.intents = mem.intents /\ Save(mem')
      BY <2>2, <2>8 DEF Idle, FollowerState
    <3> QED
      BY <2>1, <2>4, <2>5, <2>8, <3>1 DEF Save, Journal!Commit
  <2> QED
    BY <2>3, <2>4, <2>6, <2>7, <2>8
<1> QED
  BY <1>1, <1>2, StoreInvariant, PTL DEF Spec, KeepsJournal, Journal!Spec

-----------------------------------------------------------------------------
(***************************************************************************)
(* The cursor, the ledger and the kill switch.                             *)
(*                                                                         *)
(* The cursor is moved past a batch as a whole, long after the rows were   *)
(* read, while the producer appends, rotates and moves the file away and   *)
(* the process may die.  What makes "the cursor covers only decided rows"  *)
(* inductive is an account of the batch in flight: which rows of the file  *)
(* its next cursor stands for, and that neither the cursor in memory nor   *)
(* the one on disk is past a row that is still to be decided.              *)
(***************************************************************************)

\* A producer that truncates in place, or an abort in the middle of a batch,
\* breaks the coverage; runFollower's callers abort from within sleep.
Undisturbed == ~Truncates /\ AbortPoints \subseteq {"top", "sleep"}

Owed == {"sign", "unledgered", "replay"}

\* Row r has been decided, and in live mode state s holds the intent the
\* decision stands for.
Settled(r, s, v) ==
  /\ v[r] # "none"
  /\ ~DryRun /\ v[r] \in Owed => Holds(s.intents, KeyOf[r])

\* Cursor c is of an inode handed out by now.
Position(c, l) == c.ino <= l /\ (c.ino = 0 => c.off = 0)

\* Every row of file f before cursor c is settled.
Covers(c, s, f, v) ==
  c.ino = f.ino => /\ c.off <= Len(f.rows)
                   /\ \A i \in 1..c.off : Settled(f.rows[i], s, v)

\* In file f, d is not before c.
Behind(c, d, f) ==
  c.ino = f.ino /\ c.ino # 0 => d.ino = f.ino /\ c.off <= d.off

\* No row of the batch is before cursor c.
Untouched(c, f, b) ==
  \A i \in DOMAIN f.rows, j \in DOMAIN b.rows :
    c.ino = f.ino /\ i <= c.off => f.rows[i] # b.rows[j]

\* Every row is emitted once.
RowsOnce ==
  /\ file.ino = 0 => file.rows = << >>
  /\ \A i \in DOMAIN file.rows : file.rows[i] \in produced
  /\ \A i, j \in DOMAIN file.rows : file.rows[i] = file.rows[j] => i = j

\* The stat that the read works from is of the file the cursor is in.
StatFits ==
  /\ st.ino # 0 /\ st.ino <= lastIno
  /\ mem.cursor.ino = st.ino => mem.cursor.off <= st.size
  /\ mem.cursor.ino = file.ino /\ file.ino # 0 => st.ino = file.ino

\* How many rows of the batch are through.
Through == CASE pc = "saveRow" -> pos
             [] pc = "end" -> Len(batch.rows)
             [] OTHER -> pos - 1

\* Every row of file f before the batch's next cursor is settled or in the batch.
Accounted(b, s, f, v) ==
  b.next.ino = f.ino =>
    /\ b.next.off <= Len(f.rows)
    /\ \A i \in 1..b.next.off :
         \/ Settled(f.rows[i], s, v)
         \/ \E j \in DOMAIN b.rows : b.rows[j] = f.rows[i]

BatchFits ==
  /\ batch.next.ino # 0 /\ batch.next.ino <= lastIno
  /\ Accounted(batch, mem, file, verdict)
  /\ ~threw => \A j \in DOMAIN batch.rows :
                 j <= Through => Settled(batch.rows[j], mem, verdict)
  /\ Untouched(disk.cursor, file, batch) /\ Untouched(mem.cursor, file, batch)
  /\ Behind(disk.cursor, batch.next, file) /\ Behind(mem.cursor, batch.next, file)

Batching == pc \in {"row", "append", "saveRow", "end"}

\* The inductive invariant.
CursorInv ==
  /\ RowsOnce
  /\ Position(disk.cursor, lastIno) /\ Covers(disk.cursor, disk, file, verdict)
  /\ pc = "exited" => mem = EmptyState
  /\ pc # "exited" => /\ Position(mem.cursor, lastIno)
                      /\ Covers(mem.cursor, mem, file, verdict)
                      /\ Behind(disk.cursor, mem.cursor, file)
  /\ pc = "read" => StatFits
  /\ pc = "idle" => /\ Position(batch.next, lastIno)
                    /\ Covers(batch.next, mem, file, verdict)
                    /\ Behind(disk.cursor, batch.next, file)
  /\ Batching => BatchFits
  /\ pc \in {"exited", "top", "stat", "read", "sleep"} => batch = NoBatch /\ pos = 1
  /\ aborted => pc \in {"top", "sleep"}

(***************************************************************************)
(* What the producer does to the file, and what is left of an account of   *)
(* it then: the file grows, or is gone, or is one of a new inode.          *)
(***************************************************************************)

File == [ino : Nat, rows : Seq(Row)]

Renewed(f, l, g, m) ==
  \/ /\ g.ino = f.ino /\ f.ino # 0 /\ m = l
     /\ Len(f.rows) <= Len(g.rows)
     /\ \A i \in 1..Len(f.rows) : g.rows[i] = f.rows[i]
  \/ g.ino = 0 /\ g.rows = << >> /\ m = l
  \/ g.ino = l + 1 /\ m = l + 1

LEMMA ProducerRenews ==
  ASSUME FileType, RowsOnce, Producer, ~Truncates
  PROVE  RowsOnce' /\ Renewed(file, lastIno, file', lastIno')
<1> USE DEF FileType
<1>t. file.rows \in Seq(Row) /\ Len(file.rows) \in Nat /\ DOMAIN file.rows = 1..Len(file.rows)
  OBVIOUS
<1>1. ASSUME NEW r \in Row, Emit(r)
      PROVE  RowsOnce' /\ Renewed(file, lastIno, file', lastIno')
  <2>1. r \notin produced /\ produced' = produced \union {r}
    BY <1>1 DEF Emit
  <2>2. CASE file.ino = 0
    <3>1. file' = [ino |-> lastIno + 1, rows |-> <<r>>] /\ lastIno' = lastIno + 1
      BY <1>1, <2>2 DEF Emit
    <3>2. file'.ino = lastIno + 1 /\ file'.rows = <<r>> /\ file'.ino # 0
      BY <3>1
    <3>3. r \in produced'
      BY <2>1
    <3>4. RowsOnce'
      BY <3>2, <3>3 DEF RowsOnce
    <3> QED
      BY <3>1, <3>2, <3>4 DEF Renewed
  <2>3. CASE file.ino # 0
    <3> DEFINE rs == Append(file.rows, r)
    <3>1. file' = [file EXCEPT !.rows = rs] /\ lastIno' = lastIno
      BY <1>1, <2>3 DEF Emit
    <3>2. /\ DOMAIN rs = 1..Len(file.rows) + 1 /\ Len(rs) = Len(file.rows) + 1
          /\ \A i \in 1..Len(file.rows) : rs[i] = file.rows[i]
          /\ rs[Len(file.rows) + 1] = r
      BY <1>t
    <3>3. file'.ino = file.ino /\ file'.rows = rs
      BY <3>1
    <3> HIDE DEF rs
    <3>4. Renewed(file, lastIno, file', lastIno')
      BY <1>t, <2>3, <3>1, <3>2, <3>3 DEF Renewed
    <3>5. \A i \in DOMAIN rs : rs[i] \in produced'
      BY <1>t, <2>1, <3>2 DEF RowsOnce
    <3>6. \A i, j \in DOMAIN rs : rs[i] = rs[j] => i = j
      BY <1>t, <2>1, <3>2 DEF RowsOnce
    <3> QED
      BY <2>3, <3>3, <3>4, <3>5, <3>6 DEF RowsOnce
  <2> QED
    BY <2>2, <2>3
<1>2. ASSUME NEW n \in 0..Len(file.rows), Rotate(n)
      PROVE  RowsOnce' /\ Renewed(file, lastIno, file', lastIno')
  <2> DEFINE a == Len(file.rows) - n + 1
             rs == SubSeq(file.rows, a, Len(file.rows))
  <2>1. file' = [ino |-> lastIno + 1, rows |-> rs] /\ lastIno' = lastIno + 1
        /\ produced' = produced
    BY <1>2 DEF Rotate
  <2>2. /\ DOMAIN rs = 1..n
        /\ \A i \in 1..n : rs[i] = file.rows[a + i - 1] /\ a + i - 1 \in 1..Len(file.rows)
    <3>1. a \in Int /\ \A i \in a..Len(file.rows) : file.rows[i] \in Row
      BY <1>t
    <3>2. /\ Len(rs) = n /\ rs \in Seq(Row)
          /\ \A i \in 1..n : rs[i] = file.rows[a + i - 1]
      <4>1. Len(file.rows) - a + 1 = n /\ (a <= Len(file.rows) \/ n = 0)
        BY <1>t
      <4> HIDE DEF a
      <4>2. Len(file.rows) \in Int
        BY <1>t
      <4>3. /\ SubSeq(file.rows, a, Len(file.rows)) \in Seq(Row)
            /\ Len(SubSeq(file.rows, a, Len(file.rows)))
                 = IF a <= Len(file.rows) THEN Len(file.rows) - a + 1 ELSE 0
            /\ \A i \in 1..Len(file.rows) - a + 1 :
                 SubSeq(file.rows, a, Len(file.rows))[i] = file.rows[a + i - 1]
        BY <3>1, <4>2, SubSeqProperties
      <4> QED
        BY <4>1, <4>3
    <3>3. \A i \in 1..n : a + i - 1 \in 1..Len(file.rows)
      BY <1>t
    <3> HIDE DEF rs
    <3> QED
      BY <3>2, <3>3
  <2>3. file'.rows = rs /\ file'.ino = lastIno + 1
    BY <2>1
  <2>4. n \in Nat /\ a \in Nat
    BY <1>t
  <2> HIDE DEF rs, a
  <2>5. \A i \in DOMAIN rs : rs[i] \in produced
    BY <1>t, <2>2 DEF RowsOnce
  <2>6. ASSUME NEW i \in DOMAIN rs, NEW j \in DOMAIN rs, rs[i] = rs[j]
        PROVE  i = j
    <3>1. file.rows[a + i - 1] = file.rows[a + j - 1]
      BY <2>2, <2>6
    <3>2. a + i - 1 = a + j - 1
      BY <1>t, <2>2, <3>1 DEF RowsOnce
    <3> QED
      BY <2>2, <2>4, <3>2
  <2> QED
    BY <2>1, <2>3, <2>5, <2>6 DEF RowsOnce, Renewed
<1>3. CASE MoveAway
  <2>1. file' = [ino |-> 0, rows |-> << >>] /\ lastIno' = lastIno
    BY <1>3 DEF MoveAway
  <2> QED
    BY <2>1 DEF RowsOnce, Renewed
<1> QED
  BY <1>1, <1>2, <1>3 DEF Producer, Truncate

LEMMA CoversRenewed ==
  ASSUME NEW c \in Cursor, NEW s, NEW v, NEW f \in File, NEW g \in File,
         NEW l \in Nat, NEW m \in Nat, Renewed(f, l, g, m),
         Position(c, l), Covers(c, s, f, v)
  PROVE  Position(c, m) /\ Covers(c, s, g, v)
<1>1. Position(c, m)
  BY DEF Cursor, File, Renewed, Position
<1>2. ASSUME c.ino = g.ino, c.ino # 0
      PROVE  /\ c.ino = f.ino /\ Len(f.rows) <= Len(g.rows)
             /\ \A i \in 1..Len(f.rows) : g.rows[i] = f.rows[i]
  BY <1>2 DEF Cursor, File, Renewed, Position
<1>3. CASE c.ino = g.ino /\ c.ino # 0
  <2>1. /\ c.off <= Len(g.rows)
        /\ \A i \in 1..c.off : i \in 1..Len(f.rows)
    BY <1>2, <1>3 DEF Cursor, File, Covers
  <2>2. \A i \in 1..c.off : Settled(g.rows[i], s, v)
    BY <1>2, <1>3, <2>1 DEF Covers
  <2> QED
    BY <1>1, <2>1, <2>2 DEF Covers
<1>4. CASE c.ino = 0
  BY <1>1, <1>4 DEF Cursor, File, Position, Covers
<1> QED
  BY <1>1, <1>3, <1>4 DEF Covers

LEMMA BehindRenewed ==
  ASSUME NEW c \in Cursor, NEW d \in Cursor, NEW f \in File, NEW g \in File,
         NEW l \in Nat, NEW m \in Nat, Renewed(f, l, g, m),
         Position(c, l), Behind(c, d, f)
  PROVE  Behind(c, d, g)
BY DEF Cursor, File, Renewed, Position, Behind

LEMMA UntouchedRenewed ==
  ASSUME NEW c \in Cursor, NEW b \in Batch, NEW f \in File, NEW g \in File,
         NEW l \in Nat, NEW m \in Nat, Renewed(f, l, g, m),
         Position(c, l), c.ino = f.ino => c.off <= Len(f.rows), Untouched(c, f, b)
  PROVE  Untouched(c, g, b)
BY DEF Cursor, File, Batch, Renewed, Position, Untouched

LEMMA AccountedRenewed ==
  ASSUME NEW b \in Batch, NEW s, NEW v, NEW f \in File, NEW g \in File,
         NEW l \in Nat, NEW m \in Nat, Renewed(f, l, g, m),
         b.next.ino # 0, b.next.ino <= l, Accounted(b, s, f, v)
  PROVE  b.next.ino <= m /\ Accounted(b, s, g, v)
<1>1. b.next.ino <= m
  BY DEF Cursor, File, Batch, Renewed
<1>2. CASE b.next.ino = g.ino
  <2>1. /\ b.next.ino = f.ino /\ Len(f.rows) <= Len(g.rows)
        /\ \A i \in 1..Len(f.rows) : g.rows[i] = f.rows[i]
    BY <1>2 DEF Cursor, File, Batch, Renewed
  <2>2. b.next.off <= Len(g.rows) /\ \A i \in 1..b.next.off : i \in 1..Len(f.rows)
    BY <2>1 DEF Cursor, File, Batch, Accounted
  <2> QED
    BY <1>1, <2>1, <2>2 DEF Accounted
<1> QED
  BY <1>1, <1>2 DEF Accounted

(***************************************************************************)
(* The invariant's steps.                                                  *)
(***************************************************************************)

LEMMA CursorInit == Init => CursorInv
BY DEF Init, FileInit, EmptyState, NoCursor, CursorInv, RowsOnce, Position, Covers,
       Batching

\* A step of the producer.
LEMMA CursorProduce ==
  ASSUME TypeOK, CursorInv, Produce, ~Truncates
  PROVE  CursorInv'
<1> USE DEF CursorInv
<1>1. /\ RowsOnce' /\ Renewed(file, lastIno, file', lastIno')
      /\ UNCHANGED <<pc, st, batch, pos, threw, aborted, mem, disk, verdict>>
  BY ProducerRenews DEF TypeOK, Produce, loopVars
<1>2. /\ file \in File /\ file' \in File /\ lastIno \in Nat /\ lastIno' \in Nat
      /\ disk.cursor \in Cursor /\ mem.cursor \in Cursor
      /\ batch \in Batch /\ batch.next \in Cursor
  BY FileTypeStep DEF TypeOK, Produce, FileType, File, FollowerState, Batch
<1>3. Position(disk.cursor, lastIno') /\ Covers(disk.cursor, disk, file', verdict)
  BY <1>1, <1>2, CoversRenewed
<1>4. ASSUME pc # "exited"
      PROVE  /\ Position(mem.cursor, lastIno') /\ Covers(mem.cursor, mem, file', verdict)
             /\ Behind(disk.cursor, mem.cursor, file')
  BY <1>1, <1>2, <1>4, CoversRenewed, BehindRenewed
<1>5. ASSUME pc = "idle"
      PROVE  /\ Position(batch.next, lastIno')
             /\ Covers(batch.next, mem, file', verdict)
             /\ Behind(disk.cursor, batch.next, file')
  BY <1>1, <1>2, <1>5, CoversRenewed, BehindRenewed
<1>6. ASSUME pc = "read" PROVE StatFits'
  <2>1. st.ino <= lastIno /\ Position(mem.cursor, lastIno)
    BY <1>6 DEF StatFits
  <2> QED
    BY <1>1, <1>2, <1>6, <2>1 DEF StatFits, Renewed, File, Cursor, Position, TypeOK
<1>7. ASSUME Batching PROVE BatchFits'
  <2>1. /\ batch.next.ino # 0 /\ batch.next.ino <= lastIno'
        /\ Accounted(batch, mem, file', verdict)
    BY <1>1, <1>2, <1>7, AccountedRenewed DEF BatchFits
  <2>2. Untouched(disk.cursor, file', batch) /\ Untouched(mem.cursor, file', batch)
    <3>1. pc # "exited"
      BY <1>7 DEF Batching
    <3> QED
      BY <1>1, <1>2, <1>7, <3>1, UntouchedRenewed DEF BatchFits, Covers
  <2>3. Behind(disk.cursor, batch.next, file') /\ Behind(mem.cursor, batch.next, file')
    <3>1. pc # "exited"
      BY <1>7 DEF Batching
    <3> QED
      BY <1>1, <1>2, <1>7, <3>1, BehindRenewed DEF BatchFits
  <2>4. ~threw => \A j \in DOMAIN batch.rows :
                    j <= Through => Settled(batch.rows[j], mem, verdict)
    BY <1>7 DEF BatchFits
  <2> QED
    BY <1>1, <2>1, <2>2, <2>3, <2>4 DEF BatchFits, Through
<1> QED
  BY <1>1, <1>3, <1>4, <1>5, <1>6, <1>7 DEF Batching

\* The process ends: what is on disk stays covered.
LEMMA CursorExit ==
  ASSUME CursorInv, Exit
  PROVE  CursorInv'
BY DEF CursorInv, Exit, Leave, Goto, NoLocals, fileVars, RowsOnce, Batching

\* A row is decided.  It is before no cursor, so the file's old state need not
\* know of the decision.
LEMMA CursorDecide ==
  ASSUME TypeOK, CursorInv, NEW v \in Verdict \ {"none"},
         pc \in {"row", "append"}, pos <= Len(batch.rows),
         pc' = "saveRow", ~aborted,
         UNCHANGED <<fileVars, batch, pos, threw, aborted, disk>>,
         verdict' = [verdict EXCEPT ![CurrentRow] = v],
         mem'.cursor = mem.cursor,
         \A k : Holds(mem.intents, k) => Holds(mem'.intents, k),
         ~DryRun /\ v \in Owed => Holds(mem'.intents, CurrentKey)
  PROVE  CursorInv'
<1> USE DEF CursorInv, CurrentRow, CurrentKey
<1>1. /\ pos \in DOMAIN batch.rows /\ batch.rows \in Seq(Row) /\ batch.rows[pos] \in Row
      /\ pos \in Nat \ {0} /\ Len(batch.rows) \in Nat
      /\ DOMAIN batch.rows = 1..Len(batch.rows)
      /\ DOMAIN file.rows = 1..Len(file.rows) /\ Len(file.rows) \in Nat
      /\ disk.cursor \in Cursor /\ mem.cursor \in Cursor
      /\ DOMAIN verdict = Row /\ file.rows \in Seq(Row)
  BY DEF TypeOK, Batch, FileType, FollowerState
<1>2. BatchFits
  BY DEF Batching
<1>3. \A r : Settled(r, mem, verdict) /\ r \in Row => Settled(r, mem', verdict')
  BY <1>1 DEF Settled
<1>4. Settled(batch.rows[pos], mem', verdict')
  BY <1>1 DEF Settled, Verdict
<1>5. \A r \in Row : r # batch.rows[pos] => verdict'[r] = verdict[r]
  BY <1>1
<1>6. Covers(disk.cursor, disk, file', verdict')
  <2> SUFFICES ASSUME disk.cursor.ino = file.ino
               PROVE  /\ disk.cursor.off <= Len(file.rows)
                      /\ \A i \in 1..disk.cursor.off : Settled(file.rows[i], disk, verdict')
    BY DEF Covers, fileVars
  <2>1. /\ disk.cursor.off <= Len(file.rows)
        /\ \A i \in 1..disk.cursor.off : Settled(file.rows[i], disk, verdict)
    BY DEF Covers
  <2>2. \A i \in 1..disk.cursor.off :
          i \in DOMAIN file.rows /\ file.rows[i] \in Row /\ file.rows[i] # batch.rows[pos]
    <3> SUFFICES ASSUME NEW i \in 1..disk.cursor.off
                 PROVE  /\ i \in DOMAIN file.rows /\ file.rows[i] \in Row
                        /\ file.rows[i] # batch.rows[pos]
      OBVIOUS
    <3>1. disk.cursor.off \in Nat
      BY <1>1 DEF Cursor
    <3>2. i \in DOMAIN file.rows /\ i <= disk.cursor.off
      BY <1>1, <2>1, <3>1
    <3>3. Untouched(disk.cursor, file, batch)
      BY <1>2 DEF BatchFits
    <3> QED
      BY <1>1, <3>2, <3>3 DEF Untouched
  <2> QED
    BY <1>5, <2>1, <2>2 DEF Settled
<1>7. Covers(mem.cursor, mem', file', verdict')
  <2>1. ASSUME mem.cursor.ino = file.ino, NEW i \in 1..mem.cursor.off
        PROVE  i \in DOMAIN file.rows /\ file.rows[i] \in Row
    BY <1>1, <2>1 DEF Covers, Cursor
  <2> QED
    BY <1>3, <2>1 DEF Covers, fileVars
<1>8. Accounted(batch, mem', file', verdict')
  <2>1. ASSUME batch.next.ino = file.ino, NEW i \in 1..batch.next.off
        PROVE  file.rows[i] \in Row
    BY <1>1, <1>2, <2>1 DEF BatchFits, Accounted, TypeOK, Batch, Cursor
  <2> QED
    BY <1>2, <1>3, <2>1 DEF BatchFits, Accounted, fileVars
<1>9. ~threw => \A j \in DOMAIN batch.rows : j <= pos => Settled(batch.rows[j], mem', verdict')
  <2> SUFFICES ASSUME ~threw, NEW j \in DOMAIN batch.rows, j <= pos
               PROVE  Settled(batch.rows[j], mem', verdict')
    OBVIOUS
  <2>1. CASE j = pos
    BY <1>4, <2>1
  <2>2. CASE j <= pos - 1
    <3>1. Through = pos - 1
      BY DEF Through
    <3>2. Settled(batch.rows[j], mem, verdict)
      BY <1>2, <2>2, <3>1 DEF BatchFits
    <3>3. batch.rows[j] \in Row
      BY <1>1
    <3> QED
      BY <1>3, <3>2, <3>3
  <2> QED
    BY <1>1, <2>1, <2>2
<1>10. BatchFits'
  BY <1>2, <1>8, <1>9 DEF BatchFits, Through, fileVars
<1> QED
  BY <1>6, <1>7, <1>10 DEF fileVars, RowsOnce, Batching

\* The stat: the file is absent, or read to its end, or about to be read.
LEMMA CursorStat ==
  ASSUME TypeOK, CursorInv, Stat
  PROVE  CursorInv'
<1> USE DEF CursorInv, Goto
<1> DEFINE start == StartOffset(mem.cursor, StatResult)
<1>1. /\ file.ino \in Nat /\ file.ino <= lastIno /\ lastIno \in Nat
      /\ Len(file.rows) \in Nat
      /\ disk.cursor \in Cursor /\ mem.cursor \in Cursor
      /\ StatResult = [ino |-> file.ino, size |-> Len(file.rows)]
  BY DEF TypeOK, FileType, FollowerState, StatResult
<1>2. /\ pc = "stat" /\ UNCHANGED <<fileVars, mem, disk, verdict, aborted>>
      /\ Position(mem.cursor, lastIno) /\ Covers(mem.cursor, mem, file, verdict)
      /\ Behind(disk.cursor, mem.cursor, file)
  BY DEF Stat
<1>3. start = IF mem.cursor.ino # file.ino THEN 0 ELSE mem.cursor.off
  BY <1>1, <1>2 DEF StartOffset, Covers, Cursor
<1>4. CASE file.ino = 0 /\ pc' = "idle" /\ batch' = batch
  <2>1. batch'.next.ino = 0 /\ batch'.next.off = 0
    BY <1>2, <1>4 DEF NoBatch, NoCursor
  <2>2. /\ Position(batch'.next, lastIno) /\ Covers(batch'.next, mem, file, verdict)
        /\ Behind(disk.cursor, batch'.next, file)
    BY <1>1, <1>4, <2>1 DEF Position, Covers, Behind
  <2> QED
    BY <1>2, <1>4, <2>2 DEF fileVars, RowsOnce, Batching
<1>5. CASE /\ file.ino # 0 /\ start >= StatResult.size /\ pc' = "idle"
           /\ batch' = [rows |-> << >>, next |-> NextCursor(StatResult, StatResult.size, 0)]
  <2>1. batch'.next.ino = file.ino /\ batch'.next.off = Len(file.rows)
    BY <1>1, <1>5 DEF NextCursor
  <2>2. \/ Len(file.rows) = 0
        \/ mem.cursor.ino = file.ino /\ mem.cursor.off = Len(file.rows)
    BY <1>1, <1>2, <1>3, <1>5 DEF Covers, Cursor
  <2>3. Position(batch'.next, lastIno)
    BY <1>1, <1>5, <2>1 DEF Position
  <2>4. Covers(batch'.next, mem, file, verdict)
    BY <1>1, <1>2, <2>1, <2>2 DEF Covers
  <2>5. Behind(disk.cursor, batch'.next, file)
    BY <1>1, <2>1 DEF Behind, Covers, Cursor
  <2> QED
    BY <1>2, <1>5, <2>3, <2>4, <2>5 DEF fileVars, RowsOnce, Batching
<1>6. CASE file.ino # 0 /\ pc' = "read" /\ st' = StatResult /\ batch' = batch
  <2>1. StatFits'
    BY <1>1, <1>2, <1>6 DEF StatFits, fileVars, Covers
  <2> QED
    BY <1>2, <1>6, <2>1 DEF fileVars, RowsOnce, Batching, Stat
<1> QED
  BY <1>4, <1>5, <1>6 DEF Stat

\* The read: what it returns is what the next cursor stands for.
LEMMA CursorRead ==
  ASSUME TypeOK, CursorInv, Read
  PROVE  CursorInv'
<1> USE DEF CursorInv, Goto
<1> DEFINE start == StartOffset(mem.cursor, st)
           rows == LinesFrom(start)
<1>1. /\ file.ino \in Nat /\ lastIno \in Nat /\ Len(file.rows) \in Nat
      /\ file.rows \in Seq(Row) /\ DOMAIN file.rows = 1..Len(file.rows)
      /\ disk.cursor \in Cursor /\ mem.cursor \in Cursor
      /\ st.ino \in Nat /\ st.size \in Nat
  BY DEF TypeOK, FileType, FollowerState
<1>2. /\ pc = "read" /\ UNCHANGED <<fileVars, mem, disk, verdict, aborted, threw, pos>>
      /\ Position(mem.cursor, lastIno) /\ Covers(mem.cursor, mem, file, verdict)
      /\ Behind(disk.cursor, mem.cursor, file)
      /\ StatFits /\ file.ino # 0 /\ ~aborted
  BY DEF Read
<1>3. /\ start \in Nat
      /\ mem.cursor.ino = st.ino => start = mem.cursor.off
      /\ mem.cursor.ino # st.ino => start = 0
  BY <1>1, <1>2 DEF StartOffset, StatFits, Cursor
<1>4. /\ rows \in Seq(Row) /\ Len(rows) \in Nat /\ DOMAIN rows = 1..Len(rows)
      /\ Len(rows) = IF start < Len(file.rows) THEN Len(file.rows) - start ELSE 0
      /\ \A j \in 1..Len(rows) : rows[j] = file.rows[start + j]
  <2> HIDE DEF start
  <2>1. FileType
    BY DEF TypeOK
  <2>2. /\ LinesFrom(start) \in Seq(Row)
        /\ Len(LinesFrom(start)) =
             IF start < Len(file.rows) THEN Len(file.rows) - start ELSE 0
        /\ \A i \in 1..Len(LinesFrom(start)) :
             LinesFrom(start)[i] = file.rows[start + i]
    BY <1>3, <2>1, LinesFromProps
  <2> HIDE DEF rows
  <2>3. /\ rows \in Seq(Row)
        /\ Len(rows) = IF start < Len(file.rows) THEN Len(file.rows) - start ELSE 0
        /\ \A i \in 1..Len(rows) : rows[i] = file.rows[start + i]
    BY <2>2 DEF rows
  <2> QED
    BY <2>3
<1>5. /\ batch'.rows = rows /\ batch'.next.ino = st.ino
      /\ batch'.next.off = start + Len(rows)
      /\ pc' = IF rows = << >> THEN "idle" ELSE "row"
  BY DEF Read, NextCursor
<1> HIDE DEF start, rows
<1>6. Position(batch'.next, lastIno) /\ st.ino # 0 /\ st.ino <= lastIno
  BY <1>2, <1>5 DEF StatFits, Position
<1>7. ASSUME st.ino = file.ino
      PROVE  /\ start <= Len(file.rows) /\ batch'.next.off = Len(file.rows)
             /\ \A i \in 1..start : Settled(file.rows[i], mem, verdict)
  BY <1>1, <1>2, <1>3, <1>4, <1>5, <1>7 DEF Covers
<1>8. Behind(disk.cursor, batch'.next, file) /\ Behind(mem.cursor, batch'.next, file)
  BY <1>1, <1>2, <1>5, <1>7 DEF Behind, StatFits, Covers, Cursor
<1>9. CASE rows = << >>
  <2>1. Covers(batch'.next, mem, file, verdict)
    BY <1>4, <1>5, <1>7, <1>9, <1>3 DEF Covers
  <2> QED
    BY <1>2, <1>5, <1>6, <1>8, <1>9, <2>1 DEF fileVars, RowsOnce, Batching
<1>10. CASE rows # << >>
  <2>1. Accounted(batch', mem, file, verdict)
    <3> SUFFICES ASSUME st.ino = file.ino, NEW i \in 1..batch'.next.off
                 PROVE  \/ Settled(file.rows[i], mem, verdict)
                        \/ \E j \in DOMAIN rows : rows[j] = file.rows[i]
      BY <1>1, <1>5, <1>7 DEF Accounted
    <3>1. CASE i <= start
      BY <1>3, <1>7, <3>1
    <3>2. CASE i > start
      <4>1. i - start \in 1..Len(rows) /\ start + (i - start) = i
        BY <1>1, <1>3, <1>4, <1>7, <3>2
      <4>2. rows[i - start] = file.rows[i]
        <5> DEFINE j == i - start
        <5>1. j \in 1..Len(rows) /\ start + j = i
          BY <4>1
        <5> HIDE DEF j
        <5>2. rows[j] = file.rows[i]
          BY <1>4, <5>1
        <5> QED
          BY <5>2 DEF j
      <4> QED
        BY <1>4, <4>1, <4>2
    <3> QED
      BY <1>3, <1>7, <3>1, <3>2
  <2>2. ASSUME NEW c \in Cursor, c.ino = file.ino => c.ino = st.ino /\ c.off <= start
        PROVE  Untouched(c, file, batch')
    <3> SUFFICES ASSUME NEW i \in DOMAIN file.rows, NEW j \in DOMAIN rows,
                        c.ino = file.ino, i <= c.off, file.rows[i] = rows[j]
                 PROVE  FALSE
      BY <1>5 DEF Untouched
    <3>0. j \in 1..Len(rows) /\ start < Len(file.rows)
      BY <1>4
    <3>1. start + j \in DOMAIN file.rows /\ file.rows[i] = file.rows[start + j]
      BY <1>1, <1>3, <1>4, <3>0
    <3>2. i = start + j
      BY <3>1 DEF RowsOnce
    <3> QED
      BY <1>1, <1>3, <1>4, <2>2, <3>2, SMTT(20) DEF Cursor
  <2>3. Untouched(mem.cursor, file, batch')
    BY <1>1, <1>2, <1>3, <2>2 DEF StatFits, Cursor
  <2>4. Untouched(disk.cursor, file, batch')
    BY <1>1, <1>2, <1>3, <2>2 DEF StatFits, Behind, Cursor
  <2>5. BatchFits'
    <3>1. pos' = 1 /\ pc' = "row" /\ DOMAIN batch'.rows = 1..Len(rows)
      BY <1>2, <1>4, <1>5, <1>10
    <3>2. \A j \in DOMAIN batch'.rows : ~(j <= Through')
      BY <1>4, <3>1 DEF Through
    <3> QED
      BY <1>2, <1>5, <1>6, <1>8, <2>1, <2>3, <2>4, <3>2 DEF BatchFits, fileVars
  <2> QED
    BY <1>2, <1>5, <1>10, <2>5 DEF fileVars, RowsOnce, Batching
<1> QED
  BY <1>9, <1>10

\* No row came, or a row threw: the cursor moves to next, or stays.
LEMMA CursorIdle ==
  ASSUME TypeOK, CursorInv, Idle
  PROVE  CursorInv'
<1> USE DEF CursorInv, Goto
<1>1. /\ pc = "idle" /\ pc' = "sleep" /\ ~aborted /\ ~aborted'
      /\ UNCHANGED <<fileVars, verdict>>
      /\ mem' = [mem EXCEPT !.cursor = batch.next]
      /\ disk' = mem' \/ disk' = disk
      /\ batch' = NoBatch /\ pos' = 1
  BY DEF Idle, Save, NoLocals
<1>2. mem'.cursor = batch.next /\ mem'.intents = mem.intents
  BY <1>1 DEF TypeOK, FollowerState
<1>3. /\ Position(mem'.cursor, lastIno) /\ Covers(mem'.cursor, mem', file, verdict)
      /\ Behind(disk.cursor, mem'.cursor, file)
  BY <1>1, <1>2 DEF Covers, Settled
<1>4. Behind(mem'.cursor, mem'.cursor, file)
  BY <1>2 DEF Behind, TypeOK, Batch, Cursor
<1> QED
  BY <1>1, <1>3, <1>4 DEF fileVars, RowsOnce, Batching

\* A throw holds the batch's cursor.
LEMMA CursorThrow ==
  ASSUME TypeOK, CursorInv, Throw
  PROVE  CursorInv'
<1>1. /\ pc = "row" /\ pc' = "row" /\ threw' = TRUE
      /\ UNCHANGED <<fileVars, st, batch, aborted, mem, disk, verdict>>
  BY DEF Throw, NotSeen, InBatch, AfterThrow, Goto
<1>2. BatchFits'
  BY <1>1 DEF CursorInv, Batching, BatchFits, fileVars
<1> QED
  BY <1>1, <1>2 DEF CursorInv, Batching, fileVars, RowsOnce

\* The save after a row: the cursor it saves is before no row of the batch.
LEMMA CursorSaveRow ==
  ASSUME TypeOK, CursorInv, SaveRow
  PROVE  CursorInv'
<1> USE DEF CursorInv, Goto
<1>1. /\ pc = "saveRow" /\ pc' = "row" /\ pos' = pos + 1 /\ pos \in Nat
      /\ UNCHANGED <<fileVars, st, batch, threw, aborted, mem, verdict>>
      /\ disk' = mem \/ disk' = disk
  BY DEF SaveRow, Save, TypeOK
<1>2. BatchFits /\ Through' = Through
  BY <1>1 DEF Batching, Through
<1>3. Behind(mem.cursor, mem.cursor, file)
  BY DEF Behind, TypeOK, FollowerState, Cursor
<1>4. BatchFits'
  BY <1>1, <1>2 DEF BatchFits, fileVars
<1> QED
  BY <1>1, <1>3, <1>4 DEF fileVars, RowsOnce, Batching

\* The end of a batch: unless a row threw, every row the next cursor stands for
\* is settled.
LEMMA CursorEndBatch ==
  ASSUME TypeOK, CursorInv, EndBatch
  PROVE  CursorInv'
<1> USE DEF CursorInv, Goto
<1>1. /\ pc = "end" /\ pc' = "sleep" /\ ~aborted /\ ~aborted'
      /\ UNCHANGED <<fileVars, verdict>>
      /\ mem' = AdvanceCursor(mem)
      /\ disk' = AdvanceCursor(mem) \/ disk' = disk
      /\ batch' = NoBatch /\ pos' = 1
  BY DEF EndBatch, Save, NoLocals
<1>2. /\ BatchFits /\ mem \in FollowerState /\ batch \in Batch
      /\ DOMAIN batch.rows = 1..Len(batch.rows) /\ Len(batch.rows) \in Nat
      /\ file.rows \in Seq(Row)
  BY <1>1 DEF Batching, TypeOK, Batch, FileType
<1>3. CASE threw
  <2>1. mem' = mem
    BY <1>1, <1>3 DEF AdvanceCursor
  <2>2. Behind(mem.cursor, mem.cursor, file)
    BY <1>2 DEF Behind, FollowerState, Cursor
  <2> QED
    BY <1>1, <2>1, <2>2 DEF fileVars, RowsOnce, Batching
<1>4. CASE ~threw
  <2>1. mem'.cursor = batch.next /\ mem'.intents = mem.intents
    BY <1>1, <1>2, <1>4 DEF AdvanceCursor, FollowerState
  <2>2. \A j \in DOMAIN batch.rows : Settled(batch.rows[j], mem, verdict)
    BY <1>1, <1>2, <1>4 DEF BatchFits, Through
  <2>3. Covers(batch.next, mem, file, verdict)
    BY <1>2, <2>2 DEF BatchFits, Accounted, Covers
  <2>4. /\ Position(mem'.cursor, lastIno) /\ Covers(mem'.cursor, mem', file, verdict)
        /\ Behind(disk.cursor, mem'.cursor, file)
    BY <1>2, <2>1, <2>3 DEF BatchFits, Position, Covers, Settled
  <2>5. Behind(mem'.cursor, mem'.cursor, file)
    BY <1>2, <2>1 DEF Behind, Batch, Cursor
  <2>6. disk' = mem' \/ disk' = disk
    BY <1>1
  <2> QED
    BY <1>1, <2>4, <2>5, <2>6 DEF fileVars, RowsOnce, Batching
<1> QED
  BY <1>3, <1>4

\* A key in the FIFO is a key of an intent.
LEMMA KeysAreHeld ==
  ASSUME NEW s \in FollowerState, KeysAreTail(s), NEW k, Holds(s.keys, k)
  PROVE  Holds(s.intents, k)
<1> DEFINE m == Len(s.keys)
           n == Len(s.intents)
<1>1. /\ m \in Nat /\ n \in Nat /\ DOMAIN s.keys = 1..m /\ DOMAIN s.intents = 1..n
      /\ MaxKeys \in Nat
  BY FollowerAssumption DEF FollowerState
<1>2. /\ m = IF n > MaxKeys THEN MaxKeys ELSE n
      /\ \A i \in 1..m : s.keys[i] = s.intents[n - m + i]
  BY DEF KeysAreTail
<1>3. PICK i \in 1..m : s.keys[i] = k
  BY <1>1 DEF Holds
<1> HIDE DEF m, n
<1>4. n - m + i \in 1..n
  <2>1. m <= n
    BY <1>1, <1>2
  <2> QED
    BY <1>1, <1>3, <2>1
<1> QED
  BY <1>1, <1>2, <1>3, <1>4 DEF Holds

LEMMA CursorStep ==
  Undisturbed /\ TypeOK /\ StoreInv /\ CursorInv /\ [Next]_vars => CursorInv'
<1> SUFFICES ASSUME Undisturbed, TypeOK, StoreInv, CursorInv, [Next]_vars
             PROVE  CursorInv'
  OBVIOUS
<1> USE DEF Goto
\* Only the loop's place, outside a batch, or the histories change.
<1>u. ASSUME UNCHANGED <<fileVars, mem, disk, verdict, aborted, batch, pos>>,
             pc \in {"top", "stat", "sleep"}, pc' \in {"top", "stat", "sleep"},
             aborted => pc' # "stat"
      PROVE  CursorInv'
  BY <1>u DEF CursorInv, fileVars, RowsOnce, Batching
<1>v. ASSUME UNCHANGED <<fileVars, loopVars, mem, disk, verdict>>
      PROVE  CursorInv'
  BY <1>v DEF CursorInv, fileVars, loopVars, RowsOnce, Batching, StatFits, BatchFits, Through
<1>1. CASE Boot
  <2>1. Behind(disk.cursor, disk.cursor, file)
    BY DEF Behind, TypeOK, FollowerState, Cursor
  <2> QED
    BY <1>1, <2>1 DEF Boot, LoadState, CursorInv, fileVars, RowsOnce, Batching
<1>2. CASE BootFails
  BY <1>2, <1>v DEF BootFails
<1>3. CASE Exit
  BY <1>3, CursorExit
<1>4. CASE CheckKill
  BY <1>4, <1>3, <1>u DEF CheckKill
<1>5. CASE Stat
  BY <1>5, CursorStat
<1>6. CASE Read
  BY <1>6, CursorRead
<1>7. CASE FetchFails
  BY <1>7 DEF FetchFails, NoLocals, CursorInv, fileVars, RowsOnce, Batching
<1>8. CASE Idle
  BY <1>8, CursorIdle
<1>9. CASE SkipReplay
  <2>1. /\ pc = "row" /\ ~aborted /\ pos <= Len(batch.rows)
        /\ Holds(mem.keys, CurrentKey) /\ Skipped("replay")
    BY <1>9 DEF SkipReplay, InBatch
  <2>2. Holds(mem.intents, CurrentKey)
    BY <2>1, KeysAreHeld DEF TypeOK, StoreInv, Consistent
  <2> QED
    BY <2>1, <2>2, CursorDecide DEF Skipped, Verdict
<1>10. CASE SkipOther
  <2>1. /\ pc = "row" /\ ~aborted /\ pos <= Len(batch.rows) /\ Skipped("skip")
    BY <1>10 DEF SkipOther, Answerable, NotSeen, InBatch
  <2> QED
    BY <2>1, CursorDecide DEF Skipped, Verdict, Owed
<1>11. CASE WouldSign
  <2>1. /\ pc = "row" /\ pc' = "append"
        /\ UNCHANGED <<fileVars, st, batch, pos, threw, aborted, mem, disk, verdict>>
    BY <1>11 DEF WouldSign, Answerable, NotSeen, InBatch
  <2>2. BatchFits'
    BY <2>1 DEF CursorInv, Batching, BatchFits, Through, fileVars
  <2> QED
    BY <2>1, <2>2 DEF CursorInv, fileVars, RowsOnce, Batching
<1>12. CASE Throw
  BY <1>12, CursorThrow
<1>13. CASE Book
  <2>1. /\ pc = "append" /\ pc' = "saveRow" /\ pos <= Len(batch.rows) /\ ~aborted
        /\ UNCHANGED <<fileVars, batch, pos, threw, aborted, disk>>
        /\ mem' = IF DryRun THEN mem ELSE RecordIntent(mem, CurrentKey)
    BY <1>13 DEF Book, Booked, TypeOK, CursorInv
  <2>2. PICK v \in {"sign", "unledgered"} : verdict' = [verdict EXCEPT ![CurrentRow] = v]
    BY <1>13 DEF Book, Booked
  <2>3. mem.intents \in Seq(Key) /\ mem \in FollowerState /\ CurrentKey \in Key
    BY <2>1, FollowerAssumption DEF TypeOK, FollowerState, CurrentKey, CurrentRow, Batch
  <2>4. mem'.cursor = mem.cursor
    BY <2>1, <2>3, RecordIntentProps DEF TypeOK
  <2>5. /\ \A k : Holds(mem.intents, k) => Holds(mem'.intents, k)
        /\ ~DryRun => Holds(mem'.intents, CurrentKey)
    <3>1. CASE DryRun
      BY <2>1, <3>1
    <3>2. CASE ~DryRun
      <4> DEFINE s == mem.intents
                 key == CurrentKey
      <4>1. mem'.intents = Append(s, key) /\ s \in Seq(Key) /\ key \in Key
        BY <2>1, <2>3, <3>2, RecordIntentProps DEF TypeOK
      <4> HIDE DEF s, key
      <4>2. /\ DOMAIN Append(s, key) = 1..Len(s) + 1 /\ Len(s) \in Nat
            /\ DOMAIN s = 1..Len(s)
            /\ \A i \in 1..Len(s) : Append(s, key)[i] = s[i]
            /\ Append(s, key)[Len(s) + 1] = key
        BY <4>1
      <4>3. \A k : Holds(s, k) => Holds(Append(s, key), k)
        BY <4>2 DEF Holds
      <4>4. Holds(Append(s, key), key)
        BY <4>2 DEF Holds
      <4> QED
        BY <4>1, <4>3, <4>4 DEF s, key
    <3> QED
      BY <3>1, <3>2
  <2>6. v \in Verdict \ {"none"}
    BY DEF Verdict
  <2> QED
    BY <2>1, <2>2, <2>4, <2>5, <2>6, CursorDecide
<1>14. CASE SaveRow
  BY <1>14, CursorSaveRow
<1>15. CASE BatchDone
  <2>1. /\ pc = "row" /\ pc' = "end" /\ ~aborted /\ pos > Len(batch.rows)
        /\ UNCHANGED <<fileVars, st, batch, pos, threw, aborted, mem, disk, verdict>>
    BY <1>15 DEF BatchDone, CursorInv
  <2>2. \A j \in DOMAIN batch.rows : j <= Through
    BY <2>1 DEF Through, TypeOK, Batch
  <2>3. BatchFits'
    BY <2>1, <2>2 DEF CursorInv, Batching, BatchFits, fileVars
  <2> QED
    BY <2>1, <2>3 DEF CursorInv, fileVars, RowsOnce, Batching
<1>16. CASE EndBatch
  BY <1>16, CursorEndBatch
<1>17. CASE Wake
  BY <1>17, <1>u DEF Wake
<1>18. CASE Abort
  BY <1>18 DEF Abort, Undisturbed, CursorInv, fileVars, RowsOnce, Batching
<1>19. CASE FlipKill
  BY <1>19, <1>v DEF FlipKill
<1>20. CASE Produce
  BY <1>20, CursorProduce DEF Undisturbed
<1>21. CASE UNCHANGED vars
  BY <1>21, <1>v DEF vars
<1> QED
  BY <1>1, <1>2, <1>3, <1>4, <1>5, <1>6, <1>7, <1>8, <1>9, <1>10, <1>11, <1>12,
     <1>13, <1>14, <1>15, <1>16, <1>17, <1>18, <1>19, <1>20, <1>21
  DEF Next, Daemon, Aborted, SleepEndsProcess, Crash

LEMMA CursorInvariant ==
  ASSUME Undisturbed
  PROVE  Spec => [](TypeOK /\ CursorInv)
<1>1. Init => CursorInv
  BY CursorInit
<1>2. TypeOK /\ StoreInv /\ CursorInv /\ [Next]_vars => CursorInv'
  BY CursorStep
<1> QED
  BY <1>1, <1>2, StoreInvariant, PTL DEF Spec

\* A cursor's rows in the present file are rows before its offset.
LEMMA PassedIsCovered ==
  ASSUME NEW c \in Cursor, NEW s, FileType, Covers(c, s, file, verdict),
         NEW r, Passed(c, r)
  PROVE  Settled(r, s, verdict)
BY DEF Passed, StartOffset, StatResult, Covers, Cursor, FileType

\* No cursor gets past a row that was never processed to a result, with the
\* file rotated, moved away and appended to at any moment, whatever saves fail
\* and wherever the process dies.
THEOREM CursorCovers ==
  ASSUME Undisturbed
  PROVE  Spec => []CursorCoversDecided
<1>1. TypeOK /\ CursorInv => CursorCoversDecided
  <2> SUFFICES ASSUME TypeOK, CursorInv, NEW r \in Row,
                      Passed(mem.cursor, r) \/ Passed(disk.cursor, r)
               PROVE  verdict[r] # "none"
    BY DEF CursorCoversDecided
  <2>1. FileType /\ disk.cursor \in Cursor /\ mem.cursor \in Cursor
    BY DEF TypeOK, FollowerState
  <2>2. CASE Passed(disk.cursor, r)
    BY <2>1, <2>2, PassedIsCovered DEF CursorInv, Settled
  <2>3. CASE Passed(mem.cursor, r)
    <3>1. CASE pc # "exited"
      BY <2>1, <2>3, <3>1, PassedIsCovered DEF CursorInv, Settled
    <3>2. CASE pc = "exited"
      <4>1. mem.cursor.off = 0 /\ Len(file.rows) \in Nat
        BY <2>1, <3>2 DEF CursorInv, EmptyState, NoCursor, FileType
      <4>2. StartOffset(mem.cursor, StatResult) = 0
        BY <4>1 DEF StartOffset
      <4> QED
        BY <2>3, <4>2 DEF Passed
    <3> QED
      BY <3>1, <3>2
  <2> QED
    BY <2>2, <2>3
<1> QED
  BY <1>1, CursorInvariant, PTL

\* In live mode, once the saved cursor is past a row that was signed or taken
\* for a replay, the state file holds an intent under its key.
THEOREM NoIntentIsLost ==
  ASSUME Undisturbed, ~DryRun
  PROVE  Spec => []NoIntentLost
<1>1. TypeOK /\ CursorInv => NoIntentLost
  <2> SUFFICES ASSUME TypeOK, CursorInv, NEW r \in Row, Passed(disk.cursor, r),
                      verdict[r] \in Owed
               PROVE  Holds(disk.intents, KeyOf[r])
    BY DEF NoIntentLost, Owed
  <2>1. FileType /\ disk.cursor \in Cursor
    BY DEF TypeOK, FollowerState
  <2>2. Settled(r, disk, verdict)
    BY <2>1, PassedIsCovered DEF CursorInv
  <2> QED
    BY <2>2 DEF Settled
<1> QED
  BY <1>1, CursorInvariant, PTL

(***************************************************************************)
(* The ledger.  Only a booking makes a verdict "sign", and the ledger row  *)
(* is there by then.                                                       *)
(***************************************************************************)

SignedInLedger == \A r \in Row : verdict[r] = "sign" => Holds(ledger, KeyOf[r])

LEMMA SignedStep == TypeOK /\ SignedInLedger /\ [Next]_vars => SignedInLedger'
<1> SUFFICES ASSUME TypeOK, SignedInLedger, [Next]_vars PROVE SignedInLedger'
  OBVIOUS
<1>u. ASSUME UNCHANGED <<verdict, ledger>> PROVE SignedInLedger'
  BY <1>u DEF SignedInLedger, Holds
<1>1. CASE Boot \/ BootFails \/ Aborted \/ CheckKill \/ Stat \/ Read \/ FetchFails \/ Idle
  BY <1>1, <1>u DEF Boot, BootFails, Aborted, CheckKill, Stat, Read, FetchFails, Idle, Exit
<1>2. CASE SkipReplay \/ SkipOther
  <2>1. PICK v \in {"skip", "replay"} : verdict' = [verdict EXCEPT ![CurrentRow] = v]
    BY <1>2 DEF SkipReplay, SkipOther, Skipped
  <2>2. ledger' = ledger
    BY <1>2 DEF SkipReplay, SkipOther, Skipped
  <2> QED
    BY <2>1, <2>2 DEF SignedInLedger, Holds, TypeOK
<1>3. CASE Book
  <2>1. CASE UNCHANGED ledger /\ verdict' = [verdict EXCEPT ![CurrentRow] = "unledgered"]
    BY <2>1 DEF SignedInLedger, Holds, TypeOK
  <2>2. CASE /\ ledger' = Append(ledger, CurrentKey)
             /\ verdict' = [verdict EXCEPT ![CurrentRow] = "sign"]
    <3> DEFINE key == CurrentKey
    <3>1. /\ ledger \in Seq(Key) /\ DOMAIN ledger = 1..Len(ledger) /\ Len(ledger) \in Nat
          /\ DOMAIN ledger' = 1..Len(ledger) + 1
          /\ \A i \in 1..Len(ledger) : ledger'[i] = ledger[i]
          /\ ledger'[Len(ledger) + 1] = key
      BY <2>2 DEF TypeOK
    <3> HIDE DEF key
    <3>2. /\ \A k : Holds(ledger, k) => Holds(ledger', k)
          /\ Holds(ledger', key)
      BY <3>1 DEF Holds
    <3>3. \A r \in Row : verdict'[r] = "sign" => verdict[r] = "sign" \/ r = CurrentRow
      BY <2>2 DEF TypeOK
    <3> QED
      BY <3>2, <3>3 DEF SignedInLedger, key, CurrentKey
  <2> QED
    BY <1>3, <2>1, <2>2 DEF Book, Booked
<1>4. CASE WouldSign \/ Throw \/ SaveRow \/ BatchDone \/ EndBatch \/ Wake \/ SleepEndsProcess
  BY <1>4, <1>u DEF WouldSign, Throw, SaveRow, BatchDone, EndBatch, Wake, SleepEndsProcess, Exit
<1>5. CASE Crash \/ Abort \/ FlipKill \/ Produce \/ UNCHANGED vars
  BY <1>5, <1>u DEF Crash, Abort, FlipKill, Produce, vars, Exit
<1> QED
  BY <1>1, <1>2, <1>3, <1>4, <1>5 DEF Next, Daemon

\* A row that was signed has its ledger row unless the append itself failed, in
\* dry runs and live, with a producer that may also truncate.
THEOREM LedgerCovers == Spec => []LedgerCoversSigned
<1>1. Init => SignedInLedger
  BY DEF Init, SignedInLedger
<1>2. SignedInLedger => LedgerCoversSigned
  BY DEF SignedInLedger, LedgerCoversSigned
<1> QED
  BY <1>1, <1>2, SignedStep, TypeCorrect, PTL DEF Spec

(***************************************************************************)
(* The kill switch.  A poll begins at "stat", which a set switch cannot    *)
(* lead to: the one poll that may follow was past its look at the switch.  *)
(***************************************************************************)

OnePoll == /\ polls \in {0, 1}
           /\ polls = 1 => kill /\ pc # "stat"

LEMMA OnePollStep == OnePoll /\ [Next]_vars => OnePoll'
<1> SUFFICES ASSUME OnePoll, [Next]_vars PROVE OnePoll'
  OBVIOUS
<1> USE DEF OnePoll, Goto, histVars
<1>1. CASE Boot \/ BootFails \/ Aborted \/ CheckKill \/ Read \/ FetchFails \/ Idle
  BY <1>1 DEF Boot, BootFails, Aborted, CheckKill, KillHalts, Read, FetchFails, Idle,
              Exit, Leave, loopVars
<1>2. CASE Stat
  BY <1>2 DEF Stat
<1>3. CASE SkipReplay \/ SkipOther \/ WouldSign \/ Throw \/ Book \/ SaveRow
  BY <1>3 DEF SkipReplay, SkipOther, Skipped, WouldSign, Throw, AfterThrow, Book, SaveRow
<1>4. CASE BatchDone \/ EndBatch \/ Wake \/ SleepEndsProcess \/ Crash
  BY <1>4 DEF BatchDone, EndBatch, Wake, SleepEndsProcess, Crash, Exit, Leave
<1>5. CASE Abort \/ FlipKill \/ Produce \/ UNCHANGED vars
  BY <1>5 DEF Abort, FlipKill, Produce, loopVars, vars
<1> QED
  BY <1>1, <1>2, <1>3, <1>4, <1>5 DEF Next, Daemon

\* Once the switch is set at most one more poll begins, however often launchd
\* starts the process again.
THEOREM KillStops == Spec => []KillStopsPolling
<1>1. Init => OnePoll
  BY DEF Init, OnePoll
<1>2. OnePoll => KillStopsPolling
  BY DEF OnePoll, KillStopsPolling
<1> QED
  BY <1>1, <1>2, OnePollStep, PTL DEF Spec

=============================================================================
