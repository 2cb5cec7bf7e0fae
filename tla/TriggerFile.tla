---------------------------- MODULE TriggerFile ----------------------------
(***************************************************************************)
(* The follower's input: ~/.fdry/triggers.ndjson and the tail reader of    *)
(* voltr/src/follower/triggerSource.ts.                                    *)
(*                                                                         *)
(* The file is an inode number and the rows it holds.  An offset counts    *)
(* complete lines of one common length where the code counts bytes: a      *)
(* partial last line is held back by the reader and is no line here.  Rows *)
(* the reader drops (JSON, schema or tag allow-list failures) are rows the *)
(* follower decides to skip.  The producer (bridge-source) is outside this *)
(* repository: it appends, rotates and, when Truncates, truncates in       *)
(* place.  A rotation takes a fresh inode: reuse of an inode number is not *)
(* modelled.                                                               *)
(***************************************************************************)
EXTENDS Integers, Sequences

CONSTANTS
  Row,        \* the triggers the producer may ever emit
  MaxIno,     \* BOUND: how many inodes the trigger file may go through
  Truncates   \* TRUE when the producer may truncate the file in place

ASSUME TriggerAssumption == MaxIno \in Nat /\ Truncates \in BOOLEAN

VARIABLES
  file,       \* [ino, rows]: what the path names now; ino 0 when it is absent
  lastIno,    \* the newest inode number handed out
  produced    \* the rows emitted so far

fileVars == <<file, lastIno, produced>>

(***************************************************************************)
(* A cursor is "<inode>:<offset>".  null and "absent" both parse to no     *)
(* previous position, which is inode 0 here.                               *)
(***************************************************************************)
Cursor == [ino : Nat, off : Nat]
NoCursor == [ino |-> 0, off |-> 0]

FileType ==
  /\ file \in [ino : Nat, rows : Seq(Row)]
  /\ lastIno \in Nat
  /\ file.ino <= lastIno
  /\ produced \subseteq Row

FileInit ==
  /\ file = [ino |-> 0, rows |-> << >>]
  /\ lastIno = 0
  /\ produced = {}

----------------------------------------------------------------------------
(* The reader.  A stat result is [ino, size]; the read that follows it is  *)
(* a separate system call and sees whatever the path names by then.        *)

StatResult == [ino |-> file.ino, size |-> Len(file.rows)]

\* Where reading starts: 0 with no previous position, after a change of
\* inode, and when the file is shorter than the previous offset.
StartOffset(c, s) == IF c.ino # s.ino \/ s.size < c.off THEN 0 ELSE c.off

\* The complete lines from offset start on, as the path reads now.
LinesFrom(start) == SubSeq(file.rows, start + 1, Len(file.rows))

\* Mutant of NextCursor: the partial last line is consumed with the others.
NextCursorOvershoot(s, start, n) == [ino |-> s.ino, off |-> start + n + 1]

\* The cursor after n lines: the stat's inode with the offset consumed.
NextCursor(s, start, n) == [ino |-> s.ino, off |-> start + n]

----------------------------------------------------------------------------
(* The producer. *)

Emit(r) ==
  /\ r \notin produced
  /\ produced' = produced \union {r}
  /\ IF file.ino = 0
     THEN /\ lastIno < MaxIno
          /\ lastIno' = lastIno + 1
          /\ file' = [ino |-> lastIno', rows |-> <<r>>]
     ELSE /\ file' = [file EXCEPT !.rows = Append(@, r)]
          /\ UNCHANGED lastIno

\* A new file takes the path, keeping the old one's last n rows.
Rotate(n) ==
  /\ file.ino # 0
  /\ lastIno < MaxIno
  /\ lastIno' = lastIno + 1
  /\ file' = [ino |-> lastIno',
              rows |-> SubSeq(file.rows, Len(file.rows) - n + 1, Len(file.rows))]
  /\ UNCHANGED produced

\* The file is renamed away; the next Emit creates a new one.
MoveAway ==
  /\ file.ino # 0
  /\ lastIno < MaxIno
  /\ file' = [ino |-> 0, rows |-> << >>]
  /\ UNCHANGED <<lastIno, produced>>

Truncate ==
  /\ Truncates
  /\ file.rows # << >>
  /\ file' = [file EXCEPT !.rows = << >>]
  /\ UNCHANGED <<lastIno, produced>>

Producer ==
  \/ \E r \in Row : Emit(r)
  \/ \E n \in 0..Len(file.rows) : Rotate(n)
  \/ MoveAway
  \/ Truncate
=============================================================================
