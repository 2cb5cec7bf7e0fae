----------------------------- MODULE Follower ------------------------------
(***************************************************************************)
(* The follower daemon: runFollower's loop (voltr/src/follower/            *)
(* runFollower.ts) with the store it keeps (state.ts), the paper ledger it *)
(* appends to (paperLedger.ts), the kill switch (killSwitch.ts) and the    *)
(* launchd agent that starts it again whenever it exits.                   *)
(*                                                                         *)
(* The loop is one process; a step is what runs between two awaits whose   *)
(* effects another actor, or a crash, can separate.  Everything the gates  *)
(* of processSignal.ts read outside the store (Jupiter's answers, prices,  *)
(* the age of the market snapshot, the risk guards' verdict) is a choice:  *)
(* skip or would_sign.                                                     *)
(***************************************************************************)
EXTENDS TriggerFile

CONSTANTS
  Key,          \* dedup keys
  KeyOf,        \* the dedup key of each row (signal.ts dedupKey)
  MaxKeys,      \* MAX_DEDUP_KEYS, the store's FIFO cap
  DryRun,       \* opts.dryRun
  Poison,       \* rows whose processing throws every time
  AbortPoints,  \* the control points at which opts.signal may fire
  KillUsed,     \* the operator uses the kill switch
  MaxFaults     \* BOUND: crashes, failed calls and transient throws, together

ASSUME FollowerAssumption ==
  /\ KeyOf \in [Row -> Key]
  /\ MaxKeys \in Nat \ {0}
  /\ DryRun \in BOOLEAN
  /\ Poison \subseteq Row
  /\ KillUsed \in BOOLEAN
  /\ MaxFaults \in Nat

VARIABLES
  pc,         \* where the loop is
  mem,        \* `state`, the FollowerState in memory
  disk,       \* the FollowerState in the state file
  ledger,     \* the dedup keys of the paper ledger's rows
  st,         \* the stat result the next read works from
  batch,      \* `batch`: the rows fetched and nextCursor
  pos,        \* the envelope being processed
  threw,      \* batchThrew
  aborted,    \* opts.signal.aborted
  kill,       \* the operator's kill switch is set
  polls,      \* history: polls begun since the kill switch was set
  verdict,    \* history: what became of each row when it was last processed
  faults      \* faults so far

loopVars == <<pc, st, batch, pos, threw, aborted>>
histVars == <<kill, polls>>
vars == <<fileVars, loopVars, mem, disk, ledger, histVars, verdict, faults>>

PC == {"exited", "top", "stat", "read", "idle", "row", "append",
       "saveRow", "end", "sleep"}
Verdict == {"none", "skip", "replay", "sign", "unledgered"}
FollowerState == [cursor : Cursor, intents : Seq(Key), keys : Seq(Key)]
EmptyState == [cursor |-> NoCursor, intents |-> << >>, keys |-> << >>]
Batch == [rows : Seq(Row), next : Cursor]
NoBatch == [rows |-> << >>, next |-> NoCursor]
NoStat == [ino |-> 0, size |-> 0]

Init ==
  /\ FileInit
  /\ pc = "exited" /\ mem = EmptyState /\ disk = EmptyState
  /\ ledger = << >>
  /\ st = NoStat /\ batch = NoBatch /\ pos = 1
  /\ threw = FALSE /\ aborted = FALSE
  /\ kill = FALSE /\ polls = 0
  /\ verdict = [r \in Row |-> "none"]
  /\ faults = 0

----------------------------------------------------------------------------
(* Faults, and the operations of the store. *)

Fault == faults < MaxFaults /\ faults' = faults + 1
NoFault == UNCHANGED faults

Goto(l) == pc' = l

Holds(seq, x) == \E i \in DOMAIN seq : seq[i] = x

\* The newest MaxKeys of a list of keys.
Trim(keys) ==
  IF Len(keys) > MaxKeys
  THEN SubSeq(keys, Len(keys) - MaxKeys + 1, Len(keys))
  ELSE keys

\* Mutants of RecordIntent: the cap applied one key too early; the cap
\* forgotten.
RecordIntentShort(s, k) ==
  [s EXCEPT !.intents = Append(@, k), !.keys = Tail(Append(Trim(@), k))]
RecordIntentUncapped(s, k) ==
  [s EXCEPT !.intents = Append(@, k), !.keys = Append(@, k)]

\* One more intent, and its key at the end of the FIFO.
RecordIntent(s, k) ==
  [s EXCEPT !.intents = Append(@, k), !.keys = Trim(Append(@, k))]

\* Mutant of AdvanceCursor: a throw in the batch no longer holds the cursor.
AdvanceCursorAlways(s) == [s EXCEPT !.cursor = batch.next]

\* The cursor moves past the batch unless one of its rows threw.
AdvanceCursor(s) == IF threw THEN s ELSE [s EXCEPT !.cursor = batch.next]

\* store.save: tmp file and rename, so the file holds the old state or the
\* new one.  runFollower logs a failure and carries on.
Save(s) ==
  \/ disk' = s /\ NoFault
  \/ disk' = disk /\ Fault

----------------------------------------------------------------------------
(* Starting and leaving. *)

\* The locals of an iteration, as the next one declares them.
NoLocals == st' = NoStat /\ batch' = NoBatch /\ pos' = 1 /\ threw' = FALSE

\* Mutant of LoadState: a state file that cannot be read counts as empty.
LoadStateOrEmpty ==
  \/ mem' = disk /\ NoFault
  \/ mem' = EmptyState /\ Fault

LoadState == mem' = disk /\ NoFault

\* launchd starts the process; the boot checks pass, the state file is
\* loaded and the first market snapshot is built.
Boot ==
  /\ pc = "exited"
  /\ Goto("top")
  /\ LoadState
  /\ UNCHANGED <<fileVars, st, batch, pos, threw, aborted, disk, ledger,
                 histVars, verdict>>

\* boot_failed, state_load_failed or snapshot_unreachable: back to launchd.
BootFails ==
  /\ pc = "exited"
  /\ Fault
  /\ UNCHANGED <<fileVars, loopVars, mem, disk, ledger, histVars, verdict>>

\* The process is gone, and with it everything it held in memory.
Leave ==
  /\ Goto("exited")
  /\ mem' = EmptyState /\ aborted' = FALSE
  /\ NoLocals

Exit == Leave /\ UNCHANGED <<fileVars, disk, ledger, histVars, verdict>>

Crash == pc # "exited" /\ Fault /\ Exit

----------------------------------------------------------------------------
(* The head of an iteration. *)

\* An aborted run returns.
Aborted == pc = "top" /\ aborted /\ NoFault /\ Exit

\* Mutant of KillHalts: the answer is logged and not acted on.
KillIgnored == FALSE
KillHalts == kill

\* A stale snapshot is rebuilt or kept; then the switch halts the run, or
\* the check itself fails (an unreadable sentinel halts too), or the poll
\* begins.
CheckKill ==
  /\ pc = "top" /\ ~aborted
  /\ \/ KillHalts /\ NoFault /\ Exit
     \/ Fault /\ Exit
     \/ /\ ~KillHalts /\ NoFault
        /\ Goto("stat")
        /\ UNCHANGED <<fileVars, st, batch, pos, threw, aborted, mem, disk,
                       ledger, histVars, verdict>>

\* fetchSinceCursor up to the stat: the file is absent, holds nothing past
\* the cursor, or is about to be read.
Stat ==
  /\ pc = "stat"
  /\ LET start == StartOffset(mem.cursor, StatResult)
     IN  \/ /\ file.ino = 0
            /\ Goto("idle")
            /\ UNCHANGED <<st, batch>>
         \/ /\ file.ino # 0 /\ start >= StatResult.size
            /\ Goto("idle")
            /\ batch' = [rows |-> << >>,
                         next |-> NextCursor(StatResult, StatResult.size, 0)]
            /\ UNCHANGED st
         \/ /\ file.ino # 0 /\ start < StatResult.size
            /\ Goto("read")
            /\ st' = StatResult
            /\ UNCHANGED batch
  /\ polls' = IF kill THEN polls + 1 ELSE polls
  /\ UNCHANGED <<fileVars, pos, threw, aborted, mem, disk, ledger, kill,
                 verdict, faults>>

\* readFile: every complete line from the offset the stat chose.
Read ==
  /\ pc = "read"
  /\ file.ino # 0
  /\ LET start == StartOffset(mem.cursor, st)
         rows  == LinesFrom(start)
     IN  /\ batch' = [rows |-> rows, next |-> NextCursor(st, start, Len(rows))]
         /\ Goto(IF rows = << >> THEN "idle" ELSE "row")
  /\ st' = NoStat
  /\ UNCHANGED <<fileVars, pos, threw, aborted, mem, disk, ledger, histVars,
                 verdict, faults>>

\* stat or readFile throws (always, when the file went away in between):
\* logged, and the loop sleeps.
FetchFails ==
  /\ \/ pc = "read" /\ file.ino = 0 /\ NoFault
     \/ pc \in {"stat", "read"} /\ Fault
  /\ Goto("sleep")
  /\ NoLocals
  /\ UNCHANGED <<fileVars, aborted, mem, disk, ledger, histVars, verdict>>

\* No rows: the cursor still follows the file.
Idle ==
  /\ pc = "idle"
  /\ mem' = [mem EXCEPT !.cursor = batch.next]
  /\ Save(mem')
  /\ Goto("sleep")
  /\ NoLocals
  /\ UNCHANGED <<fileVars, aborted, ledger, histVars, verdict>>

----------------------------------------------------------------------------
(* One envelope of the batch: processSignal's gates in their order, the    *)
(* ledger append and the intent, the save.                                 *)

CurrentRow == batch.rows[pos]
CurrentKey == KeyOf[CurrentRow]
InBatch == pc = "row" /\ ~aborted /\ pos <= Len(batch.rows)

Skipped(v) ==
  /\ verdict' = [verdict EXCEPT ![CurrentRow] = v]
  /\ Goto("saveRow")
  /\ UNCHANGED <<fileVars, st, batch, pos, threw, aborted, mem, disk,
                 ledger, histVars, faults>>

\* A key the store still holds.
SkipReplay == InBatch /\ Holds(mem.keys, CurrentKey) /\ Skipped("replay")

NotSeen == InBatch /\ ~Holds(mem.keys, CurrentKey)

Answerable == NotSeen /\ CurrentRow \notin Poison

\* A stale snapshot, no market, no price, a guard, a Jupiter error or an unsafe transaction.
SkipOther == Answerable /\ Skipped("skip")

WouldSign ==
  /\ Answerable
  /\ Goto("append")
  /\ UNCHANGED <<fileVars, st, batch, pos, threw, aborted, mem, disk,
                 ledger, histVars, verdict, faults>>

\* Mutant of AfterThrow: the first throw ends the batch.
AfterThrowBreak == Goto("end") /\ UNCHANGED pos

\* The loop goes on with the next envelope.
AfterThrow == Goto("row") /\ pos' = pos + 1

\* processSignal throws: nothing is recorded or saved for this row.
Throw ==
  /\ NotSeen
  /\ \/ CurrentRow \in Poison /\ NoFault
     \/ CurrentRow \notin Poison /\ Fault
  /\ threw' = TRUE
  /\ AfterThrow
  /\ UNCHANGED <<fileVars, st, batch, aborted, mem, disk, ledger,
                 histVars, verdict>>

\* Mutants of Booked: the intent is recorded inside the try that the failed
\* append left; the ledger is written in live mode alone.
BookedTogether ==
  \/ /\ ledger' = Append(ledger, CurrentKey)
     /\ mem' = IF DryRun THEN mem ELSE RecordIntent(mem, CurrentKey)
     /\ verdict' = [verdict EXCEPT ![CurrentRow] = "sign"]
     /\ NoFault
  \/ /\ Fault
     /\ verdict' = [verdict EXCEPT ![CurrentRow] = "unledgered"]
     /\ UNCHANGED <<ledger, mem>>
BookedLiveOnly ==
  /\ ledger' = IF DryRun THEN ledger ELSE Append(ledger, CurrentKey)
  /\ mem' = IF DryRun THEN mem ELSE RecordIntent(mem, CurrentKey)
  /\ verdict' = [verdict EXCEPT ![CurrentRow] = "sign"]
  /\ NoFault

\* The ledger row is appended, or the append fails and is swallowed; either
\* way the intent follows, in memory, unless this is a dry run.
Booked ==
  /\ \/ /\ ledger' = Append(ledger, CurrentKey)
        /\ verdict' = [verdict EXCEPT ![CurrentRow] = "sign"]
        /\ NoFault
     \/ /\ Fault
        /\ verdict' = [verdict EXCEPT ![CurrentRow] = "unledgered"]
        /\ UNCHANGED ledger
  /\ mem' = IF DryRun THEN mem ELSE RecordIntent(mem, CurrentKey)

Book ==
  /\ pc = "append"
  /\ Booked
  /\ Goto("saveRow")
  /\ UNCHANGED <<fileVars, st, batch, pos, threw, aborted, disk,
                 histVars>>

\* The heartbeat and the per-envelope save.
SaveRow ==
  /\ pc = "saveRow"
  /\ Save(mem)
  /\ Goto("row") /\ pos' = pos + 1
  /\ UNCHANGED <<fileVars, st, batch, threw, aborted, mem, ledger,
                 histVars, verdict>>

\* The loop over the batch is over, by its end or by an abort.
BatchDone ==
  /\ pc = "row"
  /\ aborted \/ pos > Len(batch.rows)
  /\ Goto("end")
  /\ UNCHANGED <<fileVars, st, batch, pos, threw, aborted, mem, disk,
                 ledger, histVars, verdict, faults>>

\* The cursor is advanced or held and the state saved; an aborted run
\* returns, any other sleeps.
EndBatch ==
  /\ pc = "end"
  /\ Save(AdvanceCursor(mem))
  /\ \/ aborted /\ Leave
     \/ /\ ~aborted
        /\ Goto("sleep")
        /\ mem' = AdvanceCursor(mem)
        /\ NoLocals
        /\ UNCHANGED aborted
  /\ UNCHANGED <<fileVars, ledger, histVars, verdict>>

\* The poll interval is over.
Wake ==
  /\ pc = "sleep"
  /\ Goto("top")
  /\ UNCHANGED <<fileVars, st, batch, pos, threw, aborted, mem, disk,
                 ledger, histVars, verdict, faults>>

\* defaultSleep unrefs its timer: with no other handle open the process ends
\* while it sleeps, and launchd starts it again.
SleepEndsProcess == pc = "sleep" /\ NoFault /\ Exit

----------------------------------------------------------------------------
(* The environment. *)

\* The abort signal fires (cli --once: from within sleep).
Abort ==
  /\ pc \in AbortPoints
  /\ ~aborted /\ aborted' = TRUE
  /\ UNCHANGED <<fileVars, pc, st, batch, pos, threw, mem, disk, ledger,
                 histVars, verdict, faults>>

\* The operator sets or clears the switch (the halt sentinel).
FlipKill ==
  /\ KillUsed
  /\ kill' = ~kill /\ polls' = 0
  /\ UNCHANGED <<fileVars, loopVars, mem, disk, ledger, verdict, faults>>

Produce ==
  /\ Producer
  /\ UNCHANGED <<loopVars, mem, disk, ledger, histVars, verdict, faults>>

\* The steps of the process itself, launchd's restart included.
Daemon ==
  \/ Boot \/ BootFails
  \/ Aborted \/ CheckKill \/ Stat \/ Read \/ FetchFails \/ Idle
  \/ SkipReplay \/ SkipOther \/ WouldSign \/ Throw
  \/ Book \/ SaveRow \/ BatchDone \/ EndBatch
  \/ Wake \/ SleepEndsProcess

Next == Daemon \/ Crash \/ Abort \/ FlipKill \/ Produce

Spec == Init /\ [][Next]_vars
FairSpec == Spec /\ WF_vars(Daemon)

----------------------------------------------------------------------------
(* What the follower promises. *)

\* TypeOK: every variable has its shape, and the FIFO of dedup keys never
\* outgrows MAX_DEDUP_KEYS, in memory or in the state file.
TypeOK ==
  /\ FileType
  /\ pc \in PC
  /\ mem \in FollowerState /\ Len(mem.keys) <= MaxKeys
  /\ disk \in FollowerState /\ Len(disk.keys) <= MaxKeys
  /\ ledger \in Seq(Key)
  /\ st \in [ino : Nat, size : Nat]
  /\ batch \in Batch
  /\ pos \in Nat \ {0}
  /\ pc \in {"append", "saveRow"} => pos <= Len(batch.rows)
  /\ threw \in BOOLEAN /\ aborted \in BOOLEAN
  /\ kill \in BOOLEAN /\ polls \in Nat
  /\ verdict \in [Row -> Verdict]
  /\ faults \in Nat

\* A read from cursor c would now resume after row r.
Passed(c, r) == \E i \in 1..StartOffset(c, StatResult) : file.rows[i] = r

\* CursorCoversDecided: no cursor, in memory or in the state file, has moved
\* past a row that was never processed to a result: held batches, crashes,
\* failed saves and rotations lose nothing behind the cursor.
CursorCoversDecided ==
  \A r \in Row :
    Passed(mem.cursor, r) \/ Passed(disk.cursor, r) => verdict[r] # "none"

\* NoIntentLost (live): once the saved cursor is past a row that would be
\* signed, or was taken for a replay, the saved state holds an intent under
\* its key: the cursor never gets ahead of the intents it stands for.
NoIntentLost ==
  \A r \in Row :
    /\ Passed(disk.cursor, r)
    /\ verdict[r] \in {"sign", "unledgered", "replay"}
    => Holds(disk.intents, KeyOf[r])

\* DedupWindow: two intents of one key are more than MAX_DEDUP_KEYS intents
\* apart, in memory and in the state file, however often a rotation, a held
\* cursor or a restart makes the follower read the row again.
Journal == INSTANCE IntentJournal WITH Window <- MaxKeys, intents <- disk.intents
DedupWindow == Journal!Spaced(mem.intents) /\ Journal!Spaced(disk.intents)

\* KeepsJournal: what is on disk is a journal.  The saved intents only ever
\* grow at the end; no restart, however it fails, saves a state that has
\* forgotten one.
KeepsJournal == Journal!Spec

\* LedgerCoversSigned: a row the saved cursor has passed with a would_sign
\* decision has its paper-ledger row, unless the append itself failed.
LedgerCoversSigned ==
  \A r \in Row :
    Passed(disk.cursor, r) /\ verdict[r] = "sign" => Holds(ledger, KeyOf[r])

\* KillStopsPolling: a set kill switch lets at most the poll already past
\* its check begin, restarts by launchd included.
KillStopsPolling == polls <= 1

\* RowsDecided: with the switch eventually left off, every row that can be
\* processed and stays in the file is processed: a poisonous row beside it
\* in every batch, crashes and failed saves only delay it.
InFile(r) == \E i \in DOMAIN file.rows : file.rows[i] = r
RowsDecided ==
  <>[]~kill =>
    \A r \in Row \ Poison :
      InFile(r) ~> (verdict[r] # "none" \/ ~InFile(r))
=============================================================================
