# A verification development of Foundry (fdry)

TLA+ models of the programs in this repository that decide what a vault does or
tell its owner what happened: the **follower** that turns triggers into
prediction-market intents, with its **gates**; the **resolver** that scores its
paper trades; the **rotation bot** that moves a vault towards a signal's
weights; the operator's **ceremonies** and the **revenue routing**; the
**deposit widget** of the vault page and its position ledger; and the **chart**
of a vault's history. TLC checks the models on small instances; TLAPS proves the
safety properties of all of them for every instance.

Run a model with `tlc -config FollowerLive.cfg MCFollower`, a proof with
`tlapm FollowerProofs.tla`. `PROJECT.json` maps every definition to the lines it
models and lists the hazards at the lines where they bite.

## 1. The system

| Part | State it keeps | What it does |
|---|---|---|
| Trigger file (`follower/triggerSource.ts`) | `~/.fdry/triggers.ndjson`, written by a producer outside the repository | tail reading from a cursor `inode:offset` |
| Follower (`follower/runFollower.ts`) | in memory a `FollowerState`; a batch, a position in it, `batchThrew`; a market snapshot | poll, process each trigger, record, save, sleep |
| Store (`follower/state.ts`) | the state file: cursor, FIFO of dedup keys, intents | load, save by rename, record an intent |
| Paper ledger (`follower/paperLedger.ts`) | `paper-trades.ndjson` | append one row per `would_sign` |
| Kill switch (`follower/killSwitch.ts`) | an environment variable and a sentinel file | halts by existence |
| Gates (`follower/processSignal.ts`, `jupMarketResolver.ts`, `guards.ts`, `assertSafeTx.ts`) | the snapshot of Jupiter's events, refreshed by the loop | signature, dedup, action, market, price, caps, size, signers of the order |
| Command line and launchd agents (`follower/cli.ts`, `scripts/*.plist`) | environment | `--once`, fetchers; restarts whenever the process ends |
| Resolver (`follower/paperResolver.ts`) | `paper-results.ndjson` | hourly: asks Jupiter about each open trade, appends outcomes |
| Rotation bot (`main.ts`, `signal.ts`, `guards.ts`, `rotate.ts`, `vault.ts`) | `voltr_state.json`: last rotation's time and signal | daily: read signal, read vault, guard, plan, send, record |
| Ceremonies (`scripts/create*`, `seed*`, `managerInit*`, `adminAddAdaptor`, `addRangerLpMetadata`, `updateRanger*`) | `docs/ranger-vault.json`, `voltr/slim-vault.json`, `voltr/adaptors-added.json` | by hand: create, seed and configure vaults |
| Revenue routing (`scripts/routeRevenue.ts`) | an entry of `ranger-vault.json` | swap, deposit, append a receipt |
| Deposit widget (`frontend/src/components/DepositWidget.tsx`, `lib/voltrUserClient.ts`) | a step, a receipt, the vault's waiting period | deposit, withdraw, request, claim, cancel |
| Position ledger (`frontend/src/lib/positionLedger.ts`) | localStorage, by vault and wallet | records deposits and withdrawals |
| History chart (`lib/navHistory.ts`, `components/NavChart.tsx`, `hooks/useVaultInfo.ts`) | localStorage, under one key; the points on the page | fetches a vault's transactions and merges them |
| Jupiter client, alerts, strategy adapters, prediction map | none | requests, notifications, account lists |
| Adaptor program (`programs/`) | on chain, stubs so far | - |
| Pages, probes, performance report | what was last fetched | display and print |

**How they interact.** The producer and the follower share the trigger file and
nothing else; there is no lock, so a stat, a read and a rotation interleave. The
follower and the resolver share the paper ledger: one appends, the other reads
it whole. The follower is restarted by launchd whenever it exits; everything it
knows afterwards is in the state file. Inside its loop the gates read a snapshot
that was built page by page while Jupiter's listing moved. The rotation bot, the
ceremonies and the widget all meet the chain the same way: a transaction is
simulated, sent, waited for, and may be rejected, executed with an error,
dropped, or executed after the sender has given up. The ceremonies and the
routing share `ranger-vault.json` with no lock, minutes apart between read and
write. The widget and `updateRangerWaitingPeriod` share the vault's waiting
period; the tabs of a browser share localStorage.

**What is hard, and what would be correct.**

- *Follower.* A cursor that never passes an undecided row; intents never
  forgotten and never doubled within the FIFO's window; a ledger that holds every
  decision; progress beside a row that always throws; a kill switch that outlives
  restarts. Against: crashes between any two writes, failed saves, held batches,
  rotations between two system calls.
- *Gates.* A row is lost only with a cause: its market was not listed, the
  snapshot could not be refreshed. No order for a market long shut while an open
  one exists. Against: paging under a moving list, time, failed refreshes.
- *Resolver.* Verdicts that agree with the market; a bounded number of rows per
  trade; a market's result reaching each of its trades as won or lost, unless a
  failed request has already closed the trade with an error row. Against:
  overlapping runs, torn appends, crashes.
- *Rotation bot.* Every transaction of a plan finds its money; a recorded
  rotation did rotate; the weights reached after any history of partial runs.
- *Ceremonies and routing.* A record that is about one vault, loses no entry and
  no vault; a routing whose deposit is accounted for. Against: kills at any step,
  late landings, overlapping scripts, FORCE.
- *Widget.* A browser ledger that is off by its deposits' estimates and by nothing
  else; no confirmation that
  hangs; escrow that comes back. Against: two operations at once, reloads, another
  wallet, a changed period, lost answers.
- *Chart.* True points and no gaps. Against: fetches dropped half-way, a share
  mint learned late, tabs and vaults merging into one cache.

## 2. The modules

| Module | Models | Variables and their counterpart |
|---|---|---|
| `TriggerFile` | `triggerSource.ts` and the producer | `file` = what the path names (inode, rows); `lastIno`, `produced` for the producer |
| `Follower` (EXTENDS `TriggerFile`) | the daemon | `mem`/`disk` = `state` and the state file; `batch`, `pos`, `threw`, `aborted` = the loop's locals; `st` = the stat result; `ledger`; `kill`; `polls`, `verdict` are histories |
| `IntentJournal` | what the state file promises | `intents` |
| `MarketSnapshot` | `buildJupSnapshotFromClient`, `resolveTriggerToJup`, Jupiter's listing | `list`, `open`, `over` = Jupiter; `snap` = `snapshot`; `build` = the paging's locals; `unlisted`, `shutFor` are histories |
| `SignalGates` (EXTENDS `MarketSnapshot`) | the gates inside the follower's loop | `cursor`, `upto`, `pos`, `threw` = the loop's; `pick` = the mapped market; `seen` = the dedup keys; `verdict`, `failed`, `since` are histories |
| `PaperResolver` | the resolver and its runners | `market` = Jupiter's answers; `trades`, `results`, `torn` = the two files; `run` = the locals of each runner |
| `Rotator` | the rotation bot and the vault | `alloc`, `idle` = the chain; `state` = the state file; `pc`, `cur`, `ts`, `steps` = the run; `failed`, `moved` are histories |
| `Ceremonies` | the scripts and `routeRevenue.ts` | `run` = the invocations with the record each has read; `tx` = the transactions sent; `file` = the three records; `wallet` = the creator's FDRY account; `mode` = how the operator works; `last` is a history |
| `DepositWidget` | widget, user client, position ledger, vault program | `shares`, `receipt`, `period` = the chain; `pub`, `mode`, `step`, `cfg`, `shown`, `poll` = the component's state; `slot` = the operations under way; `ledger` = localStorage; `off`, `clean` are histories |
| `NavHistory` | the chart's data | `chain` = the vaults' transactions; `cache` = localStorage; `shown`, `info`, `series`, `loading` = each tab; `lossy`, `visited` are histories |
| `Sums` | sums of integers over finite sets, for `Rotator` | - |
| `FollowerProofs`, `SignalGatesProofs`, `PaperResolverProofs`, `RotatorProofs`, `CeremoniesProofs`, `DepositWidgetProofs`, `NavHistoryProofs` | theorems about the module each is named after | - |
| `SumsProofs` | lemmas: induction over numbers and over subsets, sums | - |
| `MC*` | instances for TLC | - |

**Follower.** One action per piece of code between two awaits whose effects
another actor or a crash can separate: `Boot`, `CheckKill`, `Stat`, `Read`,
`Idle`, one action for each way an envelope ends (`SkipReplay`, `SkipOther`,
`WouldSign` then `Book`, `Throw`), `SaveRow`, `EndBatch`, `Wake`. `Crash` is
possible wherever the process exists. `Book` is the ledger append with the
intent recorded right after it in memory; `SaveRow` is the save that makes it
durable, and may fail. The gates are a choice between skip and would_sign here,
so the model is of `runFollower` for any fetcher, guards and market mapping.

**SignalGates** is the other half: files are sound and the kill switch is off,
and the verdict is computed. A row passes `GateRow` (signature, dedup, action and
the resolver, with no await between them), `MapMarket` (two requests) and `Order`
(guards, the order, its signers). Amounts are integers and the caps are
percentages of `Nav`, as in `guards.ts`. `MarketSnapshot` reads one page a step;
`Delist` moves what follows up one place. Time is counted in ticks up to one
beyond the TTL, since nothing tells greater ages apart.

**PaperResolver.** A run is four kinds of steps: read the trades, read the
results, judge trade after trade, append. Results are counted, since readers only
filter and count them; `torn` says that the last line is incomplete, so that the
next row is glued to it and lost.

**Rotator.** Amounts are integers, planned as exact fractions of base units and
rounded when instructions are built, as `buildDepositIx` does. A plan is sent in
transactions of `Chunk` instructions; each is executed, executed with an error,
rejected by its preflight, or throws with or without having executed. Total value
is constant and prices move value between tokens. What the module assumes of a
signal is what `readSignalFile`'s schema enforces: the absolute weights add up to
`TOTAL_BP`. A crash may tear the state file at either place where it is written,
after a rotation and at the exit within the band. `CapsAssumption` is of the code's own numbers: a weight of at most 2000
and a delta of at most 4000 do not make 10000 (`guards.ts`).

**Ceremonies.** The scripts follow one course, which is stated once (`Build`,
`Send`, `Confirm`, `Truncate`, `Close`, `Abandon`); what differs is the gate at
the start, the content at the end, and the program's own conditions. `Truncate`
and `Close` are the two halves of `writeFileSync`, so that `Abandon` between them
leaves a torn file. Nothing in the scripts keeps two of them apart; how careful
the operator is, is the variable `mode`: scripts overlap, run one at a time, or
run one at a time with every transaction settled before the next. A property that
needs care says so. `UpdateWaitingPeriod` may be run again and again, as the period
in the script's configuration may have changed since; the chain's value is not
compared. A transaction remembers what the account `found` before it landed.

**DepositWidget.** A click starts an operation in a slot; everything after an
await uses what the click captured, while `step` belongs to the page and is reset
by the tabs. A deposit is an amount of assets and everything else one of shares.
The program mints at a rate of its own, `Minted`, and the widget books an estimate
(`fetchNav`: idle assets over supply, asked for after the confirmation, else the NAV
last seen, else 1), so that `Book` takes any of `Rates` or `Par`, whatever was
minted. The tally of a deposit is therefore wrong in general, with no fault at all:
the history `off` adds up by how much. Cost basis, a product of those estimates, is
not modelled. `clean` turns FALSE for a wallet when something happens that the
code itself does not account for: a timeout whose transaction lands, an
execution error nobody reads, a reload in mid-flight, a ledger that cannot be
stored, a withdrawal of more shares than the tally has (of a deposit not booked
yet, or booked too low), a claim that takes another receipt than the one the page
showed when it was clicked.

**NavHistory.** A fetch lists a vault's transactions since the newest point and
walks them; the supply starts at 0 in every fetch. Points remember whether their
fetch saw everything from the beginning (`whole`). The loop over the transactions
is a function defined by recursion (`Walk`, one `Visit` a transaction), which TLC
evaluates and the proofs can unfold.

## 3. The checks

| Run | Instance | Shows |
|---|---|---|
| `live` | 3 triggers, two of one key, FIFO of 1, 2 inodes, 2 faults, live, `--once` aborts | `TypeOK`, `CursorCoversDecided`, `NoIntentLost`, `DedupWindow`, and that `Follower` implements `IntentJournal` (`KeepsJournal`) |
| `paper` | 2 triggers, dry run, truncation, kill switch, 2 faults | `LedgerCoversSigned`, `KillStopsPolling` |
| `fair` | 3 triggers, one that always throws, kill switch, 1 fault | `RowsDecided` |
| `resolver` | 2 trades on the two sides of a market, an hourly and a manual runner, 2 faults | `VerdictsTrue`, `FinalRowsBounded`, `ResultsReachTrades` |
| `rotator` | 3 strategies, 3 signals (long, short, unconfident), an idle and an invested vault, 2 faults | `PlanIsFunded`, `RotatesToTarget`, `SpacedRecords`, `CashIsAbsorbing` |
| `ceremonies` | 2 invocations, 3 transactions when they overlap and 4 when not (`Budget`), 2 adaptors, deliveries of 1 or 2 | `TypeOK`, `RecordCoherent`, `OrphanNeedsAck`, `EntriesKept`, `DepositAccounted` |
| `widget` | a wallet, 2 operations, rates of 1 and 2, deposits up to 2 shares, a period the admin sets | `TypeOK`, `LedgerMatches` |
| `widget_live` | a wallet that wants out, 1 operation, either period | `ConfirmingEnds`, `EscrowComesBack` |
| `gates` | 2 events (one without markets), 2 markets, 2 rows of one key, pages of 1, 2 pages, TTL of 1 | `TypeOK`, `MissingExplained`, `StaleExplained`, `PickIsRecent` |
| `nav` | 2 tabs, 2 vaults, 3 transactions, lists of 2 | `TypeOK`, `WholeIsTrue`, `ChartComplete` |
| `rotator_cash` | as `rotator`, no fault | violates `CashSignalServed` |
| `gates_sizing` | rows from the trigger file, a NAV of a million | violates `TriggersAreSized` |

The two violated properties each state a sentence of the repository's comments;
the findings in `PROJECT.json` quote them.

**Bounds and why they suffice.** *Two inodes* give one rotation, which is what a
re-read needs. *Two faults* allow a failed save followed by a crash, a torn
append followed by a failed one, a partial rotation followed by a price move. *A
FIFO of one key with two keys* makes eviction happen at once. *Two trades on one
market* give opposite verdicts. Ten "basis points" and a value of 27 units keep
the order of the rotation bot's caps and make half units appear; `MaxTime` covers
two cooldowns. *Three transactions* are a vault, an entry and a second vault or a
second entry, or a vault, a swap and its deposit. The fourth,
of scripts that do not overlap, is a seed or a deposit of an abandoned run, which
lands between the swap and the reading of the balance, or an earlier swap whose
tokens are still in the account: with it `DepositAccounted` fails as soon as its
`settled` is weakened to `sequential`. The theorems speak of any number.
*Two operations* are the most the page needs to overlap a booking with another
operation; a third repeats them. The widget's runs have one wallet, whose escrow of
an earlier visit may be there at the start; the receipt of another wallet on the
page, and amounts other than one, are in the module and out of these instances;
`LedgerAgrees` holds of them all. *Pages of one event, two pages and two events*
make an event move across a page boundary and a listing longer than the pages
read. *Three chain transactions with lists of two* make a cut list, an
incremental fetch after a full one, and one vault's point between two of the
other's. `MaxShares` bounds what a wallet that deposits once more has or has booked;
booking itself has no bound. Rates of 1 and 2 make an estimate too high, too low and
right, and a tally that starts off.

**Fairness.** `FairSpec` of `Follower` is weak fairness of the daemon's own
steps, launchd's restart included: the agent has `KeepAlive` and node runs what
is runnable. It does not assume that calls succeed. `FairSpec` of `PaperResolver`
is weak fairness of the runs of the hourly agent (`StartInterval`); an operator
need never act. `FairSpec` of `DepositWidget`: the timer of a confirmation fires
(weak: the code sets it), requests are answered, and with success if repeated for
ever (strong: a node that is down sometimes); a transaction sent again and again
lands (strong); and a user who wants out keeps connecting, clicking, signing and,
told to try again, reloading. Without the reload `EscrowComesBack` fails: nothing
fetches the waiting period a second time. The user of that run does nothing else
(`Wanders = FALSE`) and the admin leaves the period alone: a period set to 0 turns
the button into an instant withdrawal and leaves a receipt without one. The other
modules have no fairness: their properties are about what a step may do.

**Deadlock** is checked for the follower, the resolver, the gates and the chart.
The rotation bot's clock, the ceremonies' transactions and the widget's holdings
are bounded or run out, so their runs set `CHECK_DEADLOCK FALSE`.

## 4. The proofs

`FollowerProofs` proves, for any set of triggers, keys and assignment of keys,
any FIFO cap, any number of faults and inodes, with or without truncation, dry
runs, poisonous rows, and with aborts at any control point:

- `TypeCorrect`: `Spec => []TypeOK`. Besides the shapes, `Trim` keeps the FIFO
  within its cap and `pos` stays inside the batch while a row is being booked.
- `DedupWindowHolds`: `Spec => []DedupWindow`.
- `ImplementsJournal`: `Spec => KeepsJournal`, the refinement of `IntentJournal`
  under `intents <- disk.intents`.

`DedupWindow` is not inductive: whether a new intent is far enough from an old
one of its key depends on the FIFO, not on the intents. The strengthening
`StoreInv` says, of the state in memory and of the one on disk, that the FIFO
holds exactly the keys of the last `MaxKeys` intents (`KeysAreTail`) and that the
intents are `Spaced`; that while the process runs the intents on disk are a
prefix of those in memory; and that at `append` the FIFO does not hold the
current key, which was looked up at `row` and cannot change in between.

Of the cursor, the ledger and the switch:

- `CursorCovers` and `NoIntentIsLost`: `[]CursorCoversDecided` and, in live mode,
  `[]NoIntentLost`, under `Undisturbed`: the producer does not truncate in place
  and aborts come from the top of the loop or from within sleep. Both assumptions
  are needed: TLC violates `CursorCoversDecided` without either.
- `LedgerCovers`: `Spec => []LedgerCoversSigned`, with no such assumption.
- `KillStops`: `Spec => []KillStopsPolling`.

The argument for the cursor. `EndBatch` moves it past a whole batch read long
before, while the file may have been renewed twice and the state restarted from
disk in between. `CursorInv` therefore keeps an account of the batch in flight:
the rows before the batch's next cursor are those before the old one and those in
the batch; the ones already through are settled (decided and, if owed, held as an
intent in memory); neither cursor, in memory or on disk, is past a row still to be
decided; and the stat a read works from is of the file the cursor is in, or of an
older one. The lemmas named `...Renewed` say that a rotation leaves the account
true because inode numbers grow; one lemma per action preserves it.

`PaperResolverProofs` proves, for any trades and markets, any runners overlapping
in any way, and any number of failed requests, short writes and crashes:

- `TypeCorrect`: `Spec => []TypeOK`.
- `VerdictsHold`: `Spec => []VerdictsTrue`. A run judges a trade long before it
  writes the row, so the invariant `IInv` also speaks of the rows in the memory
  of every run (`RunsTrue`), and of every status in the file (`ResultsTrue`).

- `RowsAreBounded`: for any finite set of runners, `Spec => []FinalRowsBounded`.

The bound alone is not inductive: what runs under way may still write has to be
counted with what is written. `Late(k)` are the runs that read the results before
trade `k` had a row; once it has one, no run becomes late (`LateRead`), a late run's
write spends its share (`Budget`) and any other run's adds nothing, since it holds
no row about `k` (`RunBound`, which also says that a run writes about `k` at most
once for each copy it has walked over).

`CeremoniesProofs` proves, for any number of invocations and transactions, any
amounts and any slippage above the threshold:

- `TypeCorrect`: `Spec => []TypeOK`.
- `RecordsAreCoherent`: `Spec => []RecordCoherent`, with scripts that overlap in
  any way. `RecordInv` says of every run that the record it holds in memory is
  coherent and that the transaction it waits for is the one it drafted, on that
  record's vault (`Sound`); it is inductive because a settled transaction keeps
  its verdict (`ChainFollows`, `StaysSound`).
- `OrphansAreAcknowledged` and `EntriesAreKept`: `SequentialInv` adds, of a mode
  that is not overlapping, that at most one run is not idle (`Alone`) and that a
  run's record is the file's, or the file is torn by the run itself, so that what
  is pushed at the end extends what is there.
- `DepositsAreAccounted`: `SettledInv` adds that while a routing is between its
  two phases its swap has landed, nothing else is in flight and the account holds
  what the swap found in it and what it delivered.

`SignalGatesProofs` proves, for any events and markets, any pages, TTL and signals:

- `PicksAreRecent`: `Spec => PickIsRecent`. `SnapInv` says of the snapshot in use
  and of the one being read what each `Known`: a market it calls open has been shut
  for no longer than it is old, and none that is open is called shut. Pages, moves
  of the listing and failed refreshes leave this true of whatever was read.
- `StaleIsExplained`: `Spec => StaleExplained`.
  `AgeInv` follows a refresh from the top of its iteration: within one tick its
  reading has no age, so that what follows finds a snapshot within the TTL.
- `MissingIsExplained`: `Spec => MissingExplained`. The listing shifts between the
  pages of one reading, so what the reading has passed is not a prefix of any list
  there ever was. An event is `Due` in a reading if it has been on the list for longer
  than the reading is old, in a category that neither lost an event under it nor was
  cut. `SnapTold` says that the snapshot in use has what is due; `BuildTold` that the
  reading under way has what is due in the categories behind it and, of the category it
  is in, what stands before the offset of its next page. What a removal and an
  insertion do to the places of the others is a lemma each (`RemovedAt`, `InsertedAt`).
- `GatesTyped`: `Spec => []TypeOK`.

`RotatorProofs` proves, for any universe, value, caps, bands, transaction size and
signals that meet the assumptions:

- `PlanWasFunded`: `Spec => []PlanIsFunded`.
- `RecordsAreOnTarget`: `Spec => RotatesToTarget`.
- `CashStaysCash`: `Spec => CashIsAbsorbing`, which needs `CapsAssumption`: from all
  cash, a signal within the caps can only be one that leaves everything in cash.
- `RecordsAreSpaced`: `Spec => SpacedRecords`, from `Due`: the time a sending run
  took is a cooldown after the rotation on file, which nothing else writes meanwhile.

The first two hold of a plan that nothing disturbed, and are about its end, so the
inductive invariant `RotInv` speaks of the plan half carried out: value is conserved
(`Holds`); and unless a transaction failed or prices moved, every prefix of what is
left to do is paid for by the idle balance, to within the rounding of each
instruction, and what is left leads to the signal's weights (`OnCourse`). That a
fresh plan has both is the long part: withdrawals come first and deposits sum to no
more than they free plus the idle balance. Those are sums over sets of tokens and
over prefixes of a sequence; `SumsProofs` has what they obey, by induction through
the sets of numbers and of subsets for which a statement holds (`AllNumbers`,
`AllSubsets`), as the library's induction theorems cannot be instantiated here.

`DepositWidgetProofs` proves, for any wallets, amounts, holdings, rates minted and
estimated, and any finite set of slots for operations:

- `WidgetTyped`: `Spec => []TypeOK`.
- `LedgerAgrees`: `Spec => []LedgerMatches`. `LedgerMatches` speaks of a wallet with
  nothing under way; the invariant is an equation for every moment: what the ledger
  says plus what was minted for the deposits that landed and are not booked is what
  the chain says, plus the withdrawals that landed and are not booked, plus what the
  estimates booked so far were off (`Balanced`). It needs `Attended`,
  that for a clean wallet whatever landed is still waited for.

`NavHistoryProofs` proves, for any tabs and vaults, any chain, any limit on a listing
and any requests that fail:

- `NavTypes`: `Spec => []TypeOK`, which has the order and the uniqueness of the points.
- `WholePointsAreTrue`: `Spec => []WholeIsTrue`.
- `NoTransactionMissing`: `Spec => []ChartComplete`.

`NavInv` says of the cache and of every tab alike what the properties say of what is
shown, since each may become the other (`Charts`, `Filled`), and that no vault burns
what it has not minted (`Solvent`): without that, the clamp at zero in the walk would
part its supply from the chain's. `Walks` says what any walk returns, by induction over
the transactions; `WholeWalk` that a walk over everything follows the chain's supply
from transaction to transaction; `Merges` that a merge has the points of both charts,
one for each transaction, by time. For `Filled`: a fetch that starts at the newest
point of a full chart lists all that came after it, and one that does not know the
share mint adds no point at all.

The assumptions are those named in the modules; they hold for the code's
constants and TLC evaluates them.

**Only model-checked.** Every invariant and every action property that a run
checks is a theorem, except for the hypothesis of `CursorCovers` and
`NoIntentIsLost`. Liveness (`RowsDecided`, `ResultsReachTrades`, `ConfirmingEnds`,
`EscrowComesBack`) is out of this prover's reach and stays with TLC.

## 5. What the code does that no property promises

Modelling showed these; they are possible in the modules, and the properties
above say what still holds beside them, each excepting what is named here.

- A trigger file truncated in place and grown past the old offset looks unrotated
  (`Follower` with `Truncates`; `triggerSource.ts:102`).
- A halt set while a batch is on lets the rest of the batch through
  (`runFollower.ts:376`).
- A trade that a dry run has in the ledger twice gets a final row for each copy,
  and the trades of a cancelled market stay pending for ever
  (`paperResolver.ts:131`, `:140`).
- A plan's rounded deposits may exceed the idle balance by a base unit, and a
  transaction that executes with an error lets a rotation be recorded
  (`rotate.ts:102`, `vault.ts:263`).
- An error row closes a trade. One failed `getMarket`, be the market still open,
  makes the resolver append a row with status `error`, which counts as resolved
  ever after (`paperResolver.ts:115`, `:187`): the market's result never reaches
  that trade. `ResultsReachTrades` is about the trades without such a row.
- A routing deposits the whole FDRY account, what was there before included
  (`routeRevenue.ts:211`). The script's header says "freshly-arrived FDRY"
  (`routeRevenue.ts:5`) and its comment "whatever Jupiter actually delivered"
  (`:205`); `DepositAccounted` states what is deposited, which is more.
- The tally of a deposit is an estimate and is off by any amount, without a fault:
  the NAV is of the vault's idle assets only, of a moment after the deposit, and
  falls back to an older one or to 1 (`DepositWidget.tsx:103`, `:304`).
- An incremental fetch of the chart starts its supply at 0, and points of another
  vault stay in the cache (`navHistory.ts:117`, `:200`).
- The widget books what it captured, whatever the confirmation's value says, and
  nothing for a transaction that lands after the 90 seconds (`DepositWidget.tsx:257`).
- A failed refresh lets rows be dropped as stale, an event that leaves the listing
  while it is paged hides another, and an event without an open market yields an
  order for a closed one (`runFollower.ts:365`, `:157`, `jupMarketResolver.ts:139`).
  The properties of the gates name the first two as causes and except the third.
- A state file of the rotation bot torn by a crash is taken for none (`main.ts:79`):
  the record after it may be within the cooldown.
- A record torn by a kill loses its entries and lets the next create make a second
  vault; scripts that overlap lose each other's entries
  (`createRangerFdryVault.ts:225`, `routeRevenue.ts:321`).

The notes of the hazards in `PROJECT.json` name what is excepted, line by line.

## 6. What is not modelled, and why

- **Two followers** on one state file, **two rotation runs** at once, a registry
  that lacks a strategy the vault holds, and the **cron's jitter**.
- The verdicts of `SignalGates` are not composed with the files of `Follower`:
  the product of the two state spaces is beyond TLC, and each module leaves open
  what the other decides.
- The **slippage** of the rotation bot's swaps: an instruction moves the amount it
  names. The **USD/FDRY price** that turns a trigger's size into the guards' unit and
  back (`processSignal.ts:143`, `:158`) is 1: no property tells other prices apart.
- Reuse of an **inode number** by a rotated file; lines of different lengths.
- **Torn appends of the paper ledger**: the resolver skips a line it cannot parse.
  The **return per dollar** of a result, which nothing reads.
- **Cost basis** and profit of the position ledger; the widget's balances, labels
  and countdown; the treasury poll, which overwrites what it showed.
- The **prediction map**, built and used by no entry point; **alerts** and
  **adapters**, which decide nothing; the **adaptor program**, whose instructions
  change no state yet; **pages**; **probes**, which read or simulate; the
  **performance report**, batch arithmetic.

## 7. What could come next

1. What the coverage of the cursor becomes when the file is truncated or a batch
   aborted: the rows that can be lost, as a theorem instead of a hypothesis.
2. Two overlapping runs of the rotation bot, and a clock with jitter against its
   cooldown.
3. Cost basis in the widget, and a bound on what its estimates are off for a vault
   that keeps its assets idle.
