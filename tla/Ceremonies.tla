------------------------------ MODULE Ceremonies ------------------------------
(***************************************************************************)
(* The operator's scripts under scripts/.  Each is run by hand, does one   *)
(* thing on chain and leaves a trace in a JSON file of the repository:     *)
(*                                                                         *)
(*   docs/ranger-vault.json       createRangerFdryVault, seed, max cap,    *)
(*                                waiting period, LP metadata, revenue     *)
(*   voltr/slim-vault.json        createSlimVault                          *)
(*   voltr/adaptors-added.json    adminAddAdaptor                          *)
(*                                                                         *)
(* All follow one course: read the file, look whether the work was done,   *)
(* build and simulate a transaction, send it, wait for its confirmation,   *)
(* write the file.  The file's content is the one read at the start plus   *)
(* one entry (only adminAddAdaptor reads it again), and writeFileSync      *)
(* truncates before it writes.  A run may end after any of these steps,    *)
(* while a transaction it has sent lands later or never.                   *)
(***************************************************************************)
EXTENDS Naturals, FiniteSets

CONSTANTS
  Run,         \* invocations that may be under way
  Sig,         \* signatures of transactions
  Budget,      \* BOUND: how many transactions are sent, for each mode
  Lending, Spot,  \* the adaptors, which adminAddAdaptor is asked for by name
  None,
  Wallet0,     \* FDRY the creator holds before the first script runs
  SeedAmount,  \* SEED_AMOUNT of seedRangerFdryVault
  Delivery,    \* what a Jupiter swap can deliver, slippage included
  MinOut       \* quote.otherAmountThreshold

Adaptor == {Lending, Spot}

\* Nothing in the scripts keeps two of them apart.  An operator may run one at
\* a time, and may also look up what an abandoned run has sent (the RECOVERY
\* INFO it printed) before starting the next.
Mode == {"overlapping", "sequential", "settled"}

ASSUME BudgetAssumption == Budget \in [Mode -> Nat]
ASSUME NoneIsNone == None \notin Sig /\ None \notin Adaptor
ASSUME Amounts == /\ {Wallet0, SeedAmount, MinOut} \subseteq Nat
                  /\ Delivery \subseteq {d \in Nat : d >= MinOut}

VARIABLES
  mode,     \* how the operator works, see CanStart
  run,      \* the invocations: where each stands and what it has in memory
  tx,       \* every transaction sent, by signature
  file,     \* the three files
  wallet,   \* the creator's FDRY account, on chain
  last      \* history: what a run last wrote to each file
vars == <<mode, run, tx, file, wallet, last>>

File == {"ranger", "slim", "adaptors"}
Once == {"metadata", "adaptor", "strategy"}
Op == {"createRanger", "createSlim", "seed", "maxCap", "period",
       "swap", "deposit"} \cup Once

Out(op) == CASE op \in {"createSlim", "strategy"} -> "slim"
             [] op = "adaptor" -> "adaptors"
             [] OTHER -> "ranger"

Absent == [state |-> "absent", vault |-> None, log |-> {}]
Torn == [state |-> "torn", vault |-> None, log |-> {}]
Record(v, log) == [state |-> "valid", vault |-> v, log |-> log]
Unsent == [op |-> "none", vault |-> None, arg |-> None, amount |-> 0,
           swap |-> None, found |-> 0, status |-> "unsent"]
Idle == [pc |-> "idle", op |-> "none", rec |-> Absent, arg |-> None,
         amount |-> 0, swap |-> None, sig |-> None, gate |-> "none"]

-----------------------------------------------------------------------------
(* The chain.  A transaction is simulated and preflighted before it is     *)
(* sent, and judged once more when it lands: by then the account may hold  *)
(* less, or an earlier run's transaction may have landed.  `found` is what *)
(* the creator's account held just before (history).                       *)

Done(op, v, arg) ==
  \E s \in Sig : /\ tx[s].status = "ok"
                 /\ <<tx[s].op, tx[s].vault, tx[s].arg>> = <<op, v, arg>>

Accepts(t) == /\ t.op \in {"seed", "deposit"} => t.amount <= wallet
              /\ t.op \in Once => ~Done(t.op, t.vault, t.arg)
              /\ t.op = "strategy" => Done("adaptor", t.vault, t.arg)

Land(s) ==
  /\ tx[s].status = "flight" /\ Accepts(tx[s])
  /\ \/ /\ tx[s].op = "swap"
        /\ \E d \in Delivery :
             /\ tx' = [tx EXCEPT ![s].status = "ok", ![s].amount = d,
                                 ![s].found = wallet]
             /\ wallet' = wallet + d
     \/ /\ tx[s].op # "swap"
        /\ tx' = [tx EXCEPT ![s].status = "ok", ![s].found = wallet]
        /\ wallet' = IF tx[s].op \in {"seed", "deposit"}
                       THEN wallet - tx[s].amount ELSE wallet
  /\ UNCHANGED <<mode, run, file, last>>

\* It lands and fails, or its blockhash expires.
Drop(s) ==
  /\ tx[s].status = "flight"
  /\ \E r \in {"err", "lost"} : tx' = [tx EXCEPT ![s].status = r]
  /\ UNCHANGED <<mode, run, file, wallet, last>>

-----------------------------------------------------------------------------
(* The steps the scripts share.                                            *)

CanStart(p) ==
  /\ run[p].pc = "idle"
  /\ mode # "overlapping" => \A q \in Run : run[q].pc = "idle"
  /\ mode = "settled" => \A s \in Sig : tx[s].status # "flight"

Build(p, op, rec, arg, amount, gate) ==
  /\ CanStart(p)
  /\ run' = [run EXCEPT ![p] =
       [pc |-> "built", op |-> op, rec |-> rec, arg |-> arg, amount |-> amount,
        swap |-> None, sig |-> None, gate |-> gate]]
  /\ UNCHANGED <<mode, tx, file, wallet, last>>

\* The transaction a run is about to send; a new vault is named by the
\* transaction that creates it.
Draft(p, s) ==
  [op |-> run[p].op, arg |-> run[p].arg, amount |-> run[p].amount,
   vault |-> IF run[p].gate = "none" THEN run[p].rec.vault ELSE s,
   swap |-> run[p].swap, found |-> 0, status |-> "flight"]

Send(p) ==
  /\ run[p].pc = "built"
  /\ Cardinality({s \in Sig : tx[s] # Unsent}) < Budget[mode]
  /\ \E s \in Sig :
       /\ tx[s] = Unsent /\ Accepts(Draft(p, s))
       /\ tx' = [tx EXCEPT ![s] = Draft(p, s)]
       /\ run' = [run EXCEPT ![p].pc = "sent", ![p].sig = s]
  /\ UNCHANGED <<mode, file, wallet, last>>

\* confirmTransaction resolves and its value carries no error.
Confirm(p) ==
  /\ run[p].pc = "sent" /\ tx[run[p].sig].status = "ok"
  /\ run' = [run EXCEPT ![p].pc = "confirmed"]
  /\ UNCHANGED <<mode, tx, file, wallet, last>>

\* The end of a run that writes nothing more: a dry run, a simulation that
\* failed, UI_READY not set, an error in the confirmation or an RPC call that
\* throws, and a kill at any of its steps.
Abandon(p) ==
  /\ run[p].pc # "idle"
  /\ run' = [run EXCEPT ![p] = Idle]
  /\ UNCHANGED <<mode, tx, file, wallet, last>>

\* Mutants of Pushed: the entry replaces the list, or names the other transaction
\* of a routing.
PushedAlone(p) == [run[p].rec EXCEPT !.log = {run[p].sig}]
PushedSwap(p) == [run[p].rec EXCEPT !.log = @ \cup {run[p].swap}]

\* rec.<list>.push(entry) on the content read when the script started.
Pushed(p) == [run[p].rec EXCEPT !.log = @ \cup {run[p].sig}]

\* Mutant of Fresh: what the file held is merged into the new record.
FreshMerged(p) == Record(run[p].sig, file[Out(run[p].op)].log)

\* The record a new vault starts from, whatever the file held.
Fresh(p) == Record(run[p].sig, {})

\* loadAdaptorsRegistry a second time; a file it cannot parse is an empty one.
Merged(p) ==
  Record(None, {s \in file["adaptors"].log : tx[s].arg # run[p].arg}
                 \cup {run[p].sig})

Contents(p) == CASE run[p].gate # "none" -> Fresh(p)
                 [] run[p].op = "adaptor" -> Merged(p)
                 [] OTHER -> Pushed(p)

\* writeFileSync: open with truncation, then the content.  When two runs write
\* one file at a time the longer of the two contents shows behind the other.
Truncate(p) ==
  /\ run[p].pc = "confirmed" /\ run[p].op \notin {"swap", "strategy"}
  /\ run' = [run EXCEPT ![p].pc = "writing", ![p].rec = Contents(p)]
  /\ file' = [file EXCEPT ![Out(run[p].op)] = Torn]
  /\ UNCHANGED <<mode, tx, wallet, last>>

Close(p) ==
  LET f == Out(run[p].op)
      others == {q \in Run \ {p} : run[q].pc = "writing" /\ Out(run[q].op) = f}
  IN /\ run[p].pc = "writing"
     /\ \/ /\ file' = [file EXCEPT ![f] = run[p].rec]
           /\ last' = [last EXCEPT ![f] = run[p].rec]
        \/ /\ others # {}
           /\ file' = [file EXCEPT ![f] = Torn]
           /\ UNCHANGED last
     /\ run' = [run EXCEPT ![p] = Idle]
     /\ UNCHANGED <<mode, tx, wallet>>

Steps(p) == Send(p) \/ Confirm(p) \/ Truncate(p) \/ Close(p) \/ Abandon(p)

-----------------------------------------------------------------------------
(* The scripts.                                                            *)

\* Mutant of CreateGate: the file's vault is not looked at.
CreateGateOpen(f) == IF file[f].state = "torn" THEN "torn" ELSE "absent"

\* A file that names a vault stops the script unless FORCE and the
\* acknowledgement are set; one that is missing or cannot be parsed does not.
CreateGate(f) == IF file[f].state = "valid" THEN "forced" ELSE file[f].state

CreateRanger(p) ==
  \/ Build(p, "createRanger", Absent, None, 0, CreateGate("ranger"))
  \/ run[p].op = "createRanger" /\ Steps(p)

CreateSlim(p) ==
  \/ Build(p, "createSlim", Absent, None, 0, CreateGate("slim"))
  \/ run[p].op = "createSlim" /\ Steps(p)

\* JSON.parse throws on the other two states of the file.
Readable(f) == file[f].state = "valid"

SeedRanger(p) ==
  \/ /\ Readable("ranger")
     /\ Build(p, "seed", file["ranger"], None, SeedAmount, "none")
  \/ run[p].op = "seed" /\ Steps(p)

UpdateMaxCap(p) ==
  \/ /\ Readable("ranger")
     /\ Build(p, "maxCap", file["ranger"], None, 0, "none")
  \/ run[p].op = "maxCap" /\ Steps(p)

\* Nothing to do when the chain already has the configured period, which may
\* have been changed in the script's configuration since any earlier run.
UpdateWaitingPeriod(p) ==
  \/ /\ Readable("ranger")
     /\ Build(p, "period", file["ranger"], None, 0, "none")
  \/ run[p].op = "period" /\ Steps(p)

\* Nothing to do when the metadata account exists.
AddLpMetadata(p) ==
  \/ /\ Readable("ranger")
     /\ ~Done("metadata", file["ranger"].vault, None)
     /\ Build(p, "metadata", file["ranger"], None, 0, "none")
  \/ run[p].op = "metadata" /\ Steps(p)

\* The registry is asked by adaptor name only; FORCE=1 goes on in spite of it.
AddAdaptor(p) ==
  \/ /\ Readable("slim")
     /\ \E a \in Adaptor, force \in BOOLEAN :
          /\ (\E s \in file["adaptors"].log : tx[s].arg = a) => force
          /\ Build(p, "adaptor", file["slim"], a, 0, "none")
  \/ run[p].op = "adaptor" /\ Steps(p)

\* Both strategy scripts record nothing: the operator pastes what they print.
Initialized(p) ==
  /\ run[p].pc = "confirmed"
  /\ run' = [run EXCEPT ![p] = Idle]
  /\ UNCHANGED <<mode, tx, file, wallet, last>>

InitSave(p) ==
  \/ /\ Readable("slim")
     /\ Build(p, "strategy", file["slim"], Lending, 0, "none")
  \/ /\ run[p].op = "strategy" /\ run[p].arg = Lending
     /\ Steps(p) \/ Initialized(p)

\* Needs FOREIGN_ORACLE in the environment besides.
InitSpyx(p) ==
  \/ /\ Readable("slim")
     /\ Build(p, "strategy", file["slim"], Spot, 0, "none")
  \/ /\ run[p].op = "strategy" /\ run[p].arg = Spot
     /\ Steps(p) \/ Initialized(p)

\* routeRevenue, phase 1: USDC to FDRY, a transaction of its own.
RouteSwap(p) ==
  \/ /\ Readable("ranger")
     /\ Build(p, "swap", file["ranger"], None, 0, "none")
  \/ run[p].op = "swap" /\ Steps(p)

\* Mutant of DepositSize: the quote's threshold stands for what was delivered.
DepositThreshold == MinOut

\* Phase 2 deposits the whole balance of the creator's FDRY account.
DepositSize == wallet

RouteDeposit(p) ==
  \/ /\ run[p].op = "swap" /\ run[p].pc = "confirmed"
     /\ DepositSize >= MinOut
     /\ run' = [run EXCEPT ![p].pc = "built", ![p].op = "deposit",
                           ![p].swap = run[p].sig, ![p].amount = DepositSize]
     /\ UNCHANGED <<mode, tx, file, wallet, last>>
  \/ run[p].op = "deposit" /\ Steps(p)

Init == /\ mode \in Mode
        /\ run = [p \in Run |-> Idle]
        /\ tx = [s \in Sig |-> Unsent]
        /\ file = [f \in File |-> Absent]
        /\ wallet = Wallet0
        /\ last = [f \in File |-> Absent]

Script(p) == \/ CreateRanger(p) \/ CreateSlim(p) \/ SeedRanger(p)
             \/ UpdateMaxCap(p) \/ UpdateWaitingPeriod(p) \/ AddLpMetadata(p)
             \/ AddAdaptor(p) \/ InitSave(p) \/ InitSpyx(p)
             \/ RouteSwap(p) \/ RouteDeposit(p)

Next == (\E p \in Run : Script(p)) \/ (\E s \in Sig : Land(s) \/ Drop(s))

Spec == Init /\ [][Next]_vars

-----------------------------------------------------------------------------
(* Properties.                                                             *)

Content == [state : {"absent", "torn", "valid"}, vault : Sig \cup {None},
            log : SUBSET Sig]

TypeOK ==
  /\ mode \in Mode
  /\ run \in [Run -> [pc : {"idle", "built", "sent", "confirmed", "writing"},
                      op : Op \cup {"none"}, rec : Content,
                      arg : Adaptor \cup {None}, amount : Nat,
                      swap : Sig \cup {None}, sig : Sig \cup {None},
                      gate : {"none", "absent", "torn", "forced"}]]
  /\ tx \in [Sig -> [op : Op \cup {"none"}, vault : Sig \cup {None},
                     arg : Adaptor \cup {None}, amount : Nat,
                     swap : Sig \cup {None}, found : Nat,
                     status : {"unsent", "flight", "ok", "err", "lost"}]]
  /\ file \in [File -> Content]
  /\ wallet \in Nat
  /\ last \in [File -> Content]

\* A record is about one vault: the transaction that created it landed, and so
\* did every transaction the record lists, on that vault.  Runs may overlap,
\* die, write over each other, and FORCE may have replaced the vault while a
\* run was waiting for its confirmation.
Coherent(c, t) ==
  c.state = "valid" =>
    /\ c.vault \in Sig /\ t[c.vault].status = "ok"
    /\ t[c.vault].op \in {"createRanger", "createSlim"}
    /\ \A s \in c.log : t[s].status = "ok" /\ t[s].vault = c.vault

RecordCoherent == Coherent(file["ranger"], tx) /\ Coherent(file["slim"], tx)

\* A file names another vault than it did only after an acknowledged FORCE or
\* after a crash tore it, as long as the scripts run one at a time: a create
\* that started before a vault was recorded cannot finish after it.
Replaces(p, f) == /\ last[f].vault # None
                  /\ last'[f].vault # last[f].vault
                  /\ run[p].pc = "writing"

OrphanNeedsAck ==
  [][mode # "overlapping" => \A f \in {"ranger", "slim"}, p \in Run :
       Replaces(p, f) => run[p].gate \in {"forced", "torn"}]_vars

\* No entry leaves a vault's record while it is that vault's record, as long as
\* the scripts run one at a time: what a script read before its transaction is
\* still what the file holds after the confirmation.
EntriesKept ==
  [][mode # "overlapping" => (last'["ranger"].vault = last["ranger"].vault
                    => last["ranger"].log \subseteq last'["ranger"].log)]_vars

\* A routing deposits what the creator's account held when its swap landed and
\* what the swap delivered, no more and no less, when every transaction is
\* settled before the next script starts.  Otherwise a seed or a deposit of an
\* abandoned run may land between the swap and the reading of the balance.  It
\* is the whole account, not only the swap's tokens, that goes into the vault.
DepositAccounted ==
  mode = "settled" =>
    \A s \in Sig : tx[s].op = "deposit" =>
      tx[s].amount = tx[tx[s].swap].found + tx[tx[s].swap].amount

===============================================================================
