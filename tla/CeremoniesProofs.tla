-------------------------- MODULE CeremoniesProofs --------------------------
(***************************************************************************)
(* Theorems about the operator's scripts, for any number of invocations    *)
(* and transactions.                                                       *)
(***************************************************************************)
EXTENDS Ceremonies, TLAPS

Pc == {"idle", "built", "sent", "confirmed", "writing"}
Gate == {"none", "absent", "torn", "forced"}
RunType == [pc : Pc, op : Op \cup {"none"}, rec : Content,
            arg : Adaptor \cup {None}, amount : Nat,
            swap : Sig \cup {None}, sig : Sig \cup {None}, gate : Gate]
TxType == [op : Op \cup {"none"}, vault : Sig \cup {None},
           arg : Adaptor \cup {None}, amount : Nat, swap : Sig \cup {None},
           found : Nat, status : {"unsent", "flight", "ok", "err", "lost"}]

(***************************************************************************)
(* The scripts share their steps: every step of Next is one of these.      *)
(***************************************************************************)

\* Some script starts: what its Build may be called with.
Begins(p) ==
  \/ \E op \in {"createRanger", "createSlim"} :
       Build(p, op, Absent, None, 0, CreateGate(Out(op)))
  \/ \E op \in Op \ {"createRanger", "createSlim", "deposit"},
        arg \in Adaptor \cup {None}, amount \in Nat :
       LET f == IF op \in {"adaptor", "strategy"} THEN "slim" ELSE "ranger"
       IN Readable(f) /\ Build(p, op, file[f], arg, amount, "none")

\* The second half of a routing begins.
Deposits(p) ==
  /\ run[p].op = "swap" /\ run[p].pc = "confirmed"
  /\ run' = [run EXCEPT ![p].pc = "built", ![p].op = "deposit",
                        ![p].swap = run[p].sig, ![p].amount = wallet]
  /\ UNCHANGED <<mode, tx, file, wallet, last>>

LEMMA StepsOfNext ==
  ASSUME Next
  PROVE  \/ \E p \in Run : \/ Begins(p) \/ Deposits(p) \/ Send(p) \/ Confirm(p)
                           \/ Truncate(p) \/ Close(p) \/ Abandon(p)
         \/ \E s \in Sig : Land(s) \/ Drop(s)
<1>1. ASSUME NEW p \in Run, Script(p)
      PROVE  \/ Begins(p) \/ Deposits(p) \/ Send(p) \/ Confirm(p)
             \/ Truncate(p) \/ Close(p) \/ Abandon(p)
  <2>1. Steps(p) => Send(p) \/ Confirm(p) \/ Truncate(p) \/ Close(p) \/ Abandon(p)
    BY DEF Steps
  <2>2. Initialized(p) => Abandon(p)
    BY DEF Initialized, Abandon
  <2>3. CASE CreateRanger(p) \/ CreateSlim(p)
    BY <2>1, <2>3 DEF CreateRanger, CreateSlim, Begins, Out
  <2>4. CASE \/ SeedRanger(p) \/ UpdateMaxCap(p) \/ UpdateWaitingPeriod(p)
             \/ AddLpMetadata(p) \/ RouteSwap(p)
    <3>1. ASSUME NEW op \in {"seed", "maxCap", "period", "metadata", "swap"},
                 NEW amount \in Nat, Readable("ranger"),
                 Build(p, op, file["ranger"], None, amount, "none")
          PROVE  Begins(p)
      BY <3>1 DEF Begins, Op, Once
    <3> QED
      BY <2>1, <2>4, <3>1, Amounts
      DEF SeedRanger, UpdateMaxCap, UpdateWaitingPeriod, AddLpMetadata, RouteSwap
  <2>5. CASE AddAdaptor(p) \/ InitSave(p) \/ InitSpyx(p)
    <3>1. ASSUME NEW op \in {"adaptor", "strategy"}, NEW arg \in Adaptor,
                 Readable("slim"), Build(p, op, file["slim"], arg, 0, "none")
          PROVE  Begins(p)
      BY <3>1 DEF Begins, Op, Once
    <3> QED
      BY <2>1, <2>2, <2>5, <3>1 DEF AddAdaptor, InitSave, InitSpyx, Adaptor
  <2>6. CASE RouteDeposit(p)
    BY <2>1, <2>6 DEF RouteDeposit, Deposits, DepositSize
  <2> QED
    BY <1>1, <2>3, <2>4, <2>5, <2>6 DEF Script
<1> QED
  BY <1>1 DEF Next

(***************************************************************************)
(* Type correctness.                                                       *)
(***************************************************************************)

LEMMA Constants ==
  /\ Absent \in Content /\ Torn \in Content
  /\ Idle \in RunType /\ Unsent \in TxType
  /\ \A v \in Sig \cup {None}, log \in SUBSET Sig : Record(v, log) \in Content
BY DEF Absent, Torn, Idle, Unsent, Record, Content, RunType, TxType, Pc, Gate

\* What Truncate puts into a record is the signature of a transaction sent.
Signed == \A p \in Run : run[p].pc \in {"sent", "confirmed", "writing"} => run[p].sig \in Sig

LEMMA TypeInit == Init => TypeOK /\ Signed
BY Constants, Amounts DEF Init, TypeOK, Signed, RunType, TxType, Pc, Gate, Idle

LEMMA SignedStep == TypeOK /\ Signed /\ [Next]_vars => Signed'
<1> SUFFICES ASSUME TypeOK, Signed, [Next]_vars PROVE Signed'
  OBVIOUS
<1> USE DEF Signed, TypeOK
<1>1. ASSUME NEW p \in Run, Begins(p) PROVE Signed'
  <2>1. UNCHANGED run \/ \E r : run' = [run EXCEPT ![p] = r] /\ r.pc = "built"
    BY <1>1 DEF Begins, Build
  <2> QED
    BY <2>1
<1>2. ASSUME NEW p \in Run, Deposits(p) PROVE Signed'
  BY <1>2 DEF Deposits
<1>3. ASSUME NEW p \in Run, Send(p) PROVE Signed'
  BY <1>3 DEF Send
<1>4. ASSUME NEW p \in Run, Confirm(p) PROVE Signed'
  BY <1>4 DEF Confirm
<1>5. ASSUME NEW p \in Run, Truncate(p) PROVE Signed'
  BY <1>5 DEF Truncate
<1>6. ASSUME NEW p \in Run, Close(p) \/ Abandon(p) PROVE Signed'
  BY <1>6 DEF Close, Abandon, Idle
<1>7. ASSUME NEW s \in Sig, Land(s) \/ Drop(s) PROVE Signed'
  BY <1>7 DEF Land, Drop
<1>8. CASE UNCHANGED vars
  BY <1>8 DEF vars
<1> QED
  BY <1>1, <1>2, <1>3, <1>4, <1>5, <1>6, <1>7, <1>8, StepsOfNext

LEMMA TypeStep == TypeOK /\ Signed /\ [Next]_vars => TypeOK'
<1> SUFFICES ASSUME TypeOK, Signed, [Next]_vars PROVE TypeOK'
  OBVIOUS
<1>t. /\ mode \in Mode /\ run \in [Run -> RunType] /\ tx \in [Sig -> TxType]
      /\ file \in [File -> Content] /\ wallet \in Nat /\ last \in [File -> Content]
  BY DEF TypeOK, RunType, TxType, Pc, Gate
<1>q. /\ mode' \in Mode /\ run' \in [Run -> RunType] /\ tx' \in [Sig -> TxType]
      /\ file' \in [File -> Content] /\ wallet' \in Nat /\ last' \in [File -> Content]
      => TypeOK'
  BY DEF TypeOK, RunType, TxType, Pc, Gate
<1>0. \A op \in Op : Out(op) \in File
  BY DEF Out, File
<1>1. ASSUME NEW p \in Run, Begins(p) PROVE TypeOK'
  <2>1. ASSUME NEW op \in Op, NEW rec \in Content, NEW arg \in Adaptor \cup {None},
               NEW amount \in Nat, NEW gate \in Gate, Build(p, op, rec, arg, amount, gate)
        PROVE  TypeOK'
    <3>1. [pc |-> "built", op |-> op, rec |-> rec, arg |-> arg, amount |-> amount,
           swap |-> None, sig |-> None, gate |-> gate] \in RunType
      BY DEF RunType, Pc
    <3>2. run' \in [Run -> RunType]
      BY <1>t, <2>1, <3>1 DEF Build
    <3> QED
      BY <1>t, <1>q, <2>1, <3>2 DEF Build
  <2>2. \A f \in File : file[f] \in Content /\ CreateGate(f) \in Gate
    BY <1>t DEF CreateGate, Content, Gate
  <2>3. CASE \E op \in {"createRanger", "createSlim"} :
               Build(p, op, Absent, None, 0, CreateGate(Out(op)))
    <3>1. PICK op \in {"createRanger", "createSlim"} :
            Build(p, op, Absent, None, 0, CreateGate(Out(op)))
      BY <2>3
    <3>2. op \in Op /\ CreateGate(Out(op)) \in Gate
      BY <1>0, <2>2 DEF Op
    <3> QED
      BY <2>1, <3>1, <3>2, Constants
  <2>4. ASSUME NEW op \in Op, NEW arg \in Adaptor \cup {None}, NEW amount \in Nat,
               NEW f \in {"slim", "ranger"}, Build(p, op, file[f], arg, amount, "none")
        PROVE  TypeOK'
    BY <2>1, <2>2, <2>4 DEF File, Gate
  <2> QED
    BY <1>1, <2>3, <2>4 DEF Begins
<1>2. ASSUME NEW p \in Run, Deposits(p) PROVE TypeOK'
  <2>1. [run[p] EXCEPT !.pc = "built", !.op = "deposit", !.swap = run[p].sig,
                       !.amount = wallet] \in RunType
    BY <1>t DEF RunType, Pc, Op
  <2> QED
    BY <1>t, <1>q, <1>2, <2>1 DEF Deposits
<1>3. ASSUME NEW p \in Run, Send(p) PROVE TypeOK'
  <2>1. PICK s \in Sig : /\ tx' = [tx EXCEPT ![s] = Draft(p, s)]
                         /\ run' = [run EXCEPT ![p].pc = "sent", ![p].sig = s]
    BY <1>3 DEF Send
  <2>2. Draft(p, s) \in TxType
    BY <1>t DEF Draft, TxType, RunType, Content
  <2>3. [run[p] EXCEPT !.pc = "sent", !.sig = s] \in RunType
    BY <1>t DEF RunType, Pc
  <2>4. run' \in [Run -> RunType] /\ tx' \in [Sig -> TxType]
    BY <1>t, <2>1, <2>2, <2>3
  <2> QED
    BY <1>t, <1>q, <1>3, <2>4 DEF Send
<1>4. ASSUME NEW p \in Run, Confirm(p) PROVE TypeOK'
  <2>1. [run[p] EXCEPT !.pc = "confirmed"] \in RunType
    BY <1>t DEF RunType, Pc
  <2> QED
    BY <1>t, <1>q, <1>4, <2>1 DEF Confirm
<1>5. ASSUME NEW p \in Run, Truncate(p) PROVE TypeOK'
  <2>1. run[p].sig \in Sig /\ run[p].rec \in Content /\ file["adaptors"] \in Content
    BY <1>t, <1>5 DEF Truncate, Signed, RunType, File
  <2>2. Pushed(p) \in Content
    BY <2>1 DEF Pushed, Content
  <2>3. Fresh(p) \in Content /\ Merged(p) \in Content
    BY <2>1, Constants DEF Fresh, Merged, Content
  <2>4. [run[p] EXCEPT !.pc = "writing", !.rec = Contents(p)] \in RunType
    BY <1>t, <2>2, <2>3 DEF Contents, RunType, Pc
  <2>5. run' \in [Run -> RunType] /\ file' \in [File -> Content]
    BY <1>t, <1>5, <2>4, Constants DEF Truncate
  <2> QED
    BY <1>t, <1>q, <1>5, <2>5 DEF Truncate
<1>6. ASSUME NEW p \in Run, Close(p) PROVE TypeOK'
  <2>1. run[p].rec \in Content
    BY <1>t DEF RunType
  <2>2. run' \in [Run -> RunType]
    BY <1>t, <1>6, Constants DEF Close
  <2>3. file' \in [File -> Content] /\ last' \in [File -> Content]
    BY <1>t, <1>6, <2>1, Constants DEF Close
  <2> QED
    BY <1>t, <1>q, <1>6, <2>2, <2>3 DEF Close
<1>7. ASSUME NEW p \in Run, Abandon(p) PROVE TypeOK'
  BY <1>t, <1>q, <1>7, Constants DEF Abandon
<1>8. ASSUME NEW s \in Sig, Land(s) PROVE TypeOK'
  <2>1. \A d \in Nat :
          [tx[s] EXCEPT !.status = "ok", !.amount = d, !.found = wallet] \in TxType
    BY <1>t DEF TxType
  <2>2. [tx[s] EXCEPT !.status = "ok", !.found = wallet] \in TxType
    BY <1>t DEF TxType
  <2>3. CASE \E d \in Delivery :
               /\ tx' = [tx EXCEPT ![s].status = "ok", ![s].amount = d,
                                   ![s].found = wallet]
               /\ wallet' = wallet + d
    <3>1. PICK d \in Delivery : /\ tx' = [tx EXCEPT ![s].status = "ok", ![s].amount = d,
                                                    ![s].found = wallet]
                                /\ wallet' = wallet + d
      BY <2>3
    <3>2. d \in Nat
      BY Amounts
    <3>3. tx' = [tx EXCEPT ![s] = [tx[s] EXCEPT !.status = "ok", !.amount = d,
                                                !.found = wallet]]
      BY <1>t, <3>1
    <3>4. tx' \in [Sig -> TxType]
      BY <1>t, <2>1, <3>2, <3>3
    <3>5. wallet' \in Nat
      BY <1>t, <3>1, <3>2
    <3> QED
      BY <1>t, <1>q, <1>8, <3>4, <3>5 DEF Land
  <2>4. CASE /\ tx' = [tx EXCEPT ![s].status = "ok", ![s].found = wallet]
             /\ wallet' = IF tx[s].op \in {"seed", "deposit"}
                            THEN wallet - tx[s].amount ELSE wallet
    <3>1. tx[s].op \in {"seed", "deposit"} => tx[s].amount <= wallet
      BY <1>8 DEF Land, Accepts
    <3>2. tx[s].amount \in Nat
      BY <1>t DEF TxType
    <3>3. tx' \in [Sig -> TxType] /\ wallet' \in Nat
      BY <1>t, <2>2, <2>4, <3>1, <3>2
    <3> QED
      BY <1>t, <1>q, <1>8, <3>3 DEF Land
  <2> QED
    BY <1>8, <2>3, <2>4 DEF Land
<1>9. ASSUME NEW s \in Sig, Drop(s) PROVE TypeOK'
  <2>1. \A r \in {"err", "lost"} : [tx[s] EXCEPT !.status = r] \in TxType
    BY <1>t DEF TxType
  <2> QED
    BY <1>t, <1>q, <1>9, <2>1 DEF Drop
<1>10. CASE UNCHANGED vars
  BY <1>10 DEF vars, TypeOK
<1> QED
  BY <1>1, <1>2, <1>3, <1>4, <1>5, <1>6, <1>7, <1>8, <1>9, <1>10, StepsOfNext

\* Every variable keeps its shape: the wallet does not go below zero, and a
\* record lists the signatures of transactions that were sent.
THEOREM TypeCorrect == Spec => []TypeOK
<1>1. TypeOK /\ Signed /\ [Next]_vars => (TypeOK /\ Signed)'
  BY TypeStep, SignedStep
<1> QED
  BY <1>1, TypeInit, PTL DEF Spec

(***************************************************************************)
(* What a record says has happened.                                        *)
(*                                                                         *)
(* RecordCoherent alone is not inductive: a run carries a record it read   *)
(* long ago, and writes it back with the entry of its own transaction.     *)
(* So the record in every run's memory is coherent too, and from the       *)
(* moment a run has signed, its transaction names the vault of that record *)
(* (or, in a create, is the vault).  A transaction that landed stays as it *)
(* is, which is what lets a stale record remain true.                      *)
(***************************************************************************)

Creates == {"createRanger", "createSlim"}

\* One run: what it holds in memory.
Sound(r, t) ==
  /\ r.op \in Op
  /\ r.gate # "none" <=> r.op \in Creates
  /\ r.gate = "none" \/ r.pc = "writing" => r.rec.state = "valid"
  /\ (r.op = "adaptor" /\ r.pc = "writing") \/ Coherent(r.rec, t)
  /\ r.pc \in {"sent", "confirmed"} =>
       /\ r.sig \in Sig /\ t[r.sig].status # "unsent" /\ t[r.sig].op = r.op
       /\ t[r.sig].vault = IF r.gate = "none" THEN r.rec.vault ELSE r.sig
  /\ r.pc = "confirmed" => t[r.sig].status = "ok"

RecordInv == /\ \A p \in Run : run[p].pc # "idle" => Sound(run[p], tx)
             /\ Coherent(file["ranger"], tx) /\ Coherent(file["slim"], tx)

\* t becomes u: a transaction that was sent keeps its operation and its vault,
\* and one that landed stays landed.
Follows(t, u) ==
  \A s \in Sig : t[s].status # "unsent" =>
    /\ u[s].status # "unsent" /\ u[s].op = t[s].op /\ u[s].vault = t[s].vault
    /\ t[s].status = "ok" => u[s].status = "ok"

\* Coherence and soundness survive what the chain does.
LEMMA StaysCoherent ==
  ASSUME NEW t, NEW u, NEW c \in Content, Follows(t, u), Coherent(c, t)
  PROVE  Coherent(c, u)
BY DEF Follows, Coherent, Content

LEMMA StaysSound ==
  ASSUME NEW t, NEW u, NEW r \in RunType, Follows(t, u), Sound(r, t)
  PROVE  Sound(r, u)
<1>1. r.rec \in Content
  BY DEF RunType
<1>2. Coherent(r.rec, t) => Coherent(r.rec, u)
  BY <1>1, StaysCoherent
<1> QED
  BY <1>2 DEF Sound, Follows

LEMMA ChainFollows ==
  ASSUME TypeOK, [Next]_vars
  PROVE  Follows(tx, tx')
<1> USE DEF Follows
<1>t. tx \in [Sig -> TxType]
  BY DEF TypeOK, TxType
<1>1. ASSUME NEW p \in Run, \/ Begins(p) \/ Deposits(p) \/ Confirm(p)
                            \/ Truncate(p) \/ Close(p) \/ Abandon(p)
      PROVE  Follows(tx, tx')
  <2>1. tx' = tx
    BY <1>1 DEF Begins, Build, Deposits, Confirm, Truncate, Close, Abandon
  <2> QED
    BY <2>1
<1>2. ASSUME NEW p \in Run, Send(p) PROVE Follows(tx, tx')
  <2>1. PICK s \in Sig : tx[s] = Unsent /\ tx' = [tx EXCEPT ![s] = Draft(p, s)]
    BY <1>2 DEF Send
  <2>2. tx[s].status = "unsent"
    BY <2>1 DEF Unsent
  <2> QED
    BY <1>t, <2>1, <2>2
<1>3. ASSUME NEW s \in Sig, Land(s) PROVE Follows(tx, tx')
  <2>1. \/ \E d \in Delivery : tx' = [tx EXCEPT ![s].status = "ok", ![s].amount = d,
                                            ![s].found = wallet]
        \/ tx' = [tx EXCEPT ![s].status = "ok", ![s].found = wallet]
    BY <1>3 DEF Land
  <2>2. /\ \A q \in Sig \ {s} : tx'[q] = tx[q]
        /\ tx'[s].status = "ok" /\ tx'[s].op = tx[s].op /\ tx'[s].vault = tx[s].vault
    <3>1. CASE tx' = [tx EXCEPT ![s].status = "ok", ![s].found = wallet]
      BY <1>t, <3>1 DEF TxType
    <3>2. ASSUME NEW d \in Delivery,
                 tx' = [tx EXCEPT ![s].status = "ok", ![s].amount = d,
                                  ![s].found = wallet]
          PROVE  /\ \A q \in Sig \ {s} : tx'[q] = tx[q]
                 /\ tx'[s].status = "ok" /\ tx'[s].op = tx[s].op
                 /\ tx'[s].vault = tx[s].vault
      <4>1. tx'[s] = [tx[s] EXCEPT !.status = "ok", !.amount = d, !.found = wallet]
        BY <1>t, <3>2
      <4> QED  BY <1>t, <3>2, <4>1 DEF TxType
    <3> QED  BY <2>1, <3>1, <3>2
  <2> QED
    BY <2>2
<1>4. ASSUME NEW s \in Sig, Drop(s) PROVE Follows(tx, tx')
  <2>1. PICK r \in {"err", "lost"} : tx' = [tx EXCEPT ![s].status = r]
    BY <1>4 DEF Drop
  <2>2. tx[s].status = "flight"
    BY <1>4 DEF Drop
  <2> QED
    BY <1>t, <2>1, <2>2 DEF TxType
<1>5. CASE UNCHANGED vars
  BY <1>5 DEF vars
<1> QED
  BY <1>1, <1>2, <1>3, <1>4, <1>5, StepsOfNext

LEMMA RecordStep ==
  ASSUME TypeOK, Signed, RecordInv, [Next]_vars
  PROVE  RecordInv'
<1>t. /\ run \in [Run -> RunType] /\ tx \in [Sig -> TxType]
      /\ file \in [File -> Content]
  BY DEF TypeOK, RunType, TxType, Pc, Gate
<1>f. "ranger" \in File /\ "slim" \in File /\ "adaptors" \in File
  BY DEF File
\* What a step leaves alone keeps its part of the invariant.
<1>k. /\ \A p \in Run : run[p].pc # "idle" => Sound(run[p], tx')
      /\ Coherent(file["ranger"], tx') /\ Coherent(file["slim"], tx')
  BY <1>t, <1>f, ChainFollows, StaysSound, StaysCoherent DEF RecordInv
<1>r. ASSUME NEW p \in Run, NEW r, run' = [run EXCEPT ![p] = r], file' = file,
             r.pc # "idle" => Sound(r, tx')
      PROVE  RecordInv'
  BY <1>t, <1>k, <1>r DEF RecordInv
<1>1. ASSUME NEW p \in Run, Begins(p) PROVE RecordInv'
  <2>1. ASSUME NEW op \in Op, NEW rec \in Content, NEW arg, NEW amount, NEW gate,
               Build(p, op, rec, arg, amount, gate), Coherent(rec, tx),
               gate # "none" <=> op \in Creates,
               gate = "none" => rec.state = "valid"
        PROVE  RecordInv'
    BY <1>r, <2>1 DEF Build, Sound
  <2>2. CASE \E op \in Creates : Build(p, op, Absent, None, 0, CreateGate(Out(op)))
    <3>1. PICK op \in Creates : Build(p, op, Absent, None, 0, CreateGate(Out(op)))
      BY <2>2
    <3>2. Out(op) \in File /\ op \in Op
      BY DEF Creates, Out, File, Op
    <3>3. CreateGate(Out(op)) # "none"
      BY <1>t, <3>2 DEF CreateGate, Content
    <3>4. Coherent(Absent, tx)
      BY DEF Coherent, Absent
    <3> QED
      BY <2>1, <3>1, <3>2, <3>3, <3>4, Constants
  <2>3. CASE \E op \in Op \ {"createRanger", "createSlim", "deposit"},
                arg \in Adaptor \cup {None}, amount \in Nat :
               LET f == IF op \in {"adaptor", "strategy"} THEN "slim" ELSE "ranger"
               IN Readable(f) /\ Build(p, op, file[f], arg, amount, "none")
    <3>1. PICK op \in Op \ Creates, arg \in Adaptor \cup {None}, amount \in Nat,
               f \in {"slim", "ranger"} :
            Readable(f) /\ Build(p, op, file[f], arg, amount, "none")
      BY <2>3 DEF Creates
    <3>2. file[f].state = "valid" /\ Coherent(file[f], tx) /\ file[f] \in Content
      BY <1>t, <1>f, <3>1 DEF Readable, RecordInv
    <3> QED
      BY <2>1, <3>1, <3>2
  <2> QED
    BY <1>1, <2>2, <2>3 DEF Begins, Creates
<1>2. ASSUME NEW p \in Run, Deposits(p) PROVE RecordInv'
  <2> DEFINE r == [run[p] EXCEPT !.pc = "built", !.op = "deposit",
                                 !.swap = run[p].sig, !.amount = wallet]
  <2>1. run' = [run EXCEPT ![p] = r] /\ file' = file
    BY <1>t, <1>2 DEF Deposits
  <2>2. Sound(run[p], tx') /\ run[p].op = "swap"
    BY <1>k, <1>2 DEF Deposits
  <2>3. /\ r.pc = "built" /\ r.op = "deposit"
        /\ r.rec = run[p].rec /\ r.gate = run[p].gate
    BY <1>t DEF RunType
  <2>4. Sound(r, tx')
    BY <2>2, <2>3 DEF Sound, Creates, Op
  <2> QED
    BY <1>r, <2>1, <2>4
<1>3. ASSUME NEW p \in Run, Send(p) PROVE RecordInv'
  <2>1. PICK s \in Sig : /\ tx' = [tx EXCEPT ![s] = Draft(p, s)]
                         /\ run' = [run EXCEPT ![p].pc = "sent", ![p].sig = s]
    BY <1>3 DEF Send
  <2> DEFINE r == [run[p] EXCEPT !.pc = "sent", !.sig = s]
  <2>2. run' = [run EXCEPT ![p] = r] /\ file' = file
    BY <1>t, <1>3, <2>1 DEF Send
  <2>3. Sound(run[p], tx') /\ run[p].pc = "built"
    BY <1>k, <1>3 DEF Send
  <2>4. /\ r.pc = "sent" /\ r.sig = s /\ r.op = run[p].op
        /\ r.rec = run[p].rec /\ r.gate = run[p].gate
    BY <1>t DEF RunType
  <2>5. /\ tx'[s].op = run[p].op /\ tx'[s].status = "flight"
        /\ tx'[s].vault = IF run[p].gate = "none" THEN run[p].rec.vault ELSE s
    BY <1>t, <2>1 DEF Draft
  <2>6. Sound(r, tx')
    BY <2>3, <2>4, <2>5 DEF Sound
  <2> QED
    BY <1>r, <2>2, <2>6
<1>4. ASSUME NEW p \in Run, Confirm(p) PROVE RecordInv'
  <2> DEFINE r == [run[p] EXCEPT !.pc = "confirmed"]
  <2>1. run' = [run EXCEPT ![p] = r] /\ file' = file
    BY <1>t, <1>4 DEF Confirm
  <2>2. /\ Sound(run[p], tx') /\ run[p].pc = "sent"
        /\ tx'[run[p].sig].status = "ok"
    BY <1>k, <1>4 DEF Confirm
  <2>3. /\ r.pc = "confirmed" /\ r.sig = run[p].sig /\ r.op = run[p].op
        /\ r.rec = run[p].rec /\ r.gate = run[p].gate
    BY <1>t DEF RunType
  <2>4. Sound(r, tx')
    BY <2>2, <2>3 DEF Sound
  <2> QED
    BY <1>r, <2>1, <2>4
\* What is about to be written is coherent: the one thing that takes an argument.
<1>5. ASSUME NEW p \in Run, Truncate(p) PROVE RecordInv'
  <2> DEFINE r == [run[p] EXCEPT !.pc = "writing", !.rec = Contents(p)]
  <2>1. run' = [run EXCEPT ![p] = r] /\ tx' = tx
    BY <1>t, <1>5 DEF Truncate
  <2>2. /\ Sound(run[p], tx) /\ run[p].pc = "confirmed" /\ run[p] \in RunType
        /\ run[p].op \in Op \ {"swap", "strategy"}
    BY <1>t, <1>5 DEF Truncate, RecordInv, Sound
  <2>3. /\ r.pc = "writing" /\ r.sig = run[p].sig /\ r.op = run[p].op
        /\ r.rec = Contents(p) /\ r.gate = run[p].gate
    BY <1>t DEF RunType
  <2> HIDE DEF r
  <2>4. /\ run[p].sig \in Sig /\ tx[run[p].sig].status = "ok"
        /\ tx[run[p].sig].op = run[p].op
        /\ tx[run[p].sig].vault = IF run[p].gate = "none" THEN run[p].rec.vault
                                                         ELSE run[p].sig
    BY <2>2 DEF Sound
  <2>5. ASSUME run[p].gate # "none" PROVE Sound(r, tx)
    <3>1. Contents(p) = Record(run[p].sig, {}) /\ run[p].op \in Creates
      BY <2>2, <2>5 DEF Contents, Fresh, Sound, Creates
    <3>2. Coherent(Contents(p), tx)
      BY <2>4, <3>1 DEF Coherent, Record, Creates
    <3> QED
      BY <2>2, <2>3, <2>5, <3>1, <3>2 DEF Sound, Record
  <2>6. ASSUME run[p].gate = "none" /\ run[p].op = "adaptor" PROVE Sound(r, tx)
    <3>1. r.rec.state = "valid"
      BY <2>3, <2>6 DEF Contents, Merged, Record
    <3> QED
      BY <2>2, <2>3, <2>6, <3>1 DEF Sound
  <2>7. ASSUME run[p].gate = "none" /\ run[p].op # "adaptor" PROVE Sound(r, tx)
    <3>1. Contents(p) = [run[p].rec EXCEPT !.log = @ \cup {run[p].sig}]
      BY <2>7 DEF Contents, Pushed
    <3>2. /\ Contents(p).state = run[p].rec.state
          /\ Contents(p).vault = run[p].rec.vault
          /\ Contents(p).log = run[p].rec.log \cup {run[p].sig}
      BY <2>2, <3>1 DEF RunType, Content
    <3>3. Coherent(run[p].rec, tx) /\ run[p].rec.state = "valid"
      BY <2>2, <2>7 DEF Sound
    <3>4. Coherent(Contents(p), tx)
      BY <2>4, <2>7, <3>2, <3>3 DEF Coherent
    <3> QED
      BY <2>2, <2>3, <2>7, <3>2, <3>3, <3>4 DEF Sound
  <2>8. Sound(r, tx)
    BY <2>5, <2>6, <2>7
  <2>9. Coherent(Torn, tx)
    BY DEF Coherent, Torn
  <2>10. \A f \in File : file'[f] = file[f] \/ file'[f] = Torn
    BY <1>t, <1>5 DEF Truncate
  <2>11. file'["ranger"] \in {file["ranger"], Torn} /\ file'["slim"] \in {file["slim"], Torn}
    BY <1>f, <2>10
  <2> QED
    BY <1>t, <2>1, <2>8, <2>9, <2>11 DEF RecordInv
<1>6. ASSUME NEW p \in Run, Close(p) PROVE RecordInv'
  <2>1. tx' = tx /\ run' = [run EXCEPT ![p] = Idle] /\ run[p].pc = "writing"
    BY <1>6 DEF Close
  <2>2. Sound(run[p], tx)
    BY <2>1 DEF RecordInv
  <2>3. Coherent(Torn, tx)
    BY DEF Coherent, Torn
  <2>4. /\ Out(run[p].op) \in {"ranger", "slim"} => run[p].op # "adaptor"
        /\ Out(run[p].op) = "adaptors" \/ Out(run[p].op) \in {"ranger", "slim"}
    BY DEF Out
  <2>5. \A f \in {"ranger", "slim"} : Coherent(file'[f], tx)
    <3>1. TAKE f \in {"ranger", "slim"}
    <3>2. CASE f = Out(run[p].op)
      <4>1. file'[f] = run[p].rec \/ file'[f] = Torn
        BY <1>t, <1>f, <1>6, <3>2 DEF Close
      <4> QED
        BY <2>2, <2>3, <2>4, <3>2, <4>1 DEF Sound
    <3>3. CASE f # Out(run[p].op)
      <4>1. file'[f] = file[f]
        BY <1>t, <1>f, <1>6, <3>3 DEF Close
      <4> QED
        BY <4>1 DEF RecordInv
    <3> QED
      BY <3>2, <3>3
  <2> QED
    BY <1>t, <2>1, <2>5 DEF RecordInv, Idle
<1>7. ASSUME NEW p \in Run, Abandon(p) PROVE RecordInv'
  BY <1>r, <1>7 DEF Abandon, Idle
<1>8. ASSUME UNCHANGED <<run, file>> PROVE RecordInv'
  BY <1>k, <1>8 DEF RecordInv
<1>9. ASSUME NEW s \in Sig, Land(s) \/ Drop(s) PROVE RecordInv'
  BY <1>8, <1>9 DEF Land, Drop
<1>10. CASE UNCHANGED vars
  BY <1>8, <1>10 DEF vars
<1> QED
  BY <1>1, <1>2, <1>3, <1>4, <1>5, <1>6, <1>7, <1>9, <1>10, StepsOfNext

LEMMA RecordInit == Init => RecordInv
BY DEF Init, RecordInv, Idle, Absent, Coherent, File

\* However the scripts overlap and wherever they die, what a vault's record
\* lists has landed, on that vault.
THEOREM RecordsAreCoherent == Spec => []RecordCoherent
<1>1. /\ TypeOK /\ Signed /\ RecordInv /\ [Next]_vars
      => (TypeOK /\ Signed /\ RecordInv)'
  BY TypeStep, SignedStep, RecordStep
<1>2. RecordInv => RecordCoherent
  BY DEF RecordInv, RecordCoherent
<1> QED
  BY <1>1, <1>2, TypeInit, RecordInit, PTL DEF Spec

(***************************************************************************)
(* One script at a time.                                                   *)
(*                                                                         *)
(* Then a file that can be parsed holds what was last written to it, a     *)
(* missing one means that nothing ever was, and the only run under way     *)
(* has in memory what the file still says, or knew of its absence.  A      *)
(* crash in the middle of writeFileSync is what breaks the first of these: *)
(* the torn file no longer names the vault it did.                         *)
(***************************************************************************)

VaultFile == {"ranger", "slim"}

\* The run r under way, where l was last written to the file r writes.
Alone(r, l) ==
  /\ r.gate = "none" /\ r.op # "adaptor" =>
       r.rec.vault = l.vault /\ l.log \subseteq r.rec.log
  /\ r.gate = "absent" => l = Absent
  /\ r.gate # "none" /\ r.pc \in {"sent", "confirmed", "writing"} => r.sig # l.vault
  /\ r.gate # "none" /\ r.pc = "writing" => r.rec.vault = r.sig

SequentialInv ==
  mode # "overlapping" =>
    /\ \A p, q \in Run : run[p].pc # "idle" /\ run[q].pc # "idle" => p = q
    /\ \A f \in VaultFile :
         /\ file[f].state = "valid" => file[f] = last[f]
         /\ file[f].state = "absent" => last[f] = Absent
         /\ last[f].vault # None => tx[last[f].vault].status # "unsent"
    /\ \A p \in Run : run[p].pc # "idle" => Alone(run[p], last[Out(run[p].op)])

LEMMA SequentialInit == Init => SequentialInv
BY DEF Init, SequentialInv, Idle, Absent, VaultFile, File

LEMMA SequentialStep ==
  ASSUME TypeOK, Signed, RecordInv, SequentialInv, [Next]_vars
  PROVE  SequentialInv'
<1>t. /\ run \in [Run -> RunType] /\ tx \in [Sig -> TxType]
      /\ file \in [File -> Content] /\ last \in [File -> Content]
  BY DEF TypeOK, RunType, TxType, Pc, Gate
<1>f. VaultFile \subseteq File /\ \A op \in Op : Out(op) \in File
  BY DEF VaultFile, Out, File
<1>m. mode' = mode
  <2>1. ASSUME NEW p \in Run, \/ Begins(p) \/ Deposits(p) \/ Send(p) \/ Confirm(p)
                              \/ Truncate(p) \/ Close(p) \/ Abandon(p)
        PROVE  mode' = mode
    BY <2>1 DEF Begins, Build, Deposits, Send, Confirm, Truncate, Close, Abandon
  <2>2. ASSUME NEW s \in Sig, Land(s) \/ Drop(s) PROVE mode' = mode
    BY <2>2 DEF Land, Drop
  <2> QED
    BY <2>1, <2>2, StepsOfNext DEF vars
<1> SUFFICES ASSUME mode # "overlapping" PROVE SequentialInv'
  BY <1>m DEF SequentialInv
<1>i. /\ \A p, q \in Run : run[p].pc # "idle" /\ run[q].pc # "idle" => p = q
      /\ \A f \in VaultFile :
           /\ file[f].state = "valid" => file[f] = last[f]
           /\ file[f].state = "absent" => last[f] = Absent
           /\ last[f].vault # None => tx[last[f].vault].status # "unsent"
      /\ \A p \in Run : run[p].pc # "idle" =>
           /\ Alone(run[p], last[Out(run[p].op)]) /\ Sound(run[p], tx)
           /\ run[p] \in RunType /\ run[p].op \in Op
  BY <1>t DEF SequentialInv, RecordInv, Sound
\* Nothing a script wrote is forgotten by the chain.
<1>c. ASSUME last' = last
      PROVE  \A f \in VaultFile :
               last'[f].vault # None => tx'[last'[f].vault].status # "unsent"
  <2>1. TAKE f \in VaultFile
  <2>2. HAVE last'[f].vault # None
  <2>3. last[f].vault \in Sig
    BY <1>t, <1>f, <1>c, <2>2 DEF Content
  <2> QED
    BY <1>i, <1>c, <2>2, <2>3, ChainFollows DEF Follows
\* One run goes on, and writes nothing.
<1>r. ASSUME NEW p \in Run, NEW r, run' = [run EXCEPT ![p] = r],
             file' = file, last' = last,
             r.pc # "idle" => /\ \A q \in Run \ {p} : run[q].pc = "idle"
                              /\ Alone(r, last[Out(r.op)])
      PROVE  SequentialInv'
  <2>1. \A q \in Run \ {p} : run'[q] = run[q]
    BY <1>t, <1>r
  <2>2. run'[p] = r
    BY <1>t, <1>r
  <2> QED
    BY <1>i, <1>c, <1>r, <2>1, <2>2 DEF SequentialInv
<1>o. ASSUME NEW p \in Run, run[p].pc # "idle" PROVE \A q \in Run \ {p} : run[q].pc = "idle"
  BY <1>i, <1>o
<1>1. ASSUME NEW p \in Run, Begins(p) PROVE SequentialInv'
  <2>1. ASSUME NEW op \in Op, NEW rec, NEW arg, NEW amount, NEW gate,
               Build(p, op, rec, arg, amount, gate),
               gate = "none" /\ op # "adaptor" => rec = last[Out(op)],
               gate = "absent" => last[Out(op)] = Absent
        PROVE  SequentialInv'
    <3> DEFINE r == [pc |-> "built", op |-> op, rec |-> rec, arg |-> arg,
                     amount |-> amount, swap |-> None, sig |-> None, gate |-> gate]
    <3>1. /\ run' = [run EXCEPT ![p] = r] /\ file' = file /\ last' = last
          /\ \A q \in Run : run[q].pc = "idle"
      BY <2>1 DEF Build, CanStart
    <3>2. Alone(r, last[Out(r.op)])
      BY <2>1 DEF Alone
    <3> QED
      BY <1>r, <3>1, <3>2
  <2>2. CASE \E op \in Creates : Build(p, op, Absent, None, 0, CreateGate(Out(op)))
    <3>1. PICK op \in Creates : Build(p, op, Absent, None, 0, CreateGate(Out(op)))
      BY <2>2
    <3>2. Out(op) \in VaultFile /\ op \in Op
      BY DEF Creates, Out, VaultFile, Op
    <3>3. /\ CreateGate(Out(op)) # "none"
          /\ CreateGate(Out(op)) = "absent" => last[Out(op)] = Absent
      BY <1>t, <1>f, <1>i, <3>2 DEF CreateGate, Content
    <3> QED
      BY <2>1, <3>1, <3>2, <3>3
  <2>3. CASE \E op \in Op \ {"createRanger", "createSlim", "deposit"},
                arg \in Adaptor \cup {None}, amount \in Nat :
               LET f == IF op \in {"adaptor", "strategy"} THEN "slim" ELSE "ranger"
               IN Readable(f) /\ Build(p, op, file[f], arg, amount, "none")
    <3>1. PICK op \in Op \ {"createRanger", "createSlim", "deposit"},
               arg \in Adaptor \cup {None}, amount \in Nat :
            LET f == IF op \in {"adaptor", "strategy"} THEN "slim" ELSE "ranger"
            IN Readable(f) /\ Build(p, op, file[f], arg, amount, "none")
      BY <2>3
    <3> DEFINE f == IF op \in {"adaptor", "strategy"} THEN "slim" ELSE "ranger"
    <3>2. file[f] = last[f]
      BY <1>i, <3>1 DEF Readable, VaultFile
    <3>3. op # "adaptor" => Out(op) = f
      BY DEF Out
    <3> QED
      BY <2>1, <3>1, <3>2, <3>3
  <2> QED
    BY <1>1, <2>2, <2>3 DEF Begins, Creates
<1>2. ASSUME NEW p \in Run, Deposits(p) PROVE SequentialInv'
  <2> DEFINE r == [run[p] EXCEPT !.pc = "built", !.op = "deposit",
                                 !.swap = run[p].sig, !.amount = wallet]
  <2>1. run' = [run EXCEPT ![p] = r] /\ file' = file /\ last' = last
    BY <1>t, <1>2 DEF Deposits
  <2>2. /\ run[p].op = "swap" /\ run[p].pc # "idle"
        /\ Alone(run[p], last[Out(run[p].op)])
    BY <1>i, <1>2 DEF Deposits
  <2>3. /\ r.pc = "built" /\ r.op = "deposit"
        /\ r.rec = run[p].rec /\ r.gate = run[p].gate
    BY <1>t DEF RunType
  <2>4. Out(r.op) = "ranger" /\ Out(run[p].op) = "ranger"
    BY <2>2, <2>3 DEF Out
  <2>5. Alone(r, last[Out(r.op)])
    BY <2>2, <2>3, <2>4 DEF Alone
  <2> QED
    BY <1>r, <1>o, <2>1, <2>2, <2>5
<1>3. ASSUME NEW p \in Run, Send(p) PROVE SequentialInv'
  <2>1. PICK s \in Sig : /\ tx[s] = Unsent
                         /\ run' = [run EXCEPT ![p].pc = "sent", ![p].sig = s]
    BY <1>3 DEF Send
  <2> DEFINE r == [run[p] EXCEPT !.pc = "sent", !.sig = s]
  <2>2. run' = [run EXCEPT ![p] = r] /\ file' = file /\ last' = last
    BY <1>t, <1>3, <2>1 DEF Send
  <2>3. /\ run[p].pc # "idle" /\ Sound(run[p], tx)
        /\ Alone(run[p], last[Out(run[p].op)])
    BY <1>i, <1>3 DEF Send
  <2>4. /\ r.pc = "sent" /\ r.sig = s /\ r.op = run[p].op
        /\ r.rec = run[p].rec /\ r.gate = run[p].gate
    BY <1>t DEF RunType
  <2>5. run[p].gate # "none" => Out(run[p].op) \in VaultFile
    BY <2>3 DEF Sound, Creates, Out, VaultFile
  <2>6. s # None /\ (run[p].gate # "none" => s # last[Out(run[p].op)].vault)
    BY <1>i, <2>1, <2>5, NoneIsNone DEF Unsent
  <2>7. Alone(r, last[Out(r.op)])
    BY <2>3, <2>4, <2>6 DEF Alone
  <2> QED
    BY <1>r, <1>o, <2>2, <2>3, <2>7
<1>4. ASSUME NEW p \in Run, Confirm(p) PROVE SequentialInv'
  <2> DEFINE r == [run[p] EXCEPT !.pc = "confirmed"]
  <2>1. run' = [run EXCEPT ![p] = r] /\ file' = file /\ last' = last
    BY <1>t, <1>4 DEF Confirm
  <2>2. run[p].pc = "sent" /\ Alone(run[p], last[Out(run[p].op)])
    BY <1>i, <1>4 DEF Confirm
  <2>3. /\ r.pc = "confirmed" /\ r.sig = run[p].sig /\ r.op = run[p].op
        /\ r.rec = run[p].rec /\ r.gate = run[p].gate
    BY <1>t DEF RunType
  <2>4. Alone(r, last[Out(r.op)])
    BY <2>2, <2>3 DEF Alone
  <2> QED
    BY <1>r, <1>o, <2>1, <2>2, <2>4
<1>5. ASSUME NEW p \in Run, Truncate(p) PROVE SequentialInv'
  <2> DEFINE r == [run[p] EXCEPT !.pc = "writing", !.rec = Contents(p)]
  <2>1. /\ run' = [run EXCEPT ![p] = r] /\ last' = last
        /\ \A f \in File : file'[f] = file[f] \/ file'[f] = Torn
    BY <1>t, <1>5 DEF Truncate
  <2>2. /\ run[p].pc = "confirmed" /\ Sound(run[p], tx)
        /\ Alone(run[p], last[Out(run[p].op)]) /\ run[p] \in RunType
    BY <1>i, <1>5 DEF Truncate
  <2>3. /\ r.pc = "writing" /\ r.sig = run[p].sig /\ r.op = run[p].op
        /\ r.rec = Contents(p) /\ r.gate = run[p].gate
    BY <1>t DEF RunType
  <2> HIDE DEF r
  <2>4. run[p].gate # "none" => Contents(p).vault = run[p].sig
    BY <2>2 DEF Contents, Fresh, Record, Sound, Creates
  <2>5. run[p].gate = "none" /\ run[p].op # "adaptor" =>
          /\ Contents(p).vault = run[p].rec.vault
          /\ run[p].rec.log \subseteq Contents(p).log
    BY <2>2 DEF Contents, Pushed, RunType, Content
  <2>6. Alone(r, last[Out(r.op)])
    BY <2>2, <2>3, <2>4, <2>5 DEF Alone
  <2>7. \A q \in Run : run'[q] = IF q = p THEN r ELSE run[q]
    BY <1>t, <2>1
  <2>8. Torn.state # "valid" /\ Torn.state # "absent"
    BY DEF Torn
  <2>9. \A f \in VaultFile : /\ file'[f].state = "valid" => file'[f] = last'[f]
                             /\ file'[f].state = "absent" => last'[f] = Absent
    BY <1>i, <1>f, <2>1, <2>8
  <2>10. \A q \in Run \ {p} : run[q].pc = "idle"
    BY <1>o, <2>2
  <2> QED
    BY <1>c, <2>1, <2>6, <2>7, <2>9, <2>10 DEF SequentialInv
<1>6. ASSUME NEW p \in Run, Close(p) PROVE SequentialInv'
  <2>1. tx' = tx /\ run' = [run EXCEPT ![p] = Idle] /\ run[p].pc = "writing"
    BY <1>6 DEF Close
  <2>2. Sound(run[p], tx) /\ run[p] \in RunType
    BY <1>i, <2>1
  <2>3. \A q \in Run : run'[q].pc = "idle"
    BY <1>t, <1>o, <2>1 DEF Idle
  <2>4. Torn.state # "valid" /\ Torn.state # "absent"
    BY DEF Torn
  <2>5. ASSUME NEW f \in VaultFile
        PROVE  /\ file'[f].state = "valid" => file'[f] = last'[f]
               /\ file'[f].state = "absent" => last'[f] = Absent
               /\ last'[f].vault # None => tx'[last'[f].vault].status # "unsent"
    <3>1. \/ file'[f] = file[f] /\ last'[f] = last[f]
          \/ file'[f] = Torn /\ last'[f] = last[f]
          \/ file'[f] = run[p].rec /\ last'[f] = run[p].rec /\ f = Out(run[p].op)
      BY <1>t, <1>f, <1>6 DEF Close
    <3>2. CASE last'[f] = last[f] /\ (file'[f] = file[f] \/ file'[f] = Torn)
      BY <1>i, <2>1, <2>4, <3>2
    <3>3. CASE file'[f] = run[p].rec /\ last'[f] = run[p].rec /\ f = Out(run[p].op)
      <4>1. run[p].op # "adaptor"
        BY <3>3 DEF Out, VaultFile
      <4>2. Coherent(run[p].rec, tx)
        BY <2>2, <4>1 DEF Sound
      <4>3. run[p].rec.state = "valid"
        BY <2>1, <2>2 DEF Sound
      <4> QED
        BY <2>1, <3>3, <4>2, <4>3 DEF Coherent
    <3> QED
      BY <3>1, <3>2, <3>3
  <2> QED
    BY <2>3, <2>5 DEF SequentialInv
<1>7. ASSUME NEW p \in Run, Abandon(p) PROVE SequentialInv'
  BY <1>r, <1>7 DEF Abandon, Idle
<1>8. ASSUME NEW s \in Sig, Land(s) \/ Drop(s) PROVE SequentialInv'
  <2>1. UNCHANGED <<run, file, last>>
    BY <1>8 DEF Land, Drop
  <2> QED
    BY <1>i, <1>c, <2>1 DEF SequentialInv
<1>9. CASE UNCHANGED vars
  <2>1. UNCHANGED <<run, file, last>>
    BY <1>9 DEF vars
  <2> QED
    BY <1>i, <1>c, <2>1 DEF SequentialInv
<1> QED
  BY <1>1, <1>2, <1>3, <1>4, <1>5, <1>6, <1>7, <1>8, <1>9, StepsOfNext

\* What Close does to the record of a vault, in the only run under way.
LEMMA WritesOwn ==
  ASSUME TypeOK, Signed, RecordInv, SequentialInv, mode # "overlapping",
         [Next]_vars, NEW f \in VaultFile, last'[f] # last[f]
  PROVE  \E p \in Run : /\ run[p].pc = "writing" /\ last'[f] = run[p].rec
                        /\ run[p].op # "adaptor" /\ Alone(run[p], last[f])
                        /\ run[p].gate \in Gate
                        /\ \A q \in Run \ {p} : run[q].pc = "idle"
<1>t. /\ run \in [Run -> RunType] /\ last \in [File -> Content] /\ f \in File
  BY DEF TypeOK, RunType, Pc, Gate, VaultFile, File
<1>1. PICK p \in Run : Close(p)
  <2>1. ASSUME NEW p \in Run, \/ Begins(p) \/ Deposits(p) \/ Send(p) \/ Confirm(p)
                              \/ Truncate(p) \/ Abandon(p)
        PROVE  last' = last
    BY <2>1 DEF Begins, Build, Deposits, Send, Confirm, Truncate, Abandon
  <2>2. ASSUME NEW s \in Sig, Land(s) \/ Drop(s) PROVE last' = last
    BY <2>2 DEF Land, Drop
  <2> QED
    BY <2>1, <2>2, StepsOfNext DEF vars
<1>2. run[p].pc = "writing" /\ last'[f] = run[p].rec /\ f = Out(run[p].op)
  BY <1>t, <1>1 DEF Close
<1>3. run[p].op # "adaptor"
  BY <1>2 DEF Out, VaultFile
<1>4. /\ Alone(run[p], last[f]) /\ run[p].gate \in Gate
      /\ \A q \in Run \ {p} : run[q].pc = "idle"
  BY <1>t, <1>2 DEF SequentialInv, RunType
<1> QED
  BY <1>2, <1>3, <1>4

\* A create that began before its vault was recorded cannot finish after it:
\* without FORCE or a crash in the middle of a write, the file keeps its vault.
THEOREM OrphansAreAcknowledged == Spec => OrphanNeedsAck
<1> DEFINE Inv == TypeOK /\ Signed /\ RecordInv /\ SequentialInv
           Kept == mode # "overlapping" => \A f \in {"ranger", "slim"}, p \in Run :
                     Replaces(p, f) => run[p].gate \in {"forced", "torn"}
<1>1. Init => Inv
  BY TypeInit, RecordInit, SequentialInit
<1>2. Inv /\ [Next]_vars => Inv'
  BY TypeStep, SignedStep, RecordStep, SequentialStep
<1>3. ASSUME Inv, [Next]_vars, mode # "overlapping", NEW f \in VaultFile, NEW p \in Run,
             Replaces(p, f)
      PROVE  run[p].gate \in {"forced", "torn"}
  <2>1. last[f].vault # None /\ last'[f].vault # last[f].vault /\ run[p].pc = "writing"
    BY <1>3 DEF Replaces
  <2>2. /\ last'[f] = run[p].rec /\ run[p].op # "adaptor"
        /\ Alone(run[p], last[f]) /\ run[p].gate \in Gate
    BY <1>3, <2>1, WritesOwn
  <2>3. last[f] # Absent
    BY <2>1 DEF Absent
  <2> QED
    BY <2>1, <2>2, <2>3 DEF Alone, Gate
<1>4. Inv /\ [Next]_vars => [Kept]_vars
  BY <1>3 DEF VaultFile
<1> QED
  BY <1>1, <1>2, <1>4, PTL DEF Spec, OrphanNeedsAck

\* What a script read before its transaction is still what the file holds after
\* the confirmation, so the entry it adds is added to every entry there.
THEOREM EntriesAreKept == Spec => EntriesKept
<1> DEFINE Inv == TypeOK /\ Signed /\ RecordInv /\ SequentialInv
           Kept == mode # "overlapping" =>
                     (last'["ranger"].vault = last["ranger"].vault
                        => last["ranger"].log \subseteq last'["ranger"].log)
<1>1. Init => Inv
  BY TypeInit, RecordInit, SequentialInit
<1>2. Inv /\ [Next]_vars => Inv'
  BY TypeStep, SignedStep, RecordStep, SequentialStep
<1>3. ASSUME Inv, [Next]_vars, mode # "overlapping", last'["ranger"] # last["ranger"],
             last'["ranger"].vault = last["ranger"].vault
      PROVE  last["ranger"].log \subseteq last'["ranger"].log
  <2>1. PICK p \in Run : /\ run[p].pc = "writing" /\ last'["ranger"] = run[p].rec
                         /\ run[p].op # "adaptor" /\ Alone(run[p], last["ranger"])
                         /\ run[p].gate \in Gate
    BY <1>3, WritesOwn DEF VaultFile
  <2>2. CASE run[p].gate = "none"
    BY <2>1, <2>2 DEF Alone
  <2>3. CASE run[p].gate = "absent"
    BY <2>1, <2>3 DEF Alone, Absent
  <2>4. run[p].gate \notin {"torn", "forced"}
    BY <1>3, <2>1 DEF Alone
  <2> QED
    BY <2>1, <2>2, <2>3, <2>4 DEF Gate
<1>4. Inv /\ [Next]_vars => [Kept]_vars
  BY <1>3
<1> QED
  BY <1>1, <1>2, <1>4, PTL DEF Spec, EntriesKept

(***************************************************************************)
(* Routing revenue with nothing left in flight.                            *)
(***************************************************************************)

\* What the account holds once the swap s has landed.
After(t, s) == t[s].found + t[s].amount

Accounts(n, s) == s \in Sig /\ tx[s].status = "ok" /\ n = After(tx, s)

SettledInv ==
  mode = "settled" =>
    /\ \A p \in Run : run[p].pc # "idle" =>
         /\ \A s \in Sig : tx[s].status = "flight" => run[p].pc = "sent" /\ s = run[p].sig
         /\ run[p].op = "swap" /\ run[p].pc \in {"sent", "confirmed"}
              /\ tx[run[p].sig].status = "ok" => wallet = After(tx, run[p].sig)
         /\ run[p].op = "deposit" => Accounts(run[p].amount, run[p].swap)
    /\ \A s \in Sig : tx[s].op = "deposit" => Accounts(tx[s].amount, tx[s].swap)

LEMMA SettledInit == Init => SettledInv
BY DEF Init, SettledInv, Idle, Unsent

LEMMA SettledStep ==
  ASSUME TypeOK, Signed, RecordInv, SequentialInv, SettledInv, [Next]_vars
  PROVE  SettledInv'
<1>t. /\ run \in [Run -> RunType] /\ tx \in [Sig -> TxType] /\ wallet \in Nat
  BY DEF TypeOK, RunType, TxType, Pc, Gate
<1>m. mode' = mode
  <2>1. ASSUME NEW p \in Run, \/ Begins(p) \/ Deposits(p) \/ Send(p) \/ Confirm(p)
                              \/ Truncate(p) \/ Close(p) \/ Abandon(p)
        PROVE  mode' = mode
    BY <2>1 DEF Begins, Build, Deposits, Send, Confirm, Truncate, Close, Abandon
  <2>2. ASSUME NEW s \in Sig, Land(s) \/ Drop(s) PROVE mode' = mode
    BY <2>2 DEF Land, Drop
  <2> QED
    BY <2>1, <2>2, StepsOfNext DEF vars
<1> SUFFICES ASSUME mode = "settled" PROVE SettledInv'
  BY <1>m DEF SettledInv
<1> DEFINE Fine(r, t, w) ==
      r.pc # "idle" =>
         /\ \A s \in Sig : t[s].status = "flight" => r.pc = "sent" /\ s = r.sig
         /\ r.op = "swap" /\ r.pc \in {"sent", "confirmed"}
              /\ t[r.sig].status = "ok" => w = After(t, r.sig)
         /\ r.op = "deposit" =>
              r.swap \in Sig /\ t[r.swap].status = "ok" /\ r.amount = After(t, r.swap)
    Paid(t) == \A s \in Sig : t[s].op = "deposit" =>
      t[s].swap \in Sig /\ t[t[s].swap].status = "ok" /\ t[s].amount = After(t, t[s].swap)
<1>i. /\ \A p \in Run : Fine(run[p], tx, wallet)
      /\ Paid(tx)
      /\ \A p, q \in Run : run[p].pc # "idle" /\ run[q].pc # "idle" => p = q
      /\ \A p \in Run : run[p].pc # "idle" => Sound(run[p], tx)
  BY DEF SettledInv, SequentialInv, RecordInv, Accounts
<1>q. (\A p \in Run : Fine(run'[p], tx', wallet')) /\ Paid(tx') => SettledInv'
  BY DEF SettledInv, Accounts
<1> HIDE DEF Fine, Paid
<1>r. ASSUME NEW p \in Run, NEW r, run' = [run EXCEPT ![p] = r], tx' = tx,
             wallet' = wallet, Fine(r, tx, wallet)
      PROVE  SettledInv'
  BY <1>t, <1>i, <1>q, <1>r
<1>1. ASSUME NEW p \in Run, Begins(p) PROVE SettledInv'
  <2>1. ASSUME NEW op, NEW rec, NEW arg, NEW amount, NEW gate,
               Build(p, op, rec, arg, amount, gate), op # "deposit"
        PROVE  SettledInv'
    <3> DEFINE r == [pc |-> "built", op |-> op, rec |-> rec, arg |-> arg,
                     amount |-> amount, swap |-> None, sig |-> None, gate |-> gate]
    <3>1. /\ run' = [run EXCEPT ![p] = r] /\ tx' = tx /\ wallet' = wallet
          /\ \A s \in Sig : tx[s].status # "flight"
      BY <2>1 DEF Build, CanStart
    <3>2. Fine(r, tx, wallet)
      BY <2>1, <3>1 DEF Fine
    <3> QED
      BY <1>r, <3>1, <3>2
  <2> QED
    BY <1>1, <2>1 DEF Begins
<1>2. ASSUME NEW p \in Run, Deposits(p) PROVE SettledInv'
  <2> DEFINE r == [run[p] EXCEPT !.pc = "built", !.op = "deposit",
                                 !.swap = run[p].sig, !.amount = wallet]
  <2>1. run' = [run EXCEPT ![p] = r] /\ tx' = tx /\ wallet' = wallet
    BY <1>t, <1>2 DEF Deposits
  <2>2. run[p].op = "swap" /\ run[p].pc = "confirmed" /\ Fine(run[p], tx, wallet)
    BY <1>i, <1>2 DEF Deposits
  <2>3. run[p].sig \in Sig /\ tx[run[p].sig].status = "ok"
    BY <1>i, <2>2 DEF Sound
  <2>4. /\ r.pc = "built" /\ r.op = "deposit" /\ r.swap = run[p].sig
        /\ r.amount = wallet
    BY <1>t DEF RunType
  <2> HIDE DEF r
  <2>5. Fine(r, tx, wallet)
    BY <2>2, <2>3, <2>4 DEF Fine
  <2> QED
    BY <1>r, <2>1, <2>5
<1>3. ASSUME NEW p \in Run, Send(p) PROVE SettledInv'
  <2>1. PICK s \in Sig : /\ tx[s] = Unsent /\ tx' = [tx EXCEPT ![s] = Draft(p, s)]
                         /\ run' = [run EXCEPT ![p].pc = "sent", ![p].sig = s]
    BY <1>3 DEF Send
  <2>2. run[p].pc = "built" /\ wallet' = wallet
    BY <1>3 DEF Send
  <2> DEFINE r == [run[p] EXCEPT !.pc = "sent", !.sig = s]
  <2>3. \A q \in Run : run'[q] = IF q = p THEN r ELSE run[q]
    BY <1>t, <2>1
  <2>4. /\ r.pc = "sent" /\ r.sig = s /\ r.op = run[p].op
        /\ r.swap = run[p].swap /\ r.amount = run[p].amount
    BY <1>t DEF RunType
  <2> HIDE DEF r
  <2>5. /\ tx'[s].op = run[p].op /\ tx'[s].swap = run[p].swap
        /\ tx'[s].amount = run[p].amount /\ tx'[s].status = "flight"
        /\ \A u \in Sig \ {s} : tx'[u] = tx[u]
    BY <1>t, <2>1 DEF Draft
  <2>6. tx[s].status = "unsent"
    BY <2>1 DEF Unsent
  <2>7. Fine(run[p], tx, wallet)
    BY <1>i
  <2>8. Fine(r, tx', wallet')
    BY <2>2, <2>4, <2>5, <2>6, <2>7 DEF Fine, After
  <2>9. \A q \in Run \ {p} : run[q].pc = "idle"
    BY <1>i, <2>2
  <2>10. Paid(tx')
    BY <1>i, <2>2, <2>5, <2>6, <2>7 DEF Paid, Fine, After
  <2>11. \A q \in Run : Fine(run'[q], tx', wallet')
    BY <2>3, <2>8, <2>9 DEF Fine
  <2> QED
    BY <1>q, <2>10, <2>11
<1>4. ASSUME NEW p \in Run, Confirm(p) PROVE SettledInv'
  <2> DEFINE r == [run[p] EXCEPT !.pc = "confirmed"]
  <2>1. run' = [run EXCEPT ![p] = r] /\ tx' = tx /\ wallet' = wallet
    BY <1>t, <1>4 DEF Confirm
  <2>2. /\ run[p].pc = "sent" /\ tx[run[p].sig].status = "ok" /\ Fine(run[p], tx, wallet)
    BY <1>i, <1>4 DEF Confirm
  <2>3. /\ r.pc = "confirmed" /\ r.sig = run[p].sig /\ r.op = run[p].op
        /\ r.swap = run[p].swap /\ r.amount = run[p].amount
    BY <1>t DEF RunType
  <2> HIDE DEF r
  <2>4. Fine(r, tx, wallet)
    BY <2>2, <2>3 DEF Fine
  <2> QED
    BY <1>r, <2>1, <2>4
<1>5. ASSUME NEW p \in Run, Truncate(p) PROVE SettledInv'
  <2> DEFINE r == [run[p] EXCEPT !.pc = "writing", !.rec = Contents(p)]
  <2>1. run' = [run EXCEPT ![p] = r] /\ tx' = tx /\ wallet' = wallet
    BY <1>t, <1>5 DEF Truncate
  <2>2. run[p].pc = "confirmed" /\ Fine(run[p], tx, wallet)
    BY <1>i, <1>5 DEF Truncate
  <2>3. /\ r.pc = "writing" /\ r.sig = run[p].sig /\ r.op = run[p].op
        /\ r.swap = run[p].swap /\ r.amount = run[p].amount
    BY <1>t DEF RunType
  <2> HIDE DEF r
  <2>4. Fine(r, tx, wallet)
    BY <2>2, <2>3 DEF Fine
  <2> QED
    BY <1>r, <2>1, <2>4
<1>6. ASSUME NEW p \in Run, Close(p) \/ Abandon(p) PROVE SettledInv'
  <2>1. run' = [run EXCEPT ![p] = Idle] /\ tx' = tx /\ wallet' = wallet
    BY <1>6 DEF Close, Abandon
  <2>2. Fine(Idle, tx, wallet)
    BY DEF Fine, Idle
  <2> QED
    BY <1>r, <2>1, <2>2
\* The one transaction in flight is the one the run under way has sent.
<1>7. ASSUME NEW s \in Sig, Land(s) PROVE SettledInv'
  <2>1. run' = run /\ tx[s].status = "flight"
    BY <1>7 DEF Land
  <2>2. /\ \A u \in Sig \ {s} : tx'[u] = tx[u]
        /\ tx'[s].status = "ok" /\ tx'[s].op = tx[s].op /\ tx'[s].swap = tx[s].swap
        /\ tx[s].op # "swap" => tx'[s].amount = tx[s].amount
        /\ tx[s].op = "swap" => wallet' = After(tx', s)
    <3>1. CASE tx[s].op = "swap"
      <4>1. PICK d \in Delivery : /\ tx' = [tx EXCEPT ![s].status = "ok", ![s].amount = d,
                                                      ![s].found = wallet]
                                  /\ wallet' = wallet + d
        BY <1>7, <3>1 DEF Land
      <4>2. d \in Nat
        BY Amounts
      <4>3. tx'[s].amount = d /\ tx'[s].found = wallet /\ wallet' = wallet + d
        BY <1>t, <4>1, <4>2 DEF TxType
      <4>4. wallet' = After(tx', s)
        BY <4>3 DEF After
      <4>5. /\ \A u \in Sig \ {s} : tx'[u] = tx[u]
            /\ tx'[s].status = "ok" /\ tx'[s].op = tx[s].op /\ tx'[s].swap = tx[s].swap
        BY <1>t, <4>1 DEF TxType
      <4> QED
        BY <3>1, <4>4, <4>5
    <3>2. CASE tx[s].op # "swap"
      <4>1. tx' = [tx EXCEPT ![s].status = "ok", ![s].found = wallet]
        BY <1>7, <3>2 DEF Land
      <4> QED
        BY <1>t, <3>2, <4>1 DEF TxType
    <3> QED
      BY <3>1, <3>2
  <2>3. Paid(tx')
    <3>1. SUFFICES ASSUME NEW u \in Sig, tx'[u].op = "deposit"
                   PROVE  /\ tx'[u].swap \in Sig /\ tx'[tx'[u].swap].status = "ok"
                          /\ tx'[u].amount = After(tx', tx'[u].swap)
      BY DEF Paid
    <3>2. /\ tx[u].op = "deposit" /\ tx'[u].swap = tx[u].swap
          /\ tx'[u].amount = tx[u].amount
      BY <2>2, <3>1
    <3>3. /\ tx[u].swap \in Sig \ {s} /\ tx[tx[u].swap].status = "ok"
          /\ tx[u].amount = After(tx, tx[u].swap)
      BY <1>i, <2>1, <3>2 DEF Paid
    <3> QED
      BY <2>2, <3>2, <3>3 DEF After
  <2>4. ASSUME NEW p \in Run PROVE Fine(run'[p], tx', wallet')
    <3>1. CASE run[p].pc = "idle"
      BY <2>1, <3>1 DEF Fine
    <3>2. CASE run[p].pc # "idle"
      <4>1. /\ Fine(run[p], tx, wallet) /\ run[p].pc = "sent" /\ run[p].sig = s
            /\ tx[s].op = run[p].op
        BY <1>i, <2>1, <3>2 DEF Fine, Sound
      <4>2. \A u \in Sig : tx'[u].status # "flight"
        BY <2>2, <3>2, <4>1 DEF Fine
      <4>3. run[p].op = "deposit" =>
              /\ run[p].swap \in Sig \ {s} /\ tx[run[p].swap].status = "ok"
              /\ run[p].amount = After(tx, run[p].swap)
        BY <2>1, <3>2, <4>1 DEF Fine
      <4> QED
        BY <2>1, <2>2, <4>1, <4>2, <4>3 DEF Fine, After
    <3> QED
      BY <3>1, <3>2
  <2> QED
    BY <1>q, <2>3, <2>4
<1>8. ASSUME NEW s \in Sig, Drop(s) PROVE SettledInv'
  <2>1. /\ run' = run /\ wallet' = wallet /\ tx[s].status = "flight"
        /\ \E r \in {"err", "lost"} : tx' = [tx EXCEPT ![s].status = r]
    BY <1>8 DEF Drop
  <2>2. /\ \A u \in Sig \ {s} : tx'[u] = tx[u]
        /\ tx'[s].status \notin {"ok", "flight"} /\ tx'[s].op = tx[s].op
        /\ tx'[s].swap = tx[s].swap /\ tx'[s].amount = tx[s].amount
    BY <1>t, <2>1 DEF TxType
  <2>3. Paid(tx')
    BY <1>i, <2>1, <2>2 DEF Paid, After
  <2>4. ASSUME NEW p \in Run PROVE Fine(run'[p], tx', wallet')
    <3>1. Fine(run[p], tx, wallet) /\ (run[p].pc # "idle" => Sound(run[p], tx))
      BY <1>i
    <3> QED
      BY <2>1, <2>2, <3>1 DEF Fine, Sound, After
  <2> QED
    BY <1>q, <2>3, <2>4
<1>9. CASE UNCHANGED vars
  BY <1>9, <1>i, <1>q DEF vars
<1> QED
  BY <1>1, <1>2, <1>3, <1>4, <1>5, <1>6, <1>7, <1>8, <1>9, StepsOfNext

\* With every transaction settled before the next script starts, a routing
\* deposits what its swap found in the creator's account and what it delivered
\* (the balance read before phase 2 of routeRevenue), whatever else was sent.
THEOREM DepositsAreAccounted == Spec => []DepositAccounted
<1> DEFINE Inv == TypeOK /\ Signed /\ RecordInv /\ SequentialInv /\ SettledInv
<1>1. Init => Inv
  BY TypeInit, RecordInit, SequentialInit, SettledInit
<1>2. Inv /\ [Next]_vars => Inv'
  BY TypeStep, SignedStep, RecordStep, SequentialStep, SettledStep
<1>3. SettledInv => DepositAccounted
  BY DEF SettledInv, DepositAccounted, Accounts, After
<1> QED
  BY <1>1, <1>2, <1>3, PTL DEF Spec

=============================================================================
