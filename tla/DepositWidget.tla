---------------------------- MODULE DepositWidget ----------------------------
(***************************************************************************)
(* The deposit and withdrawal widget of the vault page, the position       *)
(* ledger it keeps in localStorage, and the vault program as far as the    *)
(* widget talks to it.                                                     *)
(*                                                                         *)
(* A click starts an operation: it builds a transaction, asks the wallet   *)
(* to sign, sends, waits for the confirmation and then books the result.   *)
(* Everything after an await runs on what the click captured, while the    *)
(* page goes on: `step` belongs to the page and not to the operation, the  *)
(* mode tabs reset it at any time, and the receipt that decides what the   *)
(* withdraw button does is polled.                                         *)
(*                                                                         *)
(* A deposit is an amount of assets, everything else one of shares.  The   *)
(* program mints at its rate of the moment; the browser's tally books an   *)
(* estimate, from a NAV it fetches after the confirmation.  Units are fine *)
(* enough for both to be whole.                                            *)
(***************************************************************************)
EXTENDS Integers, FiniteSets

CONSTANTS
  Wallet,        \* wallets the user connects
  Slot,          \* operations that may be under way, abandoned ones included
  Amount,        \* what the amount field may hold
  Rates,         \* shares for a unit of assets, minted or estimated
  Par,           \* the rate at a NAV of 1
  MaxShares,     \* BOUND: who has or has booked as much deposits no more
  AdminSets,     \* the periods updateRangerWaitingPeriod may set meanwhile
  Wanders,       \* whether the user does other things than withdrawing
  None

ASSUME WidgetAssumption ==
  /\ Amount \cup Rates \cup {Par} \subseteq Nat \ {0} /\ MaxShares \in Nat
  /\ None \notin Wallet /\ None \notin [amt : Nat, left : {0, 1}]
  /\ IsFiniteSet(Slot) /\ Wanders \in BOOLEAN /\ AdminSets \subseteq {0, 1}

VARIABLES
  shares, receipt,          \* on chain, by wallet
  period,                   \* on chain: the vault's waiting period, in ticks
  pub,                      \* the connected wallet
  mode, step,               \* the page
  cfg,                      \* waitingPeriodSeconds as fetched on mount
  shown,                    \* withdrawRequest, with the wallet it was read for
  poll,                     \* a receipt request whose answer is under way
  slot,                     \* the operations
  ledger,                   \* the position ledger, by wallet
  off,                      \* history: what the estimates of its deposits
                            \* were off by
  clean                     \* history: no fault has touched this wallet
chain == <<shares, receipt, period>>
page == <<pub, mode, cfg, shown, poll>>
books == <<ledger, off>>
vars == <<chain, page, step, slot, books, clean>>

Kind == {"deposit", "instant", "request", "claim", "cancel"}
DoneStep == [k \in Kind |->
  CASE k = "deposit" -> "done_deposit" [] k = "instant" -> "done_withdraw"
    [] k = "request" -> "done_request" [] k = "claim" -> "done_claim"
    [] k = "cancel" -> "done_cancel"]
Busy == {"building", "signing", "confirming"}
Free == [pc |-> "idle", kind |-> "deposit", w |-> None, amt |-> 0, tx |-> "none",
         got |-> 0]
\* What is left of an operation: nothing once it is over and nothing is out.
Left(o) == IF o.pc = "idle" /\ o.tx # "flight" THEN Free ELSE o
Loading == -1
Failed == -2
Waiting == {Loading, Failed}   \* what cfg holds for a null

\* The account of the estimates of a wallet ends with the first fault.
KeepOff == off' = [w \in Wallet |-> IF clean'[w] THEN off[w] ELSE 0]

-----------------------------------------------------------------------------
(* The vault program, and the fate of a transaction.                       *)

\* A deposit may be refused for what the wallet has, the vault's cap or dust:
\* then it is a Throw or a Drop.
Accepts(k, w, n) ==
  CASE k = "deposit" -> TRUE
    [] k = "instant" -> period = 0 /\ n <= shares[w]
    [] k = "request" -> receipt[w] = None /\ n <= shares[w]
    [] k = "claim"   -> receipt[w] # None /\ receipt[w].left = 0
    [] k = "cancel"  -> receipt[w] # None

\* The shares the program mints: at its own NAV, less the issuance fee.
Minted(o) == IF o.kind = "deposit" THEN {o.amt * r : r \in Rates} ELSE {0}

Apply(k, w, n, minted) ==
  LET move(s, r) == /\ shares' = [shares EXCEPT ![w] = @ + s]
                    /\ receipt' = [receipt EXCEPT ![w] = r]
  IN CASE k = "deposit" -> move(minted, receipt[w])
       [] k = "instant" -> move(-n, receipt[w])
       [] k = "request" -> move(-n, [amt |-> n, left |-> period])
       [] k = "claim"   -> move(0, None)
       [] k = "cancel"  -> move(receipt[w].amt, None)

Land(i) ==
  LET o == slot[i]
  IN /\ o.tx = "flight" /\ Accepts(o.kind, o.w, o.amt)
     /\ \E n \in Minted(o) :
          /\ Apply(o.kind, o.w, o.amt, n)
          /\ slot' = [slot EXCEPT ![i] = Left([o EXCEPT !.tx = "ok", !.got = n])]
     /\ clean' = [clean EXCEPT ![o.w] =
          @ /\ (o.kind = "claim" => o.amt = receipt[o.w].amt)]
     /\ KeepOff
     /\ UNCHANGED <<period, page, step, ledger>>

\* Executed with an error, or never included; a transaction the program refuses
\* can only end here.
Drop(i) ==
  /\ slot[i].tx = "flight"
  /\ \E t \in {"err", "lost"} :
       slot' = [slot EXCEPT ![i] = Left([@ EXCEPT !.tx = t])]
  /\ UNCHANGED <<chain, page, step, books, clean>>

AdminSetsPeriod ==
  /\ period' \in AdminSets \ {period}
  /\ UNCHANGED <<shares, receipt, page, step, slot, books, clean>>

-----------------------------------------------------------------------------
(* The page: mount, the two effects, the wallet and the tabs.              *)

OnMount == cfg' = Loading /\ shown' = None /\ poll' = None /\ mode' = "deposit"

\* A reload forgets every operation; what it sent may still land.
Reload ==
  /\ Wanders \/ cfg = Failed
  /\ OnMount /\ step' = "idle"
  /\ slot' = [i \in Slot |-> Left([slot[i] EXCEPT !.pc = "idle"])]
  /\ clean' = [w \in Wallet |->
       clean[w] /\ \A i \in Slot : slot[i].w = w /\ slot[i].pc # "idle"
                                     => slot[i].tx = "none"]
  /\ KeepOff
  /\ UNCHANGED <<chain, pub, ledger>>

\* The fetch of the configuration answers once; a failure leaves null for good.
FetchPeriod ==
  /\ cfg = Loading
  /\ cfg' \in {period, Failed}
  /\ UNCHANGED <<chain, pub, mode, shown, poll, step, slot, books, clean>>

Receipt(w) == IF receipt[w] = None THEN None
              ELSE [w |-> w, amt |-> receipt[w].amt, left |-> receipt[w].left]

\* Mutant of Fetched: the account is never decoded.
FetchedNever(w) == {None}

\* fetchUserWithdrawRequestReceipt turns every error into "no receipt".
Fetched(w) == {Receipt(w), None}

PollSent ==
  /\ pub # None /\ poll = None
  /\ \E r \in Fetched(pub) : poll' = [answer |-> r]
  /\ UNCHANGED <<chain, pub, mode, cfg, shown, step, slot, books, clean>>

PollAnswered ==
  /\ poll # None
  /\ shown' = poll.answer /\ poll' = None
  /\ UNCHANGED <<chain, pub, mode, cfg, step, slot, books, clean>>

\* A tick is a stretch of the waiting period, of hours or days: meanwhile every
\* request of the page has been answered and the receipt polled.
Tick ==
  LET less(n) == IF n = 0 THEN 0 ELSE n - 1
  IN /\ \E w \in Wallet : receipt[w] # None /\ receipt[w].left > 0
     /\ poll = None
     /\ \A i \in Slot : slot[i].pc = "idle" /\ slot[i].tx # "flight"
     /\ receipt' = [w \in Wallet |->
          IF receipt[w] = None THEN None
          ELSE [receipt[w] EXCEPT !.left = less(@)]]
     /\ UNCHANGED <<shares, period, pub, mode, cfg, poll, step, slot, books, clean>>
     /\ shown' \in IF pub = None THEN {None} ELSE {None, Receipt(pub)'}

\* The effect of a new wallet drops the answer under way (alive = false); the
\* receipt of the last wallet stays on the page until the new one is read.
Connect(w) ==
  /\ pub # w /\ (Wanders \/ pub = None)
  /\ pub' = w /\ poll' = None
  /\ UNCHANGED <<chain, mode, cfg, shown, step, slot, books, clean>>

Disconnect ==
  /\ Wanders /\ pub # None
  /\ pub' = None /\ poll' = None /\ shown' = None /\ step' = "idle"
  /\ UNCHANGED <<chain, mode, cfg, slot, books, clean>>

\* The tabs are never disabled and always reset the step.
SetMode(m) ==
  /\ Wanders \/ (mode = "deposit" /\ m = "withdraw")
  /\ mode' = m /\ step' = "idle"
  /\ UNCHANGED <<chain, pub, cfg, shown, poll, slot, books, clean>>

-----------------------------------------------------------------------------
(* The operations.                                                         *)

Escrowed(w) == IF receipt[w] = None THEN 0 ELSE receipt[w].amt

Start(i, pc, k, n) ==
  /\ slot[i].pc = "idle" /\ slot[i].tx # "flight"
  /\ slot' = [slot EXCEPT ![i] =
       [pc |-> pc, kind |-> k, w |-> pub, amt |-> n, tx |-> "none", got |-> 0]]

Fails(i) == /\ slot' = [slot EXCEPT ![i] = Left([@ EXCEPT !.pc = "idle"])]
            /\ step' = "error"

\* The primary button; its balance check reads a balance that may be old, or
\* another wallet's, and stops nothing for certain.
ClickDeposit(i) ==
  /\ pub # None /\ step \notin Busy /\ mode = "deposit" /\ Wanders
  /\ shares[pub] + Escrowed(pub) < MaxShares /\ ledger[pub] < MaxShares
  /\ \E n \in Amount : Start(i, "building", "deposit", n)
  /\ step' = "building"
  /\ UNCHANGED <<chain, page, books, clean>>

\* submitWithdrawAction.
WithdrawKind ==
  CASE cfg = 0 -> "instant"
    [] cfg # 0 /\ shown # None /\ shown.left = 0 -> "claim"
    [] cfg # 0 /\ shown # None /\ shown.left # 0 -> "cancel"
    [] OTHER -> "request"

\* Who has nothing else in mind waits for the page to show the request made.
ClickWithdraw(i) ==
  /\ pub # None /\ (Wanders \/ shown # None \/ receipt[pub] = None)
  /\ step \notin Busy /\ mode = "withdraw" /\ cfg \notin Waiting
  /\ \/ /\ WithdrawKind \in {"instant", "request"}
        /\ \E n \in Amount : Start(i, "preflight", WithdrawKind, n)
        /\ UNCHANGED step
     \/ /\ WithdrawKind \in {"claim", "cancel"}
        /\ Start(i, "building", WithdrawKind, shown.amt)
        /\ step' = "building"
  /\ UNCHANGED <<chain, page, books, clean>>

\* Without the configuration the click is an error, and nothing fetches it again.
ClickTooEarly ==
  /\ pub # None /\ step \notin Busy /\ mode = "withdraw" /\ cfg \in Waiting
  /\ step' = "error"
  /\ UNCHANGED <<chain, page, slot, books, clean>>

\* preflightHasShares: the page shows no step yet, so the button still works.
Preflight(i) ==
  /\ slot[i].pc = "preflight" /\ shares[slot[i].w] > 0
  /\ slot' = [slot EXCEPT ![i].pc = "building"] /\ step' = "building"
  /\ UNCHANGED <<chain, page, books, clean>>

Built(i, k) ==
  /\ slot[i].pc = "building" /\ slot[i].kind = k
  /\ slot' = [slot EXCEPT ![i].pc = "signing"] /\ step' = "signing"
  /\ UNCHANGED <<chain, page, books, clean>>

\* The builders take the amount of the click; a claim and a cancellation name
\* the receipt's account and take what it holds.
buildDepositVaultIxs(i) == Built(i, "deposit")
buildInstantWithdrawVaultIxs(i) == Built(i, "instant")
buildRequestWithdrawVaultIxs(i) == Built(i, "request")
buildClaimWithdrawVaultIxs(i) == Built(i, "claim")
buildCancelRequestWithdrawVaultIxs(i) == Built(i, "cancel")

Build(i) ==
  \/ buildDepositVaultIxs(i) \/ buildInstantWithdrawVaultIxs(i)
  \/ buildRequestWithdrawVaultIxs(i) \/ buildClaimWithdrawVaultIxs(i)
  \/ buildCancelRequestWithdrawVaultIxs(i)

Sign(i) ==
  /\ slot[i].pc = "signing"
  /\ slot' = [slot EXCEPT ![i].pc = "sending"] /\ step' = "confirming"
  /\ UNCHANGED <<chain, page, books, clean>>

\* A request that fails, an amount that does not parse, a signature refused, a
\* preflight that says no.
Throw(i) ==
  /\ slot[i].pc \in {"preflight", "building", "signing", "sending"}
  /\ Fails(i)
  /\ UNCHANGED <<chain, page, books, clean>>

Send(i) ==
  /\ slot[i].pc = "sending" /\ Accepts(slot[i].kind, slot[i].w, slot[i].amt)
  /\ slot' = [slot EXCEPT ![i].pc = "confirming", ![i].tx = "flight"]
  /\ UNCHANGED <<chain, page, step, books, clean>>

\* The transaction is out but the answer of sendRawTransaction is lost.
SendUnanswered(i) ==
  /\ slot[i].pc = "sending" /\ Accepts(slot[i].kind, slot[i].w, slot[i].amt)
  /\ slot' = [slot EXCEPT ![i].pc = "idle", ![i].tx = "flight"]
  /\ step' = "error"
  /\ clean' = [clean EXCEPT ![slot[i].w] = FALSE]
  /\ KeepOff
  /\ UNCHANGED <<chain, page, ledger>>

\* confirmTransaction resolves for any transaction that was executed; its
\* value.err is not read.
Confirm(i) ==
  /\ slot[i].pc = "confirming" /\ slot[i].tx \in {"ok", "err"}
  /\ slot' = [slot EXCEPT ![i].pc = "booking"]
  /\ step' = DoneStep[slot[i].kind]
  /\ clean' = [clean EXCEPT ![slot[i].w] = @ /\ slot[i].tx = "ok"]
  /\ KeepOff
  /\ UNCHANGED <<chain, page, ledger>>

\* Mutant of RaceLost: the confirmation is awaited alone.
RaceNever(i) == slot[i].tx = "lost"

\* The 90 seconds are over, the blockhash has expired or the request failed.
RaceLost(i) == slot[i].tx \in {"flight", "ok", "err", "lost"}

Timeout(i) ==
  /\ slot[i].pc = "confirming" /\ RaceLost(i)
  /\ Fails(i)
  /\ clean' = [clean EXCEPT ![slot[i].w] = @ /\ slot[i].tx \in {"lost", "err"}]
  /\ KeepOff
  /\ UNCHANGED <<chain, page, ledger>>

\* Mutants of FewerShares and BooksWithdraw: the tally may go negative; a
\* request is booked as a withdrawal, as its claim will be.
LessShares(held, n) == held - n
BooksRequest(k) == k \in {"instant", "request", "claim"}

\* recordWithdraw.
FewerShares(held, n) == IF n < held THEN held - n ELSE 0
BooksWithdraw(k) == k \in {"instant", "claim"}

\* The tally's estimate of a deposit: the assets the vault holds idle over the
\* supply, both asked for now.  A supply that is zero or fails counts as a NAV
\* of 1, and so does a fetch that fails where none succeeded before; idle
\* assets of zero, or not fetched, count a share for each unit.
Estimates(o) == {o.amt * r : r \in Rates \cup {Par}}

\* What follows the confirmation, with the values of the click and after
\* another request (the NAV): a withdrawal of shares just bought may be booked
\* before the deposit that bought them.  Storing the ledger may fail silently.
Book(i) ==
  LET o == slot[i]
      held == ledger[o.w]
      after == CASE o.kind = "deposit" -> {held + n : n \in Estimates(o)}
                 [] BooksWithdraw(o.kind) -> {FewerShares(held, o.amt)}
                 [] OTHER -> {held}
  IN /\ o.pc = "booking"
     /\ \/ /\ clean' = [clean EXCEPT ![o.w] =
                @ /\ (BooksWithdraw(o.kind) => o.amt <= held)]
           /\ \E n \in after :
                /\ ledger' = [ledger EXCEPT ![o.w] = n]
                /\ IF clean'[o.w] /\ o.kind = "deposit"
                     THEN off' = [off EXCEPT ![o.w] = @ + (n - held - o.got)]
                     ELSE KeepOff
        \/ /\ o.kind = "deposit" \/ BooksWithdraw(o.kind)
           /\ clean' = [clean EXCEPT ![o.w] = FALSE] /\ KeepOff /\ UNCHANGED ledger
     /\ shown' \in CASE o.kind = "request" -> Fetched(o.w)
                     [] o.kind \in {"claim", "cancel"} -> {None}
                     [] OTHER -> {shown}
     /\ slot' = [slot EXCEPT ![i] = Free]
     /\ UNCHANGED <<chain, pub, mode, cfg, poll, step>>

Operation(i) ==
  \/ ClickDeposit(i) \/ ClickWithdraw(i) \/ Preflight(i) \/ Build(i) \/ Sign(i)
  \/ Throw(i) \/ Send(i) \/ SendUnanswered(i) \/ Confirm(i) \/ Timeout(i)
  \/ Book(i) \/ Land(i) \/ Drop(i)

\* What a wallet already has in the vault went in through this browser, booked
\* by its estimates; what it has in escrow was requested on an earlier visit,
\* under the same period.
Init ==
  /\ period \in {0, 1}
  /\ receipt \in [Wallet -> {None} \cup [amt : Amount, left : 0..period]]
  /\ \A w \in Wallet : Escrowed(w) > 0 => period = 1
  /\ shares \in [Wallet -> 0..MaxShares]
  /\ \A w \in Wallet : shares[w] + Escrowed(w) <= MaxShares
  /\ pub = None /\ mode = "deposit" /\ step = "idle" /\ cfg = Loading
  /\ shown = None /\ poll = None
  /\ slot = [i \in Slot |-> Free]
  /\ ledger \in [Wallet -> 0..MaxShares]
  /\ off = [w \in Wallet |-> ledger[w] - shares[w] - Escrowed(w)]
  /\ clean = [w \in Wallet |-> TRUE]

Next ==
  \/ \E i \in Slot : Operation(i)
  \/ AdminSetsPeriod \/ Reload \/ FetchPeriod \/ PollSent \/ PollAnswered
  \/ Tick \/ Disconnect \/ ClickTooEarly
  \/ \E w \in Wallet : Connect(w)
  \/ \E m \in {"deposit", "withdraw"} : SetMode(m)

Spec == Init /\ [][Next]_vars

-----------------------------------------------------------------------------
(* Fairness.  The timer of a confirmation fires (the confirmation itself   *)
(* need not arrive), and a request of the page is answered, with success   *)
(* if it is made again and again.  A user who wants out keeps connecting,  *)
(* clicking, signing and, told to try again, reloading; a transaction sent *)
(* again and again lands.                                                  *)

Progress(i) == Throw(i) \/ Send(i) \/ Timeout(i) \/ Book(i)

PollTruth == PollSent /\ poll'.answer = Receipt(pub)
PeriodRead == FetchPeriod /\ cfg' = period

Fairness ==
  /\ WF_vars(PollAnswered) /\ WF_vars(Tick)
  /\ SF_vars(PollTruth) /\ SF_vars(PeriodRead) /\ WF_vars(FetchPeriod)
  /\ WF_vars(cfg = Failed /\ Reload) /\ WF_vars(SetMode("withdraw") /\ mode = "deposit")
  /\ \A w \in Wallet : WF_vars(pub = None /\ Connect(w))
  /\ \A i \in Slot :
       /\ WF_vars(Progress(i)) /\ SF_vars(ClickWithdraw(i))
       /\ SF_vars(ClickWithdraw(i) /\ shown # None)
       /\ SF_vars(Preflight(i)) /\ SF_vars(Build(i)) /\ SF_vars(Sign(i))
       /\ SF_vars(Send(i)) /\ SF_vars(Land(i)) /\ WF_vars(Drop(i))

FairSpec == Spec /\ Fairness

-----------------------------------------------------------------------------
(* Properties.                                                             *)

ShownType == [w : Wallet, amt : Nat, left : {0, 1}] \cup {None}

TypeOK ==
  /\ shares \in [Wallet -> Nat]
  /\ receipt \in [Wallet -> [amt : Nat, left : {0, 1}] \cup {None}]
  /\ period \in {0, 1}
  /\ pub \in Wallet \cup {None} /\ mode \in {"deposit", "withdraw"}
  /\ step \in {"idle", "error"} \cup Busy \cup {DoneStep[k] : k \in Kind}
  /\ cfg \in {0, 1} \cup Waiting
  /\ shown \in ShownType /\ poll \in [answer : ShownType] \cup {None}
  /\ slot \in [Slot ->
       [pc : {"idle", "preflight", "building", "signing", "sending",
              "confirming", "booking"},
        kind : Kind, w : Wallet \cup {None}, amt : Nat,
        tx : {"none", "flight", "ok", "err", "lost"}, got : Nat]]
  /\ ledger \in [Wallet -> Nat] /\ off \in [Wallet -> Int]
  /\ clean \in [Wallet -> BOOLEAN]

Settled(w) == \A i \in Slot : slot[i].w = w => slot[i].pc = "idle"
                                               /\ slot[i].tx # "flight"

\* The ledger of the browser differs from what the wallet has in the vault,
\* escrow included, by what the estimates of its deposits were off when they
\* were booked and by nothing else, whatever mix of deposits, requests,
\* cancellations, claims and instant withdrawals ran, one over the other:
\* unless one of them timed out and landed, executed with an error, died with
\* the page, was not stored, took more shares than the ledger then had (of a
\* deposit not booked yet, or booked too low), or was a claim that took another
\* receipt than the one the page showed at the click (an older one of the same
\* wallet, or the receipt of the wallet connected before).
LedgerMatches ==
  \A w \in Wallet : clean[w] /\ Settled(w)
                      => ledger[w] = shares[w] + Escrowed(w) + off[w]

\* "Confirm with a hard 90s timeout so the UI cannot hang forever."
ConfirmingEnds == step = "confirming" ~> step # "confirming"

\* Escrowed shares come back, claimed or returned, to a user who keeps asking.
EscrowComesBack == \A w \in Wallet : receipt[w] # None ~> receipt[w] = None

==============================================================================
