------------------------ MODULE DepositWidgetProofs ------------------------
(***************************************************************************)
(* The widget's types and the agreement of its ledger with the chain, for  *)
(* every set of wallets, amounts and rates and any finite number of        *)
(* operations under way.                                                   *)
(*                                                                         *)
(* The argument is an equation that holds at every moment for a wallet no  *)
(* fault has touched: what the ledger says, with the shares of the         *)
(* deposits that landed and are not booked, is what the chain says, with   *)
(* the withdrawals that landed and are not booked and what the estimates   *)
(* of the deposits booked so far were off.  The amounts are added up by    *)
(* counting the pairs <<operation, unit>>.                                 *)
(***************************************************************************)
EXTENDS DepositWidget, FiniteSetTheorems, TLAPS

Op == [pc : {"idle", "preflight", "building", "signing", "sending",
             "confirming", "booking"},
       kind : Kind, w : Wallet \cup {None}, amt : Nat,
       tx : {"none", "flight", "ok", "err", "lost"}, got : Nat]

\* An operation under way, or a transaction in flight, has a wallet.
Owned ==
  \A i \in Slot : slot[i].pc # "idle" \/ slot[i].tx = "flight"
                    => slot[i].w \in Wallet

\* For a wallet no fault has touched: what is out is waited for, and what is
\* about to be booked has landed.
Attended ==
  \A i \in Slot : \A w \in Wallet : clean[w] /\ slot[i].w = w =>
    /\ slot[i].tx \in {"flight", "ok"} => slot[i].pc \in {"confirming", "booking"}
    /\ slot[i].pc = "booking" => slot[i].tx = "ok"

\* The operations of these kinds that landed and are not booked.
Pends(o, K, w) == /\ o.w = w /\ o.kind \in K /\ o.tx = "ok"
                  /\ o.pc \in {"confirming", "booking"}
Owing(f, K, w) == {j \in Slot : Pends(f[j], K, w)}

\* Their shares, unit by unit, and how many units that makes.
Size(o) == IF o.kind = "deposit" THEN o.got ELSE o.amt
Block(f, i) == {i} \X (1..Size(f[i]))
Units(f, J) == UNION {Block(f, j) : j \in J}
Pending(f, K, w) == Cardinality(Units(f, Owing(f, K, w)))

In == {"deposit"}
Out == {"instant", "claim"}

Balanced ==
  \A w \in Wallet : clean[w] =>
    ledger[w] + Pending(slot, In, w)
      = shares[w] + Escrowed(w) + Pending(slot, Out, w) + off[w]

Inv == TypeOK /\ Owned /\ Attended /\ Balanced

-----------------------------------------------------------------------------
(* Types.                                                                  *)

Chain == /\ shares \in [Wallet -> Nat]
         /\ receipt \in [Wallet -> [amt : Nat, left : {0, 1}] \cup {None}]
         /\ period \in {0, 1}
Page == /\ pub \in Wallet \cup {None} /\ mode \in {"deposit", "withdraw"}
        /\ cfg \in {0, 1} \cup Waiting
        /\ shown \in ShownType /\ poll \in [answer : ShownType] \cup {None}
Steps == step \in {"idle", "error"} \cup Busy \cup {DoneStep[k] : k \in Kind}
Ops == slot \in [Slot -> Op]
Books == /\ ledger \in [Wallet -> Nat] /\ off \in [Wallet -> Int]
         /\ clean \in [Wallet -> BOOLEAN]

LEMMA TypeParts == TypeOK <=> Chain /\ Page /\ Steps /\ Ops /\ Books
  BY DEF TypeOK, Chain, Page, Steps, Ops, Books, Op

LEMMA TypePartsNext ==
  TypeOK' <=> Chain' /\ Page' /\ Steps' /\ Ops' /\ Books'
  BY DEF TypeOK, Chain, Page, Steps, Ops, Books, Op

LEMMA InitTyped == Init => TypeOK /\ Owned
<1> SUFFICES ASSUME Init PROVE Chain /\ Page /\ Steps /\ Ops /\ Books /\ Owned
  BY TypeParts
<1>1. \A w \in Wallet : Escrowed(w) \in Nat
  BY WidgetAssumption DEF Init, Escrowed, WidgetAssumption
<1>2. \A w \in Wallet : receipt[w] \in [amt : Nat, left : {0, 1}] \cup {None}
  <2>1. 0..period \subseteq {0, 1} /\ Amount \subseteq Nat
    BY WidgetAssumption DEF Init, WidgetAssumption
  <2>2. [amt : Amount, left : 0..period] \subseteq [amt : Nat, left : {0, 1}]
    BY <2>1
  <2> QED  BY <2>2 DEF Init
<1>3. Chain
  BY <1>1, <1>2, WidgetAssumption DEF Init, Chain, WidgetAssumption
<1>4. Page /\ Steps
  BY DEF Init, Page, Steps, ShownType, Waiting, Loading
<1>5. Ops /\ Owned
  BY DEF Init, Ops, Owned, Free, Op, Kind
<1>6. Books
  BY <1>1, WidgetAssumption DEF Init, Books, WidgetAssumption
<1> QED  BY <1>3, <1>4, <1>5, <1>6

\* What is left of an operation is itself or a free slot.
LEMMA LeftProps ==
  ASSUME NEW o \in Op
  PROVE  /\ Left(o) \in Op
         /\ \/ Left(o) = o /\ (o.pc # "idle" \/ o.tx = "flight")
            \/ Left(o) = Free /\ o.pc = "idle" /\ o.tx # "flight"
  BY DEF Left, Free, Op, Kind

LEMMA LeftTyped ==
  ASSUME Ops, Owned, NEW i \in Slot, NEW x \in Op, x.w \in Wallet,
         slot' = [slot EXCEPT ![i] = Left(x)]
  PROVE  Ops' /\ Owned'
<1>1. Left(x) \in Op /\ (Left(x) = x \/ Left(x) = Free)  BY LeftProps
<1>2. Free.pc = "idle" /\ Free.tx = "none"  BY DEF Free
<1>3. slot'[i] = Left(x) /\ \A j \in Slot \ {i} : slot'[j] = slot[j]
  BY DEF Ops
<1>4. Ops'  BY <1>1 DEF Ops
<1> QED  BY <1>1, <1>2, <1>3, <1>4 DEF Owned

\* Shares minted and shares estimated are numbers.
LEMMA SharesNat ==
  ASSUME NEW o \in Op
  PROVE  Minted(o) \subseteq Nat /\ Estimates(o) \subseteq Nat
<1>1. \A a, r \in Nat : a * r \in Nat
  OBVIOUS
<1>2. o.amt \in Nat /\ Rates \subseteq Nat /\ Par \in Nat
  BY WidgetAssumption DEF Op, WidgetAssumption
<1> QED  BY <1>1, <1>2 DEF Minted, Estimates

LEMMA OffTyped ==
  ASSUME off \in [Wallet -> Int], KeepOff
  PROVE  off' \in [Wallet -> Int]
  BY DEF KeepOff

LEMMA LandTyped ==
  ASSUME TypeOK, Owned, NEW i \in Slot, Land(i)
  PROVE  TypeOK' /\ Owned'
<1> DEFINE o == slot[i]
<1>1. Chain /\ Page /\ Steps /\ Ops /\ Books  BY TypeParts
<1>2. o \in Op /\ o.w \in Wallet /\ o.amt \in Nat /\ o.kind \in Kind
  BY <1>1 DEF Ops, Op, Owned, Land
<1>3. PICK n \in Minted(o) :
        /\ Apply(o.kind, o.w, o.amt, n)
        /\ slot' = [slot EXCEPT ![i] = Left([o EXCEPT !.tx = "ok", !.got = n])]
  BY DEF Land
<1>4. n \in Nat  BY <1>2, SharesNat
<1>5. Chain'
  <2>1. CASE o.kind = "deposit"
    BY <1>1, <1>2, <1>3, <1>4, <2>1 DEF Land, Accepts, Apply, Chain
  <2>2. CASE o.kind = "instant"
    BY <1>1, <1>2, <1>3, <2>2 DEF Land, Accepts, Apply, Chain
  <2>3. CASE o.kind = "request"
    BY <1>1, <1>2, <1>3, <2>3 DEF Land, Accepts, Apply, Chain
  <2>4. CASE o.kind = "claim"
    BY <1>1, <1>2, <1>3, <2>4 DEF Land, Accepts, Apply, Chain
  <2>5. CASE o.kind = "cancel"
    BY <1>1, <1>2, <1>3, <2>5 DEF Land, Accepts, Apply, Chain
  <2> QED  BY <1>2, <2>1, <2>2, <2>3, <2>4, <2>5 DEF Kind
<1>6. Ops' /\ Owned'
  <2> DEFINE x == [o EXCEPT !.tx = "ok", !.got = n]
  <2>1. x \in Op /\ x.w \in Wallet  BY <1>2, <1>4 DEF Op
  <2> QED  BY <1>1, <1>3, <2>1, LeftTyped
<1>7. Books'
  <2>1. clean' \in [Wallet -> BOOLEAN] /\ ledger' = ledger /\ KeepOff
    BY <1>1, <1>2 DEF Land, Books
  <2> QED  BY <1>1, <2>1, OffTyped DEF Books
<1> QED  BY <1>1, <1>5, <1>6, <1>7, TypePartsNext DEF Land, page, Page, Steps

\* The other steps of an operation: what each one leaves typed.
LEMMA ClickDepositTyped ==
  ASSUME TypeOK, Owned, NEW i \in Slot, ClickDeposit(i)
  PROVE  TypeOK' /\ Owned'
<1>1. Chain /\ Page /\ Steps /\ Ops /\ Books  BY TypeParts
<1>2. Ops' /\ Owned' /\ Steps'
  BY <1>1, WidgetAssumption
  DEF ClickDeposit, Start, Page, Ops, Op, Kind, Owned, Steps, Busy, WidgetAssumption
<1> QED  BY <1>1, <1>2, TypePartsNext DEF ClickDeposit, page, chain, books, Page, Chain, Books

LEMMA ClickWithdrawTyped ==
  ASSUME TypeOK, Owned, NEW i \in Slot, ClickWithdraw(i)
  PROVE  TypeOK' /\ Owned'
<1>1. Chain /\ Page /\ Steps /\ Ops /\ Books  BY TypeParts
<1>2. Ops' /\ Owned' /\ Steps'
  <2>1. CASE WithdrawKind \in {"instant", "request"}
    BY <1>1, <2>1, WidgetAssumption
    DEF ClickWithdraw, Start, Page, Ops, Op, Kind, Owned, Steps, Busy,
        WidgetAssumption
  <2>2. CASE WithdrawKind \in {"claim", "cancel"}
    <3>1. shown \in [w : Wallet, amt : Nat, left : {0, 1}]
      BY <1>1, <2>2 DEF Page, ShownType, WithdrawKind
    <3>2. shown.amt \in Nat  BY <3>1
    <3> QED
      BY <1>1, <2>2, <3>2
      DEF ClickWithdraw, Start, Page, Ops, Op, Kind, Owned, Steps, Busy
  <2> QED  BY <2>1, <2>2 DEF ClickWithdraw
<1> QED  BY <1>1, <1>2, TypePartsNext DEF ClickWithdraw, page, chain, books, Page, Chain, Books

LEMMA MiddleTyped ==
  ASSUME TypeOK, Owned, NEW i \in Slot,
         Preflight(i) \/ Build(i) \/ Sign(i) \/ Throw(i) \/ Send(i)
           \/ SendUnanswered(i) \/ Confirm(i) \/ Timeout(i) \/ Drop(i)
  PROVE  TypeOK' /\ Owned'
<1>1. Chain /\ Page /\ Steps /\ Ops /\ Books  BY TypeParts
<1>2. slot[i] \in Op /\ slot[i].kind \in Kind  BY <1>1 DEF Ops, Op
<1>o. slot[i].w \in Wallet
  BY <1>1 DEF Owned, Preflight, Build, buildDepositVaultIxs,
      buildInstantWithdrawVaultIxs, buildRequestWithdrawVaultIxs,
      buildClaimWithdrawVaultIxs, buildCancelRequestWithdrawVaultIxs, Built,
      Sign, Throw, Send, SendUnanswered, Confirm, Timeout, Drop
<1>3. CASE Preflight(i)
  BY <1>1, <1>2, <1>3, TypePartsNext
  DEF Preflight, chain, page, books, Chain, Page, Steps, Ops, Op, Books, Owned, Busy
<1>4. CASE Build(i)
  BY <1>1, <1>2, <1>4, TypePartsNext
  DEF Build, buildDepositVaultIxs, buildInstantWithdrawVaultIxs,
      buildRequestWithdrawVaultIxs, buildClaimWithdrawVaultIxs,
      buildCancelRequestWithdrawVaultIxs, Built, chain, page, books, Chain, Page,
      Steps, Ops, Op, Books, Owned, Busy
<1>5. CASE Sign(i)
  BY <1>1, <1>2, <1>5, TypePartsNext
  DEF Sign, chain, page, books, Chain, Page, Steps, Ops, Op, Books, Owned, Busy
<1>6. CASE Throw(i)
  <2>1. PICK x \in Op : x.w = slot[i].w /\ slot' = [slot EXCEPT ![i] = Left(x)]
    BY <1>1, <1>2, <1>6 DEF Throw, Fails, Op
  <2>2. Ops' /\ Owned'
    BY <1>1, <1>o, <2>1, LeftTyped
  <2>3. Books'
    BY <1>1, <1>6, OffTyped DEF Throw, Fails, books, Books
  <2> QED
    BY <1>1, <1>6, <2>2, <2>3, TypePartsNext
    DEF Throw, Fails, chain, page, Chain, Page, Steps
<1>7. CASE Send(i)
  BY <1>1, <1>2, <1>7, TypePartsNext
  DEF Send, chain, page, books, Chain, Page, Steps, Ops, Op, Books, Owned
<1>8. CASE SendUnanswered(i)
  BY <1>1, <1>2, <1>8, OffTyped, TypePartsNext
  DEF SendUnanswered, chain, page, books, Chain, Page, Steps, Ops, Op, Books, Owned
<1>9. CASE Confirm(i)
  BY <1>1, <1>2, <1>9, OffTyped, TypePartsNext
  DEF Confirm, chain, page, books, Chain, Page, Steps, Ops, Op, Books, Owned
<1>10. CASE Timeout(i)
  <2>1. PICK x \in Op : x.w = slot[i].w /\ slot' = [slot EXCEPT ![i] = Left(x)]
    BY <1>1, <1>2, <1>10 DEF Timeout, Fails, Op
  <2>2. Ops' /\ Owned'
    BY <1>1, <1>o, <2>1, LeftTyped
  <2>3. Books'
    BY <1>1, <1>10, OffTyped DEF Timeout, Fails, books, Books
  <2> QED
    BY <1>1, <1>10, <2>2, <2>3, TypePartsNext
    DEF Timeout, Fails, chain, page, Chain, Page, Steps
<1>11. CASE Drop(i)
  <2>1. PICK x \in Op : x.w = slot[i].w /\ slot' = [slot EXCEPT ![i] = Left(x)]
    BY <1>1, <1>2, <1>11 DEF Drop, Op
  <2>2. Ops' /\ Owned'
    BY <1>1, <1>o, <2>1, LeftTyped
  <2>3. Books'
    BY <1>1, <1>11, OffTyped DEF Drop, books, Books
  <2> QED
    BY <1>1, <1>11, <2>2, <2>3, TypePartsNext
    DEF Drop, chain, page, Chain, Page, Steps
<1> QED  BY <1>3, <1>4, <1>5, <1>6, <1>7, <1>8, <1>9, <1>10, <1>11

LEMMA FetchedTyped ==
  ASSUME Chain, NEW w \in Wallet
  PROVE  Fetched(w) \subseteq ShownType
  BY DEF Fetched, Receipt, Chain, ShownType

LEMMA BookTyped ==
  ASSUME TypeOK, Owned, NEW i \in Slot, Book(i)
  PROVE  TypeOK' /\ Owned'
<1> DEFINE o == slot[i]
<1>1. Chain /\ Page /\ Steps /\ Ops /\ Books  BY TypeParts
<1>2. o \in Op /\ o.w \in Wallet /\ o.amt \in Nat /\ o.kind \in Kind
  BY <1>1 DEF Ops, Op, Owned, Book
<1>3. FewerShares(ledger[o.w], o.amt) \in Nat /\ ledger[o.w] \in Nat
  BY <1>1, <1>2 DEF FewerShares, Books
<1> DEFINE after == CASE o.kind = "deposit" -> {ledger[o.w] + n : n \in Estimates(o)}
                      [] BooksWithdraw(o.kind) -> {FewerShares(ledger[o.w], o.amt)}
                      [] OTHER -> {ledger[o.w]}
<1>4. Books'
  <2>1. after \subseteq Nat
    <3>1. Estimates(o) \subseteq Nat  BY <1>2, SharesNat
    <3>2. CASE o.kind = "deposit"
      BY <1>3, <3>1, <3>2 DEF BooksWithdraw
    <3>3. CASE o.kind # "deposit" /\ BooksWithdraw(o.kind)
      BY <1>3, <3>3 DEF BooksWithdraw
    <3>4. CASE o.kind # "deposit" /\ ~BooksWithdraw(o.kind)
      BY <1>3, <3>4
    <3> QED  BY <3>2, <3>3, <3>4
  <2> HIDE DEF after
  <2>2. \/ /\ \E n \in after : /\ ledger' = [ledger EXCEPT ![o.w] = n]
                             /\ \/ off' = [off EXCEPT ![o.w] = @ + (n - ledger[o.w] - o.got)]
                                \/ KeepOff
        \/ ledger' = ledger /\ KeepOff
    BY DEF Book, after
  <2>3. clean' \in [Wallet -> BOOLEAN]
    BY <1>1, <1>2 DEF Book, Books, BooksWithdraw
  <2>4. ledger' \in [Wallet -> Nat]
    BY <1>1, <1>2, <2>1, <2>2 DEF Books
  <2>5. off' \in [Wallet -> Int]
    <3>1. CASE KeepOff
      BY <1>1, <3>1, OffTyped DEF Books
    <3>2. ASSUME NEW n \in after,
                 off' = [off EXCEPT ![o.w] = @ + (n - ledger[o.w] - o.got)]
          PROVE  off' \in [Wallet -> Int]
      <4>1. n - ledger[o.w] - o.got \in Int
        BY <1>2, <1>3, <2>1 DEF Op
      <4> QED  BY <1>1, <1>2, <3>2, <4>1 DEF Books
    <3> QED  BY <2>2, <3>1, <3>2
  <2> QED  BY <2>3, <2>4, <2>5 DEF Books
<1>5. Page'
  BY <1>1, <1>2, FetchedTyped DEF Book, Page, ShownType, chain
<1>6. Ops' /\ Owned'
  BY <1>1 DEF Book, Ops, Op, Owned, Free, Kind
<1> QED  BY <1>1, <1>4, <1>5, <1>6, TypePartsNext DEF Book, chain, Chain, Steps

\* The steps of the page, the vault's administrator and the time.
LEMMA PageTyped ==
  ASSUME TypeOK, Owned,
         AdminSetsPeriod \/ Reload \/ FetchPeriod \/ PollSent \/ PollAnswered
           \/ Tick \/ Disconnect \/ ClickTooEarly
           \/ (\E w \in Wallet : Connect(w))
           \/ (\E m \in {"deposit", "withdraw"} : SetMode(m))
  PROVE  TypeOK' /\ Owned'
<1>1. Chain /\ Page /\ Steps /\ Ops /\ Books  BY TypeParts
<1>2. CASE AdminSetsPeriod
  BY <1>1, <1>2, TypePartsNext, WidgetAssumption
  DEF AdminSetsPeriod, books, page, Chain, Page, Steps, Ops, Op, Books, Owned,
      WidgetAssumption
<1>3. CASE Reload
  <2>1. Ops' /\ Owned'
    <3>1. \A j \in Slot : [slot[j] EXCEPT !.pc = "idle"] \in Op
      BY <1>1 DEF Ops, Op
    <3>2. \A j \in Slot : /\ slot'[j] \in Op
                         /\ \/ slot'[j] = [slot[j] EXCEPT !.pc = "idle"]
                            \/ slot'[j] = Free
      BY <1>3, <3>1, LeftProps DEF Reload
    <3>3. slot' = [j \in Slot |-> slot'[j]]  BY <1>3 DEF Reload
    <3>4. \A j \in Slot : /\ [slot[j] EXCEPT !.pc = "idle"].pc = "idle"
                         /\ [slot[j] EXCEPT !.pc = "idle"].tx = slot[j].tx
                         /\ [slot[j] EXCEPT !.pc = "idle"].w = slot[j].w
      BY <1>1 DEF Ops, Op
    <3>5. Ops'  BY <3>2, <3>3 DEF Ops
    <3>6. Free.pc = "idle" /\ Free.tx = "none"  BY DEF Free
    <3> QED  BY <1>1, <3>2, <3>4, <3>5, <3>6 DEF Owned
  <2>2. Books'
    BY <1>1, <1>3, OffTyped DEF Reload, Books
  <2> QED
    BY <1>1, <1>3, <2>1, <2>2, TypePartsNext
    DEF Reload, OnMount, chain, Chain, Page, Steps, Waiting, Loading, ShownType
<1>4. CASE FetchPeriod
  BY <1>1, <1>4, TypePartsNext
  DEF FetchPeriod, books, chain, Chain, Page, Steps, Ops, Books, Owned, Waiting
<1>5. CASE PollSent
  <2>1. pub \in Wallet /\ Fetched(pub) \subseteq ShownType
    BY <1>1, <1>5, FetchedTyped DEF PollSent, books, Page
  <2>2. poll' \in [answer : ShownType]
    BY <1>5, <2>1 DEF PollSent
  <2> QED
    BY <1>1, <1>5, <2>2, TypePartsNext
    DEF PollSent, books, chain, Chain, Page, Steps, Ops, Books, Owned
<1>6. CASE PollAnswered
  <2>1. poll.answer \in ShownType
    BY <1>1, <1>6 DEF PollAnswered, books, Page
  <2> QED
    BY <1>1, <1>6, <2>1, TypePartsNext
    DEF PollAnswered, books, chain, Chain, Page, Steps, Ops, Books, Owned
<1>7. CASE Tick
  <2>1. Chain'
    BY <1>1, <1>7 DEF Tick, books, Chain
  <2>2. shown' \in ShownType
    <3>1. pub' = pub  BY <1>7 DEF Tick
    <3>2. CASE pub = None
      BY <1>7, <3>2 DEF Tick, books, ShownType
    <3>3. CASE pub # None
      <4>1. pub' \in Wallet  BY <1>1, <3>1, <3>3 DEF Page
      <4>2. Receipt(pub)' \in ShownType
        BY <2>1, <4>1 DEF Receipt, Chain, ShownType
      <4> QED  BY <1>7, <3>3, <4>2 DEF Tick, books, ShownType
    <3> QED  BY <3>2, <3>3
  <2> QED
    BY <1>1, <1>7, <2>1, <2>2, TypePartsNext
    DEF Tick, books, Page, Steps, Ops, Books, Owned
<1>8. CASE Disconnect
  BY <1>1, <1>8, TypePartsNext
  DEF Disconnect, books, chain, Chain, Page, Steps, Ops, Books, Owned, ShownType
<1>9. CASE ClickTooEarly
  BY <1>1, <1>9, TypePartsNext
  DEF ClickTooEarly, books, chain, page, Chain, Page, Steps, Ops, Books, Owned
<1>10. CASE \E w \in Wallet : Connect(w)
  BY <1>1, <1>10, TypePartsNext
  DEF Connect, books, chain, Chain, Page, Steps, Ops, Books, Owned
<1>11. CASE \E m \in {"deposit", "withdraw"} : SetMode(m)
  BY <1>1, <1>11, TypePartsNext
  DEF SetMode, books, chain, Chain, Page, Steps, Ops, Books, Owned
<1> QED
  BY <1>2, <1>3, <1>4, <1>5, <1>6, <1>7, <1>8, <1>9, <1>10, <1>11

LEMMA NextTyped == TypeOK /\ Owned /\ [Next]_vars => TypeOK' /\ Owned'
<1> SUFFICES ASSUME TypeOK, Owned, [Next]_vars PROVE TypeOK' /\ Owned'
  OBVIOUS
<1>1. CASE \E i \in Slot : Operation(i)
  <2>1. PICK i \in Slot : Operation(i)  BY <1>1
  <2> QED
    BY <2>1, LandTyped, ClickDepositTyped, ClickWithdrawTyped, MiddleTyped,
       BookTyped
    DEF Operation
<1>2. CASE UNCHANGED vars
  BY <1>2 DEF vars, chain, page, books, TypeOK, Owned
<1> QED  BY <1>1, <1>2, PageTyped DEF Next

\* The page, the operations, the ledger and the chain keep their types, and an
\* operation under way knows its wallet.
THEOREM WidgetTyped == Spec => []TypeOK
<1>1. Init => TypeOK /\ Owned  BY InitTyped
<1>2. TypeOK /\ Owned /\ [Next]_vars => (TypeOK /\ Owned)'  BY NextTyped
<1> QED  BY <1>1, <1>2, PTL DEF Spec

-----------------------------------------------------------------------------
(* Counting.                                                               *)

LEMMA BlockCounts ==
  ASSUME NEW f \in [Slot -> Op], NEW i \in Slot
  PROVE  IsFiniteSet(Block(f, i)) /\ Cardinality(Block(f, i)) = Size(f[i])
<1>1. Size(f[i]) \in Nat  BY DEF Op, Size
<1>2. IsFiniteSet(1..Size(f[i])) /\ Cardinality(1..Size(f[i])) = Size(f[i])
  BY <1>1, FS_Interval, SMTT(20)
<1>3. IsFiniteSet({i}) /\ Cardinality({i}) = 1  BY FS_Singleton
<1> DEFINE n == Size(f[i])
<1> HIDE DEF n
<1>4. /\ IsFiniteSet({i} \X (1..n))
      /\ Cardinality({i} \X (1..n)) = Cardinality({i}) * Cardinality(1..n)
  BY <1>2, <1>3, FS_Product DEF n
<1>5. Cardinality({i} \X (1..n)) = n
  BY <1>1, <1>2, <1>3, <1>4 DEF n
<1> QED  BY <1>4, <1>5 DEF Block, n

LEMMA UnitsFinite ==
  ASSUME NEW f \in [Slot -> Op], NEW J \in SUBSET Slot
  PROVE  IsFiniteSet(Units(f, J)) /\ Cardinality(Units(f, J)) \in Nat
<1>1. IsFiniteSet(J)  BY WidgetAssumption, FS_Subset DEF WidgetAssumption
<1>2. IsFiniteSet({Block(f, j) : j \in J})
  <2> DEFINE T == {Block(f, j) : j \in J}
             b == [j \in J |-> Block(f, j)]
  <2>1. b \in Surjection(J, T)  BY DEF Surjection
  <2> QED  BY <1>1, <2>1, FS_Surjection
<1>3. \A B \in {Block(f, j) : j \in J} : IsFiniteSet(B)
  BY BlockCounts
<1>4. IsFiniteSet(UNION {Block(f, j) : j \in J})  BY <1>2, <1>3, FS_UNION
<1> QED  BY <1>4, FS_CardinalityType DEF Units

\* One operation more adds its amount.
LEMMA OneMore ==
  ASSUME NEW f \in [Slot -> Op], NEW g \in [Slot -> Op],
         NEW J \in SUBSET Slot, NEW i \in Slot, i \notin J,
         \A j \in J : Size(f[j]) = Size(g[j])
  PROVE  Cardinality(Units(g, J \cup {i})) = Cardinality(Units(f, J)) + Size(g[i])
<1>1. \A j \in J : Block(f, j) = Block(g, j)  BY DEF Block
<1>2. Units(g, J \cup {i}) = Units(f, J) \cup Block(g, i)
  BY <1>1 DEF Units
<1>3. Units(f, J) \cap Block(g, i) = {}
  BY DEF Units, Block
<1>4. IsFiniteSet(Units(f, J)) /\ IsFiniteSet(Block(g, i))
  BY UnitsFinite, BlockCounts
<1>5. Cardinality(Units(f, J) \cap Block(g, i)) = 0
  BY <1>3, FS_EmptySet
<1>6. Cardinality(Units(f, J)) \in Nat /\ Size(g[i]) \in Nat
  BY UnitsFinite DEF Op, Size
<1>7. Cardinality(Block(g, i)) = Size(g[i])  BY BlockCounts
<1>8. Cardinality(Units(f, J) \cup Block(g, i))
        = Cardinality(Units(f, J)) + Cardinality(Block(g, i)) - 0
  BY <1>4, <1>5, FS_Union
<1>9. Cardinality(Units(f, J)) + Cardinality(Block(g, i)) - 0
        = Cardinality(Units(f, J)) + Size(g[i])
  BY <1>6, <1>7
<1> QED  BY <1>2, <1>8, <1>9, Zenon

\* What is pending for a wallet when one operation changes: nothing, if it is not
\* pending before or after, or is and keeps its amount; its amount more, if it
\* becomes pending; its amount less, if it was.
LEMMA PendingKept ==
  ASSUME NEW f \in [Slot -> Op], NEW g \in [Slot -> Op], NEW K, NEW w,
         \A j \in Slot : Pends(f[j], K, w) <=> Pends(g[j], K, w),
         \A j \in Slot : Pends(f[j], K, w) => Size(f[j]) = Size(g[j])
  PROVE  Pending(f, K, w) = Pending(g, K, w)
<1>1. Owing(f, K, w) = Owing(g, K, w)  BY DEF Owing
<1>2. \A j \in Owing(f, K, w) : Block(f, j) = Block(g, j)
  BY DEF Owing, Block
<1>3. Units(f, Owing(f, K, w)) = Units(g, Owing(g, K, w))
  BY <1>1, <1>2 DEF Units
<1> QED  BY <1>3 DEF Pending

LEMMA PendingMore ==
  ASSUME NEW f \in [Slot -> Op], NEW g \in [Slot -> Op], NEW K, NEW w,
         NEW i \in Slot, \A j \in Slot \ {i} : f[j] = g[j],
         ~Pends(f[i], K, w), Pends(g[i], K, w)
  PROVE  Pending(g, K, w) = Pending(f, K, w) + Size(g[i])
<1>1. Owing(g, K, w) = Owing(f, K, w) \cup {i}  BY DEF Owing
<1>2. /\ Owing(f, K, w) \in SUBSET Slot /\ i \notin Owing(f, K, w)
      /\ \A j \in Owing(f, K, w) : Size(f[j]) = Size(g[j])
  BY DEF Owing
<1>3. Cardinality(Units(g, Owing(f, K, w) \cup {i}))
        = Cardinality(Units(f, Owing(f, K, w))) + Size(g[i])
  BY <1>2, OneMore
<1> QED  BY <1>1, <1>3 DEF Pending

LEMMA PendingNat ==
  ASSUME NEW f \in [Slot -> Op], NEW K, NEW w
  PROVE  Pending(f, K, w) \in Nat
  BY UnitsFinite DEF Pending, Owing

LEMMA NothingPends ==
  ASSUME NEW f \in [Slot -> Op], NEW K, NEW w,
         \A j \in Slot : ~Pends(f[j], K, w)
  PROVE  Pending(f, K, w) = 0
<1>1. Owing(f, K, w) = {}  BY DEF Owing
<1>2. Units(f, {}) = {}  BY DEF Units
<1> QED  BY <1>1, <1>2, FS_EmptySet DEF Pending

-----------------------------------------------------------------------------
(* The balance.                                                            *)

LEMMA InitBalanced == Init => Attended /\ Balanced
<1> SUFFICES ASSUME Init PROVE Attended /\ Balanced
  OBVIOUS
<1>1. slot \in [Slot -> Op] /\ \A j \in Slot : slot[j] = Free
  BY InitTyped, TypeParts DEF Ops, Init
<1>2. \A w \in Wallet : Pending(slot, In, w) = 0 /\ Pending(slot, Out, w) = 0
  BY <1>1, NothingPends DEF Pends, Free
<1>3. \A w \in Wallet : ledger[w] \in Nat /\ off[w] = ledger[w] - shares[w] - Escrowed(w)
  BY InitTyped DEF Init, TypeOK
<1>4. \A w \in Wallet : shares[w] \in Nat /\ Escrowed(w) \in Nat
  BY InitTyped DEF TypeOK, Escrowed
<1> QED  BY <1>1, <1>2, <1>3, <1>4 DEF Attended, Balanced, Free

\* A step that leaves the pending operations, the books and what is on chain of
\* a wallet leaves its balance.
Quiet(w) ==
  /\ clean'[w] => clean[w]
  /\ ledger'[w] = ledger[w] /\ shares'[w] = shares[w] /\ receipt'[w] = receipt[w]
  /\ clean'[w] => off'[w] = off[w]
  /\ \A j \in Slot : \A K \in {In, Out} :
       /\ Pends(slot[j], K, w) <=> Pends(slot'[j], K, w)
       /\ Pends(slot[j], K, w) => Size(slot[j]) = Size(slot'[j])

LEMMA QuietBalanced ==
  ASSUME TypeOK, TypeOK', NEW w \in Wallet, Quiet(w), Balanced, clean'[w]
  PROVE  ledger'[w] + Pending(slot', In, w)
           = shares'[w] + Escrowed(w)' + Pending(slot', Out, w) + off'[w]
<1>1. clean[w] /\ Quiet(w)  BY DEF Quiet
<1>2. slot \in [Slot -> Op] /\ slot' \in [Slot -> Op]  BY DEF TypeOK, Op
<1>3. Pending(slot, In, w) = Pending(slot', In, w)
  BY <1>1, <1>2, PendingKept DEF Quiet
<1>4. Pending(slot, Out, w) = Pending(slot', Out, w)
  BY <1>1, <1>2, PendingKept DEF Quiet
<1>5. Escrowed(w)' = Escrowed(w)
  BY <1>1 DEF Quiet, Escrowed
<1> QED  BY <1>1, <1>3, <1>4, <1>5 DEF Quiet, Balanced

\* A wallet that stays untouched keeps its account of the estimates.
LEMMA OffKept ==
  ASSUME KeepOff, NEW w \in Wallet, clean'[w]
  PROVE  off'[w] = off[w]
  BY DEF KeepOff

\* Attended: which operations of an untouched wallet may be where.
LEMMA LeftAttended ==
  ASSUME slot \in [Slot -> Op], Attended, NEW i \in Slot, NEW x \in Op,
         slot' = [slot EXCEPT ![i] = Left(x)],
         \A w \in Wallet : clean'[w] => clean[w],
         \A w \in Wallet : clean'[w] /\ x.w = w =>
           /\ x.tx \in {"flight", "ok"} => x.pc \in {"confirming", "booking"}
           /\ x.pc = "booking" => x.tx = "ok"
  PROVE  Attended'
<1>1. Left(x) = x \/ Left(x) = Free  BY LeftProps
<1>2. Free.pc = "idle" /\ Free.tx = "none"  BY DEF Free
<1>3. slot'[i] = Left(x) /\ \A j \in Slot \ {i} : slot'[j] = slot[j]
  OBVIOUS
<1> QED  BY <1>1, <1>2, <1>3 DEF Attended

LEMMA OperationAttended ==
  ASSUME TypeOK, Owned, Attended, NEW i \in Slot, Operation(i)
  PROVE  Attended'
<1>1. /\ slot \in [Slot -> Op] /\ clean \in [Wallet -> BOOLEAN]
      /\ slot[i] \in Op /\ (slot[i].pc # "idle" => slot[i].w \in Wallet)
  BY DEF TypeOK, Op, Owned
<1>2. CASE ClickDeposit(i)
  BY <1>1, <1>2 DEF ClickDeposit, Start, Attended
<1>3. CASE ClickWithdraw(i)
  BY <1>1, <1>3 DEF ClickWithdraw, Start, Attended
<1>4. CASE Preflight(i)
  BY <1>1, <1>4 DEF Preflight, Attended, Op
<1>5. CASE Build(i)
  BY <1>1, <1>5
  DEF Build, buildDepositVaultIxs, buildInstantWithdrawVaultIxs,
      buildRequestWithdrawVaultIxs, buildClaimWithdrawVaultIxs,
      buildCancelRequestWithdrawVaultIxs, Built, Attended, Op
<1>6. CASE Sign(i)
  BY <1>1, <1>6 DEF Sign, Attended, Op
<1>7. CASE Throw(i)
  <2> DEFINE x == [slot[i] EXCEPT !.pc = "idle"]
  <2>1. slot' = [slot EXCEPT ![i] = Left(x)] /\ clean' = clean
    BY <1>7 DEF Throw, Fails
  <2>2. x \in Op /\ x.pc = "idle" /\ x.tx = slot[i].tx /\ x.w = slot[i].w
    BY <1>1 DEF Op
  <2>3. slot[i].pc \notin {"confirming", "booking"}
    BY <1>7 DEF Throw
  <2> HIDE DEF x
  <2>4. \A w \in Wallet : clean'[w] /\ x.w = w => x.tx \notin {"flight", "ok"}
    BY <2>1, <2>2, <2>3 DEF Attended
  <2> QED  BY <1>1, <2>1, <2>2, <2>4, LeftAttended
<1>8. CASE Send(i)
  BY <1>1, <1>8 DEF Send, Attended, Op
<1>9. CASE SendUnanswered(i)
  BY <1>1, <1>9 DEF SendUnanswered, Attended, Op
<1>10. CASE Confirm(i)
  BY <1>1, <1>10 DEF Confirm, Attended, Op
<1>11. CASE Timeout(i)
  <2> DEFINE x == [slot[i] EXCEPT !.pc = "idle"]
  <2>1. /\ slot' = [slot EXCEPT ![i] = Left(x)]
        /\ clean' = [clean EXCEPT ![slot[i].w] = @ /\ slot[i].tx \in {"lost", "err"}]
    BY <1>11 DEF Timeout, Fails
  <2>2. x \in Op /\ x.pc = "idle" /\ x.tx = slot[i].tx /\ x.w = slot[i].w
    BY <1>1 DEF Op
  <2> HIDE DEF x
  <2>3. \A w \in Wallet : /\ clean'[w] => clean[w]
                         /\ clean'[w] /\ x.w = w => x.tx \notin {"flight", "ok"}
    BY <1>1, <2>1, <2>2
  <2> QED  BY <1>1, <2>1, <2>2, <2>3, LeftAttended
<1>12. CASE Book(i)
  <2>1. \A w \in Wallet : clean'[w] => clean[w]
    BY <1>1, <1>12 DEF Book
  <2>2. slot' = [slot EXCEPT ![i] = Free]
    BY <1>12 DEF Book
  <2> QED  BY <1>1, <2>1, <2>2 DEF Attended, Free
<1>13. CASE Land(i)
  <2>1. \A w \in Wallet : clean'[w] => clean[w]
    BY <1>1, <1>13 DEF Land, Owned
  <2>2. PICK n \in Minted(slot[i]) :
          slot' = [slot EXCEPT ![i] = Left([slot[i] EXCEPT !.tx = "ok", !.got = n])]
    BY <1>13 DEF Land
  <2>3. n \in Nat  BY <1>1, SharesNat
  <2> DEFINE x == [slot[i] EXCEPT !.tx = "ok", !.got = n]
  <2>4. /\ x \in Op /\ x.pc = slot[i].pc /\ x.tx = "ok" /\ x.w = slot[i].w
        /\ slot[i].tx = "flight"
    BY <1>1, <1>13, <2>3 DEF Op, Land
  <2> HIDE DEF x
  <2>5. \A w \in Wallet : clean'[w] /\ x.w = w => x.pc \in {"confirming", "booking"}
    BY <2>1, <2>4 DEF Attended
  <2> QED  BY <1>1, <2>1, <2>2, <2>4, <2>5, LeftAttended DEF x
<1>14. CASE Drop(i)
  <2>1. PICK t \in {"err", "lost"} :
          slot' = [slot EXCEPT ![i] = Left([slot[i] EXCEPT !.tx = t])]
    BY <1>14 DEF Drop
  <2> DEFINE x == [slot[i] EXCEPT !.tx = t]
  <2>2. /\ x \in Op /\ x.pc = slot[i].pc /\ x.tx = t /\ x.w = slot[i].w
        /\ slot[i].tx = "flight" /\ clean' = clean
    BY <1>1, <1>14 DEF Op, Drop
  <2> HIDE DEF x
  <2>3. \A w \in Wallet : clean'[w] /\ x.w = w => x.pc # "booking"
    BY <2>2 DEF Attended
  <2> QED  BY <1>1, <2>1, <2>2, <2>3, LeftAttended DEF x
<1> QED
  BY <1>2, <1>3, <1>4, <1>5, <1>6, <1>7, <1>8, <1>9, <1>10, <1>11, <1>12,
     <1>13, <1>14
  DEF Operation

LEMMA PageAttended ==
  ASSUME TypeOK, Attended,
         AdminSetsPeriod \/ Reload \/ FetchPeriod \/ PollSent \/ PollAnswered
           \/ Tick \/ Disconnect \/ ClickTooEarly
           \/ (\E w \in Wallet : Connect(w))
           \/ (\E m \in {"deposit", "withdraw"} : SetMode(m))
  PROVE  Attended'
<1>1. slot \in [Slot -> Op] /\ clean \in [Wallet -> BOOLEAN]
  BY DEF TypeOK, Op
<1>2. CASE Reload
  <2>1. \A w \in Wallet : clean'[w] => clean[w] /\ \A j \in Slot :
          slot[j].w = w => slot[j].tx # "flight"
    BY <1>1, <1>2 DEF Reload, Attended
  <2>2. \A j \in Slot : slot[j].tx # "flight" => slot'[j] = Free
    BY <1>1, <1>2 DEF Reload, Left, Op
  <2>3. \A j \in Slot : slot'[j].w \in Wallet => slot'[j].w = slot[j].w
    BY <1>1, <1>2, WidgetAssumption DEF Reload, Left, Free, WidgetAssumption, Op
  <2> QED  BY <2>1, <2>2, <2>3 DEF Attended, Free
<1>3. CASE ~Reload
  <2>1. slot' = slot /\ clean' = clean
    BY <1>3 DEF AdminSetsPeriod, FetchPeriod, PollSent, PollAnswered, Tick,
                Disconnect, ClickTooEarly, Connect, SetMode
  <2> QED  BY <2>1 DEF Attended
<1> QED  BY <1>2, <1>3

LEMMA MiddleQuiet ==
  ASSUME TypeOK, Owned, NEW i \in Slot, NEW v \in Wallet, clean'[v],
         ClickDeposit(i) \/ ClickWithdraw(i) \/ Preflight(i) \/ Build(i)
           \/ Sign(i) \/ Throw(i) \/ Send(i) \/ SendUnanswered(i) \/ Confirm(i)
           \/ Timeout(i) \/ Drop(i)
  PROVE  Quiet(v)
<1>1. /\ slot \in [Slot -> Op] /\ clean \in [Wallet -> BOOLEAN]
      /\ slot[i] \in Op /\ (slot[i].pc # "idle" => slot[i].w \in Wallet)
  BY DEF TypeOK, Op, Owned
<1>2. UNCHANGED <<ledger, shares, receipt>>
  BY DEF ClickDeposit, ClickWithdraw, Preflight, Build, buildDepositVaultIxs,
      buildInstantWithdrawVaultIxs, buildRequestWithdrawVaultIxs,
      buildClaimWithdrawVaultIxs, buildCancelRequestWithdrawVaultIxs, Built,
      Sign, Throw, Send, SendUnanswered, Confirm, Timeout, Drop, chain, books
<1>o. off'[v] = off[v]
  <2>1. off' = off \/ KeepOff
    BY DEF ClickDeposit, ClickWithdraw, Preflight, Build, buildDepositVaultIxs,
      buildInstantWithdrawVaultIxs, buildRequestWithdrawVaultIxs,
      buildClaimWithdrawVaultIxs, buildCancelRequestWithdrawVaultIxs, Built,
      Sign, Throw, Send, SendUnanswered, Confirm, Timeout, Drop, books
  <2> QED  BY <2>1, OffKept
<1>3. clean'[v] => clean[v]
  BY <1>1
  DEF ClickDeposit, ClickWithdraw, Preflight, Build, buildDepositVaultIxs,
      buildInstantWithdrawVaultIxs, buildRequestWithdrawVaultIxs,
      buildClaimWithdrawVaultIxs, buildCancelRequestWithdrawVaultIxs, Built,
      Sign, Throw, Send, SendUnanswered, Confirm, Timeout, Drop
<1> SUFFICES \A j \in Slot : \A K \in {In, Out} :
               /\ Pends(slot[j], K, v) <=> Pends(slot'[j], K, v)
               /\ Pends(slot[j], K, v) => Size(slot[j]) = Size(slot'[j])
  BY <1>2, <1>3, <1>o DEF Quiet
<1>l. ASSUME NEW x \in Op, slot' = [slot EXCEPT ![i] = Left(x)],
             \A K \in {In, Out} : ~Pends(slot[i], K, v) /\ ~Pends(x, K, v)
      PROVE  \A j \in Slot : \A K \in {In, Out} :
               /\ Pends(slot[j], K, v) <=> Pends(slot'[j], K, v)
               /\ Pends(slot[j], K, v) => Size(slot[j]) = Size(slot'[j])
  <2>1. \A K \in {In, Out} : ~Pends(Left(x), K, v)
    BY <1>l, LeftProps DEF Pends, Free
  <2>2. slot'[i] = Left(x) /\ \A j \in Slot \ {i} : slot'[j] = slot[j]
    BY <1>1, <1>l
  <2> QED  BY <1>l, <2>1, <2>2
<1>4. CASE ClickDeposit(i) \/ ClickWithdraw(i)
  BY <1>1, <1>4 DEF ClickDeposit, ClickWithdraw, Start, Pends
<1>5. CASE Preflight(i) \/ Build(i) \/ Sign(i)
  BY <1>1, <1>5
  DEF Preflight, Build, buildDepositVaultIxs, buildInstantWithdrawVaultIxs,
      buildRequestWithdrawVaultIxs, buildClaimWithdrawVaultIxs,
      buildCancelRequestWithdrawVaultIxs, Built, Sign, Pends, Size, Op
<1>6. CASE Send(i) \/ SendUnanswered(i) \/ Confirm(i)
  BY <1>1, <1>6 DEF Send, SendUnanswered, Confirm, Pends, Size, Op
<1>7. CASE Throw(i) \/ Timeout(i)
  <2> DEFINE x == [slot[i] EXCEPT !.pc = "idle"]
  <2>1. slot' = [slot EXCEPT ![i] = Left(x)]
    BY <1>7 DEF Throw, Timeout, Fails
  <2>2. x \in Op /\ x.pc = "idle"
    BY <1>1 DEF Op
  <2> HIDE DEF x
  <2>3. \A K \in {In, Out} : ~Pends(x, K, v)
    BY <2>2 DEF Pends
  <2>4. \A K \in {In, Out} : ~Pends(slot[i], K, v)
    BY <1>1, <1>7 DEF Throw, Timeout, Pends
  <2> QED  BY <1>l, <2>1, <2>2, <2>3, <2>4
<1>8. CASE Drop(i)
  <2>1. PICK t \in {"err", "lost"} :
          slot' = [slot EXCEPT ![i] = Left([slot[i] EXCEPT !.tx = t])]
    BY <1>8 DEF Drop
  <2> DEFINE x == [slot[i] EXCEPT !.tx = t]
  <2>2. x \in Op /\ x.tx = t /\ slot[i].tx = "flight"
    BY <1>1, <1>8 DEF Op, Drop
  <2>3. slot' = [slot EXCEPT ![i] = Left(x)]  BY <2>1
  <2> HIDE DEF x
  <2>4. \A K \in {In, Out} : ~Pends(slot[i], K, v) /\ ~Pends(x, K, v)
    BY <2>2 DEF Pends
  <2> QED  BY <1>l, <2>2, <2>3, <2>4
<1> QED  BY <1>4, <1>5, <1>6, <1>7, <1>8

LEMMA LandBalanced ==
  ASSUME TypeOK, TypeOK', Owned, Attended, Balanced, NEW i \in Slot, Land(i)
  PROVE  Balanced'
<1> DEFINE o == slot[i]
<1>1. /\ slot \in [Slot -> Op] /\ slot' \in [Slot -> Op]
      /\ o \in Op /\ o.w \in Wallet /\ o.amt \in Nat /\ o.kind \in Kind
  BY DEF TypeOK, Op, Owned, Land
<1>2. PICK n \in Minted(o) :
        /\ Apply(o.kind, o.w, o.amt, n)
        /\ slot' = [slot EXCEPT ![i] = Left([o EXCEPT !.tx = "ok", !.got = n])]
  BY DEF Land
<1>n. n \in Nat  BY <1>1, SharesNat
<1> DEFINE x == [o EXCEPT !.tx = "ok", !.got = n]
<1>x. /\ slot'[i] = Left(x) /\ \A j \in Slot \ {i} : slot'[j] = slot[j]
      /\ x \in Op /\ x.pc = o.pc /\ x.kind = o.kind /\ x.w = o.w
      /\ x.amt = o.amt /\ x.tx = "ok" /\ x.got = n /\ o.tx = "flight"
  BY <1>1, <1>2, <1>n DEF Land, Op
<1> HIDE DEF x
<1>3. /\ shares \in [Wallet -> Nat]
      /\ receipt \in [Wallet -> [amt : Nat, left : {0, 1}] \cup {None}]
      /\ clean \in [Wallet -> BOOLEAN] /\ ledger' = ledger /\ period \in {0, 1}
  BY DEF TypeOK, Land
<1>k. off \in [Wallet -> Int] /\ KeepOff  BY DEF TypeOK, Land
<1> SUFFICES ASSUME NEW w \in Wallet, clean'[w]
             PROVE  ledger'[w] + Pending(slot', In, w)
                      = shares'[w] + Escrowed(w)' + Pending(slot', Out, w) + off'[w]
  BY DEF Balanced
<1>o. off'[w] = off[w] /\ off[w] \in Int  BY <1>k, OffKept
<1>4. clean[w] /\ (w = o.w /\ o.kind = "claim" => o.amt = receipt[w].amt)
  BY <1>1, <1>3 DEF Land
<1>5. CASE w # o.w
  <2>1. shares'[w] = shares[w] /\ receipt'[w] = receipt[w]
    BY <1>1, <1>2, <1>3, <1>5 DEF Apply, Kind
  <2>2. \A K \in {In, Out} : ~Pends(slot[i], K, w) /\ ~Pends(slot'[i], K, w)
    BY <1>1, <1>5, <1>x, LeftProps DEF Pends, Free
  <2>3. Quiet(w)
    BY <1>3, <1>4, <1>o, <1>x, <2>1, <2>2 DEF Quiet
  <2> QED  BY <2>3, QuietBalanced
<1>6. CASE w = o.w
  <2> DEFINE d == Pending(slot, In, w)
             b == Pending(slot, Out, w)
             e == Escrowed(w)
  <2>1. o.pc \in {"confirming", "booking"}
    BY <1>x, <1>4, <1>6 DEF Attended
  <2>x. slot'[i] = x
    BY <1>x, <2>1, LeftProps
  <2>2. /\ d \in Nat /\ b \in Nat /\ e \in Nat /\ ledger[w] \in Nat
        /\ shares[w] \in Nat
    BY <1>1, <1>3, PendingNat DEF Escrowed, TypeOK
  <2>3. ledger[w] + d = shares[w] + e + b + off[w]
    BY <1>4 DEF Balanced
  <2>4. ~Pends(slot[i], In, w) /\ ~Pends(slot[i], Out, w)
    BY <1>x DEF Pends
  <2>5. CASE o.kind = "deposit"
    <3>1. Pends(slot'[i], In, w) /\ ~Pends(slot'[i], Out, w)
      BY <1>x, <1>6, <2>1, <2>x, <2>5 DEF Pends, In, Out
    <3>2. Pending(slot', In, w) = d + n
      BY <1>1, <1>x, <2>x, <2>4, <2>5, <3>1, PendingMore DEF Size
    <3>3. Pending(slot', Out, w) = b
      BY <1>1, <1>x, <2>4, <3>1, PendingKept
    <3>4. shares'[w] = shares[w] + n /\ receipt'[w] = receipt[w]
      BY <1>1, <1>2, <1>3, <1>6, <2>5 DEF Apply
    <3>5. Escrowed(w)' = e  BY <3>4 DEF Escrowed
    <3>6. ledger[w] + (d + n) = (shares[w] + n) + e + b + off[w]
      BY <1>n, <1>o, <2>2, <2>3
    <3> QED  BY <1>3, <1>o, <3>2, <3>3, <3>4, <3>5, <3>6
  <2>6. CASE o.kind \in Out
    <3>1. Pends(slot'[i], Out, w) /\ ~Pends(slot'[i], In, w)
      BY <1>x, <1>6, <2>1, <2>x, <2>6 DEF Pends, In, Out
    <3>2. Pending(slot', Out, w) = b + o.amt
      BY <1>1, <1>x, <2>x, <2>4, <2>6, <3>1, PendingMore DEF Size, Out
    <3>3. Pending(slot', In, w) = d
      BY <1>1, <1>x, <2>4, <3>1, PendingKept
    <3>4. shares'[w] + Escrowed(w)' = shares[w] + e - o.amt
      <4>1. CASE o.kind = "instant"
        <5>1. shares'[w] = shares[w] - o.amt /\ receipt'[w] = receipt[w]
          BY <1>1, <1>2, <1>3, <1>6, <4>1 DEF Apply
        <5>2. Escrowed(w)' = e  BY <5>1 DEF Escrowed
        <5> QED  BY <1>1, <2>2, <5>1, <5>2
      <4>2. CASE o.kind = "claim"
        <5>1. receipt[w] # None /\ o.amt = receipt[w].amt
          BY <1>4, <1>6, <4>2 DEF Land, Accepts
        <5>2. shares'[w] = shares[w] + 0 /\ receipt'[w] = None
          BY <1>1, <1>2, <1>3, <1>6, <4>2 DEF Apply
        <5>3. Escrowed(w)' = 0 /\ e = o.amt
          BY <5>1, <5>2 DEF Escrowed
        <5> QED  BY <1>1, <2>2, <5>2, <5>3
      <4> QED  BY <2>6, <4>1, <4>2 DEF Out
    <3>5. Escrowed(w)' \in Nat /\ shares'[w] \in Nat
      BY DEF TypeOK, Escrowed
    <3> QED  BY <1>1, <1>3, <1>o, <2>2, <2>3, <3>2, <3>3, <3>4, <3>5
  <2>7. CASE o.kind \in {"request", "cancel"}
    <3>1. ~Pends(slot'[i], Out, w) /\ ~Pends(slot'[i], In, w)
      BY <1>x, <2>x, <2>7 DEF Pends, In, Out
    <3>2. Pending(slot', Out, w) = b /\ Pending(slot', In, w) = d
      BY <1>1, <1>x, <2>4, <3>1, PendingKept
    <3>3. shares'[w] + Escrowed(w)' = shares[w] + e
      <4>1. CASE o.kind = "request"
        <5>1. receipt[w] = None
          BY <1>6, <4>1 DEF Land, Accepts
        <5>2. shares'[w] = shares[w] - o.amt
          BY <1>1, <1>2, <1>3, <1>6, <4>1 DEF Apply
        <5>3. receipt'[w] = [amt |-> o.amt, left |-> period]
          BY <1>1, <1>2, <1>3, <1>6, <4>1 DEF Apply
        <5>4. receipt'[w] # None
          BY <1>1, <1>3, <5>3, WidgetAssumption DEF WidgetAssumption
        <5>5. Escrowed(w)' = o.amt /\ e = 0
          BY <5>1, <5>3, <5>4 DEF Escrowed
        <5> QED  BY <1>1, <2>2, <5>2, <5>5
      <4>2. CASE o.kind = "cancel"
        <5>1. receipt[w] # None
          BY <1>6, <4>2 DEF Land, Accepts
        <5>2. shares'[w] = shares[w] + receipt[w].amt /\ receipt'[w] = None
          BY <1>1, <1>2, <1>3, <1>6, <4>2 DEF Apply
        <5>3. Escrowed(w)' = 0 /\ e = receipt[w].amt
          BY <5>1, <5>2 DEF Escrowed
        <5> QED  BY <2>2, <5>2, <5>3
      <4> QED  BY <2>7, <4>1, <4>2
    <3> QED  BY <1>3, <1>o, <2>2, <2>3, <3>2, <3>3
  <2> QED  BY <1>1, <2>5, <2>6, <2>7 DEF Kind, Out
<1> QED  BY <1>5, <1>6

LEMMA BookBalanced ==
  ASSUME TypeOK, TypeOK', Owned, Attended, Balanced, NEW i \in Slot, Book(i)
  PROVE  Balanced'
<1> DEFINE o == slot[i]
<1>1. /\ slot \in [Slot -> Op] /\ slot' \in [Slot -> Op]
      /\ o \in Op /\ o.w \in Wallet /\ o.amt \in Nat /\ o.kind \in Kind
  BY DEF TypeOK, Op, Owned, Book
<1>2. /\ slot'[i] = Free /\ o.pc = "booking"
      /\ \A j \in Slot \ {i} : slot'[j] = slot[j]
  BY <1>1 DEF Book
<1>3. /\ UNCHANGED <<shares, receipt>>
      /\ clean \in [Wallet -> BOOLEAN] /\ ledger \in [Wallet -> Nat]
      /\ shares \in [Wallet -> Nat]
      /\ receipt \in [Wallet -> [amt : Nat, left : {0, 1}] \cup {None}]
  BY DEF TypeOK, Book, chain
<1> SUFFICES ASSUME NEW w \in Wallet, clean'[w]
             PROVE  ledger'[w] + Pending(slot', In, w)
                      = shares'[w] + Escrowed(w)' + Pending(slot', Out, w) + off'[w]
  BY DEF Balanced
<1>4. clean[w]  BY <1>1, <1>3 DEF Book
<1>o. /\ off \in [Wallet -> Int] /\ off' \in [Wallet -> Int]
      /\ o.kind # "deposit" => off'[w] = off[w]
  <2>1. off \in [Wallet -> Int] /\ off' \in [Wallet -> Int]  BY DEF TypeOK
  <2>2. o.kind # "deposit" => KeepOff  BY DEF Book
  <2> QED  BY <2>1, <2>2, OffKept
<1>5. ~Pends(slot'[i], In, w) /\ ~Pends(slot'[i], Out, w)
  BY <1>2 DEF Pends, Free
<1>6. CASE w # o.w
  <2>1. ledger'[w] = ledger[w]
    BY <1>1, <1>3, <1>6 DEF Book
  <2>2. off'[w] = off[w]
    <3>1. KeepOff \/ \E y : off' = [off EXCEPT ![o.w] = y]
      BY DEF Book
    <3> QED  BY <1>1, <1>6, <1>o, <3>1, OffKept
  <2>3. Quiet(w)
    BY <1>1, <1>2, <1>3, <1>4, <1>5, <1>6, <2>1, <2>2 DEF Quiet, Pends
  <2> QED  BY <2>3, QuietBalanced
<1>7. CASE w = o.w
  <2> DEFINE d == Pending(slot, In, w)
             b == Pending(slot, Out, w)
             e == Escrowed(w)
  <2>1. o.tx = "ok"
    BY <1>2, <1>4, <1>7 DEF Attended
  <2>2. /\ d \in Nat /\ b \in Nat /\ e \in Nat /\ ledger[w] \in Nat
        /\ shares[w] \in Nat
        /\ Pending(slot', In, w) \in Nat /\ Pending(slot', Out, w) \in Nat
        /\ off[w] \in Int
    BY <1>1, <1>3, <1>o, PendingNat DEF Escrowed
  <2>3. ledger[w] + d = shares[w] + e + b + off[w]
    BY <1>4 DEF Balanced
  <2>4. shares'[w] = shares[w] /\ Escrowed(w)' = e
    BY <1>3 DEF Escrowed
  <2>5. CASE o.kind = "deposit"
    <3>1. Pends(slot[i], In, w) /\ ~Pends(slot[i], Out, w)
      BY <1>2, <1>7, <2>1, <2>5 DEF Pends, In, Out
    <3>2. d = Pending(slot', In, w) + o.got
      BY <1>1, <1>2, <1>5, <2>5, <3>1, PendingMore DEF Size
    <3>3. Pending(slot', Out, w) = b
      BY <1>1, <1>2, <1>5, <3>1, PendingKept
    <3>4. PICK n \in Estimates(o) :
            /\ ledger'[w] = ledger[w] + n
            /\ off'[w] = off[w] + (ledger'[w] - ledger[w] - o.got)
      <4>1. clean'[o.w]  BY <1>7
      <4>2. clean' # [clean EXCEPT ![o.w] = FALSE]
        BY <1>1, <1>3, <4>1
      <4>3. \E t \in {ledger[o.w] + n : n \in Estimates(o)} :
              /\ ledger' = [ledger EXCEPT ![o.w] = t]
              /\ IF clean'[o.w] /\ o.kind = "deposit"
                   THEN off' = [off EXCEPT ![o.w] = @ + (t - ledger[o.w] - o.got)]
                   ELSE KeepOff
        <5> DEFINE S == CASE o.kind = "deposit" ->
                                {ledger[o.w] + n : n \in Estimates(o)}
                          [] BooksWithdraw(o.kind) ->
                                {FewerShares(ledger[o.w], o.amt)}
                          [] OTHER -> {ledger[o.w]}
                    Keeps(t) == /\ ledger' = [ledger EXCEPT ![o.w] = t]
                                /\ IF clean'[o.w] /\ o.kind = "deposit"
                                     THEN off' = [off EXCEPT
                                            ![o.w] = @ + (t - ledger[o.w] - o.got)]
                                     ELSE KeepOff
        <5>1. \E t \in S : Keeps(t)
          BY <4>2 DEF Book
        <5>2. ~BooksWithdraw(o.kind)
          BY <2>5 DEF BooksWithdraw
        <5>3. S = {ledger[o.w] + n : n \in Estimates(o)}
          BY <2>5, <5>2
        <5> HIDE DEF S
        <5> QED  BY <5>1, <5>3
      <4>4. PICK n \in Estimates(o) :
              /\ ledger' = [ledger EXCEPT ![o.w] = ledger[o.w] + n]
              /\ off' = [off EXCEPT
                   ![o.w] = @ + ((ledger[o.w] + n) - ledger[o.w] - o.got)]
        BY <2>5, <4>1, <4>3, Zenon
      <4> QED  BY <1>1, <1>3, <1>7, <1>o, <4>4
    <3>5. n \in Nat /\ o.got \in Nat
      BY <1>1, SharesNat DEF Op
    <3> QED  BY <2>2, <2>3, <2>4, <3>2, <3>3, <3>4, <3>5
  <2>6. CASE o.kind \in Out
    <3>1. Pends(slot[i], Out, w) /\ ~Pends(slot[i], In, w)
      BY <1>2, <1>7, <2>1, <2>6 DEF Pends, In, Out
    <3>2. b = Pending(slot', Out, w) + o.amt
      BY <1>1, <1>2, <1>5, <2>6, <3>1, PendingMore DEF Size, Out
    <3>3. Pending(slot', In, w) = d
      BY <1>1, <1>2, <1>5, <3>1, PendingKept
    <3>4. o.kind # "deposit" /\ BooksWithdraw(o.kind)
      BY <2>6 DEF Out, BooksWithdraw
    <3>5. ledger'[w] = FewerShares(ledger[w], o.amt) /\ o.amt <= ledger[w]
      BY <1>1, <1>3, <1>7, <3>4 DEF Book
    <3>6. ledger'[w] = ledger[w] - o.amt
      BY <1>1, <2>2, <3>5 DEF FewerShares
    <3> QED  BY <1>1, <1>o, <2>2, <2>3, <2>4, <3>2, <3>3, <3>4, <3>6
  <2>7. CASE o.kind \in {"request", "cancel"}
    <3>1. ~Pends(slot[i], Out, w) /\ ~Pends(slot[i], In, w)
      BY <2>7 DEF Pends, In, Out
    <3>2. Pending(slot', Out, w) = b /\ Pending(slot', In, w) = d
      BY <1>1, <1>2, <1>5, <3>1, PendingKept
    <3>3. ledger'[w] = ledger[w]
      BY <1>1, <1>3, <1>7, <2>7 DEF Book, BooksWithdraw
    <3> QED  BY <1>o, <2>2, <2>3, <2>4, <2>7, <3>2, <3>3
  <2> QED  BY <1>1, <2>5, <2>6, <2>7 DEF Kind, Out
<1> QED  BY <1>6, <1>7

LEMMA ReloadQuiet ==
  ASSUME TypeOK, Owned, Attended, Reload, NEW w \in Wallet, clean'[w]
  PROVE  Quiet(w)
<1>1. /\ slot \in [Slot -> Op] /\ clean \in [Wallet -> BOOLEAN]
  BY DEF TypeOK, Op
<1>2. clean[w] /\ UNCHANGED <<ledger, shares, receipt>>
  BY DEF Reload, chain
<1>3. \A j \in Slot : slot[j].w = w => slot[j].tx \notin {"flight", "ok"}
  BY <1>1, <1>2 DEF Reload, Attended
<1>4. \A j \in Slot : \/ slot'[j] = [slot[j] EXCEPT !.pc = "idle"]
                      \/ slot'[j] = Free
  BY DEF Reload, Left
<1>o. off'[w] = off[w]
  BY OffKept DEF Reload
<1>5. ASSUME NEW j \in Slot PROVE slot'[j].pc = "idle"
  <2>1. slot[j] \in Op  BY <1>1
  <2>2. [slot[j] EXCEPT !.pc = "idle"].pc = "idle"  BY <2>1 DEF Op
  <2>3. Free.pc = "idle"  BY DEF Free
  <2> QED  BY <1>4, <2>2, <2>3
<1>6. \A j \in Slot : \A K \in {In, Out} :
        ~Pends(slot[j], K, w) /\ ~Pends(slot'[j], K, w)
  BY <1>3, <1>5 DEF Pends
<1> QED  BY <1>2, <1>o, <1>6 DEF Quiet

LEMMA NextBalanced ==
  Inv /\ [Next]_vars => Attended' /\ Balanced'
<1> SUFFICES ASSUME Inv, [Next]_vars PROVE Attended' /\ Balanced'
  OBVIOUS
<1>1. TypeOK /\ TypeOK' /\ Owned /\ Attended /\ Balanced
  BY NextTyped DEF Inv
<1>2. CASE \E i \in Slot : Operation(i)
  <2>1. PICK i \in Slot : Operation(i)  BY <1>2
  <2>2. Attended'  BY <1>1, <2>1, OperationAttended
  <2>3. CASE Land(i)  BY <1>1, <2>2, <2>3, LandBalanced
  <2>4. CASE Book(i)  BY <1>1, <2>2, <2>4, BookBalanced
  <2>5. CASE ~Land(i) /\ ~Book(i)
    <3>1. \A w \in Wallet : clean'[w] => Quiet(w)
      BY <1>1, <2>1, <2>5, MiddleQuiet DEF Operation
    <3> QED  BY <1>1, <2>2, <3>1, QuietBalanced DEF Balanced
  <2> QED  BY <2>3, <2>4, <2>5
<1>3. CASE Reload
  <2>1. \A w \in Wallet : clean'[w] => Quiet(w)
    BY <1>1, <1>3, ReloadQuiet
  <2> QED  BY <1>1, <1>3, <2>1, PageAttended, QuietBalanced DEF Balanced
<1>4. CASE Tick
  <2>1. UNCHANGED <<shares, slot, books, clean>>
    BY <1>4 DEF Tick
  <2>2. \A w \in Wallet : Escrowed(w)' = Escrowed(w)
    <3>1. receipt \in [Wallet -> [amt : Nat, left : {0, 1}] \cup {None}]
      BY <1>1 DEF TypeOK
    <3>2. \A w \in Wallet : receipt[w] = None => receipt'[w] = None
      BY <1>4 DEF Tick
    <3>3. ASSUME NEW w \in Wallet, receipt[w] # None
          PROVE  receipt'[w] # None /\ receipt'[w].amt = receipt[w].amt
      <4>1. receipt[w] \in [amt : Nat, left : {0, 1}]
        BY <3>1, <3>3
      <4>2. receipt'[w] = [receipt[w] EXCEPT
                 !.left = IF receipt[w].left = 0 THEN 0 ELSE receipt[w].left - 1]
        BY <1>4, <3>3 DEF Tick
      <4>3. receipt'[w] \in [amt : Nat, left : {0, 1}]
        BY <4>1, <4>2
      <4> QED  BY <4>1, <4>2, <4>3, WidgetAssumption DEF WidgetAssumption
    <3> QED  BY <3>2, <3>3 DEF Escrowed
  <2>3. Balanced'
    BY <1>1, <2>1, <2>2 DEF Balanced, books, Pending, Units, Owing, Block
  <2> QED  BY <1>1, <1>4, <2>3, PageAttended
<1>5. CASE \/ AdminSetsPeriod \/ FetchPeriod \/ PollSent \/ PollAnswered
           \/ Disconnect \/ ClickTooEarly \/ (\E w \in Wallet : Connect(w))
           \/ (\E m \in {"deposit", "withdraw"} : SetMode(m))
  <2>1. UNCHANGED <<shares, receipt, slot, books, clean>>
    BY <1>5 DEF AdminSetsPeriod, FetchPeriod, PollSent, PollAnswered,
                Disconnect, ClickTooEarly, Connect, SetMode, chain
  <2>2. \A w \in Wallet : Escrowed(w)' = Escrowed(w)
    BY <2>1 DEF Escrowed
  <2>3. Balanced'
    BY <1>1, <2>1, <2>2 DEF Balanced, books, Pending, Units, Owing, Block
  <2> QED  BY <1>1, <1>5, <2>3, PageAttended
<1>6. CASE UNCHANGED vars
  <2>1. UNCHANGED <<shares, receipt, slot, books, clean>>
    BY <1>6 DEF vars, chain
  <2>2. \A w \in Wallet : Escrowed(w)' = Escrowed(w)
    BY <2>1 DEF Escrowed
  <2> QED
    BY <1>1, <2>1, <2>2 DEF Attended, Balanced, books, Pending, Units, Owing, Block
<1> QED  BY <1>2, <1>3, <1>4, <1>5, <1>6 DEF Next

LEMMA InvSettles == Inv => LedgerMatches
<1> SUFFICES ASSUME Inv, NEW w \in Wallet, clean[w], Settled(w)
             PROVE  ledger[w] = shares[w] + Escrowed(w) + off[w]
  BY DEF LedgerMatches
<1>1. /\ slot \in [Slot -> Op] /\ ledger[w] \in Nat /\ shares[w] \in Nat
      /\ Escrowed(w) \in Nat /\ off[w] \in Int
  BY DEF Inv, TypeOK, Op, Escrowed
<1>2. \A j \in Slot : slot[j].w = w => slot[j].pc = "idle"
  BY DEF Settled
<1>3. Pending(slot, In, w) = 0 /\ Pending(slot, Out, w) = 0
  BY <1>1, <1>2, NothingPends DEF Pends
<1>4. ledger[w] + Pending(slot, In, w)
        = shares[w] + Escrowed(w) + Pending(slot, Out, w) + off[w]
  BY DEF Inv, Balanced
<1> QED  BY <1>1, <1>3, <1>4

\* The browser's ledger differs from what the wallet has in the vault, escrow
\* included, by what the estimates of its deposits were off and nothing else,
\* after any mix of operations, one over the other, that no fault has touched:
\* for any rates the program mints at and any the page estimates.
THEOREM LedgerAgrees == Spec => []LedgerMatches
<1>1. Init => Inv
  BY InitTyped, InitBalanced DEF Inv
<1>2. Inv /\ [Next]_vars => Inv'
  BY NextTyped, NextBalanced DEF Inv
<1>3. Inv => LedgerMatches  BY InvSettles
<1> QED  BY <1>1, <1>2, <1>3, PTL DEF Spec

==============================================================================
