------------------------- MODULE SignalGatesProofs -------------------------
(***************************************************************************)
(* Theorems about SignalGates: what the snapshot knows of Jupiter while    *)
(* both move on, for any events and markets, any pages, any TTL and any    *)
(* signals.                                                                *)
(***************************************************************************)
EXTENDS SignalGates, SequenceTheorems, WellFoundedInduction, TLAPS

\* A market that is open has not been shut for any time.
Shutting ==
  /\ open \subseteq Market
  /\ shutFor \in [Market -> Age]
  /\ \A m \in open : shutFor[m] = 0

\* What a reading of that age may say: a market it calls open has been shut
\* for no longer than the reading is old, and one that is open it does not
\* call shut.
Known(of, age) ==
  \A e \in Event :
    of[e] # None =>
      /\ of[e] \subseteq ToSet(MarketsOf[e])
      /\ \A m \in of[e] : shutFor[m] <= age
      /\ \A m \in ToSet(MarketsOf[e]) : m \in open => m \in of[e]

SnapInv ==
  /\ Shutting
  /\ snap \in Snapshot /\ Known(snap.of, snap.age)
  /\ build # None => build \in Partial /\ Known(build.of, build.age)

\* Where the loop is in the feed.
PosInv == {pos, cursor, upto, arrived} \subseteq Nat

\* A refresh within the tick in which its iteration began gives a snapshot
\* that is not stale.
AgeInv ==
  /\ since \in Age
  /\ pc = "refresh" /\ since = 0 => build # None /\ build.age = 0
  /\ pc \in {"fetch", "row", "market", "order"} /\ ~failed /\ since = 0
       => snap.age <= TTL

-----------------------------------------------------------------------------
(* The snapshot and Jupiter.                                               *)

LEMMA OlderAge ==
  ASSUME NEW n \in Age
  PROVE  Older(n) \in Age /\ Older(n) > 0 /\ \A k \in Age : k <= n => Older(k) <= Older(n)
BY SnapshotAssumption DEF Age, Older

LEMMA InitSnap == Init => SnapInv
<1> SUFFICES ASSUME Init PROVE SnapInv
  OBVIOUS
<1>1. Shutting
  BY SnapshotAssumption DEF Init, SnapInit, Shutting, Age
<1>2. Empty.of = [e \in Event |-> None] /\ Empty \in Snapshot
  BY SnapshotAssumption DEF Empty, Snapshot, OpenOf, Age
<1>3. \A age : Known(Empty.of, age)
  BY <1>2 DEF Known
<1> QED
  BY <1>1, <1>2, <1>3 DEF Init, SnapInit, SnapInv

\* A reading stays true while markets shut and time goes by for both.
LEMMA StillKnown ==
  ASSUME Shutting, NEW of \in OpenOf, NEW age \in Age, Known(of, age), Jupiter
  PROVE  Known(of, age)'
<1>1. shutFor' = shutFor /\ open' \subseteq open
  BY DEF Jupiter, List, Delist, Ends, Shut
<1> QED
  BY <1>1 DEF Known

LEMMA KnownLater ==
  ASSUME Shutting, NEW of \in OpenOf, NEW age \in Age, Known(of, age), TickSnapshot
  PROVE  /\ \A e \in Event :
              of[e] # None =>
                /\ of[e] \subseteq ToSet(MarketsOf[e])
                /\ \A m \in of[e] : shutFor'[m] <= Older(age)
                /\ \A m \in ToSet(MarketsOf[e]) : m \in open' => m \in of[e]
<1> SUFFICES ASSUME NEW e \in Event, of[e] # None
             PROVE  /\ of[e] \subseteq ToSet(MarketsOf[e])
                    /\ \A m \in of[e] : shutFor'[m] <= Older(age)
                    /\ \A m \in ToSet(MarketsOf[e]) : m \in open' => m \in of[e]
  OBVIOUS
<1>1. /\ open' = open
      /\ shutFor' = [m \in Market |-> IF m \in open THEN 0 ELSE Older(shutFor[m])]
  BY DEF TickSnapshot
<1>2. of[e] \subseteq Market
  BY DEF OpenOf
<1>3. ASSUME NEW m \in of[e] PROVE shutFor'[m] <= Older(age)
  <2>1. shutFor[m] \in Age /\ shutFor[m] <= age
    BY <1>2 DEF Known, Shutting
  <2>2. Older(shutFor[m]) <= Older(age) /\ Older(age) > 0 /\ Older(age) \in Age
    BY <2>1, OlderAge
  <2>3. Older(age) \in Int
    BY <2>2 DEF Age
  <2> QED
    BY <1>1, <1>2, <2>2, <2>3
<1> QED
  BY <1>1, <1>3 DEF Known

LEMMA TickSnap == ASSUME SnapInv, TickSnapshot PROVE SnapInv'
<1> USE DEF SnapInv
<1>1. Shutting'
  BY OlderAge, SnapshotAssumption DEF TickSnapshot, Shutting, Age
<1>2. /\ snap.of \in OpenOf /\ snap.age \in Age
      /\ snap' = [snap EXCEPT !.age = Older(snap.age)]
  BY DEF Snapshot, TickSnapshot
<1>3. snap'.of = snap.of /\ snap'.age = Older(snap.age) /\ snap' \in Snapshot
  BY <1>2, OlderAge DEF Snapshot
<1>4. Known(snap.of, snap.age)'
  BY <1>2, <1>3, KnownLater DEF Known
<1>5. CASE build = None
  BY <1>1, <1>3, <1>4, <1>5 DEF TickSnapshot
<1>6. CASE build # None
  <2>1. /\ build \in Partial /\ Known(build.of, build.age)
        /\ build' = [build EXCEPT !.age = Older(build.age)]
    BY <1>6 DEF TickSnapshot
  <2>2. build.of \in OpenOf /\ build.age \in Age
    BY <2>1 DEF Partial
  <2>3. build'.of = build.of /\ build'.age = Older(build.age) /\ build' \in Partial
    BY <2>1, <2>2, OlderAge DEF Partial
  <2>4. Known(build.of, build.age)'
    BY <2>1, <2>2, <2>3, KnownLater DEF Known
  <2> QED
    BY <1>1, <1>3, <1>4, <2>3, <2>4
<1> QED
  BY <1>5, <1>6

LEMMA JupiterSnap == ASSUME SnapInv, Jupiter PROVE SnapInv'
<1> USE DEF SnapInv
<1>1. Shutting'
  BY DEF Jupiter, List, Delist, Ends, Shut, Shutting
<1>2. snap' = snap /\ snap.of \in OpenOf /\ snap.age \in Age
  BY DEF Jupiter, List, Delist, Ends, Shut, Snapshot
<1>3. Known(snap.of, snap.age)'
  BY <1>2, StillKnown
<1>4. CASE build' = build
  <2>1. build # None => build.of \in OpenOf /\ build.age \in Age
    BY DEF Partial
  <2>2. build # None => Known(build.of, build.age)'
    BY <1>4, <2>1, StillKnown
  <2> QED
    BY <1>1, <1>2, <1>3, <1>4, <2>2
<1>5. ASSUME NEW e \in Event, Delist(e) PROVE SnapInv'
  <2>1. CASE build = None
    BY <1>4, <1>5, <2>1 DEF Delist
  <2>2. CASE build # None
    <3>1. /\ build \in Partial /\ Known(build.of, build.age)
          /\ build' = [build EXCEPT !.shifted = build.shifted \cup {CategoryOf[e]}]
      BY <1>5, <2>2 DEF Delist
    <3>2. CategoryOf[e] \in ToSet(Categories)
      BY SnapshotAssumption
    <3>3. build'.of = build.of /\ build'.age = build.age /\ build' \in Partial
      BY <3>1, <3>2 DEF Partial
    <3>4. build.of \in OpenOf /\ build.age \in Age
      BY <3>1 DEF Partial
    <3>5. Known(build.of, build.age)'
      BY <3>1, <3>3, <3>4, StillKnown
    <3> QED
      BY <1>1, <1>2, <1>3, <3>3, <3>5
  <2> QED
    BY <2>1, <2>2
<1> QED
  BY <1>4, <1>5 DEF Jupiter, List, Ends, Shut
-----------------------------------------------------------------------------
(* The reading.                                                            *)

LEMMA StartSnap ==
  ASSUME SnapInv, StartBuild
  PROVE  SnapInv' /\ build' \in Partial /\ build'.age = 0
<1> DEFINE b == [of |-> Empty.of, age |-> 0, shifted |-> {}, cut |-> {},
                 cat |-> 1, start |-> 0, page |-> 0]
<1>1. build' = b /\ snap' = snap /\ open' = open /\ shutFor' = shutFor
  BY DEF StartBuild, jupiter
<1>2. Empty.of = [e \in Event |-> None] /\ 0 \in Age /\ 1 \in 1 .. Len(Categories)
  BY SnapshotAssumption DEF Empty, Age
<1>3. b \in Partial /\ b.of = Empty.of /\ b.age = 0
  BY <1>2 DEF Partial, OpenOf
<1>4. Known(Empty.of, 0)'
  BY <1>2 DEF Known
<1> HIDE DEF b
<1> QED
  BY <1>1, <1>3, <1>4 DEF SnapInv, Shutting, Known

\* The names of ReadPage.
PageCat == Categories[build.cat]
HasNext == build.start + PageSize < Len(list[PageCat])
Here == SubSeq(list[PageCat], build.start + 1,
               IF HasNext THEN build.start + PageSize ELSE Len(list[PageCat]))
PageOf == [d \in Event |-> IF d \in ToSet(Here)
                             THEN open \cap ToSet(MarketsOf[d])
                             ELSE build.of[d]]
ReadsOn == \/ HasNext /\ build.page + 1 < MaxPages
           \/ build.cat < Len(Categories)

\* The markets of the events of a page are read as they are; the others stay
\* as they were read.
LEMMA ReadSnap ==
  ASSUME SnapInv, ReadPage
  PROVE  /\ SnapInv'
         /\ \/ build' \in Partial /\ build'.age = build.age
            \/ build' = None /\ snap'.age = build.age /\ ~ReadsOn
<1> USE DEF SnapInv
<1> DEFINE c == Categories[build.cat]
           hasNext == build.start + PageSize < Len(list[c])
           here == SubSeq(list[c], build.start + 1,
                     IF hasNext THEN build.start + PageSize ELSE Len(list[c]))
           of == [e \in Event |-> IF e \in ToSet(here)
                                    THEN open \cap ToSet(MarketsOf[e])
                                    ELSE build.of[e]]
           more == hasNext /\ build.page + 1 < MaxPages
           cut == IF hasNext /\ ~more THEN build.cut \cup {c} ELSE build.cut
           cat == IF more THEN build.cat ELSE build.cat + 1
           start == IF more THEN NextStart(build.start) ELSE 0
           page == IF more THEN build.page + 1 ELSE 0
           b == [build EXCEPT !.of = of, !.cut = cut, !.cat = cat,
                              !.start = start, !.page = page]
           s == [of |-> of, age |-> build.age, shifted |-> build.shifted, cut |-> cut]
<1>1. /\ build # None /\ build \in Partial /\ Known(build.of, build.age)
      /\ open' = open /\ shutFor' = shutFor
  BY DEF ReadPage, jupiter
<1>2. /\ build.of \in OpenOf /\ build.age \in Age /\ build.cut \subseteq ToSet(Categories)
      /\ build.cat \in 1 .. Len(Categories) /\ build.start \in Nat /\ build.page \in Nat
      /\ build.shifted \subseteq ToSet(Categories)
  BY <1>1 DEF Partial
<1>3. c \in ToSet(Categories)
  BY <1>2, SnapshotAssumption DEF ToSet
<1>4. \A e \in Event : open \cap ToSet(MarketsOf[e]) \in SUBSET Market
  BY DEF Shutting
<1> HIDE DEF c, hasNext, here
<1>5. of \in OpenOf
  BY <1>2, <1>4 DEF OpenOf
<1>6. Known(of, build.age)
  <2> SUFFICES ASSUME NEW e \in Event, of[e] # None
               PROVE  /\ of[e] \subseteq ToSet(MarketsOf[e])
                      /\ \A m \in of[e] : shutFor[m] <= build.age
                      /\ \A m \in ToSet(MarketsOf[e]) : m \in open => m \in of[e]
    BY DEF Known
  <2>1. CASE of[e] = open \cap ToSet(MarketsOf[e])
    BY <1>2, <2>1 DEF Shutting, Age
  <2>2. CASE of[e] = build.of[e]
    BY <1>1, <2>2 DEF Known
  <2> QED
    BY <2>1, <2>2
<1>7. cut \subseteq ToSet(Categories)
  BY <1>2, <1>3
<1> HIDE DEF of, cut
<1>8. CASE (more \/ build.cat < Len(Categories)) /\ build' = b /\ snap' = snap
  <2>1. cat \in 1 .. Len(Categories) /\ start \in Nat /\ page \in Nat
    BY <1>2, <1>8, SnapshotAssumption DEF NextStart
  <2> HIDE DEF cat, start, page, more
  <2>2. b.of = of /\ b.age = build.age /\ b \in Partial
    BY <1>1, <1>5, <1>7, <2>1 DEF Partial
  <2> HIDE DEF b
  <2>3. Known(build.of, build.age)'
    BY <1>1, <1>6, <1>8, <2>2 DEF Known
  <2> QED
    BY <1>1, <1>8, <2>2, <2>3 DEF Shutting, Known
<1>9. CASE snap' = s /\ build' = None /\ ~ReadsOn
  <2>1. s \in Snapshot /\ s.of = of /\ s.age = build.age
    BY <1>2, <1>5, <1>7 DEF Snapshot
  <2> HIDE DEF s
  <2>2. Known(snap.of, snap.age)'
    BY <1>1, <1>6, <1>9, <2>1 DEF Known
  <2> QED
    BY <1>1, <1>9, <2>1, <2>2 DEF Shutting
<1> QED
  BY <1>8, <1>9 DEF ReadPage, c, hasNext, here, of, cut, ReadsOn, HasNext, PageCat

LEMMA FailsSnap == ASSUME SnapInv, BuildFails PROVE SnapInv'
BY DEF SnapInv, BuildFails, Shutting, Known, jupiter

LEMMA SameSnap == ASSUME SnapInv, UNCHANGED snapVars PROVE SnapInv'
BY DEF SnapInv, snapVars, Shutting, Known, jupiter

LEMMA NextSnap == ASSUME SnapInv, [Next]_vars PROVE SnapInv'
<1>1. CASE UNCHANGED snapVars
  BY <1>1, SameSnap
<1>2. CASE Boot
  BY <1>2, StartSnap DEF Boot
<1>3. CASE Top
  BY <1>1, <1>3, StartSnap DEF Top
<1>4. CASE Reading
  BY <1>4, ReadSnap, FailsSnap DEF Reading
<1>5. CASE Restart
  <2>1. snap' = Empty /\ build' = None /\ open' = open /\ shutFor' = shutFor
    BY <1>5 DEF Restart, jupiter
  <2>2. Empty.of = [e \in Event |-> None] /\ Empty \in Snapshot
    BY SnapshotAssumption DEF Empty, Snapshot, OpenOf, Age
  <2>3. Known(snap.of, snap.age)'
    BY <2>1, <2>2 DEF Known
  <2> QED
    BY <2>1, <2>2, <2>3 DEF SnapInv, Shutting
<1>6. CASE Tick
  BY <1>6, TickSnap DEF Tick
<1>7. CASE Jupiter
  BY <1>7, JupiterSnap
<1>8. CASE Fetch \/ GateRow \/ MapMarket \/ Order \/ EndOfBatch \/ Arrive
  BY <1>1, <1>8 DEF Fetch, GateRow, MapMarket, Order, EndOfBatch, Arrive, Skipped, Decide,
                    CallFails, Throws
<1>9. CASE UNCHANGED vars
  BY <1>1, <1>9 DEF vars
<1> QED
  BY <1>2, <1>3, <1>4, <1>5, <1>6, <1>7, <1>8, <1>9 DEF Next
-----------------------------------------------------------------------------
(* The loop.                                                               *)

LEMMA InitLoop == Init => PosInv /\ AgeInv
BY SnapshotAssumption DEF Init, PosInv, AgeInv, Age

LEMMA NextPos == PosInv /\ [Next]_vars => PosInv'
<1> SUFFICES ASSUME PosInv, [Next]_vars PROVE PosInv'
  OBVIOUS
<1> USE DEF PosInv
<1>1. CASE UNCHANGED <<pos, cursor, upto, arrived>>
  BY <1>1
<1>2. CASE Boot \/ Top \/ Reading \/ Tick \/ Jupiter \/ UNCHANGED vars
  BY <1>1, <1>2 DEF Boot, Top, Reading, Tick, Jupiter, vars, loopVars
<1>3. CASE Fetch \/ EndOfBatch \/ Restart \/ Arrive
  BY <1>3 DEF Fetch, EndOfBatch, Restart, Arrive, NoBatch, loopVars
<1>4. CASE GateRow \/ MapMarket \/ Order
  BY <1>4 DEF GateRow, MapMarket, Order, Skipped, Decide, CallFails, Throws
<1> QED
  BY <1>2, <1>3, <1>4 DEF Next

\* What moves on Jupiter does not make a reading older.
LEMMA JupiterAge ==
  ASSUME SnapInv, Jupiter
  PROVE  /\ snap' = snap
         /\ build # None => build' # None /\ build'.age = build.age
<1>1. snap' = snap
  BY DEF Jupiter, List, Delist, Ends, Shut
<1>2. CASE build' = build
  BY <1>1, <1>2
<1>3. ASSUME NEW e \in Event, Delist(e), build # None
      PROVE  build' # None /\ build'.age = build.age
  <2>1. /\ build \in Partial
        /\ build' = [build EXCEPT !.shifted = build.shifted \cup {CategoryOf[e]}]
    BY <1>3 DEF Delist, SnapInv
  <2>2. CategoryOf[e] \in ToSet(Categories)
    BY SnapshotAssumption
  <2>3. build' \in Partial /\ build'.age = build.age
    BY <2>1, <2>2 DEF Partial
  <2> QED
    BY <2>3, SnapshotAssumption
<1> QED
  BY <1>1, <1>2, <1>3 DEF Jupiter, List, Ends, Shut

LEMMA NextAge ==
  ASSUME SnapInv, AgeInv, [Next]_vars
  PROVE  AgeInv'
<1> USE DEF AgeInv
<1>0. snap.age \in Age /\ TTL \in Nat /\ 0 \in Age
  BY SnapshotAssumption DEF SnapInv, Snapshot, Age
<1>1. CASE UNCHANGED <<snap, build, pc, failed, since>>
  BY <1>1
<1>2. CASE Boot
  BY <1>2 DEF Boot, Goto, histVars
<1>3. CASE Top
  <2>1. CASE RefreshDue
    <3>1. build' # None /\ build'.age = 0
      BY <1>3, <2>1, StartSnap, SnapshotAssumption DEF Top
    <3> QED  BY <1>3, <2>1, <3>1 DEF Top, Goto, histVars
  <2>2. CASE ~RefreshDue
    BY <1>0, <1>3, <2>2 DEF Top, Goto, RefreshDue, snapVars, histVars, Age
  <2> QED
    BY <2>1, <2>2
<1>4. CASE Reading
  <2>1. CASE pc = "bootRead"
    BY <1>4, <2>1 DEF Reading, Goto
  <2>2. CASE pc = "refresh" /\ ReadPage
    <3>1. CASE build' \in Partial /\ build'.age = build.age
      <4>1. build' # None
        BY <3>1, SnapshotAssumption
      <4>2. pc' = "refresh" /\ since' = since
        BY <1>4, <2>2, <4>1 DEF Reading, Goto, ReadPage, BuildFails
      <4> QED
        BY <2>2, <3>1, <4>1, <4>2
    <3>2. CASE build' = None /\ snap'.age = build.age
      <4>1. pc' = "fetch" /\ since' = since
        BY <1>4, <2>2, <3>2 DEF Reading, Goto
      <4> QED
        BY <1>0, <2>2, <3>2, <4>1
    <3> QED
      BY <2>2, <3>1, <3>2, ReadSnap
  <2>3. CASE pc = "refresh" /\ ~ReadPage
    BY <1>4, <2>3 DEF Reading, Goto
  <2> QED
    BY <1>4, <2>1, <2>2, <2>3 DEF Reading
<1>5. CASE Fetch \/ GateRow \/ MapMarket \/ Order
  <2>1. /\ UNCHANGED <<snap, failed, since>> /\ pc \in {"fetch", "row", "market", "order"}
        /\ pc' \in {"row", "market", "order"}
    BY <1>5 DEF Fetch, GateRow, MapMarket, Order, Skipped, Decide, CallFails, Throws, Goto,
                snapVars, histVars
  <2> QED
    BY <2>1
<1>6. CASE EndOfBatch \/ Restart
  BY <1>0, <1>6 DEF EndOfBatch, Restart, NoBatch, Goto
<1>7. CASE Arrive
  BY <1>1, <1>7 DEF Arrive, snapVars, loopVars, histVars
<1>8. CASE Tick
  <2>1. pc' = pc /\ since' = IF InIteration THEN Older(since) ELSE 0
    BY <1>8 DEF Tick, loopVars
  <2>2. Older(since) \in Age /\ Older(since) # 0
    BY <1>0, OlderAge DEF Age
  <2> QED
    BY <1>0, <2>1, <2>2 DEF InIteration
<1>9. CASE Jupiter
  BY <1>9, JupiterAge DEF Jupiter, loopVars, histVars
<1>10. CASE UNCHANGED vars
  BY <1>1, <1>10 DEF vars, snapVars, loopVars, histVars
<1> QED
  BY <1>2, <1>3, <1>4, <1>5, <1>6, <1>7, <1>8, <1>9, <1>10 DEF Next

-----------------------------------------------------------------------------
(* What the resolver says.                                                 *)

LEMMA LeastIndex ==
  ASSUME NEW S \in SUBSET Nat, S # {}
  PROVE  \E i \in S : \A j \in S : i <= j
<1> DEFINE R == OpToRel(<, Nat)
<1>1. IsWellFoundedOn(R, Nat)
  BY NatLessThanWellFounded
<1>2. \A i, j \in Nat : <<i, j>> \in R <=> i < j
  BY DEF OpToRel
<1> HIDE DEF R
<1>3. PICK i \in S : \A j \in S : ~ (<<j, i>> \in R)
  BY <1>1, WFMin
<1>4. ASSUME NEW j \in S PROVE i <= j
  <2>1. i \in Nat /\ j \in Nat
    OBVIOUS
  <2>2. ~ (j < i)
    BY <1>2, <1>3, <2>1, Zenon
  <2> QED
    BY <2>1, <2>2
<1> QED
  BY <1>4

\* The first open market of an event is one of those the snapshot calls open.
LEMMA FirstIsOpen ==
  ASSUME SnapInv, NEW e \in Event, snap.of[e] # None, snap.of[e] # {}
  PROVE  FirstOpen(e) \in snap.of[e]
<1> DEFINE at == {i \in DOMAIN MarketsOf[e] : MarketsOf[e][i] \in snap.of[e]}
<1>1. snap.of[e] \subseteq ToSet(MarketsOf[e])
  BY DEF SnapInv, Known
<1>2. MarketsOf[e] \in Seq(Market)
  BY SnapshotAssumption
<1>3. at \in SUBSET Nat /\ at # {}
  BY <1>1, <1>2 DEF ToSet
<1>4. \E i \in at : \A j \in at : i <= j
  BY <1>3, LeastIndex
<1>5. (CHOOSE i \in at : \A j \in at : i <= j) \in at
  BY <1>4
<1>6. FirstOpen(e) = MarketsOf[e][CHOOSE i \in at : \A j \in at : i <= j]
  BY DEF FirstOpen
<1> HIDE DEF at
<1>7. \A i \in at : MarketsOf[e][i] \in snap.of[e]
  BY DEF at
<1> QED
  BY <1>5, <1>6, <1>7

\* From the row to a market only the gates lead.
LEMMA PickedByGate ==
  ASSUME [Next]_vars, pc = "row", pc' = "market"
  PROVE  /\ Resolve(EventNow).skip = "none" /\ pick' = Resolve(EventNow).market
         /\ open' = open /\ shutFor' = shutFor
<1>1. GateRow
  BY DEF Next, Boot, Top, Reading, Fetch, MapMarket, Order, EndOfBatch, Restart, Arrive,
         Tick, Jupiter, Goto, loopVars, vars
<1> DEFINE s == Sig(pos)
           r == Resolve(s.event)
           reason == IF ~s.genuine THEN "bad_signature"
                     ELSE IF s.key \in seen THEN "dedup_replay"
                     ELSE IF s.action # "open" THEN "action_not_yet_supported"
                     ELSE r.skip
<1>2. reason = "none" /\ pick' = r.market /\ UNCHANGED snapVars
  BY <1>1 DEF GateRow, Skipped, Decide, Goto
<1>3. r.skip = "none"
  BY <1>2
<1> QED
  BY <1>2, <1>3 DEF EventNow, snapVars, jupiter

LEMMA StepRecent ==
  ASSUME SnapInv, [Next]_vars, pc = "row", pc' = "market"
  PROVE  \/ shutFor[pick'] <= TTL
         \/ ToSet(MarketsOf[EventNow]) \cap open = {}
<1> DEFINE e == EventNow
<1>1. Resolve(e).skip = "none" /\ pick' = Resolve(e).market
  BY PickedByGate
<1> HIDE DEF e
<1>2. /\ ~Stale /\ e \in Event /\ snap.of[e] # None
      /\ pick' = FirstOpen(e)
  BY <1>1 DEF Resolve, Skip
<1>3. CASE snap.of[e] = {}
  <2>1. \A m \in ToSet(MarketsOf[e]) : m \notin open
    BY <1>2, <1>3 DEF SnapInv, Known
  <2> QED
    BY <2>1 DEF e
<1>4. CASE snap.of[e] # {}
  <2>1. FirstOpen(e) \in snap.of[e]
    BY <1>2, <1>4, FirstIsOpen
  <2>2. shutFor[pick'] <= snap.age /\ pick' \in Market
    BY <1>2, <2>1 DEF SnapInv, Known, Snapshot, OpenOf
  <2>3. snap.age \in Int /\ shutFor[pick'] \in Int /\ TTL \in Int /\ snap.age <= TTL
    BY <1>2, <2>2, SnapshotAssumption DEF SnapInv, Snapshot, Shutting, Age, Stale
  <2> QED
    BY <2>2, <2>3
<1> QED
  BY <1>3, <1>4

\* Only the gates say that the snapshot is stale.
LEMMA StepStale ==
  ASSUME SnapInv, PosInv, AgeInv, [Next]_vars, Becomes("snapshot_stale")
  PROVE  failed \/ since > 0
<1>1. pos' # pos
  BY DEF Becomes, PosInv
<1>2. GateRow
  BY <1>1 DEF Becomes, Next, Boot, Top, Reading, Fetch, MapMarket, Order, EndOfBatch,
              Restart, NoBatch, Arrive, Tick, Jupiter, loopVars, vars
<1> DEFINE s == Sig(pos)
           r == Resolve(s.event)
           reason == IF ~s.genuine THEN "bad_signature"
                     ELSE IF s.key \in seen THEN "dedup_replay"
                     ELSE IF s.action # "open" THEN "action_not_yet_supported"
                     ELSE r.skip
<1>3. reason = "snapshot_stale" /\ pc = "row"
  BY <1>1, <1>2 DEF GateRow, Skipped, Decide, Becomes
<1>4. r.skip = "snapshot_stale"
  BY <1>3
<1>5. Stale
  BY <1>4 DEF Resolve, Skip
<1>6. ~(snap.age <= TTL)
  BY <1>5, SnapshotAssumption DEF Stale, SnapInv, Snapshot, Age
<1>7. failed \/ since # 0
  BY <1>3, <1>6 DEF AgeInv
<1> QED
  BY <1>7, SnapshotAssumption DEF AgeInv, Age

\* PicksAreRecent: whatever opens, shuts and moves on Jupiter's list while it
\* is read, and however old the snapshot gets, a signal goes to a market shut
\* for longer than the TTL only if its event has no open one.
THEOREM PicksAreRecent == Spec => PickIsRecent
<1>1. Init => SnapInv
  BY InitSnap
<1>2. SnapInv /\ [Next]_vars => SnapInv'
  BY NextSnap
<1>3. SnapInv /\ [Next]_vars =>
        [pc = "row" /\ pc' = "market" =>
           \/ shutFor[pick'] <= TTL
           \/ ToSet(MarketsOf[EventNow]) \cap open = {}]_vars
  BY StepRecent
<1> QED
  BY <1>1, <1>2, <1>3, PTL DEF Spec, PickIsRecent

\* StaleIsExplained: a signal is dropped for a stale snapshot only if the
\* refresh of its iteration failed or time has passed since: what the loop
\* refreshes and what the resolver takes are one and the same age.
THEOREM StaleIsExplained == Spec => StaleExplained
<1>1. Init => SnapInv /\ PosInv /\ AgeInv
  BY InitSnap, InitLoop
<1>2. (SnapInv /\ PosInv /\ AgeInv) /\ [Next]_vars => (SnapInv /\ PosInv /\ AgeInv)'
  BY NextSnap, NextPos, NextAge
<1>3. (SnapInv /\ PosInv /\ AgeInv) /\ [Next]_vars =>
        [Becomes("snapshot_stale") => failed \/ since > 0]_vars
  BY StepStale
<1> QED
  BY <1>1, <1>2, <1>3, PTL DEF Spec, StaleExplained

-----------------------------------------------------------------------------
(* What a reading misses.                                                  *)

\* Only an event on the list has been there for some time.
Watching ==
  /\ list \in [ToSet(Categories) -> Seq(Event)]
  /\ unlisted \in [Watched -> Age]
  /\ \A e \in Watched : ~Listed(e) => unlisted[e] = 0

\* An event is due in a reading if it has been on the list for longer than the
\* reading is old, in a category that neither moved under it nor was cut.
Due(r, e) == unlisted[e] > r.age /\ CategoryOf[e] \notin r.shifted \cup r.cut

\* A finished snapshot has what is due in it.
SnapTold ==
  pc \notin {"boot", "bootRead"} =>
    \A e \in Watched : Due(snap, e) => snap.of[e] # None

\* A reading has what is due in the categories behind it, and of the one under
\* way what stands before the offset of the next page.
Told(r) ==
  \A e \in Watched : Due(r, e) =>
    /\ \A j \in 1 .. r.cat - 1 :
         Categories[j] = CategoryOf[e] => r.of[e] # None
    /\ Categories[r.cat] = CategoryOf[e] =>
         \A p \in 1 .. Len(list[CategoryOf[e]]) :
           p <= r.start /\ list[CategoryOf[e]][p] = e => r.of[e] # None
BuildTold == build # None => Told(build)

LEMMA InsertedAt ==
  ASSUME NEW S, NEW s \in Seq(S), NEW x \in S, NEW k \in 1 .. Len(s) + 1
  PROVE  /\ InsertAt(s, k, x) \in Seq(S) /\ Len(InsertAt(s, k, x)) = Len(s) + 1
         /\ \A p \in 1 .. Len(s) + 1 :
              InsertAt(s, k, x)[p] = IF p < k THEN s[p]
                                     ELSE IF p = k THEN x ELSE s[p - 1]
<1> DEFINE a == SubSeq(s, 1, k - 1)
           b == SubSeq(s, k, Len(s))
<1>1. /\ a \in Seq(S) /\ Len(a) = k - 1
      /\ \A p \in 1 .. k - 1 : a[p] = s[p]
  OBVIOUS
<1>2. /\ b \in Seq(S) /\ Len(b) = Len(s) - k + 1
      /\ \A p \in 1 .. Len(s) - k + 1 : b[p] = s[k + p - 1]
  OBVIOUS
<1> HIDE DEF a, b
<1>3. /\ a \o <<x>> \in Seq(S) /\ Len(a \o <<x>>) = k
      /\ \A p \in 1 .. k : (a \o <<x>>)[p] = IF p < k THEN s[p] ELSE x
  BY <1>1
<1>4. InsertAt(s, k, x) = (a \o <<x>>) \o b
  BY DEF InsertAt, a, b
<1> DEFINE c == a \o <<x>>
<1>5. /\ c \in Seq(S) /\ Len(c) = k
      /\ \A p \in 1 .. k : c[p] = IF p < k THEN s[p] ELSE x
  BY <1>3
<1> HIDE DEF c
<1>6. /\ c \o b \in Seq(S) /\ Len(c \o b) = Len(s) + 1
      /\ \A p \in 1 .. Len(s) + 1 :
           (c \o b)[p] = IF p <= k THEN c[p] ELSE b[p - k]
  <2>1. Len(s) \in Nat /\ k \in Nat /\ k + (Len(s) - k + 1) = Len(s) + 1
    OBVIOUS
  <2>2. /\ c \o b \in Seq(S) /\ Len(c \o b) = Len(c) + Len(b)
        /\ \A p \in 1 .. Len(c) + Len(b) :
             (c \o b)[p] = IF p <= Len(c) THEN c[p] ELSE b[p - Len(c)]
    BY <1>2, <1>5, ConcatProperties
  <2>3. Len(c) + Len(b) = Len(s) + 1 /\ Len(c) = k
    BY <1>2, <1>5, <2>1
  <2> QED  BY <2>2, <2>3
<1>7. ASSUME NEW p \in 1 .. Len(s) + 1
      PROVE  (c \o b)[p] = IF p < k THEN s[p] ELSE IF p = k THEN x ELSE s[p - 1]
  <2>1. CASE p <= k
    <3>1. p \in 1 .. k /\ p \in Int /\ k \in Int
      <4>1. k \in Int /\ p \in Int /\ p >= 1  OBVIOUS
      <4> QED  BY <2>1, <4>1
    <3>2. (c \o b)[p] = c[p]  BY <1>6, <2>1
    <3>3. c[p] = IF p < k THEN s[p] ELSE x  BY <1>5, <3>1
    <3>4. CASE p < k  BY <3>2, <3>3, <3>4
    <3>5. CASE p = k  BY <3>1, <3>2, <3>3, <3>5
    <3>6. p < k \/ p = k  BY <2>1, <3>1
    <3> QED  BY <3>4, <3>5, <3>6, Zenon
  <2>2. CASE p > k
    <3>1. p - k \in 1 .. Len(s) - k + 1 /\ k + (p - k) - 1 = p - 1
      BY <2>2
    <3>2. b[p - k] = s[p - 1]  BY <1>2, <3>1
    <3> QED  BY <1>6, <2>2, <3>2
  <2>3. p <= k \/ p > k  OBVIOUS
  <2> QED  BY <2>1, <2>2, <2>3, Zenon
<1> QED  BY <1>4, <1>6, <1>7 DEF c

LEMMA RemovedAt ==
  ASSUME NEW S, NEW s \in Seq(S), NEW k \in 1 .. Len(s)
  PROVE  /\ RemoveAt(s, k) \in Seq(S) /\ Len(RemoveAt(s, k)) = Len(s) - 1
         /\ \A p \in 1 .. Len(s) - 1 :
              RemoveAt(s, k)[p] = IF p < k THEN s[p] ELSE s[p + 1]
<1> DEFINE a == SubSeq(s, 1, k - 1)
           b == SubSeq(s, k + 1, Len(s))
<1>1. /\ a \in Seq(S) /\ Len(a) = k - 1
      /\ \A p \in 1 .. k - 1 : a[p] = s[p]
  OBVIOUS
<1>2. /\ b \in Seq(S) /\ Len(b) = Len(s) - k
      /\ \A p \in 1 .. Len(s) - k : b[p] = s[k + p]
  OBVIOUS
<1> HIDE DEF a, b
<1>3. RemoveAt(s, k) = a \o b
  BY DEF RemoveAt, a, b
<1>4. /\ a \o b \in Seq(S) /\ Len(a \o b) = Len(a) + Len(b)
      /\ \A p \in 1 .. Len(a) + Len(b) :
           (a \o b)[p] = IF p <= Len(a) THEN a[p] ELSE b[p - Len(a)]
  BY <1>1, <1>2, ConcatProperties
<1>5. Len(s) \in Nat /\ Len(a) + Len(b) = Len(s) - 1
  BY <1>1, <1>2
<1>6. ASSUME NEW p \in 1 .. Len(s) - 1
      PROVE  RemoveAt(s, k)[p] = IF p < k THEN s[p] ELSE s[p + 1]
  <2>1. (a \o b)[p] = IF p <= Len(a) THEN a[p] ELSE b[p - Len(a)]
    BY <1>4, <1>5
  <2>2. CASE p < k
    <3>1. p \in 1 .. k - 1 /\ p <= Len(a)
      BY <1>1, <2>2
    <3> QED  BY <1>1, <1>3, <2>1, <2>2, <3>1
  <2>3. CASE ~ (p < k)
    <3>1. ~ (p <= Len(a)) /\ p - Len(a) = p - k + 1
      BY <1>1, <2>3
    <3>2. p - k + 1 \in 1 .. Len(s) - k /\ k + (p - k + 1) = p + 1
      BY <1>5, <2>3
    <3>3. b[p - k + 1] = s[p + 1]
      BY <1>2, <3>2
    <3> QED  BY <1>3, <2>1, <2>3, <3>1, <3>3
  <2> QED  BY <2>2, <2>3
<1> QED  BY <1>3, <1>4, <1>5, <1>6

LEMMA ListedAt ==
  ASSUME Watching, NEW e \in Event
  PROVE  Listed(e) <=> \E p \in 1 .. Len(list[CategoryOf[e]]) :
                         list[CategoryOf[e]][p] = e
<1>1. list[CategoryOf[e]] \in Seq(Event)
  BY SnapshotAssumption DEF Watching
<1> QED  BY <1>1 DEF Listed, ToSet

LEMMA InitTold == Init => Watching /\ SnapTold /\ BuildTold
<1> SUFFICES ASSUME Init PROVE Watching /\ SnapTold /\ BuildTold
  OBVIOUS
<1>1. list \in [ToSet(Categories) -> Seq(Event)]
  <2>1. << >> \in Seq(Event)  BY EmptySeq
  <2> QED  BY <2>1 DEF Init, SnapInit
<1>2. unlisted = [e \in Watched |-> 0] /\ 0 \in Age
  BY SnapshotAssumption DEF Init, SnapInit, Age
<1> QED  BY <1>1, <1>2 DEF Init, SnapInit, Watching, SnapTold, BuildTold

\* What the list loses and gains moves the rest by at most one place, up when
\* something is taken off, down when something is put on.
LEMMA ListStep ==
  ASSUME Watching, NEW d \in Event, List(d)
  PROVE  /\ Watching'
         /\ \A e \in Watched : unlisted[e] > 0 =>
              \A p \in 1 .. Len(list'[CategoryOf[e]]) :
                list'[CategoryOf[e]][p] = e =>
                  \E q \in 1 .. Len(list[CategoryOf[e]]) :
                    q <= p /\ list[CategoryOf[e]][q] = e
<1> DEFINE c == CategoryOf[d]
<1>1. /\ c \in ToSet(Categories) /\ list[c] \in Seq(Event) /\ unlisted' = unlisted
      /\ list \in [ToSet(Categories) -> Seq(Event)]
  BY SnapshotAssumption DEF List, Watching
<1>2. PICK k \in 1 .. Len(list[c]) + 1 :
        list' = [list EXCEPT ![c] = InsertAt(list[c], k, d)]
  BY DEF List
<1>3. /\ InsertAt(list[c], k, d) \in Seq(Event)
      /\ Len(InsertAt(list[c], k, d)) = Len(list[c]) + 1
      /\ \A p \in 1 .. Len(list[c]) + 1 :
           InsertAt(list[c], k, d)[p] = IF p < k THEN list[c][p]
                                        ELSE IF p = k THEN d ELSE list[c][p - 1]
  BY <1>1, InsertedAt
<1>4. /\ list' \in [ToSet(Categories) -> Seq(Event)]
      /\ list'[c] = InsertAt(list[c], k, d)
      /\ \A g \in ToSet(Categories) : g # c => list'[g] = list[g]
  BY <1>1, <1>2, <1>3
<1>5. ~Listed(d)  BY DEF List
<1>6. ASSUME NEW e \in Watched, e # d, CategoryOf[e] = c,
             NEW p \in 1 .. Len(list'[c]), list'[c][p] = e
      PROVE  \E q \in 1 .. Len(list[c]) : q <= p /\ list[c][q] = e
  <2>1. Len(list[c]) \in Nat /\ p \in 1 .. Len(list[c]) + 1
    BY <1>1, <1>3, <1>4, <1>6
  <2>2. e = IF p < k THEN list[c][p] ELSE IF p = k THEN d ELSE list[c][p - 1]
    BY <1>3, <1>4, <1>6, <2>1
  <2>3. CASE p < k
    <3>1. list[c][p] = e /\ p \in 1 .. Len(list[c])  BY <2>1, <2>2, <2>3
    <3> QED  BY <3>1
  <2>4. CASE p > k
    <3>1. list[c][p - 1] = e /\ p - 1 \in 1 .. Len(list[c]) /\ p - 1 <= p
      BY <2>1, <2>2, <2>4
    <3> QED  BY <3>1
  <2>5. p # k  BY <1>6, <2>2
  <2> QED  BY <2>1, <2>3, <2>4, <2>5
<1>7. ASSUME NEW e \in Watched, unlisted[e] > 0,
             NEW p \in 1 .. Len(list'[CategoryOf[e]]),
             list'[CategoryOf[e]][p] = e
      PROVE  \E q \in 1 .. Len(list[CategoryOf[e]]) :
               q <= p /\ list[CategoryOf[e]][q] = e
  <2>1. e # d
    BY <1>5, <1>7 DEF Watching
  <2>2. CategoryOf[e] \in ToSet(Categories)
    BY SnapshotAssumption
  <2>3. CASE CategoryOf[e] = c  BY <1>6, <1>7, <2>1, <2>3
  <2>4. CASE CategoryOf[e] # c
    <3>1. list'[CategoryOf[e]] = list[CategoryOf[e]]
      BY <1>4, <2>2, <2>4
    <3>2. p \in Nat /\ p <= p
      <4>1. list[CategoryOf[e]] \in Seq(Event)  BY <1>1, <2>2
      <4> QED  BY <3>1, <4>1
    <3> QED  BY <1>7, <3>1, <3>2
  <2> QED  BY <2>3, <2>4
<1>8. ASSUME NEW e \in Watched, ~Listed(e)' PROVE unlisted[e] = 0
  <2>1. CategoryOf[e] \in ToSet(Categories) /\ e \in Event
    BY SnapshotAssumption
  <2>2. CASE Listed(e)
    <3>1. PICK q \in 1 .. Len(list[CategoryOf[e]]) : list[CategoryOf[e]][q] = e
      BY <2>1, <2>2, ListedAt
    <3>2. CategoryOf[e] = c
      BY <1>4, <1>8, <2>1, <2>2 DEF Listed
    <3> DEFINE r == IF q < k THEN q ELSE q + 1
    <3>3. q \in Nat /\ Len(list[c]) \in Nat /\ q <= Len(list[c])
      BY <1>1, <3>1, <3>2
    <3>4. r \in 1 .. Len(list'[c]) /\ list'[c][r] = e
      BY <1>3, <1>4, <3>1, <3>2, <3>3, SMTT(20)
    <3>5. Listed(e)'
      BY <1>4, <1>3, <3>2, <3>4 DEF Listed, ToSet
    <3> QED  BY <1>8, <3>5
  <2>3. CASE ~Listed(e)  BY <2>3 DEF Watching
  <2> QED  BY <2>2, <2>3
<1>9. Watching'
  <2>1. unlisted' \in [Watched -> Age]  BY <1>1 DEF Watching
  <2> QED  BY <1>1, <1>4, <1>8, <2>1 DEF Watching
<1> QED  BY <1>7, <1>9

LEMMA DelistStep ==
  ASSUME Watching, NEW d \in Event, Delist(d)
  PROVE  /\ Watching'
         /\ \A e \in Watched : unlisted'[e] <= unlisted[e]
         /\ \A e \in Watched : CategoryOf[e] # CategoryOf[d] =>
              list'[CategoryOf[e]] = list[CategoryOf[e]]
<1> DEFINE c == CategoryOf[d]
<1>1. /\ c \in ToSet(Categories) /\ list[c] \in Seq(Event)
      /\ list \in [ToSet(Categories) -> Seq(Event)]
      /\ unlisted' = IF d \in Watched THEN [unlisted EXCEPT ![d] = 0] ELSE unlisted
      /\ unlisted \in [Watched -> Age] /\ 0 \in Age
  BY SnapshotAssumption DEF Delist, Watching, Age
<1>2. PICK k \in 1 .. Len(list[c]) :
        list[c][k] = d /\ list' = [list EXCEPT ![c] = RemoveAt(list[c], k)]
  BY DEF Delist
<1>3. /\ RemoveAt(list[c], k) \in Seq(Event)
      /\ Len(RemoveAt(list[c], k)) = Len(list[c]) - 1
      /\ \A p \in 1 .. Len(list[c]) - 1 :
           RemoveAt(list[c], k)[p] = IF p < k THEN list[c][p] ELSE list[c][p + 1]
  BY <1>1, RemovedAt
<1>4. /\ list' \in [ToSet(Categories) -> Seq(Event)]
      /\ list'[c] = RemoveAt(list[c], k)
      /\ \A g \in ToSet(Categories) : g # c => list'[g] = list[g]
  BY <1>1, <1>2, <1>3
<1>5. \A e \in Watched : e \in Event /\ CategoryOf[e] \in ToSet(Categories)
  BY SnapshotAssumption
<1>6. /\ unlisted' \in [Watched -> Age]
      /\ \A e \in Watched : unlisted'[e] = IF e = d THEN 0 ELSE unlisted[e]
  BY <1>1
<1>7. \A e \in Watched : unlisted'[e] <= unlisted[e]
  BY <1>1, <1>6, SnapshotAssumption DEF Age
<1>8. ASSUME NEW e \in Watched, ~Listed(e)', e # d PROVE unlisted[e] = 0
  <2>1. CASE Listed(e)
    <3>1. PICK q \in 1 .. Len(list[CategoryOf[e]]) : list[CategoryOf[e]][q] = e
      BY <1>5, <2>1, ListedAt
    <3>2. CategoryOf[e] = c
      BY <1>4, <1>5, <1>8, <2>1 DEF Listed
    <3> DEFINE r == IF q < k THEN q ELSE q - 1
    <3>3. /\ q \in Nat /\ Len(list[c]) \in Nat /\ q <= Len(list[c]) /\ q # k
      BY <1>1, <1>2, <1>8, <3>1, <3>2
    <3>4. r \in 1 .. Len(list'[c]) /\ list'[c][r] = e
      <4>1. k \in Nat /\ k <= Len(list[c]) /\ 1 <= q
        BY <1>1, <1>2, <3>1, <3>2
      <4>2. r \in 1 .. Len(list[c]) - 1
        BY <3>3, <4>1
      <4>3. list'[c][r] = IF r < k THEN list[c][r] ELSE list[c][r + 1]
        BY <1>3, <1>4, <4>2
      <4>4. CASE q < k  BY <1>3, <1>4, <3>1, <3>2, <4>2, <4>3, <4>4
      <4>5. CASE q > k
        <5>1. r = q - 1 /\ ~(r < k) /\ r + 1 = q  BY <3>3, <4>1, <4>5
        <5> QED  BY <1>3, <1>4, <3>1, <3>2, <4>2, <4>3, <5>1
      <4> QED  BY <3>3, <4>1, <4>4, <4>5
    <3>5. Listed(e)'
      BY <1>4, <1>3, <3>2, <3>4 DEF Listed, ToSet
    <3> QED  BY <1>8, <3>5
  <2>2. CASE ~Listed(e)  BY <2>2 DEF Watching
  <2> QED  BY <2>1, <2>2
<1> QED  BY <1>4, <1>5, <1>6, <1>7, <1>8 DEF Watching

LEMMA TickTold ==
  ASSUME SnapInv, Watching, TickSnapshot
  PROVE  /\ Watching'
         /\ \A e \in Watched : \A a \in Age :
              unlisted'[e] > Older(a) => unlisted[e] > a
<1>1. /\ list' = list
      /\ unlisted' = [e \in Watched |-> IF Listed(e) THEN Older(unlisted[e]) ELSE 0]
  BY DEF TickSnapshot
<1>2. 0 \in Age /\ Age \subseteq Int /\ \A n \in Age : n >= 0
  BY SnapshotAssumption DEF Age
<1>3. \A e \in Watched : unlisted[e] \in Age
  BY DEF Watching
<1>4. \A e \in Watched : Listed(e)' <=> Listed(e)
  BY <1>1 DEF Listed
<1>5. Watching'
  BY <1>1, <1>2, <1>3, <1>4, OlderAge DEF Watching
<1>6. ASSUME NEW e \in Watched, NEW a \in Age, unlisted'[e] > Older(a)
      PROVE  unlisted[e] > a
  <2> DEFINE u == unlisted[e]
  <2>1. u \in Age /\ Older(a) \in Age /\ Older(a) > 0 /\ Older(u) \in Age
    BY <1>3, OlderAge
  <2>2. /\ u \in Int /\ a \in Int /\ Older(a) \in Int /\ Older(u) \in Int
    BY <1>2, <2>1
  <2>3. u <= a => Older(u) <= Older(a)
    BY <2>1, OlderAge
  <2>4. unlisted'[e] = IF Listed(e) THEN Older(u) ELSE 0
    BY <1>1
  <2> HIDE DEF u
  <2>5. Older(u) > Older(a)
    BY <1>6, <2>1, <2>2, <2>4
  <2>6. u > a  BY <2>2, <2>3, <2>5
  <2> QED  BY <2>6 DEF u
<1> QED  BY <1>5, <1>6

LEMMA InSlice ==
  ASSUME NEW S, NEW s \in Seq(S), NEW m \in Nat, 1 <= m, NEW n \in Nat,
         n <= Len(s), NEW p \in m .. n
  PROVE  s[p] \in ToSet(SubSeq(s, m, n))
<1>1. Len(s) \in Nat /\ m <= n /\ p \in Int /\ m <= p /\ p <= n
  OBVIOUS
<1>2. \A i \in m .. n : s[i] \in S
  <2> SUFFICES ASSUME NEW i \in m .. n PROVE s[i] \in S  OBVIOUS
  <2>1. i \in 1 .. Len(s)  BY <1>1
  <2> QED  BY <2>1, ElementOfSeq
<1>3. /\ SubSeq(s, m, n) \in Seq(S)
      /\ Len(SubSeq(s, m, n)) = IF m <= n THEN n - m + 1 ELSE 0
      /\ \A i \in 1 .. n - m + 1 : SubSeq(s, m, n)[i] = s[m + i - 1]
  BY <1>2, SubSeqProperties
<1> DEFINE q == p - m + 1
           t == SubSeq(s, m, n)
<1>4. q \in 1 .. n - m + 1 /\ m + q - 1 = p
  BY <1>1
<1> HIDE DEF q, t
<1>5. t \in Seq(S) /\ Len(t) = n - m + 1 /\ t[q] = s[p]
  BY <1>1, <1>3, <1>4 DEF t
<1>6. q \in DOMAIN t
  BY <1>4, <1>5
<1>7. s[p] \in ToSet(t)
  BY <1>5, <1>6 DEF ToSet
<1> QED  BY <1>7 DEF t

\* A page puts in the reading what stands on it, and takes nothing out.
LEMMA ReadCovers ==
  ASSUME SnapInv, Watching, ReadPage, NEW e \in Watched,
         unlisted[e] > build.age, Told(build), CategoryOf[e] \notin build.shifted,
         CategoryOf[e] \notin build.cut
  PROVE  /\ build.of[e] # None => PageOf[e] # None
         /\ CategoryOf[e] = PageCat =>
              \A p \in 1 .. Len(list[PageCat]) :
                p <= build.start + PageSize /\ list[PageCat][p] = e
                  => PageOf[e] # None
         /\ CategoryOf[e] = PageCat /\ ~HasNext => PageOf[e] # None
<1> DEFINE c == PageCat
           hasNext == HasNext
           here == Here
           of == PageOf
<1> USE DEF PageCat, HasNext, Here, PageOf
<1>1. /\ build \in Partial /\ build.start \in Nat /\ build.age \in Age
      /\ PageSize \in Nat /\ build.cat \in 1 .. Len(Categories)
  BY SnapshotAssumption DEF SnapInv, ReadPage, Partial
<1>2. c \in ToSet(Categories)
  BY <1>1, SnapshotAssumption DEF ToSet
<1>3. list[c] \in Seq(Event)
  BY <1>2 DEF Watching
<1>4. e \in Event /\ open \cap ToSet(MarketsOf[e]) \in SUBSET Market
  BY SnapshotAssumption DEF SnapInv, Shutting
<1>5. open \cap ToSet(MarketsOf[e]) # None
  BY <1>4, SnapshotAssumption
<1>6. e \in ToSet(here) => of[e] # None
  BY <1>4, <1>5
<1>7. build.of[e] # None => of[e] # None
  BY <1>4, <1>6
<1>8. Due(build, e)
  BY DEF Due
<1>9. ASSUME CategoryOf[e] = c, NEW p \in 1 .. Len(list[c]), list[c][p] = e,
             hasNext => p <= build.start + PageSize
      PROVE  of[e] # None
  <2> DEFINE m == build.start + 1
             n == IF hasNext THEN build.start + PageSize ELSE Len(list[c])
  <2>1. Len(list[c]) \in Nat /\ p \in Nat /\ p <= Len(list[c])
    BY <1>3
  <2>2. CASE p <= build.start
    BY <1>7, <1>8, <1>9, <2>2 DEF Told
  <2>3. CASE p > build.start
    <3>1. here = SubSeq(list[c], m, n)  OBVIOUS
    <3>2. m \in Nat /\ 1 <= m /\ m <= p  BY <1>1, <2>1, <2>3
    <3>3. n \in Nat /\ p <= n /\ n <= Len(list[c])
      <4>1. CASE hasNext
        <5>1. p <= build.start + PageSize /\ build.start + PageSize < Len(list[c])
          BY <1>9, <4>1
        <5>2. n = build.start + PageSize  BY <4>1
        <5>3. build.start + PageSize \in Nat  BY <1>1
        <5> HIDE DEF n
        <5> QED  BY <2>1, <5>1, <5>2, <5>3
      <4>2. CASE ~hasNext
        <5>1. n = Len(list[c])  BY <4>2
        <5> HIDE DEF n
        <5> QED  BY <2>1, <5>1
      <4> QED  BY <4>1, <4>2
    <3> HIDE DEF m, n
    <3>4. p \in m .. n  BY <2>1, <3>2, <3>3
    <3>5. e \in ToSet(here)
      BY <1>3, <1>9, <3>1, <3>2, <3>3, <3>4, InSlice
    <3> QED  BY <1>6, <3>5
  <2>4. p <= build.start \/ p > build.start  BY <1>1, <2>1
  <2> QED  BY <2>2, <2>3, <2>4
<1>10. ASSUME CategoryOf[e] = c, ~hasNext PROVE of[e] # None
  <2>1. Listed(e)
    <3>1. unlisted[e] # 0
      BY <1>1, SnapshotAssumption DEF Age
    <3> QED  BY <3>1 DEF Watching
  <2>2. \E p \in 1 .. Len(list[c]) : list[c][p] = e
    BY <1>4, <1>10, <2>1, ListedAt
  <2> QED  BY <1>9, <1>10, <2>2
<1> QED  BY <1>7, <1>9, <1>10

\* One request of the listing: the reading goes on, or is the snapshot.
LEMMA ReadTold ==
  ASSUME SnapInv, Watching, BuildTold, ReadPage
  PROVE  \/ snap' = snap /\ build' # None /\ BuildTold'
         \/ /\ build' = None
            /\ \A e \in Watched : Due(snap, e)' => snap'.of[e] # None
<1> DEFINE c == PageCat
           hasNext == HasNext
           of == PageOf
           more == hasNext /\ build.page + 1 < MaxPages
           cut == IF hasNext /\ ~more THEN build.cut \cup {c} ELSE build.cut
           cat == IF more THEN build.cat ELSE build.cat + 1
           start == IF more THEN NextStart(build.start) ELSE 0
           page == IF more THEN build.page + 1 ELSE 0
           b == [build EXCEPT !.of = of, !.cut = cut, !.cat = cat,
                              !.start = start, !.page = page]
           s == [of |-> of, age |-> build.age, shifted |-> build.shifted, cut |-> cut]
<1>1. /\ build # None /\ build \in Partial /\ Told(build)
      /\ list' = list /\ unlisted' = unlisted
  BY DEF ReadPage, jupiter, SnapInv, BuildTold
<1>2. /\ build.cat \in 1 .. Len(Categories) /\ build.start \in Nat
      /\ Len(Categories) \in Nat /\ PageSize \in Nat
      /\ \A e \in Watched : CategoryOf[e] \in ToSet(Categories)
  BY <1>1, SnapshotAssumption DEF Partial
<1>3. ASSUME NEW e \in Watched, unlisted[e] > build.age,
             CategoryOf[e] \notin build.shifted, CategoryOf[e] \notin cut
      PROVE  /\ build.of[e] # None => of[e] # None
             /\ CategoryOf[e] = c =>
                  \A p \in 1 .. Len(list[c]) :
                    p <= build.start + PageSize /\ list[c][p] = e => of[e] # None
             /\ CategoryOf[e] = c /\ ~more => of[e] # None
  <2>1. CategoryOf[e] \notin build.cut /\ (hasNext /\ ~more => CategoryOf[e] # c)
    BY <1>3
  <2>2. /\ build.of[e] # None => of[e] # None
        /\ CategoryOf[e] = c =>
             \A p \in 1 .. Len(list[c]) :
               p <= build.start + PageSize /\ list[c][p] = e => of[e] # None
        /\ CategoryOf[e] = c /\ ~hasNext => of[e] # None
    <3>1. CategoryOf[e] \notin build.shifted /\ CategoryOf[e] \notin build.cut
      BY <1>3, <2>1
    <3> QED  BY <1>1, <1>3, <3>1, ReadCovers
  <2> HIDE DEF c, hasNext, of
  <2> QED  BY <2>1, <2>2
<1>4. ASSUME NEW e \in Watched, unlisted[e] > build.age,
             CategoryOf[e] \notin build.shifted, CategoryOf[e] \notin cut,
             NEW j \in 1 .. build.cat, j = build.cat => ~more,
             Categories[j] = CategoryOf[e]
      PROVE  of[e] # None
  <2>1. CASE j = build.cat
    <3>1. CategoryOf[e] = c /\ ~more
      <4> HIDE DEF more
      <4> QED  BY <1>4, <2>1 DEF PageCat
    <3> QED  BY <1>3, <1>4, <3>1
  <2>2. CASE j # build.cat
    <3>1. j \in 1 .. build.cat - 1  BY <1>2, <2>2
    <3>2. Due(build, e)
      <4>1. CategoryOf[e] \notin build.cut  BY <1>4
      <4> QED  BY <1>4, <4>1 DEF Due
    <3>3. build.of[e] # None  BY <1>1, <1>4, <3>1, <3>2 DEF Told
    <3> HIDE DEF c, hasNext, of, more, cut
    <3> QED  BY <1>3, <1>4, <3>3
  <2> QED  BY <2>1, <2>2
<1> HIDE DEF c, hasNext, of, cut
<1>5. CASE (more \/ build.cat < Len(Categories)) /\ build' = b /\ snap' = snap
  <2>1. /\ b.of = of /\ b.age = build.age /\ b.shifted = build.shifted
        /\ b.cut = cut /\ b.cat = cat /\ b.start = start
    BY <1>1 DEF Partial
  <2> HIDE DEF b
  <2>2. ASSUME NEW e \in Watched, Due(b, e)
        PROVE  /\ unlisted[e] > build.age /\ CategoryOf[e] \notin build.shifted
               /\ CategoryOf[e] \notin cut
    BY <2>1, <2>2 DEF Due
  <2>3. ASSUME NEW e \in Watched, Due(b, e), NEW j \in 1 .. b.cat - 1,
               Categories[j] = CategoryOf[e]
        PROVE  b.of[e] # None
    <3>1. j \in 1 .. build.cat /\ (j = build.cat => ~more)
      BY <1>2, <2>1
    <3> HIDE DEF more
    <3> QED  BY <1>4, <2>1, <2>2, <2>3, <3>1
  <2>4. ASSUME NEW e \in Watched, Due(b, e), Categories[b.cat] = CategoryOf[e],
               NEW p \in 1 .. Len(list[CategoryOf[e]]), p <= b.start,
               list[CategoryOf[e]][p] = e
        PROVE  b.of[e] # None
    <3>1. CASE more
      <4>1. CategoryOf[e] = c /\ p <= build.start + PageSize
        BY <2>1, <2>4, <3>1 DEF c, NextStart, PageCat
      <4> QED  BY <1>3, <2>1, <2>2, <2>4, <4>1
    <3>2. CASE ~more
      <4>1. b.start = 0  BY <2>1, <3>2
      <4> QED  BY <2>4, <4>1
    <3> QED  BY <3>1, <3>2
  <2>5. Told(b)  BY <2>3, <2>4 DEF Told
  <2>6. build' # None
    <3>1. ReadsOn  BY <1>5 DEF ReadsOn, hasNext
    <3> QED  BY <3>1, SnapshotAssumption, ReadSnap
  <2>7. BuildTold'
    BY <1>1, <1>5, <2>5 DEF BuildTold, Told, Due
  <2> QED  BY <1>5, <2>6, <2>7
<1>6. CASE ~(more \/ build.cat < Len(Categories)) /\ snap' = s /\ build' = None
  <2>1. s.of = of /\ s.age = build.age /\ s.shifted = build.shifted /\ s.cut = cut
    OBVIOUS
  <2> HIDE DEF s
  <2>2. ASSUME NEW e \in Watched, unlisted[e] > s.age,
               CategoryOf[e] \notin s.shifted \cup s.cut
        PROVE  s.of[e] # None
    <3>1. PICK j \in 1 .. Len(Categories) : Categories[j] = CategoryOf[e]
      BY <1>2, SnapshotAssumption DEF ToSet
    <3>2. j \in 1 .. build.cat /\ ~more  BY <1>2, <1>6
    <3> HIDE DEF more
    <3> QED  BY <1>4, <2>1, <2>2, <3>1, <3>2
  <2>3. \A e \in Watched : Due(snap, e)' => snap'.of[e] # None
    BY <1>1, <1>6, <2>2 DEF Due
  <2> QED  BY <1>6, <2>3
<1> QED  BY <1>5, <1>6 DEF ReadPage, c, hasNext, of, cut, PageCat, HasNext, Here, PageOf

Telling == Watching /\ SnapTold /\ BuildTold

LEMMA SameTold ==
  ASSUME Telling, UNCHANGED snapVars,
         pc' \notin {"boot", "bootRead"} => pc \notin {"boot", "bootRead"}
  PROVE  Telling'
  BY DEF Telling, snapVars, jupiter, Watching, Listed, SnapTold, BuildTold, Told, Due

LEMMA StartTold ==
  ASSUME Telling, StartBuild,
         pc' \notin {"boot", "bootRead"} => pc \notin {"boot", "bootRead"}
  PROVE  Telling'
<1> DEFINE b == [of |-> Empty.of, age |-> 0, shifted |-> {}, cut |-> {},
                 cat |-> 1, start |-> 0, page |-> 0]
<1>1. build' = b /\ snap' = snap /\ list' = list /\ unlisted' = unlisted
  BY DEF StartBuild, jupiter
<1>2. Watching' /\ SnapTold'
  BY <1>1 DEF Telling, Watching, Listed, SnapTold, Due
<1>3. b.cat = 1 /\ b.start = 0  OBVIOUS
<1> HIDE DEF b
<1>4. Told(b)
  BY <1>3 DEF Told
<1>5. BuildTold'
  BY <1>1, <1>4 DEF BuildTold, Told, Due
<1> QED  BY <1>2, <1>5 DEF Telling

LEMMA JupiterTold ==
  ASSUME SnapInv, Telling, Jupiter
  PROVE  Telling'
<1> USE DEF Telling
<1>1. pc' = pc  BY DEF Jupiter, loopVars
<1>2. ASSUME NEW d \in Event, List(d) PROVE Telling'
  <2>1. /\ Watching'
        /\ \A e \in Watched : unlisted[e] > 0 =>
              \A p \in 1 .. Len(list'[CategoryOf[e]]) :
                list'[CategoryOf[e]][p] = e =>
                  \E q \in 1 .. Len(list[CategoryOf[e]]) :
                    q <= p /\ list[CategoryOf[e]][q] = e
    BY <1>2, ListStep
  <2>2. unlisted' = unlisted /\ snap' = snap /\ build' = build
    BY <1>2 DEF List
  <2>3. SnapTold'
    BY <1>1, <2>2 DEF SnapTold, Due
  <2>4. BuildTold'
    <3> SUFFICES ASSUME build # None, NEW e \in Watched, Due(build, e),
                        Categories[build.cat] = CategoryOf[e],
                        NEW p \in 1 .. Len(list'[CategoryOf[e]]),
                        p <= build.start, list'[CategoryOf[e]][p] = e
                 PROVE  build.of[e] # None
      BY <2>2 DEF BuildTold, Told, Due
    <3>1. build.age \in Age /\ build.start \in Nat /\ unlisted[e] \in Age
      BY DEF SnapInv, Partial, Watching
    <3>2. unlisted[e] > 0
      BY <3>1, SnapshotAssumption DEF Due, Age
    <3>3. PICK q \in 1 .. Len(list[CategoryOf[e]]) :
            q <= p /\ list[CategoryOf[e]][q] = e
      BY <2>1, <3>2
    <3>4. CategoryOf[e] \in ToSet(Categories) /\ list[CategoryOf[e]] \in Seq(Event)
          /\ list'[CategoryOf[e]] \in Seq(Event)
      BY <2>1, SnapshotAssumption DEF Watching
    <3>5. q <= build.start
      <4>1. q \in Int /\ p \in Int  BY <3>3, <3>4
      <4> QED  BY <3>1, <3>3, <4>1
    <3> QED  BY <3>3, <3>5 DEF BuildTold, Told
  <2> QED  BY <2>1, <2>3, <2>4
<1>3. ASSUME NEW d \in Event, Delist(d) PROVE Telling'
  <2>1. /\ Watching'
        /\ \A e \in Watched : unlisted'[e] <= unlisted[e]
        /\ \A e \in Watched : CategoryOf[e] # CategoryOf[d] =>
              list'[CategoryOf[e]] = list[CategoryOf[e]]
    BY <1>3, DelistStep
  <2>2. /\ snap' = snap
        /\ build' = IF build = None THEN None
                    ELSE [build EXCEPT !.shifted = build.shifted \cup {CategoryOf[d]}]
    BY <1>3 DEF Delist
  <2>3. \A e \in Watched : unlisted[e] \in Age /\ unlisted'[e] \in Age
    BY <2>1 DEF Watching
  <2>4. \A e \in Watched : \A a \in Age : unlisted'[e] > a => unlisted[e] > a
    BY <2>1, <2>3, SnapshotAssumption DEF Age
  <2>5. snap.age \in Age  BY DEF SnapInv, Snapshot
  <2>6. SnapTold'
    BY <1>1, <2>2, <2>4, <2>5 DEF SnapTold, Due
  <2>7. ASSUME build # None PROVE Told(build)'
    <3> DEFINE b == [build EXCEPT !.shifted = build.shifted \cup {CategoryOf[d]}]
    <3>1. build' = b  BY <2>2, <2>7
    <3>2. /\ b.of = build.of /\ b.age = build.age /\ b.cut = build.cut
          /\ b.cat = build.cat /\ b.start = build.start /\ build.age \in Age
          /\ b.shifted = build.shifted \cup {CategoryOf[d]}
      BY <2>7 DEF SnapInv, Partial
    <3> HIDE DEF b
    <3>3. ASSUME NEW e \in Watched, unlisted'[e] > b.age,
                 CategoryOf[e] \notin b.shifted \cup b.cut
          PROVE  Due(build, e) /\ CategoryOf[e] # CategoryOf[d]
      BY <2>4, <3>2, <3>3 DEF Due
    <3> SUFFICES ASSUME NEW e \in Watched, unlisted'[e] > b.age,
                        CategoryOf[e] \notin b.shifted \cup b.cut
        PROVE  /\ \A j \in 1 .. b.cat - 1 :
                    Categories[j] = CategoryOf[e] => b.of[e] # None
               /\ Categories[b.cat] = CategoryOf[e] =>
                    \A p \in 1 .. Len(list'[CategoryOf[e]]) :
                      p <= b.start /\ list'[CategoryOf[e]][p] = e => b.of[e] # None
      BY <3>1 DEF Told, Due
    <3>4. Due(build, e) /\ list'[CategoryOf[e]] = list[CategoryOf[e]]
      BY <2>1, <3>3
    <3> QED  BY <2>7, <3>2, <3>4 DEF BuildTold, Told
  <2>8. BuildTold'
    BY <2>2, <2>7 DEF BuildTold
  <2> QED  BY <2>1, <2>6, <2>8
<1>4. CASE UNCHANGED <<list, unlisted, snap, build>>
  BY <1>1, <1>4 DEF Watching, Listed, SnapTold, BuildTold, Told, Due
<1> QED
  BY <1>2, <1>3, <1>4 DEF Jupiter, Ends, Shut

LEMMA ClockTold ==
  ASSUME SnapInv, Telling, TickSnapshot, pc' = pc
  PROVE  Telling'
<1> USE DEF Telling
<1>1. /\ Watching'
      /\ \A e \in Watched : \A a \in Age :
           unlisted'[e] > Older(a) => unlisted[e] > a
  BY TickTold
<1>2. list' = list /\ snap' = [snap EXCEPT !.age = Older(snap.age)]
  BY DEF TickSnapshot
<1>3. /\ snap.age \in Age /\ snap'.age = Older(snap.age) /\ snap'.of = snap.of
      /\ snap'.shifted = snap.shifted /\ snap'.cut = snap.cut
  BY <1>2 DEF SnapInv, Snapshot
<1>4. SnapTold'
  BY <1>1, <1>3 DEF SnapTold, Due
<1>5. ASSUME build # None PROVE Told(build)'
  <2>1. build' = [build EXCEPT !.age = Older(build.age)]
    BY <1>5 DEF TickSnapshot
  <2>2. /\ build.age \in Age /\ build'.age = Older(build.age)
        /\ build'.of = build.of /\ build'.shifted = build.shifted
        /\ build'.cut = build.cut /\ build'.cat = build.cat
        /\ build'.start = build.start
    BY <1>5, <2>1 DEF SnapInv, Partial
  <2>3. \A e \in Watched : Due(build, e)' => Due(build, e)
    BY <1>1, <2>2 DEF Due
  <2> QED  BY <1>2, <1>5, <2>2, <2>3 DEF BuildTold, Told
<1>6. BuildTold'
  BY <1>5 DEF BuildTold, TickSnapshot
<1> QED  BY <1>1, <1>4, <1>6

LEMMA ReadingTold ==
  ASSUME SnapInv, Telling, Reading
  PROVE  Telling'
<1> USE DEF Telling
<1>1. UNCHANGED <<list, unlisted>>
  BY DEF Reading, ReadPage, BuildFails, jupiter
<1>2. Watching'
  BY <1>1 DEF Watching, Listed
<1>3. CASE ReadPage
  <2>1. CASE snap' = snap /\ build' # None /\ BuildTold'
    <3>1. pc' = pc
      BY <1>3, <2>1 DEF Reading, ReadPage, BuildFails
    <3>2. SnapTold'
      BY <1>1, <2>1, <3>1 DEF SnapTold, Due
    <3> QED  BY <1>2, <2>1, <3>2
  <2>2. CASE build' = None /\ \A e \in Watched : Due(snap, e)' => snap'.of[e] # None
    BY <1>2, <2>2 DEF SnapTold, BuildTold
  <2> QED  BY <1>3, <2>1, <2>2, ReadTold
<1>4. CASE ~ReadPage
  <2>1. /\ build' = None /\ snap' = snap
        /\ pc' = IF pc = "refresh" THEN "fetch" ELSE "boot"
    BY <1>4 DEF Reading, BuildFails, Goto
  <2> QED  BY <1>1, <1>2, <2>1 DEF SnapTold, BuildTold, Due
<1> QED  BY <1>3, <1>4

LEMMA NextTold ==
  ASSUME SnapInv, Telling, [Next]_vars
  PROVE  Telling'
<1>1. CASE Boot
  BY <1>1, StartTold DEF Boot, Goto
<1>2. CASE Top
  <2>1. pc \notin {"boot", "bootRead"}  BY <1>2 DEF Top
  <2> QED  BY <1>2, <2>1, StartTold, SameTold DEF Top
<1>3. CASE Reading
  BY <1>3, ReadingTold
<1>4. CASE Fetch \/ GateRow \/ MapMarket \/ Order \/ EndOfBatch \/ Arrive
  <2>1. UNCHANGED snapVars
    BY <1>4 DEF Fetch, GateRow, MapMarket, Order, EndOfBatch, Arrive, Skipped,
                Decide, CallFails, Throws
  <2>2. pc' \notin {"boot", "bootRead"} => pc \notin {"boot", "bootRead"}
    BY <1>4 DEF Fetch, GateRow, MapMarket, Order, EndOfBatch, Arrive, loopVars
  <2> QED  BY <2>1, <2>2, SameTold
<1>5. CASE Restart
  BY <1>5
  DEF Restart, Goto, jupiter, Telling, Watching, Listed, SnapTold, BuildTold
<1>6. CASE Tick
  BY <1>6, ClockTold DEF Tick, loopVars
<1>7. CASE Jupiter
  BY <1>7, JupiterTold
<1>8. CASE UNCHANGED vars
  BY <1>8, SameTold DEF vars, loopVars
<1> QED
  BY <1>1, <1>2, <1>3, <1>4, <1>5, <1>6, <1>7, <1>8 DEF Next

\* A row whose market the snapshot does not have.
LEMMA StepMissing ==
  ASSUME SnapInv, PosInv, Telling, [Next]_vars, Becomes("no_jup_market"),
         EventNow \in Watched
  PROVE  \/ unlisted[EventNow] <= TTL
         \/ CategoryOf[EventNow] \in snap.shifted \cup snap.cut
<1>1. pos' # pos
  BY DEF Becomes, PosInv
<1>2. GateRow
  BY <1>1 DEF Becomes, Next, Boot, Top, Reading, Fetch, MapMarket, Order, EndOfBatch,
              Restart, NoBatch, Arrive, Tick, Jupiter, loopVars, vars
<1> DEFINE s == Sig(pos)
           r == Resolve(s.event)
           reason == IF ~s.genuine THEN "bad_signature"
                     ELSE IF s.key \in seen THEN "dedup_replay"
                     ELSE IF s.action # "open" THEN "action_not_yet_supported"
                     ELSE r.skip
<1>3. reason = "no_jup_market" /\ pc = "row"
  BY <1>1, <1>2 DEF GateRow, Skipped, Decide, Becomes
<1>4. Resolve(EventNow).skip = "no_jup_market"
  BY <1>3 DEF EventNow
<1> DEFINE e == EventNow
<1>5. e \in Event
  BY SnapshotAssumption
<1>6. ~Stale /\ snap.of[e] = None
  BY <1>4, <1>5 DEF Resolve, Skip
<1>7. ~Due(snap, e)
  BY <1>3, <1>6 DEF Telling, SnapTold
<1>8. snap.age <= TTL /\ snap.age \in Int /\ unlisted[e] \in Int /\ TTL \in Int
  BY <1>6, SnapshotAssumption
  DEF Stale, SnapInv, Snapshot, Telling, Watching, Age
<1> HIDE DEF e
<1>9. unlisted[e] <= TTL \/ CategoryOf[e] \in snap.shifted \cup snap.cut
  BY <1>7, <1>8 DEF Due
<1> QED  BY <1>9 DEF e

\* MissingIsExplained: however the list shifts under the pages, a row is dropped
\* for want of a market only if its event was off the list within the TTL, or
\* its category lost an event while it was read or is longer than the pages.
THEOREM MissingIsExplained == Spec => MissingExplained
<1>1. Init => SnapInv /\ PosInv /\ Telling
  BY InitSnap, InitLoop, InitTold DEF Telling
<1>2. (SnapInv /\ PosInv /\ Telling) /\ [Next]_vars
        => (SnapInv /\ PosInv /\ Telling)'
  BY NextSnap, NextPos, NextTold
<1>3. (SnapInv /\ PosInv /\ Telling) /\ [Next]_vars =>
        [Becomes("no_jup_market") /\ EventNow \in Watched =>
           \/ unlisted[EventNow] <= TTL
           \/ CategoryOf[EventNow] \in snap.shifted \cup snap.cut]_vars
  BY StepMissing
<1> QED
  BY <1>1, <1>2, <1>3, PTL DEF Spec, MissingExplained

-----------------------------------------------------------------------------
(* Types.                                                                  *)

\* Where the loop is in its batch, and what it has picked.
BatchType ==
  /\ pc \in {"boot", "bootRead", "top", "refresh", "fetch", "row", "market",
             "order"}
  /\ arrived \in 0 .. Len(Feed) /\ cursor \in 0 .. arrived /\ upto \in 0 .. arrived
  /\ pos \in 1 .. Len(Feed) + 1
  /\ pc = "row" => pos <= upto + 1
  /\ pc \in {"market", "order"} => pos <= upto
  /\ {threw, failed} \subseteq BOOLEAN
  /\ pick \in Market \cup {None} /\ (pick # None <=> pc \in {"market", "order"})
  /\ seen \subseteq Nat

\* What TypeOK says of Jupiter and of the paging beyond SnapInv and Watching.
PagingType ==
  /\ over \subseteq Event
  /\ build # None => build.page < MaxPages

LEMMA TypeParts ==
  SnapInv /\ Watching /\ AgeInv /\ BatchType /\ PagingType => TypeOK
<1> SUFFICES ASSUME SnapInv, Watching, AgeInv, BatchType, PagingType PROVE TypeOK
  OBVIOUS
<1>1. SnapType
  BY DEF SnapType, SnapInv, Shutting, Watching, PagingType
<1>2. Len(Feed) \in Nat
  BY GatesAssumption
<1>3. /\ {arrived, cursor, upto} \subseteq 0 .. Len(Feed)
      /\ upto <= arrived /\ cursor <= arrived
  BY <1>2 DEF BatchType
<1> QED  BY <1>1, <1>3 DEF TypeOK, BatchType, AgeInv

LEMMA InitTyped == Init => BatchType /\ PagingType
<1> SUFFICES ASSUME Init PROVE BatchType /\ PagingType
  OBVIOUS
<1>1. Len(Feed) \in Nat  BY GatesAssumption
<1>2. PagingType  BY DEF Init, SnapInit, PagingType
<1>3. /\ pc = "boot" /\ arrived = 0 /\ cursor = 0 /\ upto = 0 /\ pos = 1
      /\ threw = FALSE /\ failed = FALSE /\ pick = None /\ seen = {}
  BY DEF Init
<1>4. /\ arrived \in 0 .. Len(Feed) /\ cursor \in 0 .. arrived
      /\ upto \in 0 .. arrived /\ pos \in 1 .. Len(Feed) + 1
  BY <1>1, <1>3
<1>5. {threw, failed} \subseteq BOOLEAN  BY <1>3
<1>6. pc \notin {"row", "market", "order"}  BY <1>3
<1>7. pick = None /\ seen \subseteq Nat  BY <1>3
<1> QED  BY <1>2, <1>3, <1>4, <1>5, <1>6, <1>7 DEF BatchType

LEMMA NextPaging == ASSUME SnapInv, PagingType, [Next]_vars PROVE PagingType'
<1>1. MaxPages \in Nat /\ MaxPages > 0  BY SnapshotAssumption
<1>2. CASE UNCHANGED snapVars
  BY <1>2 DEF PagingType, snapVars, jupiter
<1>3. CASE StartBuild
  BY <1>1, <1>3 DEF StartBuild, PagingType, jupiter
<1>4. CASE Reading
  <2>1. over' = over
    BY <1>4 DEF Reading, ReadPage, BuildFails, jupiter
  <2>2. CASE ReadPage /\ build' # None
    <3> DEFINE more == HasNext /\ build.page + 1 < MaxPages
    <3>1. build \in Partial
      BY <2>2 DEF ReadPage, SnapInv
    <3>2. build' = [build EXCEPT
                     !.of = PageOf,
                     !.cut = IF HasNext /\ ~more THEN build.cut \cup {PageCat}
                             ELSE build.cut,
                     !.cat = IF more THEN build.cat ELSE build.cat + 1,
                     !.start = IF more THEN NextStart(build.start) ELSE 0,
                     !.page = IF more THEN build.page + 1 ELSE 0]
      BY <2>2 DEF ReadPage, PageOf, PageCat, HasNext, Here
    <3>3. build'.page = IF more THEN build.page + 1 ELSE 0
      BY <3>1, <3>2 DEF Partial
    <3> QED  BY <1>1, <2>1, <3>3 DEF PagingType
  <2>3. CASE build' = None
    BY <2>1, <2>3 DEF PagingType
  <2> QED  BY <1>4, <2>2, <2>3 DEF Reading, BuildFails
<1>5. CASE Tick
  <2>1. over' = over /\ (build = None => build' = None)
    BY <1>5 DEF Tick, TickSnapshot
  <2>2. ASSUME build # None PROVE build'.page = build.page
    <3>1. build \in Partial /\ build' = [build EXCEPT !.age = Older(build.age)]
      BY <1>5, <2>2 DEF SnapInv, Tick, TickSnapshot
    <3> QED  BY <3>1 DEF Partial
  <2> QED  BY <2>1, <2>2 DEF PagingType
<1>6. CASE Jupiter
  <2>1. over' \subseteq Event
    BY <1>6, SnapshotAssumption DEF Jupiter, List, Delist, Ends, Shut, PagingType
  <2>2. build = None => build' = None
    BY <1>6 DEF Jupiter, List, Delist, Ends, Shut
  <2>3. ASSUME build # None PROVE build'.page = build.page
    <3>1. build \in Partial  BY <2>3 DEF SnapInv
    <3>2. \/ build' = build
          \/ \E d \in Event :
               build' = [build EXCEPT !.shifted = build.shifted \cup {CategoryOf[d]}]
      BY <1>6, <2>3 DEF Jupiter, List, Delist, Ends, Shut
    <3> QED  BY <3>1, <3>2 DEF Partial
  <2> QED  BY <2>1, <2>2, <2>3 DEF PagingType
<1>7. CASE Restart
  BY <1>7 DEF Restart, jupiter, PagingType
<1>8. CASE Fetch \/ GateRow \/ MapMarket \/ Order \/ EndOfBatch \/ Arrive
  BY <1>2, <1>8 DEF Fetch, GateRow, MapMarket, Order, EndOfBatch, Arrive, Skipped,
                Decide, CallFails, Throws
<1> QED
  BY <1>2, <1>3, <1>4, <1>5, <1>6, <1>7, <1>8 DEF Next, Boot, Top, vars

LEMMA ResolvedMarket ==
  ASSUME SnapInv, NEW e, Resolve(e).skip = "none"
  PROVE  Resolve(e).market \in Market
<1>1. /\ e \in Event /\ snap.of[e] # None /\ MarketsOf[e] # << >>
      /\ Resolve(e).market = FirstOpen(e)
  BY DEF Resolve, Skip
<1>2. MarketsOf[e] \in Seq(Market)
  BY <1>1, SnapshotAssumption
<1>3. CASE snap.of[e] = {}
  <2>1. MarketsOf[e][1] \in Market  BY <1>1, <1>2
  <2> QED  BY <1>1, <1>3, <2>1 DEF FirstOpen
<1>4. CASE snap.of[e] # {}
  <2>1. FirstOpen(e) \in snap.of[e]  BY <1>1, <1>4, FirstIsOpen
  <2>2. snap.of[e] \in SUBSET Market
    BY <1>1 DEF SnapInv, Snapshot, OpenOf
  <2> QED  BY <1>1, <2>1, <2>2
<1> QED  BY <1>3, <1>4

\* A row that is decided leaves nothing picked and lets the loop go on.
LEMMA DecideTyped ==
  ASSUME BatchType, NEW o, Decide(o), pos <= upto, threw' \in BOOLEAN,
         seen' \subseteq Nat
  PROVE  BatchType'
<1>1. /\ pc' = "row" /\ pick' = None /\ pos' = pos + 1
      /\ UNCHANGED <<arrived, cursor, upto, failed>>
  BY DEF Decide, Goto, histVars
<1>2. Len(Feed) \in Nat  BY GatesAssumption
<1>3. pos + 1 \in 1 .. Len(Feed) + 1 /\ pos + 1 <= upto + 1
  BY <1>2 DEF BatchType
<1> QED  BY <1>1, <1>3 DEF BatchType

LEMMA NextBatch == ASSUME SnapInv, BatchType, [Next]_vars PROVE BatchType'
<1>0. Len(Feed) \in Nat  BY GatesAssumption
<1>1. threw \in BOOLEAN /\ seen \subseteq Nat
  BY DEF BatchType
<1>2. CASE Boot
  BY <1>2 DEF Boot, Goto, histVars, BatchType
<1>3. CASE Top
  BY <1>3 DEF Top, Goto, histVars, BatchType
<1>4. CASE Reading
  <2>1. /\ pc' \in {"bootRead", "refresh", "fetch", "top", "boot"}
        /\ pc \in {"bootRead", "refresh"} /\ failed' \in BOOLEAN
        /\ UNCHANGED <<arrived, cursor, upto, pos, threw, pick, seen>>
    BY <1>4 DEF Reading, Goto, BatchType
  <2> QED  BY <2>1 DEF BatchType
<1>5. CASE Fetch
  <2>1. /\ pc = "fetch" /\ pc' = "row" /\ upto' = arrived /\ pos' = cursor + 1
        /\ UNCHANGED <<arrived, cursor, threw, pick, seen, failed>>
    BY <1>5 DEF Fetch, Goto, histVars
  <2>2. cursor + 1 \in 1 .. Len(Feed) + 1 /\ cursor + 1 <= arrived + 1
        /\ arrived \in 0 .. arrived
    BY <1>0 DEF BatchType
  <2> QED  BY <2>1, <2>2 DEF BatchType
<1>6. CASE GateRow
  <2> DEFINE s == Sig(pos)
             r == Resolve(s.event)
             reason == IF ~s.genuine THEN "bad_signature"
                       ELSE IF s.key \in seen THEN "dedup_replay"
                       ELSE IF s.action # "open" THEN "action_not_yet_supported"
                       ELSE r.skip
  <2>1. CASE Skipped(reason)
    BY <1>1, <1>6, <2>1, DecideTyped DEF GateRow, Skipped
  <2>2. CASE reason = "none" /\ pick' = r.market /\ Goto("market")
                /\ UNCHANGED <<histVars, arrived, cursor, upto, pos, threw, seen>>
    <3>1. r.skip = "none"  BY <2>2
    <3>2. pick' \in Market /\ pick' # None
      BY <2>2, <3>1, ResolvedMarket, SnapshotAssumption
    <3>3. pos <= upto  BY <1>6 DEF GateRow
    <3> QED  BY <2>2, <3>2, <3>3 DEF BatchType, Goto, histVars
  <2> QED  BY <1>6, <2>1, <2>2 DEF GateRow
<1>7. CASE MapMarket
  <2>1. pc = "market" /\ pos <= upto
    BY <1>7 DEF MapMarket, BatchType
  <2>2. CASE pc' = "order"
    BY <1>7, <2>1, <2>2 DEF MapMarket, Skipped, Decide, CallFails, Throws, Goto,
                            histVars, BatchType
  <2>3. CASE pc' # "order"
    <3>1. Skipped("no_pricing") \/ Skipped("jup_api_error") \/ Throws
      BY <1>7, <2>3 DEF MapMarket, CallFails, Goto
    <3> QED  BY <1>1, <2>1, <3>1, DecideTyped DEF Skipped, Throws
  <2> QED  BY <2>2, <2>3
<1>8. CASE Order
  <2>1. pc = "order" /\ pos <= upto
    BY <1>8 DEF Order, BatchType
  <2>2. Sig(pos).key \in Nat
    <3>1. pos \in 1 .. Len(Feed)
      BY <1>0, <2>1 DEF BatchType
    <3>2. Feed[pos] \in ToSet(Feed)
      BY <3>1, GatesAssumption DEF ToSet
    <3>3. Signal[Feed[pos]] \in [key : Nat, event : Event \cup {None},
             action : {"open", "close", "claim"}, genuine : BOOLEAN, size : Nat]
      BY <3>2, GatesAssumption
    <3> QED  BY <3>3 DEF Sig
  <2> DEFINE guard == CheckGuards(Sig(pos).size)
  <2>3. CASE \E o : Skipped(o)
    BY <1>1, <2>1, <2>3, DecideTyped DEF Skipped
  <2>4. CASE Throws
    BY <1>1, <2>1, <2>4, DecideTyped DEF Throws
  <2>5. CASE /\ Decide("would_sign")
             /\ seen' = seen \cup {Sig(pos).key} /\ UNCHANGED threw
    BY <1>1, <2>1, <2>2, <2>5, DecideTyped
  <2> QED  BY <1>8, <2>3, <2>4, <2>5 DEF Order, CallFails
<1>9. CASE EndOfBatch
  <2>1. /\ pc = "row" /\ pc' = "top" /\ cursor' \in 0 .. arrived /\ upto' = 0
        /\ pos' = 1 /\ threw' = FALSE /\ failed' = FALSE
        /\ UNCHANGED <<arrived, pick, seen>>
    BY <1>9 DEF EndOfBatch, NoBatch, Goto, BatchType
  <2>2. upto' \in 0 .. arrived' /\ pos' \in 1 .. Len(Feed) + 1
    BY <1>0, <2>1 DEF BatchType
  <2>3. {threw', failed'} \subseteq BOOLEAN  BY <2>1
  <2>4. pc' \notin {"row", "market", "order"} /\ pick = None
    BY <2>1 DEF BatchType
  <2> QED  BY <2>1, <2>2, <2>3, <2>4 DEF BatchType
<1>10. CASE Restart
  <2>1. /\ pc' = "boot" /\ upto' = 0 /\ pos' = 1 /\ threw' = FALSE
        /\ failed' = FALSE /\ pick' = None /\ UNCHANGED <<arrived, cursor, seen>>
    BY <1>10 DEF Restart, NoBatch, Goto
  <2>2. upto' \in 0 .. arrived' /\ pos' \in 1 .. Len(Feed) + 1
    BY <1>0, <2>1 DEF BatchType
  <2>3. {threw', failed'} \subseteq BOOLEAN  BY <2>1
  <2>4. pc' \notin {"row", "market", "order"}  BY <2>1
  <2> QED  BY <2>1, <2>2, <2>3, <2>4 DEF BatchType
<1>11. CASE Arrive
  <2>1. /\ arrived < Len(Feed) /\ arrived' = arrived + 1
        /\ UNCHANGED <<pc, cursor, upto, pos, threw, pick, seen, failed>>
    BY <1>11 DEF Arrive, loopVars, histVars
  <2>2. arrived' \in 0 .. Len(Feed) /\ cursor \in 0 .. arrived' /\ upto \in 0 .. arrived'
    BY <1>0, <2>1 DEF BatchType
  <2> QED  BY <2>1, <2>2 DEF BatchType
<1>12. CASE Tick \/ Jupiter \/ UNCHANGED vars
  <2>1. UNCHANGED <<pc, arrived, cursor, upto, pos, threw, pick, seen, failed>>
    BY <1>12 DEF Tick, Jupiter, vars, loopVars, histVars
  <2> QED  BY <2>1 DEF BatchType
<1> QED
  BY <1>2, <1>3, <1>4, <1>5, <1>6, <1>7, <1>8, <1>9, <1>10, <1>11, <1>12 DEF Next

\* The listing, the snapshot and the loop keep their types: an order is under way
\* exactly while a market is picked, and the cursor never passes what arrived.
THEOREM GatesTyped == Spec => []TypeOK
<1> DEFINE I == SnapInv /\ Telling /\ PosInv /\ AgeInv /\ BatchType /\ PagingType
<1>1. Init => I
  BY InitSnap, InitTold, InitLoop, InitTyped DEF Telling
<1>2. I /\ [Next]_vars => I'
  BY NextSnap, NextTold, NextPos, NextAge, NextBatch, NextPaging
<1>3. I => TypeOK
  BY TypeParts DEF Telling
<1> HIDE DEF I
<1> QED  BY <1>1, <1>2, <1>3, PTL DEF Spec

=============================================================================
