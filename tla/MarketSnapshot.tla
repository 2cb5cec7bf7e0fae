--------------------------- MODULE MarketSnapshot ---------------------------
(***************************************************************************)
(* The follower's snapshot of Jupiter's events (buildJupSnapshotFromClient *)
(* in runFollower.ts, resolveTriggerToJup in jupMarketResolver.ts) and the *)
(* listing it is read from, page by page, while the listing changes.       *)
(*                                                                         *)
(* An event stands for its slug.  Time is counted in ticks and only as far *)
(* as the TTL tells apart: an age of TTL + 1 is any age beyond the TTL.    *)
(***************************************************************************)
EXTENDS Integers, Sequences, SequencesExt, FiniteSets

CONSTANTS
  Event, Market,
  MarketsOf,    \* the markets of each event, in the API's order
  Categories,   \* snapshotCategories
  CategoryOf,
  Closing,      \* events with a closeTime
  Watched,      \* events whose history is kept
  PageSize,     \* 20 in the API
  MaxPages,     \* 50 in the code
  TTL,          \* snapshotTtlMs
  None

Age == 0 .. TTL + 1

\* The open markets an event is said to have; a snapshot; and one being read,
\* with its category, offset and page.
OpenOf == [Event -> (SUBSET Market) \cup {None}]
Snapshot == [of : OpenOf, age : Age,
             shifted : SUBSET ToSet(Categories), cut : SUBSET ToSet(Categories)]
Partial == [of : OpenOf, age : Age,
            shifted : SUBSET ToSet(Categories), cut : SUBSET ToSet(Categories),
            cat : 1 .. Len(Categories), start : Nat, page : Nat]

ASSUME SnapshotAssumption ==
  /\ Categories \in Seq(ToSet(Categories)) \ {<< >>}
  /\ CategoryOf \in [Event -> ToSet(Categories)]
  /\ MarketsOf \in [Event -> Seq(Market)]
  /\ Closing \subseteq Event /\ Watched \subseteq Event
  /\ {PageSize, MaxPages} \subseteq Nat \ {0} /\ TTL \in Nat
  /\ None \notin Market \cup Partial /\ \A S \in SUBSET Market : S # None
  /\ \A e, d \in Event :
       e # d => ToSet(MarketsOf[e]) \cap ToSet(MarketsOf[d]) = {}

VARIABLES
  list,      \* Jupiter: the listing, by category
  open,      \* Jupiter: markets with status open
  over,      \* Jupiter: events whose closeTime has passed
  unlisted,  \* history: ticks since the event was last off the list
  shutFor,   \* history: ticks since the market shut, 0 while it is open
  snap,      \* `snapshot`
  build      \* the snapshot being read, or None
jupiter == <<list, open, over, unlisted, shutFor>>
snapVars == <<jupiter, snap, build>>

Older(n) == IF n > TTL THEN n ELSE n + 1

Empty == [of |-> [e \in Event |-> None], age |-> 0, shifted |-> {}, cut |-> {}]

-----------------------------------------------------------------------------
(* Jupiter.                                                                *)

Listed(e) == e \in ToSet(list[CategoryOf[e]])

List(e) ==
  /\ ~Listed(e)
  /\ \E k \in 1 .. Len(list[CategoryOf[e]]) + 1 :
       list' = [list EXCEPT ![CategoryOf[e]] = InsertAt(@, k, e)]
  /\ UNCHANGED <<open, over, unlisted, shutFor, snap, build>>

\* What follows it moves up one place, under a reader who has passed it too.
Delist(e) ==
  /\ \E k \in 1 .. Len(list[CategoryOf[e]]) :
       /\ list[CategoryOf[e]][k] = e
       /\ list' = [list EXCEPT ![CategoryOf[e]] = RemoveAt(@, k)]
  /\ unlisted' = IF e \in Watched THEN [unlisted EXCEPT ![e] = 0] ELSE unlisted
  /\ build' = IF build = None THEN None
              ELSE [build EXCEPT !.shifted = @ \cup {CategoryOf[e]}]
  /\ UNCHANGED <<open, over, shutFor, snap>>

\* A market does not open again.
Shut(m) ==
  /\ m \in open /\ open' = open \ {m}
  /\ UNCHANGED <<list, over, unlisted, shutFor, snap, build>>

Ends(e) ==
  /\ e \in Closing \ over /\ over' = over \cup {e}
  /\ UNCHANGED <<list, open, unlisted, shutFor, snap, build>>

TickSnapshot ==
  /\ unlisted' = [e \in Watched |-> IF Listed(e) THEN Older(unlisted[e]) ELSE 0]
  /\ shutFor' = [m \in Market |-> IF m \in open THEN 0 ELSE Older(shutFor[m])]
  /\ snap' = [snap EXCEPT !.age = Older(@)]
  /\ build' = IF build = None THEN None ELSE [build EXCEPT !.age = Older(@)]
  /\ UNCHANGED <<list, open, over>>

-----------------------------------------------------------------------------
(* buildJupSnapshotFromClient.  now() is read before the first request.    *)

StartBuild ==
  /\ build' = [of |-> Empty.of, age |-> 0, shifted |-> {}, cut |-> {},
               cat |-> 1, start |-> 0, page |-> 0]
  /\ UNCHANGED <<jupiter, snap>>

\* Mutant of NextStart: the offset of the next page skips an event.
NextStartOff(start) == start + PageSize + 1
NextStart(start) == start + PageSize

\* One request of the listing; the last one of the last category makes the
\* snapshot.  Pages beyond MaxPages are not asked for.
ReadPage ==
  LET c == Categories[build.cat]
      hasNext == build.start + PageSize < Len(list[c])
      here == SubSeq(list[c], build.start + 1,
                     IF hasNext THEN build.start + PageSize ELSE Len(list[c]))
      of == [e \in Event |-> IF e \in ToSet(here)
                               THEN open \cap ToSet(MarketsOf[e])
                               ELSE build.of[e]]
      more == hasNext /\ build.page + 1 < MaxPages
      cut == IF hasNext /\ ~more THEN build.cut \cup {c} ELSE build.cut
  IN /\ build # None
     /\ IF more \/ build.cat < Len(Categories)
          THEN /\ build' = [build EXCEPT
                    !.of = of, !.cut = cut,
                    !.cat = IF more THEN @ ELSE @ + 1,
                    !.start = IF more THEN NextStart(@) ELSE 0,
                    !.page = IF more THEN @ + 1 ELSE 0]
               /\ UNCHANGED snap
          ELSE /\ snap' = [of |-> of, age |-> build.age,
                           shifted |-> build.shifted, cut |-> cut]
               /\ build' = None
     /\ UNCHANGED jupiter

BuildFails ==
  /\ build # None /\ build' = None
  /\ UNCHANGED <<jupiter, snap>>

-----------------------------------------------------------------------------
(* resolveTriggerToJup, with a slug already stripped of its suffix.        *)

\* Mutant of Stale: the resolver takes >= where the refresh takes >.
StaleAtTTL == snap.age >= TTL
Stale == snap.age > TTL

\* Mutant of FirstOpen: the first market, whatever its status.
FirstMarket(e) == MarketsOf[e][1]

\* The first open market of the snapshot, and the first of all without one.
FirstOpen(e) ==
  IF snap.of[e] = {} THEN MarketsOf[e][1]
  ELSE LET at == {i \in DOMAIN MarketsOf[e] : MarketsOf[e][i] \in snap.of[e]}
       IN MarketsOf[e][CHOOSE i \in at : \A j \in at : i <= j]

Skip(reason) == [skip |-> reason, market |-> None]

Resolve(e) ==
  IF Stale THEN Skip("snapshot_stale")
  ELSE IF e \notin Event \/ snap.of[e] = None THEN Skip("no_jup_market")
  ELSE IF MarketsOf[e] = << >> THEN Skip("no_open_market")
  ELSE IF e \in over THEN Skip("close_time_passed")
  ELSE [skip |-> "none", market |-> FirstOpen(e)]

SnapInit ==
  /\ list \in [ToSet(Categories) -> {<< >>}] /\ over = {}
  /\ open \in SUBSET Market
  /\ unlisted = [e \in Watched |-> 0] /\ shutFor = [m \in Market |-> IF m \in open THEN 0 ELSE TTL + 1]
  /\ snap = Empty /\ build = None

SnapType ==
  /\ list \in [ToSet(Categories) -> Seq(Event)]
  /\ open \subseteq Market /\ over \subseteq Event
  /\ unlisted \in [Watched -> Age] /\ shutFor \in [Market -> Age]
  /\ snap \in Snapshot
  /\ build # None => build \in Partial /\ build.page < MaxPages
=============================================================================
