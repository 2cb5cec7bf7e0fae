----------------------------- MODULE NavHistory -----------------------------
(***************************************************************************)
(* The chart of a vault's history on the vault page: fetchNavHistory       *)
(* (navHistory.ts), which walks the vault's transactions and adds up what  *)
(* each did to the supply of shares; NavChart.tsx, which merges what it    *)
(* fetched into what localStorage holds; and useVaultInfo.ts, whose answer *)
(* replaces the share mint the page starts with and so starts the fetch    *)
(* again.  Tabs share localStorage, under one key for all vaults.          *)
(*                                                                         *)
(* Only the supply is kept of a point.  NavChart looks for the vault's     *)
(* assets under FDRY_DEFAULT, which is not the mint the vaults hold, so    *)
(* navFdry is 0 in every point.                                            *)
(***************************************************************************)
EXTENDS Integers, Sequences, SequencesExt, FiniteSets

CONSTANTS
  Tab, Vault,
  Canonical,  \* the vault whose share mint the registry knows
  MaxTx,      \* bounds the chain
  MaxSigs,    \* 200 in the code
  None

ASSUME NavAssumption == /\ Canonical \in Vault /\ None \notin Vault
                        /\ MaxTx \in Nat /\ MaxSigs \in Nat \ {0}

VARIABLES
  chain,    \* the vaults' transactions, in the order of their slots
  cache,    \* fdry:navHistory:v1:default
  shown,    \* the vault each tab shows
  info,     \* useVaultInfo has answered
  series,   \* NavChart's state
  loading,  \* a fetch of the chart is under way
  lossy,    \* history: a request failed, or a listing was cut
  visited   \* history: the vaults shown so far
browser == <<cache, shown, info, series, loading>>
vars == <<chain, browser, lossy, visited>>

-----------------------------------------------------------------------------
(* The chain.  A request for withdrawal moves shares and mints none.       *)

Kind == {"mint", "burn", "escrow", "other", "failed"}
Minted(k) == CASE k = "mint" -> 1 [] k = "burn" -> -1 [] OTHER -> 0
MovesShares(k) == k \in {"mint", "burn", "escrow"}

\* The supply after the nth transaction.
SupplyAt(v, n) ==
  LET of(k) == Cardinality({i \in 1 .. n : chain[i] = [of |-> v, kind |-> k]})
  IN of("mint") - of("burn")

Emit(v, k) ==
  /\ Len(chain) < MaxTx
  /\ k \in {"burn", "escrow"} => SupplyAt(v, Len(chain)) > 0
  /\ chain' = Append(chain, [of |-> v, kind |-> k])
  /\ UNCHANGED <<browser, lossy, visited>>

-----------------------------------------------------------------------------
(* fetchNavHistory.                                                        *)

\* getSignaturesForAddress: the newest MaxSigs, down to `until`.  When that is a
\* transaction of another vault the node may or may not stop at its slot.
Listed(v, since) == {i \in 1 .. Len(chain) : chain[i].of = v /\ i > since}
Newest(S) == {i \in S : Cardinality({j \in S : j > i}) < MaxSigs}

\* A set of numbers, smallest first.
Ascending(S) ==
  CHOOSE s \in [1 .. Cardinality(S) -> S] :
    \A i, j \in 1 .. Cardinality(S) : i < j => s[i] < s[j]

\* Mutant of Chrono: the order of the answer, newest first.
ChronoReversed(S) == Reverse(Ascending(S))
Chrono(S) == Ascending(S)

\* What the walk makes of a transaction.  The running supply does not go below
\* zero; what comes before the first that touches the share mint is no point.
Visit(acc, i, failed, mintKnown, whole) ==
  LET k == chain[i].kind
      sees == mintKnown /\ MovesShares(k)
      sum == acc.supply + IF sees THEN Minted(k) ELSE 0
      supply == IF sum < 0 THEN 0 ELSE sum
  IN IF k = "failed" \/ i \in failed \/ (~sees /\ acc.out = << >>)
       THEN acc
       ELSE [supply |-> supply,
             out |-> Append(acc.out, [tx |-> i, supply |-> supply, whole |-> whole])]

\* Every fetch starts from a supply of 0.
Walk(sigs, failed, mintKnown, whole) ==
  LET acc[n \in 0 .. Len(sigs)] ==
        IF n = 0 THEN [supply |-> 0, out |-> << >>]
        ELSE Visit(acc[n - 1], sigs[n], failed, mintKnown, whole)
  IN acc[Len(sigs)].out

-----------------------------------------------------------------------------
(* NavChart's effect.                                                      *)

Txs(s) == {s[i].tx : i \in DOMAIN s}

LastTx(s) == IF s = << >> THEN 0 ELSE s[Len(s)].tx

\* Mutant of Merged: only what was fetched.
MergedFresh(base, fresh) == fresh

\* Mutant of Merged: the two lists, one after the other.
MergedAppended(base, fresh) == base \o fresh

\* One point for each transaction, the fetched one if there are two, by time.
Merged(base, fresh) ==
  LET points == ToSet(fresh) \cup {p \in ToSet(base) : p.tx \notin Txs(fresh)}
      times == Ascending({p.tx : p \in points})
  IN [i \in 1 .. Len(times) |-> CHOOSE p \in points : p.tx = times[i]]

\* One key for every vault: what is cached is what was last stored.
loadCachedHistory == cache
saveHistoryToCache(s) == cache' = s

Since(t) == LET last == LastTx(series[t])
            IN {last} \cup {n \in {0} : last # 0 /\ chain[last].of # shown[t]}

MintKnown(t) == info[t] \/ shown[t] = Canonical

\* The fetch is answered; what it listed is read here.  A transaction whose
\* request fails is passed over, and the next fetch starts after the newest
\* point all the same.
Load(t) ==
  /\ loading[t]
  /\ \E since \in Since(t) :
       LET all == Listed(shown[t], since)
           sigs == Newest(all)
       IN \E failed \in SUBSET sigs :
            LET whole == since = 0 /\ sigs = all /\ failed = {} /\ MintKnown(t)
                fresh == Walk(Chrono(sigs), failed, MintKnown(t), whole)
            IN /\ series' = [series EXCEPT ![t] = Merged(@, fresh)]
               /\ lossy' = (lossy \/ failed # {} \/ sigs # all)
  /\ saveHistoryToCache(series'[t])
  /\ loading' = [loading EXCEPT ![t] = FALSE]
  /\ UNCHANGED <<chain, shown, info, visited>>

\* The list of signatures cannot be read: the cached view stays.
LoadFails(t) ==
  /\ loading[t] /\ loading' = [loading EXCEPT ![t] = FALSE]
  /\ UNCHANGED <<chain, cache, shown, info, series, lossy, visited>>

-----------------------------------------------------------------------------
(* The page.                                                               *)

\* A tab opens a vault's page: links and the select both mount it anew.
Open(t, v) ==
  /\ shown' = [shown EXCEPT ![t] = v]
  /\ info' = [info EXCEPT ![t] = FALSE]
  /\ series' = [series EXCEPT ![t] = loadCachedHistory]
  /\ loading' = [loading EXCEPT ![t] = TRUE]
  /\ visited' = visited \cup {v}
  /\ UNCHANGED <<chain, cache, lossy>>

\* fetchVaultOnChain answers with the vault's share mint, which is news of any
\* vault that the registry does not have.
NewMint(t) == shown[t] # Canonical

\* useVaultInfo answers.  Another share mint makes the effect run again, and its
\* cleanup drops the fetch under way.
VaultInfo(t) ==
  /\ shown[t] # None /\ ~info[t]
  /\ info' = [info EXCEPT ![t] = TRUE]
  /\ loading' = [loading EXCEPT ![t] = @ \/ NewMint(t)]
  /\ UNCHANGED <<chain, cache, shown, series, lossy, visited>>

Init ==
  /\ chain = << >> /\ cache = << >>
  /\ shown = [t \in Tab |-> None] /\ info = [t \in Tab |-> FALSE]
  /\ series = [t \in Tab |-> << >>] /\ loading = [t \in Tab |-> FALSE]
  /\ lossy = FALSE /\ visited = {}

Next ==
  \/ \E v \in Vault, k \in Kind : Emit(v, k)
  \/ \E t \in Tab : \/ Load(t) \/ LoadFails(t) \/ VaultInfo(t)
                    \/ \E v \in Vault : Open(t, v)

Spec == Init /\ [][Next]_vars

-----------------------------------------------------------------------------
(* Properties.                                                             *)

Point == [tx : 1 .. MaxTx, supply : Nat, whole : BOOLEAN]

TypeOK ==
  /\ chain \in Seq([of : Vault, kind : Kind])
  /\ cache \in Seq(Point) /\ series \in [Tab -> Seq(Point)]
  /\ shown \in [Tab -> Vault \cup {None}]
  /\ {info, loading} \subseteq [Tab -> BOOLEAN]
  /\ lossy \in BOOLEAN /\ visited \subseteq Vault
  /\ \A s \in {cache} \cup {series[t] : t \in Tab} :
       \A i, j \in DOMAIN s : i < j => s[i].tx < s[j].tx

\* A point that was fetched with all that came before it says what the supply
\* was, whatever was merged with it, in whichever tab and under whichever mint
\* the page began.
WholeIsTrue ==
  \A t \in Tab : \A p \in ToSet(series[t]) :
    p.whole => p.supply = SupplyAt(chain[p.tx].of, p.tx)

\* No transaction that moved shares is missing from the chart before its newest
\* point, over reloads, other tabs and fetches dropped half-way, in a browser
\* that shows one vault, as long as no request failed and no listing was cut.
ChartComplete ==
  \A t \in Tab :
    ~lossy /\ visited = {shown[t]} =>
      \A i \in 1 .. LastTx(series[t]) :
        chain[i].of = shown[t] /\ MovesShares(chain[i].kind)
          => i \in Txs(series[t])
=============================================================================
