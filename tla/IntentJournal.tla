--------------------------- MODULE IntentJournal ---------------------------
(***************************************************************************)
(* What the follower's state file promises whoever signs from it: a list   *)
(* of intents that only grows at its end, in which two intents of one      *)
(* dedup key are always more than Window intents apart.                    *)
(***************************************************************************)
EXTENDS Integers, Sequences

CONSTANT Window

VARIABLE intents

Spaced(s) ==
  \A i, j \in DOMAIN s : i < j /\ s[i] = s[j] => j - i > Window

Extends(s, t) ==
  /\ Len(s) <= Len(t)
  /\ \A i \in DOMAIN s : t[i] = s[i]

Init == intents = << >>

\* One save may carry several intents when the saves before it failed.
Commit == Extends(intents, intents') /\ Spaced(intents')

Spec == Init /\ [][Commit]_intents
=============================================================================
