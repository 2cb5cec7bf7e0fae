---------------------------- MODULE MCCeremonies ----------------------------
EXTENDS Ceremonies, TLC
CONSTANTS p1, p2, s1, s2, s3, s4
\* Three transactions when scripts overlap; a fourth when they do not, for what
\* an abandoned run sent to land beside a vault, a swap and its deposit.
Budgets == [overlapping |-> 3, sequential |-> 4, settled |-> 4]
Sym == Permutations(Run) \cup Permutations(Sig)
=============================================================================
