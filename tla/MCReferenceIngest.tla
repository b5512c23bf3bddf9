------------------------- MODULE MCReferenceIngest --------------------------
(* ReferenceIngest for TLC: runs and instruments are model values.         *)
EXTENDS ReferenceIngest, TLC

CONSTANTS r1, r2, r3, o1, o2, f1, perp, btc_usd

TwoRuns == {r1, r2}
ThreeRuns == {r1, r2, r3}
TwoOptions == {o1, o2}
OneOption == {o1}
OneFuture == {f1}
OnePerpetual == {perp}

InterchangeableRuns == Permutations(Runs)
Interchangeable == Permutations(Runs) \cup Permutations(Options)

=============================================================================
