-------------------------- MODULE MCOptionPositions --------------------------
(* One tick is 5 cents.  Paid 100: 140 arms the trailing stop and 120 then    *)
(* gives back more than 10% of it; paid 140: 100 is under the stop.  The      *)
(* underlying trades near $200; a pattern puts its structure level there.     *)
EXTENDS OptionPositions, TLC

CONSTANTS c1, c2, k1, k2, b1, b2

MCCandidates  == {c1}
MCBearish     == {c1}
MCTwoCandidates == {c1, c2}
MCTwoCheckers == {k1, k2}
MCOneChecker  == {k1}
MCBuyers      == {b1}
MCMids        == {100, 120, 140}
MCTwoMids     == {100, 140}
MCQuotes      == {0, 4100}
MCLevels      == {0, 4000}
MCOneLevel    == {4000}
MCTwoQuotes   == {3900, 4100}

Symmetry == Permutations(MCTwoCheckers)
===============================================================================
