------------------------------ MODULE MCRiskPath ------------------------------
(* One tick is 5 cents: a $5.00 premium, an underlying near $200.  75, 135    *)
(* and 170 ticks are exactly the stop, the arming price and the target; 134   *)
(* just misses arming and gives back more than 10% of 170; 121 gives back     *)
(* 10% of 135.                                                                *)
EXTENDS RiskPath

MCMids   == {75, 121, 134, 135, 170}
MCQuotes == {0, 3900, 4100}
MCLevels == {0, 4000}
===============================================================================
