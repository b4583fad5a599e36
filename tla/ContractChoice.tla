---------------------------- MODULE ContractChoice ----------------------------
(***************************************************************************)
(* From an option chain to one contract and a limit price                  *)
(* (internal/market): FetchOptionChain, FilterChainQuality,                *)
(* SelectBestContract and ComputeEntryFill.  A contract is a record of its *)
(* type, days to expiration, |delta| in percent (the code takes absolute   *)
(* values), bid and ask in cents and the day's volume.  The feed gives no  *)
(* open interest, so the rules about it do not apply (alpaca.go:381).      *)
(***************************************************************************)
EXTENDS Integers

CONSTANTS
  DTEMin, DTEMax, AvoidBelow, TargetDTE,   \* option_lifecycle
  DeltaMin, DeltaMax,                      \* the band, in percent
  MinVolume, MaxSpread                     \* liquidity_filters

ASSUME ChoiceAssumption ==
  /\ DTEMin \in Nat /\ DTEMax \in Nat /\ AvoidBelow \in Nat /\ TargetDTE \in Nat
  /\ DeltaMin \in Nat /\ DeltaMax \in Nat
  /\ MinVolume \in Nat
  /\ MaxSpread \in 0..8

Contract ==
  [type : {"call", "put"}, dte : Int, delta : Nat, bid : Nat, ask : Nat, volume : Nat]

Distance(a, b) == IF a >= b THEN a - b ELSE b - a

\* The feed's window and band are literals; contracts without a quote are left out.
Listed(feed) ==
  {c \in feed : c.dte \in 4..25 /\ c.delta \in 30..75 /\ c.ask > 0}

\* Mutant of Liquid: asks for volume only.
Traded(chain) == {c \in chain : c.volume >= MinVolume}

\* The spread is a share of the ask; a maximum of 0 turns the check off.
Liquid(chain) ==
  {c \in chain : /\ MaxSpread > 0 => 100 * (c.ask - c.bid) <= MaxSpread * c.ask
                 /\ c.volume >= MinVolume}

Candidates(chain, type) ==
  {c \in chain : /\ c.type = type
                 /\ c.dte >= AvoidBelow
                 /\ c.dte >= DTEMin /\ c.dte <= DTEMax}

InBand(S) == {c \in S : c.delta >= DeltaMin /\ c.delta <= DeltaMax}

\* The band is a preference: without a contract inside it all are ranked.
Pool(chain, type) ==
  LET S == Candidates(chain, type)
  IN  IF InBand(S) # {} THEN InBand(S) ELSE S

\* Mutant of Penalty: days short of the target count as a gain.
SignedPenalty(c) ==
  400 * (c.dte - TargetDTE) * c.ask
  + 14 * Distance(2 * c.delta, DeltaMin + DeltaMax) * c.ask
  + 1400 * (c.ask - c.bid)

\* 1400 * ask times the composite 4 * dteDist/14 + 2 * deltaDist + spread/ask.
Penalty(c) ==
  400 * Distance(c.dte, TargetDTE) * c.ask
  + 14 * Distance(2 * c.delta, DeltaMin + DeltaMax) * c.ask
  + 1400 * (c.ask - c.bid)

\* The chain comes out of a map: any contract of least penalty may be the first.
BestContracts(chain, type) ==
  {c \in Pool(chain, type) :
     \A d \in Pool(chain, type) : Penalty(c) * d.ask <= Penalty(d) * c.ask}

FillRejected(c) ==
  \/ c.bid <= 0 \/ c.ask <= 0
  \/ c.ask < c.bid
  \/ 100 * (c.ask - c.bid) > 8 * c.ask

\* Mutant of FillPrice: the haircut counts the first 4% too.
FullHaircut(c) ==
  LET spread == c.ask - c.bid
      excess == IF 100 * spread > 4 * c.ask THEN 100 * spread ELSE 0
  IN  4 * c.ask * (c.bid + c.ask) + excess * spread

\* 8 * ask times the fill price: the mid up to a spread of 4%, beyond it a share
\* of the way to the ask that reaches the ask at 8%.
FillPrice(c) ==
  LET spread == c.ask - c.bid
      excess == IF 100 * spread > 4 * c.ask THEN 100 * spread - 4 * c.ask ELSE 0
  IN  4 * c.ask * (c.bid + c.ask) + excess * spread

\* The order's limit is the price to the cent; a tie goes as the float's binary
\* digits have it.  (Any bound well above the ask would do.)
LimitPrices(c) ==
  {p \in 0..(2 * c.ask) : Distance(16 * c.ask * p, 2 * FillPrice(c)) <= 8 * c.ask}
===============================================================================
