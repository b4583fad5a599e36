---------------------------- MODULE EntryDecision ----------------------------
(***************************************************************************)
(* One candidate on one morning, from its opening bars to a limit order:   *)
(* what RunOpeningConfirmationActivity (internal/workflow/activities.go)   *)
(* does between its shortlist and its portfolio limits.  EntryProtocol     *)
(* leaves the outcome of these steps free.  Bars arrive minute by minute;  *)
(* a run may look at any window, since minutes without a trade have no bar *)
(* and an interrupted run is started again.                                *)
(***************************************************************************)
EXTENDS OpeningSignals, ContractChoice

CONSTANTS
  Rows,         \* what the scan may have stored for the candidate
  Bars,         \* one-minute bars the ticker may trade
  SpyOpen,      \* SPY's opening price
  SpyCloses,    \* SPY's prices in the window
  Window,       \* bound: bars in a window (confirmation_window_minutes)
  Feeds,        \* sets of contracts the options feed may answer with
  PriceTop      \* prices are below it; the mirror of price p is PriceTop - p

Row == [bullish : BOOLEAN, ready : BOOLEAN, zone : Nat, stop : Nat, prevVolume : Nat]
Bar == [open : Nat, high : Nat, low : Nat, close : Nat, volume : Nat]

ASSUME DecisionAssumption ==
  /\ Rows \subseteq Row
  /\ \A r \in Rows : ~r.ready => ~r.bullish
  /\ Bars \subseteq Bar
  /\ \A b \in Bars : /\ b.low <= b.open /\ b.low <= b.close
                     /\ b.open <= b.high /\ b.close <= b.high
  /\ SpyOpen \in Nat \ {0}
  /\ SpyCloses \subseteq Nat
  /\ Window \in Nat
  /\ Feeds \subseteq SUBSET Contract
  /\ PriceTop \in Nat

NoSpy == [open |-> 0, close |-> 0]
NoContract == [type |-> "none", dte |-> 0, delta |-> 0, bid |-> 0, ask |-> 0, volume |-> 0]

VARIABLES
  row,        \* the trade_candidates row; ready: status entry_ready, otherwise
              \* a reversal that is still structural_candidate
  bars,       \* the ticker's bars so far
  spy,        \* SPY's first open and latest close
  stage,      \* how far the run has come with the candidate
  confirmed,  \* the evidence's status is "confirmed"
  chain,      \* the liquid part of the option chain
  contract,   \* the contract selected
  limit       \* limit price of the order, in cents

vars == <<row, bars, spy, stage, confirmed, chain, contract, limit>>

OptionType == IF row.bullish THEN "call" ELSE "put"

\* "unfilled": turned away by the fill model; "dropped": for another reason.
Stages == {"opening", "signalled", "priced", "buying", "dropped", "unfilled"}

TypeOK ==
  /\ row \in Row
  /\ bars \in Seq(Bars)
  /\ spy \in {NoSpy} \cup [open : {SpyOpen}, close : SpyCloses]
  /\ stage \in Stages
  /\ confirmed \in BOOLEAN
  /\ chain \subseteq Contract
  /\ contract \in Contract \cup {NoContract}
  /\ limit \in Nat

Init ==
  /\ row \in Rows
  /\ bars = << >>
  /\ spy = NoSpy
  /\ stage = "opening"
  /\ confirmed = FALSE
  /\ chain = {}
  /\ contract = NoContract
  /\ limit = 0

run == <<stage, confirmed, chain, contract, limit>>

-------------------------------------------------------------------------------

TickerMinute(b) ==
  /\ stage = "opening"
  /\ Len(bars) < Window
  /\ bars' = Append(bars, b)
  /\ UNCHANGED <<row, spy, run>>

\* Mutant of SpyMinute: the market's bars end up among the ticker's.
SpyAmongBars(p) ==
  /\ stage = "opening"
  /\ Len(bars) < Window
  /\ bars' = Append(bars, [open |-> SpyOpen, high |-> p, low |-> p, close |-> p,
                           volume |-> 0])
  /\ UNCHANGED <<row, spy, run>>

SpyMinute(p) ==
  /\ stage = "opening"
  /\ spy' = [open |-> SpyOpen, close |-> p]
  /\ UNCHANGED <<row, bars, run>>

\* A reversal is promoted first, and stays promoted if the run goes no further.
Shortlisted == row.ready \/ RejectionConfirmed(row, bars, spy)

GatherSignals ==
  /\ stage = "opening"
  /\ Shortlisted
  /\ row' = [row EXCEPT !.ready = TRUE]
  /\ confirmed' = Confirmed(row, bars, spy)
  /\ stage' = IF AutoRejected(row, bars, spy) THEN "dropped" ELSE "signalled"
  /\ UNCHANGED <<bars, spy, chain, contract, limit>>

\* The request to the options feed fails.
ChainFails ==
  /\ stage = "signalled"
  /\ stage' = "dropped"
  /\ UNCHANGED <<row, bars, spy, confirmed, chain, contract, limit>>

NoContractFound(feed) ==
  /\ stage = "signalled"
  /\ BestContracts(Liquid(Listed(feed)), OptionType) = {}
  /\ stage' = "dropped"
  /\ UNCHANGED <<row, bars, spy, confirmed, chain, contract, limit>>

SelectContract(feed, c) ==
  /\ stage = "signalled"
  /\ c \in BestContracts(Liquid(Listed(feed)), OptionType)
  /\ chain' = Liquid(Listed(feed))
  /\ contract' = c
  /\ \/ FillRejected(c) /\ stage' = "unfilled" /\ limit' = limit
     \/ ~FillRejected(c) /\ stage' = "priced" /\ limit' \in LimitPrices(c)
  /\ UNCHANGED <<row, bars, spy, confirmed>>

\* The premium is expensive among those stored for the ticker.
IVRankTooHigh ==
  /\ stage = "priced"
  /\ stage' = "dropped"
  /\ UNCHANGED <<row, bars, spy, confirmed, chain, contract, limit>>

Decide ==
  /\ stage = "priced"
  /\ stage' = IF confirmed THEN "buying" ELSE "dropped"
  /\ UNCHANGED <<row, bars, spy, confirmed, chain, contract, limit>>

\* The activity is cut off before it has written a status, and retried.
Interrupt ==
  /\ stage \in {"signalled", "priced"}
  /\ stage' = "opening"
  /\ confirmed' = FALSE
  /\ chain' = {}
  /\ contract' = NoContract
  /\ limit' = 0
  /\ UNCHANGED <<row, bars, spy>>

Next ==
  \/ \E b \in Bars : TickerMinute(b)
  \/ \E p \in SpyCloses : SpyMinute(p)
  \/ GatherSignals
  \/ ChainFails
  \/ \E feed \in Feeds : NoContractFound(feed)
  \/ \E feed \in Feeds : \E c \in feed : SelectContract(feed, c)
  \/ IVRankTooHigh
  \/ Decide
  \/ Interrupt

Spec == Init /\ [][Next]_vars

-------------------------------------------------------------------------------
(* Properties.                                                             *)

(* One opening never confirms a call and a put.  A scan may flip the       *)
(* direction, the zone and the stop of a row between a run and its retry;  *)
(* whatever it stores, the same bars do not confirm the other side.        *)
NotBothWays ==
  Confirmed(row, bars, spy) =>
    \A other \in Rows :
      other.bullish # row.bullish => ~Confirmed(other, bars, spy)

(* The rules for puts are those for calls upside down: each of the ten     *)
(* comparisons is written twice, once per direction, and on mirrored       *)
(* prices both copies must come to the same verdict.  Only for rows with a *)
(* stored zone, since zero has no mirror.                                  *)
MirrorBar(b) == [open |-> PriceTop - b.open, close |-> PriceTop - b.close,
                 high |-> PriceTop - b.low, low |-> PriceTop - b.high,
                 volume |-> b.volume]
MirrorBars(w) == [i \in DOMAIN w |-> MirrorBar(w[i])]
MirrorSpy(s) == [open |-> s.open, close |-> 2 * s.open - s.close]
MirrorRow(r) == [r EXCEPT !.bullish = ~r.bullish,
                          !.zone = 2 * PriceTop - r.zone,
                          !.stop = PriceTop - r.stop]
MirrorSymmetric ==
  row.zone \notin {0, 2 * PriceTop} =>
    /\ Confirmed(row, bars, spy)
         <=> Confirmed(MirrorRow(row), MirrorBars(bars), MirrorSpy(spy))
    /\ AutoRejected(row, bars, spy)
         <=> AutoRejected(MirrorRow(row), MirrorBars(bars), MirrorSpy(spy))

(* What a bar has ruled out stays ruled out: after a close beyond the stop *)
(* no longer window confirms the row, and after a recovery wick none       *)
(* promotes the reversal, however the morning goes on.  Retries look at    *)
(* longer windows than the attempts before them.  The row, and its stop    *)
(* with it, is the one that was loaded: a scan that moves the stop between *)
(* two attempts is not part of this model.                                 *)
BlocksAreFinal ==
  [][/\ LevelLost(row, bars) => ~Confirmed(row', bars', spy')
     /\ RecoveryWick(bars) => ~RejectionConfirmed(row', bars', spy')]_vars

(* The one number that ranks contracts respects the criteria it is made    *)
(* of: no liquid contract of the row's type inside the bands is at least   *)
(* as near to the target days, as near to the middle of the delta band and *)
(* as tight as the one selected, and better in one of these.               *)
Tighter(c, d)   == (c.ask - c.bid) * d.ask < (d.ask - d.bid) * c.ask
DaysOff(c)      == Distance(c.dte, TargetDTE)
DeltaOff(c)     == Distance(2 * c.delta, DeltaMin + DeltaMax)
Dominates(c, d) ==
  /\ DaysOff(c) <= DaysOff(d) /\ DeltaOff(c) <= DeltaOff(d) /\ ~Tighter(d, c)
  /\ DaysOff(c) < DaysOff(d) \/ DeltaOff(c) < DeltaOff(d) \/ Tighter(c, d)
NotDominated ==
  stage \in {"priced", "buying"} =>
    \A c \in chain :
      /\ c.type = contract.type
      /\ c.dte >= DTEMin /\ c.dte >= AvoidBelow /\ c.dte <= DTEMax
      /\ c.delta >= DeltaMin /\ c.delta <= DeltaMax
      => ~Dominates(c, contract)

(* The fill model's own limits on the spread and on empty quotes are       *)
(* "belt-and-suspenders": both filters measure the spread alike, so after  *)
(* a chain filter that checks it (MaxSpread > 0) only a quote with the bid *)
(* above the ask is left for the fill to turn away.                        *)
FillRejectsOnlyInverted ==
  stage = "unfilled" => contract.ask < contract.bid

(* An order never pays more than the ask and never less than the mid less  *)
(* half a cent of rounding, across the change of formula at a spread of 4% *)
(* and up to the limit of 8%.                                              *)
LimitInsideQuote ==
  stage \in {"priced", "buying"} =>
    /\ limit <= contract.ask
    /\ 2 * limit + 1 >= contract.bid + contract.ask

(* Without a stored zone the middle of the opening range stands in for it  *)
(* (confirmation.go:241): a bought call closed its window at or above it.  *)
(* It does not hold: the comparison with a zone of zero comes first.       *)
RangeStandsInForZone ==
  stage = "buying" /\ row.zone = 0 /\ row.bullish =>
    2 * Last(bars).close >= TwiceMid(bars)
===============================================================================
