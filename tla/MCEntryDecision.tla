--------------------------- MODULE MCEntryDecision ---------------------------
(* Bars around a zone at 10 with stops at 6 and 14; contracts on both sides *)
(* of each threshold of the chain filter and of the fill model.            *)
EXTENDS EntryDecision

OneBar(o, h, l, c, v) == [open |-> o, high |-> h, low |-> l, close |-> c, volume |-> v]

MCBars == {
  OneBar(9, 12, 9, 12, 2),     \* strong up
  OneBar(11, 11, 8, 8, 2),     \* strong down
  OneBar(10, 11, 9, 10, 1),    \* doji
  OneBar(10, 14, 10, 11, 1),   \* up with an upper wick
  OneBar(10, 10, 5, 9, 1),     \* down with a lower wick
  OneBar(9, 9, 4, 5, 4),       \* through the stop of a call
  OneBar(12, 12, 9, 10, 9)     \* back down on volume
}

MCRow(bull, ready, zone, stop, prev) ==
  [bullish |-> bull, ready |-> ready, zone |-> zone, stop |-> stop, prevVolume |-> prev]

\* Rows as the engine fills them, as it leaves them (no zone, no stop), and with
\* the levels of the opposite direction; one reversal.
MCRows == {
  MCRow(TRUE, TRUE, 20, 6, 200), MCRow(FALSE, TRUE, 20, 14, 200),
  MCRow(TRUE, TRUE, 0, 0, 0),    MCRow(FALSE, TRUE, 0, 0, 0),
  MCRow(TRUE, TRUE, 20, 14, 0),
  MCRow(FALSE, FALSE, 20, 14, 10)
}

Quoted(type, dte, delta, bid, ask, vol) ==
  [type |-> type, dte |-> dte, delta |-> delta, bid |-> bid, ask |-> ask, volume |-> vol]

MCContracts == {
  Quoted("call", 21, 30, 47, 50, 60),   \* spread 6%
  Quoted("call", 24, 40, 23, 25, 60),   \* spread 8%
  Quoted("call", 25, 50, 48, 50, 60),   \* spread 4%
  Quoted("call", 24, 74, 51, 50, 60),   \* inverted
  Quoted("call", 25, 52, 45, 50, 60),   \* spread 10%
  Quoted("call", 20, 52, 50, 50, 60),   \* too short
  Quoted("put", 24, 50, 49, 50, 60),
  Quoted("put", 25, 50, 49, 50, 40)     \* too little volume
}

MCFeeds == {f \in SUBSET MCContracts : Cardinality(f) <= 2}
===============================================================================
