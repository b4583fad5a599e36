---------------------------- MODULE PositionLedger ----------------------------
(***************************************************************************)
(* What the execution service promises about one paper position per        *)
(* candidate, whatever fails or overlaps: the broker is asked before the   *)
(* database records, on the way in and on the way out, and a recorded exit *)
(* is never undone.  It promises nothing about how often the broker is     *)
(* asked; OptionPositions implements it and counts that.                   *)
(***************************************************************************)
EXTENDS Naturals

CONSTANT Candidates

VARIABLES
  status,      \* per candidate: "none" (no row), "open" or "closed"
  bought,      \* buy orders the broker has accepted
  sold         \* sell orders the broker has accepted

vars == <<status, bought, sold>>

Init ==
  /\ status = [c \in Candidates |-> "none"]
  /\ bought = [c \in Candidates |-> 0]
  /\ sold = [c \in Candidates |-> 0]

Buy(c) ==
  /\ bought' = [bought EXCEPT ![c] = @ + 1]
  /\ UNCHANGED <<status, sold>>

RecordOpen(c) ==
  /\ status[c] = "none"
  /\ bought[c] > 0
  /\ status' = [status EXCEPT ![c] = "open"]
  /\ UNCHANGED <<bought, sold>>

Sell(c) ==
  /\ status[c] # "none"
  /\ sold' = [sold EXCEPT ![c] = @ + 1]
  /\ UNCHANGED <<status, bought>>

RecordClose(c) ==
  /\ status[c] = "open"
  /\ sold[c] > 0
  /\ status' = [status EXCEPT ![c] = "closed"]
  /\ UNCHANGED <<bought, sold>>

Next == \E c \in Candidates : Buy(c) \/ RecordOpen(c) \/ Sell(c) \/ RecordClose(c)

Spec == Init /\ [][Next]_vars
===============================================================================
