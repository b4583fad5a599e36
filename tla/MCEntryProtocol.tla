-------------------------- MODULE MCEntryProtocol --------------------------
(* Two rows today and one of an earlier day, of the same ticker as the first. *)
EXTENDS EntryProtocol, TLC

CONSTANTS c1, c2, e1, a1, q1, f1, T1, T2

MCToday      == {c1, c2}
MCEarlier    == {e1}
MCTickerOf   == c1 :> T1 @@ c2 :> T2 @@ e1 :> T1
MCBearishOf  == c1 :> {TRUE, FALSE} @@ c2 :> {TRUE}
MCOneDirection == c1 :> {FALSE} @@ c2 :> {TRUE}
MCActivities == {a1}
MCRequests   == {q1}
MCForcers    == {f1}
MCNone       == {}
============================================================================
