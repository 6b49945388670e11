------------------------------- MODULE EventFifo -------------------------------
(***************************************************************************)
(* What the inbound half of the library promises the application: every    *)
(* event that was accepted is handed over exactly once, in the order in    *)
(* which the events were accepted.                                         *)
(***************************************************************************)
EXTENDS Naturals, Sequences

VARIABLES accepted, taken

Init == accepted = 0 /\ taken = <<>>

Accept == accepted' = accepted + 1 /\ UNCHANGED taken

Take ==
  /\ Len(taken) < accepted
  /\ taken' = Append(taken, Len(taken) + 1)
  /\ UNCHANGED accepted

Next == Accept \/ Take

Spec == Init /\ [][Next]_<<accepted, taken>>
=============================================================================
