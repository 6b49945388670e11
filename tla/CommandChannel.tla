--------------------------- MODULE CommandChannel ---------------------------
(***************************************************************************)
(* What the outbound half of the library promises its caller: the calls    *)
(* are numbered in the order in which they were made, and the server sees  *)
(* a subsequence of them in that order.  A call may be lost, but nothing   *)
(* is repeated, reordered or made up.                                      *)
(***************************************************************************)
EXTENDS Naturals, Sequences

VARIABLES issued, delivered

Init == issued = 0 /\ delivered = <<>>

Issue == issued' = issued + 1 /\ UNCHANGED delivered

Deliver ==
  \E id \in 1..issued :
    /\ \A i \in DOMAIN delivered : delivered[i] < id
    /\ delivered' = Append(delivered, id)
    /\ UNCHANGED issued

Next == Issue \/ Deliver

Spec == Init /\ [][Next]_<<issued, delivered>>
=============================================================================
