----------------------------- MODULE LossyFifo -----------------------------
(***************************************************************************)
(* What a lane promises to the datagrams it carries, in either direction:  *)
(* it may lose them, but delivers the others once and in the order in      *)
(* which they were accepted.  Nothing else is promised of UDP traffic.     *)
(***************************************************************************)
EXTENDS Naturals, Sequences

CONSTANT Items   \* what the lane carries

VARIABLES
  q,    \* accepted, and neither delivered nor lost
  out   \* delivered

vars == <<q, out>>

Init == q = <<>> /\ out = <<>>

(* An item is accepted.                                                    *)
Accept ==
  /\ Len(q') = Len(q) + 1 /\ SubSeq(q', 1, Len(q)) = q /\ q'[Len(q')] \in Items
  /\ UNCHANGED out

(* The first m items leave; the first n of them are delivered, the rest    *)
(* are lost.                                                               *)
Deliver(n, m) ==
  /\ n <= m
  /\ out' = out \o SubSeq(q, 1, n) /\ q' = SubSeq(q, m + 1, Len(q))

(* The items from position i to j are lost.                                *)
Lose(i, j) ==
  /\ q' = SubSeq(q, 1, i - 1) \o SubSeq(q, j + 1, Len(q))
  /\ UNCHANGED out

Next ==
  \/ Accept
  \/ \E n, m \in 0 .. Len(q) : Deliver(n, m)
  \/ \E i, j \in 1 .. Len(q) : i <= j /\ Lose(i, j)

Spec == Init /\ [][Next]_vars
=============================================================================
