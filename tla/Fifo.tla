-------------------------------- MODULE Fifo --------------------------------
(***************************************************************************)
(* What a single-producer, single-consumer byte ring promises: a bounded   *)
(* first-in first-out queue.  Values leave in the order they came, each    *)
(* once, and an accepted value never changes.  Values offered while it is  *)
(* full are not accepted.                                                  *)
(***************************************************************************)
EXTENDS Naturals, Sequences

CONSTANTS Capacity, Values

VARIABLE q

Init == q = <<>>

Put == \E v \in Values : Len(q) < Capacity /\ q' = Append(q, v)

Get == q # <<>> /\ q' = Tail(q)

Spec == Init /\ [][Put \/ Get]_q
=============================================================================
