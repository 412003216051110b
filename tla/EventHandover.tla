---------------------------- MODULE EventHandover ----------------------------
(***************************************************************************)
(* What the two threads of the netlink scanner promise each other: events  *)
(* are replayed in the order in which they were received, each once, and   *)
(* each one received is replayed in the end.                               *)
(***************************************************************************)
EXTENDS Sequences, Naturals

CONSTANT Events

VARIABLES
  heard,     \* the events received, in order
  imported   \* the events replayed, in order

Init == heard = <<>> /\ imported = <<>>

Hear ==
  /\ \E e \in Events : heard' = Append(heard, e)
  /\ UNCHANGED imported

Import ==
  /\ Len(imported) < Len(heard)
  /\ imported' = Append(imported, heard[Len(imported) + 1])
  /\ UNCHANGED heard

Next == Hear \/ Import

Spec == Init /\ [][Next]_<<heard, imported>>

FairSpec == Spec /\ WF_<<heard, imported>>(Import)
=============================================================================
