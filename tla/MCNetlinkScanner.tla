--------------------------- MODULE MCNetlinkScanner ---------------------------
(***************************************************************************)
(* Instances of NetlinkScanner for TLC.                                    *)
(***************************************************************************)
EXTENDS NetlinkScanner

(* Init alone. *)
OnlyInit == [tgid |-> [t \in Tids |-> IF t = 1 THEN 1 ELSE 0], running |-> {1}]

(* Init and a process whose leader is a zombie with a thread still running. *)
ZombieLeader ==
  [tgid |-> [t \in Tids |-> CASE t = 1 -> 1 [] t \in {2, 3} -> 2 [] OTHER -> 0],
   running |-> {1, 3}]

(* Init and a process of four threads. *)
FourThreads ==
  [tgid |-> [t \in Tids |-> CASE t = 1 -> 1 [] t \in 2..5 -> 2 [] OTHER -> 0],
   running |-> 1..5]

JustInit == {OnlyInit}
InitOrZombie == {OnlyInit, ZombieLeader}
JustFourThreads == {FourThreads}
=============================================================================
