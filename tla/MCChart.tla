------------------------------- MODULE MCChart -------------------------------
(***************************************************************************)
(* Forests of four processes for Chart.  Each set varies what one of the   *)
(* methods looks at.                                                       *)
(***************************************************************************)
EXTENDS Chart

Life(kind) ==
  CASE kind = "full"  -> [start |-> 0, dur |-> 20, last |-> 19, active |-> TRUE]
    [] kind = "mid"   -> [start |-> 4, dur |-> 10, last |-> 12, active |-> TRUE]
    [] kind = "idle"  -> [start |-> 1, dur |-> 19, last |-> 20, active |-> FALSE]
    [] kind = "short" -> [start |-> 6, dur |-> 4, last |-> 8, active |-> FALSE]

(* A process with a sample at its start and one at the end of its life.  The *)
(* trace is cropped at 20: the last sample of a process that was alive then *)
(* reaches past its bar, or begins at the end of it.                        *)
Proc(p, cmd, parent, kind) ==
  LET l == Life(kind)
  IN  [cmd |-> cmd, ppid |-> parent, parent |-> parent, start |-> l.start,
       dur |-> l.dur, active |-> l.active,
       samples |-> <<[time |-> l.start, of |-> p],
                     [time |-> l.last, of |-> p]>>]

Forest(cmds, parents, kinds, logged) ==
  [proc |-> [p \in P |-> Proc(p, cmds[p], parents[p], kinds[p])],
   accurate |-> logged]

(* Forests in which parents come before their children, and some others. *)
Ascending == {f \in [P -> 0..N] : \A p \in P : f[p] < p}
Turned == {<<2, 0, 2, 3>>, <<4, 1, 1, 0>>, <<3, 3, 4, 0>>, <<2, 4, 2, 0>>}
Shapes == Ascending \cup Turned

AllFull == [p \in P |-> "full"]
Lives == [P -> {"full", "idle", "short"}]

PruneForests ==
  {Forest(<<"a", "b", "a", "b">>, f, k, TRUE) : f \in Shapes, k \in Lives}
MergeForests ==
  {Forest(c, f, k, TRUE) :
     c \in [P -> {"a", "b"}], f \in Shapes,
     k \in {<<"mid", "full", "idle", "mid">>, <<"full", "mid", "short", "mid">>}}
LoggerForests ==
  {Forest(c, f, <<"full", "mid", "full", "mid">>, TRUE) :
     c \in {c \in [P -> {"a", LoggerProc, "app"}] : LoggerProc \in {c[1], c[2]}},
     f \in Ascending}
DaemonForests ==
  {Forest(<<"init">> \o c, f, AllFull, FALSE) :
     c \in [1..3 -> {"a", "rc"}], f \in Ascending}

MCForests == PruneForests \cup MergeForests \cup LoggerForests \cup DaemonForests

(* The second process is a thread of the first. *)
TwinForests == {Forest(<<"a", "a", "b", "b">>, f, AllFull, TRUE) : f \in Ascending}

MCClips == {[top |-> 0, bottom |-> 100, left |-> 0, right |-> 20],
            [top |-> 40, bottom |-> 56, left |-> 3, right |-> 17]}
==============================================================================
