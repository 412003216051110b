---------------------------- MODULE MCTraceParser ----------------------------
(***************************************************************************)
(* Archives for TraceParser.  Each set varies one part of an archive and   *)
(* keeps the others as they are in an ordinary one; logs are in the order  *)
(* the boot script packs them.                                             *)
(***************************************************************************)
EXTENDS TraceParser

Log(name, body) == [name |-> name, body |-> body]

TaskRec(pid, cmd, cpu, io, swap) ==
  [pid |-> pid, ppid |-> pid - 1, cmd |-> cmd, cpu |-> cpu, io |-> io, swap |-> swap]

Timed(n, Lines(_)) == [i \in 1..n |-> [time |-> 100 * i, lines |-> Lines(i)]]

(* Counters of n + 1 samples of which the i-th interval was busy if in B. *)
Busy(B, i) == 100 * Cardinality({j \in B : j < i})
StatLog(n, B) ==
  [i \in 1..n + 1 |-> [time |-> 100 * (i - 1), busy |-> Busy(B, i),
                       rest |-> 100 * (i - 1) - Busy(B, i)]]
DiskLog(n, B) ==
  [i \in 1..n + 1 |->
     [time  |-> 100 * (i - 1),
      lines |-> <<[whole |-> TRUE, use |-> 10 * Busy(B, i)],
                  [whole |-> TRUE, use |-> 5 * Busy(B, i)],
                  [whole |-> FALSE, use |-> 50 * i]>>]]

Loaded(rest, n, B, D) ==
  <<Log("header", 1), Log("proc_diskstats.log", DiskLog(n, D)),
    Log("proc_stat.log", StatLog(n, B))>> \o rest
Plain(rest) == Loaded(rest, 1, {}, {})

(* Two processes that come and go, change their names and total times. *)
Optional(pid, cmds, totals) ==
  {<<>>} \cup {<<TaskRec(pid, c, t[1], t[2], t[3])>> : c \in cmds, t \in totals}
TaskBodies ==
  {Timed(3, LAMBDA i : a[i] \o b[i]) :
     a \in [1..3 -> Optional(1, {"a", "b"}, {<<1, 0, 0>>, <<0, 1, 1>>})],
     b \in [1..3 -> Optional(2, {"a"}, {<<1, 1, 0>>}) \cup Optional(2, {"b"}, {<<2, 1, 1>>})]}
TaskArchives == {Plain(<<Log("taskstats.log", b)>>) : b \in TaskBodies}

(* Processes of which some left no entry, and what is known of parents. *)
Family(P) ==
  Timed(2, LAMBDA i : SelectSeq([p \in 1..4 |-> TaskRec(p, "a", i, 0, 0)],
                               LAMBDA l : l.pid \in P))
Paternity == [2..4 -> 0..4]
FamilyArchives ==
  {Plain(<<Log("paternity.log", [c \in 1..3 |-> [child |-> c + 1, parent |-> m[1][c + 1]]]),
           Log("taskstats.log", Family(m[2])),
           Log("cmdline2.log", <<[pid |-> 2, exe |-> "b"]>>)>>) :
     m \in Paternity \X SUBSET (2..4)}

(* When the processors and the disk were busy. *)
StartsOf(cmd) == Timed(6, LAMBDA i : <<TaskRec(2, cmd, 10 * i, 0, 0)>>
                                     \o (IF i >= 5 THEN <<TaskRec(3, "c", 10 * i, 0, 0)>>
                                         ELSE <<>>))
Starts == StartsOf("a")
LoadArchives ==
  {Loaded(<<Log("taskstats.log", Starts)>>, 6, B, D) :
     B \in SUBSET (1..6), D \in SUBSET (1..6)}
  \cup {Loaded(<<Log("taskstats.log", StartsOf("b"))>>, 6, B, {}) : B \in SUBSET (1..6)}

(* The older process log, alone or after the newer, and short ones. *)
PsRec(pid, cmd, state, ticks) ==
  [pid |-> pid, ppid |-> 1, cmd |-> cmd, state |-> state, ticks |-> ticks,
   stime |-> 50]
PsBodies ==
  {Timed(n, LAMBDA i : <<PsRec(1, "init", "S", i)>> \o b[i]) :
     n \in 0..3,
     b \in [1..3 -> {<<>>} \cup {<<PsRec(2, c, "R", t)>> : c \in {"a", "b"}, t \in {20, 150}}]}
PsArchives == {Plain(<<Log("proc_ps.log", b)>>) : b \in PsBodies}
              \cup {Plain(<<Log("taskstats.log", Starts), Log("proc_ps.log", b)>>) :
                      b \in {b \in PsBodies : Len(b) < 2}}

(* What the kernel logged, its clock perhaps set in between. *)
DmesgLines(ts, ks) ==
  [i \in 1..4 |-> [time |-> ts[i],
                   kind |-> IF ks[i] \in {"f", "g"} THEN "calling"
                            ELSE IF ks[i] = "freeing" THEN "freeing" ELSE "initcall",
                   func |-> IF ks[i] = "g" THEN "g" ELSE "f"]]
Ascending == {ts \in [1..4 -> {0, 90, 120, 5000}] : \A i \in 1..3 : ts[i] <= ts[i + 1]}
KernelArchives ==
  {<<Log("dmesg", DmesgLines(ts, ks))>> \o Plain(<<>>) :
     ts \in Ascending, ks \in [1..4 -> {"f", "f done", "freeing"}]}
  \cup {<<Log("dmesg", DmesgLines(ts, <<"f", "g", "f done", "freeing">>)),
          Log("proc_meminfo.log", <<[time |-> 100, keys |-> UsedValues],
                                    [time |-> 200, keys |-> {"MemFree"}]>>)>>
        \o Loaded(<<Log("taskstats.log", Starts)>>, 6, {1, 2}, {}) : ts \in Ascending}

MCArchives == TaskArchives \cup FamilyArchives \cup LoadArchives
              \cup PsArchives \cup KernelArchives
OneArchive == {Plain(<<Log("taskstats.log", Starts)>>)}

MCCropAfter == {"a"}
NoNames == {}
NoLists == <<>>
OneList == <<{"c"}>>
==============================================================================
