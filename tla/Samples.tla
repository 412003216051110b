------------------------------- MODULE Samples -------------------------------
(***************************************************************************)
(* Processes of a chart and their samples (pybootchartgui/samples.py).     *)
(*                                                                         *)
(* Times are in hundredths of a second, as in the logs.  A process has     *)
(* three times: cpu (user and system together), io (block I/O delays) and  *)
(* swap (swap-in delays).  A load is a percentage.                         *)
(***************************************************************************)
EXTENDS SequencesExt

CONSTANT Spread   \* keys per process id: 1000 in the code

ASSUME SpreadAssumption == Spread \in Nat \ {0}

NoTicks  == -1    \* last_user_cpu_time is None
NoParent == -1    \* parent is None

(* Process ids are multiplied to make room for the names a process takes. *)
Key(pid) == pid * Spread
RealPid(key) == key \div Spread

NewProcess(pid, cmd, ppid, start) ==
  [pid |-> pid, cmd |-> cmd, exe |-> cmd, ppid |-> ppid, start |-> start,
   duration |-> 0, samples |-> <<>>, parent |-> NoParent, active |-> FALSE,
   lastTicks |-> NoTicks, lastCpu |-> 0, lastIo |-> 0, lastSwap |-> 0]

(* Mutant: the totals start again from zero when a process is renamed. *)
SplitFromZero(p, pid, cmd, ppid, start) == NewProcess(pid, cmd, ppid, start)

Split(p, pid, cmd, ppid, start) ==
  [NewProcess(pid, cmd, ppid, start) EXCEPT !.lastCpu = p.lastCpu,
                                            !.lastIo  = p.lastIo,
                                            !.lastSwap = p.lastSwap]

Sample(time, state, cpu, io, swap) ==
  [time |-> time, state |-> state, cpu |-> cpu, io |-> io, swap |-> swap]

(* All of the time a sample accounts for, or a line of taskstats.log. *)
Spent(x) == x.cpu + x.io + x.swap

(* The share of an interval a process ran, normalised to at most all of it. *)
CalcLoad(p, ticks, interval) ==
  LET load == ticks - p.lastTicks
  IN  IF load > interval THEN 100 ELSE (100 * load) \div interval

EndTime(p) == p.start + p.duration

CalcStats(p, period) ==
  LET n     == Len(p.samples)
      first == Min({p.samples[1].time, p.start})
      busy  == Quantify(1..n, LAMBDA i : p.samples[i].cpu + p.samples[i].io > 0)
      wait  == Quantify(1..n, LAMBDA i : p.samples[i].state = "D")
  IN  [p EXCEPT !.start    = IF n = 0 THEN @ ELSE first,
                !.duration = IF n = 0 THEN @
                             ELSE p.samples[n].time - first + period,
                !.active   = busy + wait > 2]

SetParent(p, procs) ==
  [p EXCEPT !.parent = IF p.ppid \in DOMAIN procs THEN p.ppid ELSE NoParent]

(* A memory sample is kept if every value the chart needs is in it. *)
UsedValues ==
  {"MemTotal", "MemFree", "Buffers", "Cached", "SwapTotal", "SwapFree"}
MemValid(sample) == UsedValues \subseteq sample.keys
==============================================================================
