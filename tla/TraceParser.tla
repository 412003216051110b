----------------------------- MODULE TraceParser -----------------------------
(***************************************************************************)
(* From the logs of a boot to a Trace (pybootchartgui/parsing.py): the     *)
(* logs are parsed one after the other, processes are given their command  *)
(* lines, parents and statistics, and the trace is cropped at the first    *)
(* idle moment after a named process.                                      *)
(*                                                                         *)
(* An archive is the sequence of its logs, each a name and a body.  Bodies *)
(* are what the lines say, not their characters: the timed logs are        *)
(* sequences of blocks of a time and lines.                                *)
(***************************************************************************)
EXTENDS Samples, TLC

CONSTANTS
  Archives,    \* the archives a run considers
  CropAfter,   \* --crop-after: a set of names, {} if not given
  Annotations  \* --annotate: a sequence of sets of names

ProcessLogs == {"taskstats.log", "proc_ps.log"}

Ordered(body) == \A i, k \in 1..Len(body) : i <= k => body[i].time <= body[k].time

(* Lines of taskstats.log and of proc_ps.log.  No task has the pid 0, which *)
(* is that of nobody's child.                                               *)
Word == STRING
TaskRecord == [pid : Nat \ {0}, ppid : Nat, cmd : Word, cpu : Nat, io : Nat, swap : Nat]
PsRecord == [pid : Nat \ {0}, ppid : Nat, cmd : Word, state : Word, ticks : Nat,
             stime : Nat]

(* What a log says.  Blocks and the kernel's lines are written as they      *)
(* happen.                                                                  *)
Written(log) ==
  /\ log.name = "header" => log.body \in Nat
  /\ log.name = "proc_diskstats.log" =>
       log.body \in Seq([time : Nat, lines : Seq([whole : BOOLEAN, use : Nat])])
  /\ log.name = "proc_stat.log" =>
       log.body \in Seq([time : Nat, busy : Nat, rest : Nat])
  /\ log.name = "proc_meminfo.log" =>
       log.body \in Seq([time : Nat, keys : SUBSET Word])
  /\ log.name = "dmesg" =>
       log.body \in Seq([time : Nat, kind : Word, func : Word])
  /\ log.name = "paternity.log" =>
       log.body \in Seq([child : Nat \ {0}, parent : Nat])
  /\ log.name = "cmdline2.log" => log.body \in Seq([pid : Nat, exe : Word])
  /\ log.name = "taskstats.log" =>
       log.body \in Seq([time : Nat, lines : Seq(TaskRecord)])
  /\ log.name = "proc_ps.log" =>
       log.body \in Seq([time : Nat, lines : Seq(PsRecord)])
  /\ log.name \in ProcessLogs \cup {"proc_diskstats.log", "proc_stat.log", "dmesg"} =>
       Ordered(log.body)

ASSUME ArchivesAssumption ==
  \A a \in Archives : Len(a) \in Nat /\ \A f \in 1..Len(a) : Written(a[f])

VARIABLES
  pc,          \* what the constructor of Trace is doing
  archive,     \* the logs
  file,        \* the position of the log being parsed
  block,       \* the next timed block of a process log
  rewrites,    \* pidRewrites: the key now used for a process id
  trace,       \* the fields of Trace other than the process map; has: those
               \* that are not None
  procs,       \* ps_stats.process_map
  climb,       \* processes still to be re-parented, and the pid the search
               \* for the parent of the first of them has come to
  idle,        \* what crop returned
  times        \* the times to annotate

vars == <<pc, archive, file, block, rewrites, trace, procs, climb, idle, times>>

NoTime == -1

(* A map with one entry set. *)
Put(f, x, y) == [z \in {x} \cup DOMAIN f |-> IF z = x THEN y ELSE f[z]]

Name == archive[file].name
Body == archive[file].body

(* ------------------------------------------------------------------------ *)
(* Parsing one log                                                          *)

(* Mutant: the line of a renamed process is looked up by its real pid. *)
TaskLineUnmapped(s, time, l) ==
  LET key     == Key(l.pid)
      known   == key \in DOMAIN s.procs
      process == IF known THEN s.procs[key]
                 ELSE NewProcess(key, l.cmd, Key(l.ppid), time)
      cpu     == l.cpu - process.lastCpu
      io      == l.io - process.lastIo
      swap    == l.swap - process.lastSwap
      charged == [process EXCEPT
                    !.samples = IF cpu + io + swap > 0
                                  THEN Append(@, Sample(time, "R", cpu, io, swap))
                                  ELSE @,
                    !.lastCpu = l.cpu,
                    !.lastIo  = l.io,
                    !.lastSwap = l.swap]
  IN  [s EXCEPT !.procs = Put(@, key, charged)]

(* A line of taskstats.log.  A process that has changed its name goes on as *)
(* a new one under the next key, with the totals of the old one.            *)
TaskLine(s, time, l) ==
  LET opid    == Key(l.pid)
      pid     == IF opid \in DOMAIN s.rewrites THEN s.rewrites[opid] ELSE opid
      known   == pid \in DOMAIN s.procs
      renamed == known /\ s.procs[pid].cmd # l.cmd
      key     == IF renamed THEN pid + 1 ELSE pid
      process == IF renamed THEN Split(s.procs[pid], key, l.cmd, Key(l.ppid), time)
                 ELSE IF known THEN s.procs[pid]
                 ELSE NewProcess(pid, l.cmd, Key(l.ppid), time)
      cpu     == l.cpu - process.lastCpu
      io      == l.io - process.lastIo
      swap    == l.swap - process.lastSwap
      state   == IF cpu > 0 THEN "R" ELSE IF io + swap > 0 THEN "D" ELSE "S"
      charged == [process EXCEPT
                    !.samples = IF cpu + io + swap > 0
                                  THEN Append(@, Sample(time, state, cpu, io, swap))
                                  ELSE @,
                    !.lastCpu = l.cpu,
                    !.lastIo  = l.io,
                    !.lastSwap = l.swap]
  IN  [procs    |-> Put(s.procs, key, charged),
       rewrites |-> IF renamed THEN Put(s.rewrites, opid, key) ELSE s.rewrites]

(* A line of proc_ps.log; ltime is the time of the block before.  The first *)
(* line of a process gives no sample, and its name is that of its last.     *)
PsLine(s, time, ltime, l) ==
  LET key     == Key(l.pid)
      process == IF key \in DOMAIN s.procs
                   THEN [s.procs[key] EXCEPT !.cmd = l.cmd]
                   ELSE NewProcess(key, l.cmd, Key(l.ppid), Min({time, l.stime}))
      load    == CalcLoad(process, l.ticks, Max({1, time - ltime}))
      charged == [process EXCEPT
                    !.samples   = IF process.lastTicks = NoTicks THEN @
                                  ELSE Append(@, Sample(time, l.state, load, 0, 0)),
                    !.lastTicks = l.ticks]
  IN  [s EXCEPT !.procs = Put(@, key, charged)]

(* proc_stat.log: the share of each interval in which some processor was    *)
(* busy or waited for a disk.                                               *)
CpuLoads(body) ==
  [i \in 1..Len(body) - 1 |->
     LET busy == body[i + 1].busy - body[i].busy
         rest == body[i + 1].rest - body[i].rest
     IN  [time |-> body[i + 1].time,
          load |-> (100 * busy) \div Max({busy + rest, 1})]]

(* a[j] + ... + a[k]                                                        *)
Total(a, j, k) ==
  LET sum[n \in 0..k] == IF n < j THEN 0 ELSE sum[n - 1] + a[n]
  IN  sum[k]

(* Partitions are not counted, only whole disks. *)
DiskUse(b) == Total([i \in 1..Len(b.lines) |->
                       IF b.lines[i].whole THEN b.lines[i].use ELSE 0],
                    1, Len(b.lines))

(* Mutant: the utilisation is not clipped. *)
DiskUtilRaw(body, cpus) ==
  [i \in 1..Len(body) - 1 |->
     LET dt  == body[i + 1].time - body[i].time
         use == DiskUse(body[i + 1]) - DiskUse(body[i])
     IN  [time |-> body[i + 1].time,
          load |-> (10 * use) \div (Max({dt, 1}) * cpus)]]

(* proc_diskstats.log: use is in milliseconds.  Two blocks of the same time *)
(* are taken to be one unit apart, in the wrong direction.                  *)
DiskUtil(body, cpus) ==
  [i \in 1..Len(body) - 1 |->
     LET dt   == body[i + 1].time - body[i].time
         use  == DiskUse(body[i + 1]) - DiskUse(body[i])
         util == IF dt = 0 THEN -(10 * use) \div cpus
                 ELSE (10 * use) \div (dt * cpus)
     IN  [time |-> body[i + 1].time, load |-> Max({0, Min({100, util})})]]

(* paternity.log and cmdline2.log: the last line of a pid counts. *)
Parents(body) ==
  LET lines(p) == {i \in 1..Len(body) : body[i].child = p}
  IN  [p \in {0} \cup {l.child : l \in ToSet(body)} |->
         IF lines(p) = {} THEN 0 ELSE body[Max(lines(p))].parent]
Cmdlines(body) ==
  LET lines(p) == {i \in 1..Len(body) : body[i].pid = p}
  IN  [p \in {l.pid : l \in ToSet(body)} |-> body[Max(lines(p))].exe]

(* Mutant: a time stamp far from the one before may become the base at any *)
(* line.                                                                    *)
DmesgLineRebased(s, l) ==
  IF s.base = 0 /\ l.time > 100
    THEN [s EXCEPT !.base = l.time]
    ELSE LET time == l.time - s.base
         IN  CASE l.kind = "calling" ->
                    [s EXCEPT !.max = Max({l.time, @}),
                              !.procs = Put(@, l.func, [start |-> time, duration |-> 0])]
               [] l.kind = "initcall" /\ l.func \in DOMAIN s.procs ->
                    [s EXCEPT !.max = Max({l.time, @}),
                              !.procs[l.func].duration =
                                time - s.procs[l.func].start]
               [] OTHER -> [s EXCEPT !.max = Max({l.time, @})]

(* A line of dmesg, its time in the units of the chart.  When the first     *)
(* time above zero is more than a second, the clock had been set: times     *)
(* count from that line, which is skipped.                                  *)
DmesgLine(s, l) ==
  IF s.max = 0 /\ s.base = 0 /\ l.time > 100
    THEN [s EXCEPT !.base = l.time]
    ELSE LET time == l.time - s.base
             seen == [s EXCEPT !.max = Max({l.time, @})]
         IN  CASE l.kind = "freeing" -> [seen EXCEPT !.boot = time]
               [] l.kind = "calling" ->
                    [seen EXCEPT !.procs = Put(@, l.func, [start |-> time, duration |-> 0])]
               [] l.kind = "initcall" /\ l.func \in DOMAIN s.procs ->
                    [seen EXCEPT !.procs[l.func].duration =
                       time - s.procs[l.func].start]
               [] OTHER -> seen

Dmesg(body) ==
  LET read[n \in 0..Len(body)] ==
        IF n = 0 THEN [max |-> 0, base |-> 0, boot |-> 0, procs |-> <<>>]
        ELSE DmesgLine(read[n - 1], body[n])
  IN  read[Len(body)]

(* ------------------------------------------------------------------------ *)
(* Parsing the archive                                                      *)

Reading(name) == pc = "parse" /\ file <= Len(archive) /\ Name = name

(* The log has been parsed: its field is set, or reset to None. *)
Parsed(t, field, ok) ==
  /\ trace' = [t EXCEPT !.has = IF ok THEN @ \cup {field} ELSE @ \ {field}]
  /\ file' = file + 1
  /\ UNCHANGED <<pc, archive, climb, idle, times>>

UntouchedProcs == UNCHANGED <<block, rewrites, procs>>

ReadHeader ==
  /\ Reading("header")
  /\ Parsed([trace EXCEPT !.cpus = Max({Body, 1})], "headers", TRUE)
  /\ UntouchedProcs

ReadDiskStats ==
  /\ Reading("proc_diskstats.log")
  /\ Parsed([trace EXCEPT !.disk = DiskUtil(Body, trace.cpus)], "disk", TRUE)
  /\ UntouchedProcs

ReadStat ==
  /\ Reading("proc_stat.log")
  /\ Parsed([trace EXCEPT !.cpu = CpuLoads(Body)], "cpu", TRUE)
  /\ UntouchedProcs

ReadMeminfo ==
  /\ Reading("proc_meminfo.log")
  /\ Parsed([trace EXCEPT !.mem = SelectSeq(Body, MemValid)], "mem", TRUE)
  /\ UntouchedProcs

ReadDmesg ==
  /\ Reading("dmesg")
  /\ Parsed([trace EXCEPT !.kernel = Dmesg(Body)], "kernel", TRUE)
  /\ UntouchedProcs

ReadPaternity ==
  /\ Reading("paternity.log")
  /\ Parsed([trace EXCEPT !.parents = Parents(Body)], "parents", TRUE)
  /\ UntouchedProcs

ReadCmdlines ==
  /\ Reading("cmdline2.log")
  /\ Parsed([trace EXCEPT !.cmdlines = Cmdlines(Body)], "cmdlines", TRUE)
  /\ UntouchedProcs

(* The lines of a block, from what has been read before it. *)
ReadLines(name, b, ltime, before) ==
  LET read[n \in 0..Len(b.lines)] ==
        IF n = 0 THEN before
        ELSE IF name = "taskstats.log" THEN TaskLine(read[n - 1], b.time, b.lines[n])
        ELSE PsLine(read[n - 1], b.time, ltime, b.lines[n])
  IN  read[Len(b.lines)]

(* A timed block of a process log.  The first one of taskstats.log also     *)
(* prepares an entry for init, which has pid 1 and the key of pid 1.        *)
ReadBlock ==
  /\ \E name \in ProcessLogs : Reading(name)
  /\ block <= Len(Body)
  /\ LET b     == Body[block]
         ltime == IF block = 1 THEN 0 ELSE Body[block - 1].time
         init  == IF Name = "taskstats.log"
                    THEN Put(<<>>, Key(1), NewProcess(1, "[init]", 0, 0)) ELSE <<>>
         read  == ReadLines(Name, b, ltime,
                            [procs    |-> IF block = 1 THEN init ELSE procs,
                             rewrites |-> IF block = 1 THEN <<>> ELSE rewrites])
     IN  /\ procs' = read.procs
         /\ rewrites' = read.rewrites
  /\ block' = block + 1
  /\ UNCHANGED <<pc, archive, file, trace, climb, idle, times>>

(* The end of a process log: statistics if it had two blocks. *)
EndProcessLog ==
  /\ \E name \in ProcessLogs : Reading(name)
  /\ block > Len(Body)
  /\ LET n  == Len(Body)
         ok == n >= 2
     IN  /\ Parsed([trace EXCEPT
                      !.period = IF ok THEN (Body[n].time - Body[1].time) \div (n - 1)
                                 ELSE @,
                      !.taskstats = @ \/ Name = "taskstats.log"],
                   "ps", ok)
         /\ procs' = IF ok THEN procs ELSE <<>>
  /\ block' = 1
  /\ rewrites' = <<>>

Required == {"headers", "disk", "ps", "cpu"}

(* All logs read: the trace is valid, or the parse fails. *)
Validate ==
  /\ pc = "parse"
  /\ file > Len(archive)
  /\ pc' = IF Required \subseteq trace.has THEN "cmdlines" ELSE "failed"
  /\ UNCHANGED <<archive, file, block, rewrites, trace, procs, climb, idle, times>>

(* ------------------------------------------------------------------------ *)
(* compile                                                                  *)

MergeCmdlines ==
  /\ pc = "cmdlines"
  /\ procs' = [k \in DOMAIN procs |->
                 IF "cmdlines" \in trace.has
                    /\ RealPid(procs[k].pid) \in DOMAIN trace.cmdlines
                   THEN [procs[k] EXCEPT !.exe = trace.cmdlines[RealPid(procs[k].pid)]]
                   ELSE procs[k]]
  /\ climb' = IF "parents" \in trace.has
                THEN [todo |-> DOMAIN procs,
                      pid  |-> RealPid(procs[Min(DOMAIN procs)].pid)]
                ELSE [todo |-> {}, pid |-> 0]
  /\ pc' = "reparent"
  /\ UNCHANGED <<archive, file, block, rewrites, trace, idle, times>>

(* Mutant: the parent need not have an entry. *)
ClimbOnce ==
  /\ pc = "reparent"
  /\ climb.todo # {}
  /\ LET k    == Min(climb.todo)
         rest == climb.todo \ {k}
         ppid == IF climb.pid \in DOMAIN trace.parents
                   THEN trace.parents[climb.pid] ELSE 0
     IN  /\ procs' = IF ppid = 0 THEN procs
                     ELSE [procs EXCEPT ![k].ppid = Key(ppid)]
         /\ climb' = [todo |-> rest,
                      pid  |-> IF rest = {} THEN 0
                               ELSE RealPid(procs[Min(rest)].pid)]
  /\ UNCHANGED <<pc, archive, file, block, rewrites, trace, idle, times>>

(* Mutant: the search starts over at the process for want of an entry. *)
ClimbInPlace ==
  /\ pc = "reparent"
  /\ climb.todo # {}
  /\ LET k    == Min(climb.todo)
         rest == climb.todo \ {k}
         ppid == IF climb.pid \in DOMAIN trace.parents
                   THEN trace.parents[climb.pid] ELSE 0
     IN  IF ppid # 0 /\ Key(ppid) \notin DOMAIN procs
           THEN UNCHANGED <<climb, procs>>
           ELSE /\ procs' = IF ppid = 0 THEN procs
                            ELSE [procs EXCEPT ![k].ppid = Key(ppid)]
                /\ climb' = [todo |-> rest,
                             pid  |-> IF rest = {} THEN 0
                                      ELSE RealPid(procs[Min(rest)].pid)]
  /\ UNCHANGED <<pc, archive, file, block, rewrites, trace, idle, times>>

(* A call of find_parent_id_for: the search ends at a pid without a parent, *)
(* and the process keeps the parent it has, or at a parent with an entry.   *)
Climb ==
  /\ pc = "reparent"
  /\ climb.todo # {}
  /\ LET k    == Min(climb.todo)
         rest == climb.todo \ {k}
         ppid == IF climb.pid \in DOMAIN trace.parents
                   THEN trace.parents[climb.pid] ELSE 0
     IN  IF ppid # 0 /\ Key(ppid) \notin DOMAIN procs
           THEN climb' = [climb EXCEPT !.pid = ppid] /\ UNCHANGED procs
           ELSE /\ procs' = IF ppid = 0 THEN procs
                            ELSE [procs EXCEPT ![k].ppid = Key(ppid)]
                /\ climb' = [todo |-> rest,
                             pid  |-> IF rest = {} THEN 0
                                      ELSE RealPid(procs[Min(rest)].pid)]
  /\ UNCHANGED <<pc, archive, file, block, rewrites, trace, idle, times>>

(* Pointers to the parents, and the statistics of each process. *)
Stitch ==
  /\ pc = "reparent"
  /\ climb.todo = {}
  /\ procs' = [k \in DOMAIN procs |->
                 CalcStats(SetParent(procs[k], procs), trace.period)]
  /\ pc' = "crop"
  /\ UNCHANGED <<archive, file, block, rewrites, trace, climb, idle, times>>

(* ------------------------------------------------------------------------ *)
(* crop and annotate                                                        *)

Window == 300   \* three seconds of idleness

(* From sample j on the load stays below a quarter, on average, up to the   *)
(* first sample after the window or the last one there is.                  *)
IsIdleAt(util, start, j) ==
  LET after == {i \in j + 1..Len(util) : util[i].time >= start + Window}
      k     == Min(after \cup {Len(util)})
      total == Total([i \in 1..Len(util) |-> util[i].load], j, k)
  IN  util[j].load < 25 /\ total < 25 * (k - j + 1)

IsIdle(util, start) ==
  LET later == {i \in 1..Len(util) : util[i].time >= start}
  IN  later # {} /\ IsIdleAt(util, start, Min(later))

IdleTimes(start) ==
  {trace.cpu[i].time : i \in
     {i \in 1..Len(trace.cpu) : /\ trace.cpu[i].time >= start
                                /\ IsIdleAt(trace.cpu, trace.cpu[i].time, i)
                                /\ IsIdle(trace.disk, trace.cpu[i].time)}}

Named(names) == {k \in DOMAIN procs : {procs[k].cmd, procs[k].exe} \cap names # {}}

(* Mutant: samples are popped before the crop time only. *)
PopOne(s, t) == IF s # <<>> /\ Last(s).time > t THEN Front(s) ELSE s

PopAfter(s, t) ==
  SubSeq(s, 1, Max({0} \cup {i \in 1..Len(s) : s[i].time <= t}))

Cropped(p, t) == [p EXCEPT !.duration = Min({@, t - p.start}),
                           !.samples  = PopAfter(@, t)]

(* Without a process of the given names the loop leaves the last process of *)
(* the map selected, and the map is in no order.                            *)
Chosen == IF Named(CropAfter) = {} THEN DOMAIN procs ELSE Named(CropAfter)

Crop ==
  /\ pc = "crop"
  /\ pc' = "annotate"
  /\ \E k \in Chosen :
       LET found == IdleTimes(procs[k].start)
       IN  IF CropAfter = {} \/ found = {}
             THEN UNCHANGED <<trace, procs, idle>>
             ELSE LET at == Min(found) + Window
                  IN  /\ idle' = Min(found)
                      /\ trace' = [trace EXCEPT !.cpu  = PopAfter(@, at),
                                                !.disk = PopAfter(@, at)]
                      /\ procs' = [q \in {q \in DOMAIN procs : procs[q].start <= at}
                                     |-> Cropped(procs[q], at)]
  /\ UNCHANGED <<archive, file, block, rewrites, climb, times>>

(* One list of names: a None for every process looked at before the first   *)
(* that has one of them, then the start of that process.                    *)
Annotated(order, names) ==
  LET hits == {i \in 1..Len(order) : procs[order[i]].cmd \in names}
      nones(n) == [i \in 1..n |-> NoTime]
  IN  IF hits = {} THEN nones(Len(order))
      ELSE Append(nones(Min(hits) - 1), procs[order[Min(hits)]].start)

Annotate ==
  /\ pc = "annotate"
  /\ pc' = "done"
  /\ \E order \in IF Annotations = <<>> THEN {<<>>} ELSE SetToSeqs(DOMAIN procs) :
       times' = FoldLeft(LAMBDA ts, names : ts \o Annotated(order, names),
                         <<idle>>, Annotations)
  /\ UNCHANGED <<archive, file, block, rewrites, trace, procs, climb, idle>>

Init ==
  /\ pc = "parse"
  /\ archive \in Archives
  /\ file = 1
  /\ block = 1
  /\ rewrites = <<>>
  /\ trace = [has |-> {}, cpus |-> 1, disk |-> <<>>, cpu |-> <<>>, mem |-> <<>>,
              kernel |-> Dmesg(<<>>), parents |-> <<>>, cmdlines |-> <<>>,
              period |-> 0, taskstats |-> FALSE]
  /\ procs = <<>>
  /\ climb = [todo |-> {}, pid |-> 0]
  /\ idle = NoTime
  /\ times = <<>>

Next ==
  \/ ReadHeader \/ ReadDiskStats \/ ReadStat \/ ReadMeminfo \/ ReadDmesg
  \/ ReadPaternity \/ ReadCmdlines \/ ReadBlock \/ EndProcessLog \/ Validate
  \/ MergeCmdlines \/ Climb \/ Stitch \/ Crop \/ Annotate

Spec == Init /\ [][Next]_vars

(* The search for parents is not left standing. *)
FairSpec == Spec /\ WF_vars(Climb)

(* ------------------------------------------------------------------------ *)
(* Properties                                                               *)

SampleOK(s) ==
  /\ s.time \in Nat
  /\ {s.cpu, s.io, s.swap} \subseteq Int

(* Every entry's own key is the pid it says (init's apart), its samples are *)
(* samples, loads of disks are percentages, and the search for a parent has *)
(* only processes of the map before it (parsing.py, 337-487 and 120-125).   *)
TypeOK ==
  /\ pc \in {"parse", "failed", "cmdlines", "reparent", "crop", "annotate", "done"}
  /\ file \in 1..Len(archive) + 1
  /\ \A k \in DOMAIN procs : /\ procs[k].pid \in {k, 1}
                             /\ \A i \in 1..Len(procs[k].samples) :
                                  SampleOK(procs[k].samples[i])
  /\ \A i \in 1..Len(trace.disk) : trace.disk[i].load \in 0..100
  /\ climb.todo \subseteq DOMAIN procs
  /\ idle \in Nat \cup {NoTime}

(* The task statistics of a pid in the blocks read so far, if the archive   *)
(* has no other process log.                                                *)
TaskLogs == {f \in 1..Len(archive) : archive[f].name \in ProcessLogs}
OnlyTaskstats == /\ Cardinality(TaskLogs) = 1
                 /\ archive[Min(TaskLogs)].name = "taskstats.log"
BlocksRead ==
  LET f == Min(TaskLogs)
  IN  IF file < f THEN 0 ELSE IF file = f THEN block - 1 ELSE Len(archive[f].body)
Reported(pid) ==
  LET body    == archive[Min(TaskLogs)].body
      hits(b) == {i \in 1..Len(b.lines) : b.lines[i].pid = pid}
      seen    == SelectSeq(SubSeq(body, 1, BlocksRead), LAMBDA b : hits(b) # {})
  IN  [i \in 1..Len(seen) |-> [time |-> seen[i].time,
                               line |-> seen[i].lines[Min(hits(seen[i]))]]]
Pids == UNION {{b.lines[i].pid : i \in 1..Len(b.lines)} :
                 b \in ToSet(archive[Min(TaskLogs)].body)}

(* The names a pid has had, init's placeholder being one more. *)
Renames(r) == Quantify(2..Len(r), LAMBDA i : r[i].line.cmd # r[i - 1].line.cmd)
              + IF r # <<>> /\ r[1].line.pid = 1 THEN 1 ELSE 0
Grows(r) == \A i \in 2..Len(r) : /\ r[i].line.cpu >= r[i - 1].line.cpu
                                 /\ r[i].line.io >= r[i - 1].line.io
                                 /\ r[i].line.swap >= r[i - 1].line.swap
RoomForNames == \A pid \in Pids : Renames(Reported(pid)) < Spread

Sampling == OnlyTaskstats /\ pc \in {"parse", "cmdlines", "reparent"}

Time(s) == FoldLeft(LAMBDA sum, x : sum + Spent(x), 0, s)

(* All of the time the kernel accounted to a pid is in the samples of its   *)
(* entries, once, under however many names it ran, if its totals never fell *)
(* and no pid ran out of keys (parsing.py, 378-415; samples.py, 97-104).    *)
TimeAccounted ==
  Sampling /\ RoomForNames =>
    \A pid \in Pids :
      LET r == Reported(pid)
      IN  r # <<>> /\ Grows(r) =>
            MapThenSumSet(LAMBDA k : Time(procs[k].samples),
                          {k \in DOMAIN procs : RealPid(k) = pid})
              = Spent(r[Len(r)].line)

(* A sample of an entry was reported for that pid under that name, at that  *)
(* time, and is what the totals grew by since the report before, or all of  *)
(* them in the first (parsing.py, 372-408).                                 *)
SamplesBelong ==
  Sampling /\ RoomForNames =>
    \A k \in DOMAIN procs : \A s \in ToSet(procs[k].samples) :
      LET r == Reported(RealPid(k))
          before(i) == IF i = 1 THEN 0 ELSE Spent(r[i - 1].line)
      IN  \E i \in 1..Len(r) :
            /\ r[i].time = s.time
            /\ r[i].line.cmd = procs[k].cmd
            /\ Spent(r[i].line) - before(i) = Spent(s)

(* The n-th ancestor of a pid by the paternity log, 0 for none. *)
Ancestor(pid) ==
  LET up[n \in 0..Cardinality(DOMAIN trace.parents)] ==
        IF n = 0 THEN pid
        ELSE IF up[n - 1] \in DOMAIN trace.parents THEN trace.parents[up[n - 1]]
        ELSE 0
  IN  up

(* A process whose parent left no entry hangs below the nearest ancestor    *)
(* that did (parsing.py, 100-125).                                          *)
NearestAncestor ==
  pc = "crop" /\ "parents" \in trace.has =>
    \A k \in DOMAIN procs :
      LET up   == Ancestor(RealPid(procs[k].pid))
          hits == {n \in DOMAIN up \ {0} : Key(up[n]) \in DOMAIN procs}
      IN  hits # {} => procs[k].ppid = Key(up[Min(hits)])

(* Nothing reaches beyond the crop, and no earlier period in which every    *)
(* sample of a whole window was idle has been passed over, if there was a   *)
(* sample at least once in a window (parsing.py, 144-218: "the first idle   *)
(* period after the given process").  Where none has a given name it is the *)
(* first after some process.                                                *)
Quiet(util, t) ==
  LET seen == {i \in 1..Len(util) : util[i].time \in t..t + 2 * Window}
  IN  /\ \E i \in seen : util[i].time <= t + Window
      /\ \A i \in seen : util[i].load < 25
      /\ \A i \in 1..Len(util) - 1 : util[i + 1].time <= util[i].time + Window

CroppedAtFirstIdle ==
  pc = "done" /\ idle # NoTime =>
    /\ \A k \in DOMAIN procs :
         /\ EndTime(procs[k]) <= idle + Window
         /\ \A s \in ToSet(procs[k].samples) : s.time <= idle + Window
    /\ \A i \in 1..Len(trace.cpu) : trace.cpu[i].time <= idle + Window
    /\ \A i \in 1..Len(trace.disk) : trace.disk[i].time <= idle + Window
    /\ \E k \in Chosen : \A i \in 1..Len(trace.cpu) :
         procs[k].start <= trace.cpu[i].time /\ trace.cpu[i].time < idle
           => ~ (Quiet(trace.cpu, trace.cpu[i].time)
                 /\ Quiet(trace.disk, trace.cpu[i].time))

(* Kernel calls begin at or after the time the chart counts from and last a *)
(* time that is not negative, also when the clock was set while the kernel  *)
(* logged (parsing.py, 541-585).                                            *)
KernelForward ==
  \A f \in DOMAIN trace.kernel.procs : /\ trace.kernel.procs[f].start >= 0
                                       /\ trace.kernel.procs[f].duration >= 0

(* Each cycle of parents, which pids used again can make, has a process     *)
(* with an entry.                                                           *)
CyclesHaveEntries ==
  \A C \in SUBSET (DOMAIN trace.parents \ {0}) :
    C # {} /\ {trace.parents[c] : c \in C} = C => \E c \in C : Key(c) \in DOMAIN procs

(* Every process gets its parent in the end and none is climbed from for    *)
(* ever, however few of them left an entry, unless pids without one are     *)
(* each other's ancestors (parsing.py, 100-125).                            *)
ClimbEnds == climb.todo # {} /\ CyclesHaveEntries ~> climb.todo = {}

(* One annotation for each list of names given (parsing.py, 65-75; the      *)
(* option's help says a single annotation for a list).                      *)
SingleAnnotation == pc = "done" => Len(times) = 1 + Len(Annotations)
==============================================================================
