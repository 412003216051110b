------------------------- MODULE TraceParserProofs -------------------------
(***************************************************************************)
(* The parser of pybootchartgui for any archives of well-formed logs, of   *)
(* any length: its entries, loads and statistics are what they should be,  *)
(* the kernel's calls do not run backwards, a process whose parent left no *)
(* entry hangs below the nearest ancestor that did, and the trace is cut   *)
(* off at the first idle time after the named process.                     *)
(*                                                                         *)
(* TypeInv is inductive.  It rests on the order of the samples of every    *)
(* entry, which are those of the blocks read, and on the fold over the     *)
(* lines of a block, of the kernel's log and of a window of loads.  These  *)
(* are recursive functions: lemmas define each by its equation and show    *)
(* that one exists (ReadFrom, SumFrom, KernelFrom, ClimbFrom).             *)
(*                                                                         *)
(* Search adds to it what the search for parents has found and ruled out,  *)
(* CropInv that the idle time is the first.                                *)
(***************************************************************************)
EXTENDS TraceParser, SequenceFacts, FiniteSetTheorems

(* ------------------------------------------------------------------------ *)
(* Entries, samples and the lines of the process logs                       *)

(* The samples and entries the parser makes, and the lines it makes them of.*)
Text == Word \cup {"[init]", "R", "S", "D"}
Samples == Seq([time : Nat, state : Text, cpu : Int, io : Int, swap : Int])
Process ==
  [pid : Nat, cmd : Text, exe : Text, ppid : Nat, start : Nat, duration : Int,
   samples : Samples, parent : Int, active : BOOLEAN, lastTicks : Int,
   lastCpu : Nat, lastIo : Nat, lastSwap : Nat]

(* An entry under its key, all of whose samples are in order and not later  *)
(* than now.                                                                *)
EntryAt(k, p, now) ==
  /\ p \in Process /\ p.pid \in {k, 1}
  /\ Ordered(p.samples) /\ \A i \in 1..Len(p.samples) : p.samples[i].time <= now
Entries(ps, now) ==
  DOMAIN ps \subseteq Nat \ {0} /\ \A k \in DOMAIN ps : EntryAt(k, ps[k], now)

(* What has been read of a process log.                                     *)
ReadSoFar(s, now) ==
  /\ s = [procs |-> s.procs, rewrites |-> s.rewrites]
  /\ Entries(s.procs, now)
  /\ \A o \in DOMAIN s.rewrites : s.rewrites[o] \in Nat \ {0}

(* Keys are numbers, and none is 0 but that of 0.                           *)
LEMMA KeyIs ==
  ASSUME NEW pid \in Nat
  PROVE  Key(pid) \in Nat /\ (pid # 0 => Key(pid) # 0) /\ Key(0) = 0
<1>1. Spread \in Nat /\ Spread >= 1
  BY SpreadAssumption
<1>2. Key(pid) \in Nat /\ Key(0) = 0
  BY <1>1 DEF Key
<1>3. ASSUME pid # 0 PROVE Key(pid) # 0
  <2>1. pid >= 1
    BY <1>3
  <2>2. pid * Spread >= 1
    BY <1>1, <2>1
  <2> QED BY <2>2 DEF Key
<1> QED BY <1>2, <1>3

(* An entry is put where it belongs, and the others stay.                   *)
LEMMA PutIs ==
  ASSUME NEW f, NEW x, NEW y
  PROVE  /\ \A z : z \in DOMAIN Put(f, x, y) <=> z = x \/ z \in DOMAIN f
         /\ \A z \in DOMAIN Put(f, x, y) : Put(f, x, y)[z] = IF z = x THEN y ELSE f[z]
BY DEF Put

(* Samples have times. *)
LEMMA SampleTimes ==
  ASSUME NEW s \in Samples
  PROVE  Len(s) \in Nat /\ \A i \in 1..Len(s) : s[i].time \in Nat
<1> DEFINE S == [time : Nat, state : Text, cpu : Int, io : Int, swap : Int]
<1>1. s \in Seq(S)
  BY DEF Samples
<1>2. \A x \in S : x.time \in Nat
  OBVIOUS
<1> HIDE DEF S
<1> QED BY <1>1, <1>2, Elements

(* Later samples may be added to an entry's. *)
LEMMA SampleAdded ==
  ASSUME NEW s \in Samples, Ordered(s), NEW time \in Nat,
         \A i \in 1..Len(s) : s[i].time <= time,
         NEW state \in Text, NEW cpu \in Int, NEW io \in Int, NEW swap \in Int
  PROVE  LET t == Append(s, Sample(time, state, cpu, io, swap))
         IN  t \in Samples /\ Ordered(t) /\ \A i \in 1..Len(t) : t[i].time <= time
<1> DEFINE e == Sample(time, state, cpu, io, swap)
           t == Append(s, e)
           S == [time : Nat, state : Text, cpu : Int, io : Int, swap : Int]
<1>1. e \in S /\ e.time = time
  BY DEF Sample
<1>2. s \in Seq(S) /\ Len(s) \in Nat /\ \A i \in 1..Len(s) : s[i] \in S /\ s[i].time \in Nat
  <2>1. s \in Seq(S)
    BY DEF Samples
  <2>2. Len(s) \in Nat /\ \A i \in 1..Len(s) : s[i] \in S
    BY <2>1, Elements
  <2>3. \A x \in S : x.time \in Nat
    OBVIOUS
  <2> HIDE DEF S
  <2> QED BY <2>1, <2>2, <2>3
<1> HIDE DEF e, S
<1>3. /\ t \in Seq(S) /\ Len(t) = Len(s) + 1 /\ t[Len(s) + 1] = e
      /\ \A i \in 1..Len(s) : t[i] = s[i]
  BY <1>1, <1>2, AppendProperties
<1> HIDE DEF t
<1>4. \A i \in 1..Len(t) : i \in 1..Len(s) \/ i = Len(s) + 1
  BY <1>2, <1>3
<1>5. \A i \in 1..Len(t) : t[i].time <= time
  BY <1>1, <1>2, <1>3, <1>4
<1>6. ASSUME NEW i \in 1..Len(t), NEW k \in 1..Len(t), i <= k
      PROVE  t[i].time <= t[k].time
  <2>1. CASE k = Len(s) + 1
    BY <2>1, <1>1, <1>3, <1>5
  <2>2. CASE k \in 1..Len(s)
    <3>1. i \in 1..Len(s)
      BY <2>2, <1>6, <1>2, <1>4
    <3>2. s[i].time <= s[k].time
      BY <3>1, <2>2, <1>6 DEF Ordered
    <3> QED BY <3>1, <3>2, <2>2, <1>3
  <2> QED BY <2>1, <2>2, <1>4
<1>7. Ordered(t)
  BY <1>6 DEF Ordered
<1>8. t \in Samples
  BY <1>3 DEF Samples, S
<1> QED BY <1>5, <1>7, <1>8 DEF t, e

(* A new entry is one. *)
LEMMA NewEntry ==
  ASSUME NEW pid \in Nat, NEW cmd \in Text, NEW ppid \in Nat, NEW start \in Nat, NEW now,
         NEW k, pid \in {k, 1}
  PROVE  EntryAt(k, NewProcess(pid, cmd, ppid, start), now)
<1>1. <<>> \in Samples /\ Len(<<>>) = 0
  BY DEF Samples
<1>2. Ordered(<<>>)
  BY <1>1 DEF Ordered
<1>3. NoParent \in Int /\ NoTicks \in Int
  BY DEF NoParent, NoTicks
<1>4. NewProcess(pid, cmd, ppid, start) \in Process
  BY <1>1, <1>3 DEF NewProcess, Process
<1>5. /\ NewProcess(pid, cmd, ppid, start).samples = <<>>
      /\ NewProcess(pid, cmd, ppid, start).pid = pid
  BY DEF NewProcess
<1> QED BY <1>1, <1>2, <1>4, <1>5 DEF EntryAt

(* So is the entry of a process that has changed its name. *)
LEMMA SplitEntry ==
  ASSUME NEW p \in Process, NEW pid \in Nat, NEW cmd \in Text, NEW ppid \in Nat,
         NEW start \in Nat, NEW now
  PROVE  EntryAt(pid, Split(p, pid, cmd, ppid, start), now)
<1> DEFINE n == NewProcess(pid, cmd, ppid, start)
           q == Split(p, pid, cmd, ppid, start)
<1>1. EntryAt(pid, n, now)
  <2>1. pid \in {pid, 1}
    OBVIOUS
  <2> QED BY <2>1, NewEntry
<1>2. n \in Process
  BY <1>1 DEF EntryAt
<1>3. q = [n EXCEPT !.lastCpu = p.lastCpu, !.lastIo = p.lastIo,
                      !.lastSwap = p.lastSwap]
  BY DEF Split
<1> HIDE DEF n, q
<1>4. q \in Process /\ q.pid = n.pid /\ q.samples = n.samples
  BY <1>2, <1>3 DEF Process
<1> QED BY <1>1, <1>4 DEF EntryAt, q

(* The entries of a map stay entries as time goes on.                       *)
LEMMA EntriesLater ==
  ASSUME NEW ps, NEW now \in Nat, NEW time \in Nat, now <= time, Entries(ps, now)
  PROVE  Entries(ps, time)
<1> SUFFICES ASSUME NEW k \in DOMAIN ps, NEW i \in 1..Len(ps[k].samples)
             PROVE  ps[k].samples[i].time <= time
  BY DEF Entries, EntryAt
<1>1. ps[k].samples[i].time <= now
  BY DEF Entries, EntryAt
<1>2. ps[k].samples \in Samples
  BY DEF Entries, EntryAt, Process
<1>3. ps[k].samples[i].time \in Nat
  BY <1>2, SampleTimes
<1> QED BY <1>1, <1>3

(* An entry put into a map of entries. *)
LEMMA EntryPut ==
  ASSUME NEW ps, NEW now, Entries(ps, now), NEW key \in Nat \ {0}, NEW p, EntryAt(key, p, now)
  PROVE  Entries(Put(ps, key, p), now)
<1> DEFINE new == Put(ps, key, p)
<1>1. /\ \A k : k \in DOMAIN new <=> k = key \/ k \in DOMAIN ps
      /\ \A k \in DOMAIN new : new[k] = IF k = key THEN p ELSE ps[k]
  BY PutIs
<1> HIDE DEF new
<1>2. DOMAIN ps \subseteq Nat \ {0} /\ \A k \in DOMAIN ps : EntryAt(k, ps[k], now)
  BY DEF Entries
<1>3. DOMAIN new \subseteq Nat \ {0}
  BY <1>1, <1>2
<1>4. ASSUME NEW k \in DOMAIN new PROVE EntryAt(k, new[k], now)
  <2>1. CASE k = key
    BY <2>1, <1>1
  <2>2. CASE k # key
    <3>1. k \in DOMAIN ps /\ new[k] = ps[k]
      BY <2>2, <1>1
    <3> QED BY <3>1, <1>2
  <2> QED BY <2>1, <2>2
<1> QED BY <1>3, <1>4 DEF Entries, new

(* A line of taskstats.log leaves entries and rewritten keys.               *)
LEMMA TaskLineKeeps ==
  ASSUME NEW s, NEW time \in Nat, ReadSoFar(s, time), NEW l \in TaskRecord
  PROVE  ReadSoFar(TaskLine(s, time, l), time)
<1> DEFINE opid == Key(l.pid)
           pid == IF opid \in DOMAIN s.rewrites THEN s.rewrites[opid] ELSE opid
           known == pid \in DOMAIN s.procs
           renamed == known /\ s.procs[pid].cmd # l.cmd
           key == IF renamed THEN pid + 1 ELSE pid
           p == IF renamed THEN Split(s.procs[pid], key, l.cmd, Key(l.ppid), time)
                ELSE IF known THEN s.procs[pid]
                ELSE NewProcess(pid, l.cmd, Key(l.ppid), time)
           cpu == l.cpu - p.lastCpu
           io == l.io - p.lastIo
           swap == l.swap - p.lastSwap
           state == IF cpu > 0 THEN "R" ELSE IF io + swap > 0 THEN "D" ELSE "S"
           samples == IF cpu + io + swap > 0
                        THEN Append(p.samples, Sample(time, state, cpu, io, swap))
                        ELSE p.samples
           charged == [p EXCEPT !.samples = samples, !.lastCpu = l.cpu, !.lastIo = l.io,
                                !.lastSwap = l.swap]
           t == TaskLine(s, time, l)
<1>1. /\ l.pid \in Nat \ {0} /\ l.ppid \in Nat /\ l.cmd \in Text
      /\ l.cpu \in Nat /\ l.io \in Nat /\ l.swap \in Nat
  BY DEF TaskRecord, Text
<1>2. opid \in Nat \ {0} /\ Key(l.ppid) \in Nat
  BY <1>1, KeyIs
<1>3. pid \in Nat \ {0} /\ key \in Nat \ {0}
  BY <1>2 DEF ReadSoFar
<1>4. known => EntryAt(pid, s.procs[pid], time) /\ s.procs[pid] \in Process
  BY DEF ReadSoFar, Entries, EntryAt
<1>5. /\ t.procs = Put(s.procs, key, charged)
      /\ t.rewrites = IF renamed THEN Put(s.rewrites, opid, key) ELSE s.rewrites
      /\ t = [procs |-> t.procs, rewrites |-> t.rewrites]
  <2> DEFINE ps == Put(s.procs, key, charged)
             rs == IF renamed THEN Put(s.rewrites, opid, key) ELSE s.rewrites
  <2>1. t = [procs |-> ps, rewrites |-> rs]
    BY Zenon DEF TaskLine
  <2> HIDE DEF ps, rs, t
  <2>2. t.procs = ps /\ t.rewrites = rs /\ t = [procs |-> t.procs, rewrites |-> t.rewrites]
    BY <2>1
  <2> QED BY <2>2 DEF ps, rs
<1> HIDE DEF t, opid
<1>6. EntryAt(key, p, time)
  <2>1. CASE renamed
    <3>1. p = Split(s.procs[pid], key, l.cmd, Key(l.ppid), time)
      BY <2>1
    <3>2. s.procs[pid] \in Process
      BY <2>1, <1>4
    <3> HIDE DEF p, pid, key
    <3> QED BY <3>1, <3>2, <1>1, <1>2, <1>3, SplitEntry
  <2>2. CASE ~ renamed /\ known
    BY <2>2, <1>4
  <2>3. CASE ~ known
    <3>1. /\ p = NewProcess(pid, l.cmd, Key(l.ppid), time) /\ key = pid
          /\ pid \in Nat /\ pid \in {key, 1}
      BY <2>3, <1>3
    <3> HIDE DEF p, pid, key
    <3> QED BY <3>1, <1>1, <1>2, <1>3, NewEntry
  <2> QED BY <2>1, <2>2, <2>3
<1> HIDE DEF p, key, renamed, known, pid
<1>7. /\ p \in Process /\ p.lastCpu \in Nat /\ p.lastIo \in Nat /\ p.lastSwap \in Nat
      /\ cpu \in Int /\ io \in Int /\ swap \in Int
  <2>1. p \in Process
    BY <1>6 DEF EntryAt
  <2>2. p.lastCpu \in Nat /\ p.lastIo \in Nat /\ p.lastSwap \in Nat
    BY <2>1 DEF Process
  <2>3. cpu \in Int /\ io \in Int /\ swap \in Int
    BY <2>2, <1>1
  <2> QED BY <2>1, <2>2, <2>3
<1>8. /\ samples \in Samples /\ Ordered(samples)
      /\ \A i \in 1..Len(samples) : samples[i].time <= time
  <2>1. /\ p.samples \in Samples /\ Ordered(p.samples)
        /\ \A i \in 1..Len(p.samples) : p.samples[i].time <= time
    BY <1>6 DEF EntryAt, Process
  <2>2. state \in Text
    <3>1. state = "R" \/ state = "D" \/ state = "S"
      <4> HIDE DEF cpu, io, swap
      <4> QED OBVIOUS
    <3> HIDE DEF state
    <3> QED BY <3>1 DEF Text
  <2>3. CASE cpu + io + swap > 0
    <3>1. samples = Append(p.samples, Sample(time, state, cpu, io, swap))
      BY <2>3
    <3> HIDE DEF samples, state, cpu, io, swap
    <3> QED BY <3>1, <2>1, <2>2, <1>7, SampleAdded
  <2>4. CASE ~ (cpu + io + swap > 0)
    BY <2>1, <2>4
  <2> QED BY <2>3, <2>4
<1> HIDE DEF samples, cpu, io, swap, state
<1>9. charged \in Process /\ charged.pid = p.pid /\ charged.samples = samples
  BY <1>1, <1>7, <1>8 DEF Process
<1>10. EntryAt(key, charged, time)
  <2> HIDE DEF charged
  <2> QED BY <1>6, <1>8, <1>9 DEF EntryAt
<1> HIDE DEF charged
<1>11. Entries(t.procs, time)
  <2>1. Entries(s.procs, time)
    BY DEF ReadSoFar
  <2> QED BY <2>1, <1>3, <1>5, <1>10, EntryPut
<1>12. ASSUME NEW o \in DOMAIN t.rewrites PROVE t.rewrites[o] \in Nat \ {0}
  <2>1. \A q \in DOMAIN s.rewrites : s.rewrites[q] \in Nat \ {0}
    BY DEF ReadSoFar
  <2>2. CASE ~ renamed
    BY <2>1, <2>2, <1>5, <1>12
  <2>3. CASE renamed
    <3>1. t.rewrites = Put(s.rewrites, opid, key)
      BY <2>3, <1>5
    <3>2. o \in {opid} \cup DOMAIN s.rewrites /\ t.rewrites[o] = IF o = opid THEN key ELSE s.rewrites[o]
      BY <3>1, <1>12 DEF Put
    <3> QED BY <3>2, <2>1, <1>3
  <2> QED BY <2>2, <2>3
<1> QED BY <1>5, <1>11, <1>12 DEF ReadSoFar, t

(* The smaller and the larger of two numbers.                               *)
LEMMA TwoNumbers ==
  ASSUME NEW a \in Int, NEW b \in Int
  PROVE  /\ Min({a, b}) \in {a, b} /\ Min({a, b}) <= a /\ Min({a, b}) <= b
         /\ Max({a, b}) \in {a, b} /\ Max({a, b}) >= a /\ Max({a, b}) >= b
<1>1. \E x \in {a, b} : \A y \in {a, b} : x <= y
  <2>1. CASE a <= b
    BY <2>1
  <2>2. CASE ~ (a <= b)
    BY <2>2
  <2> QED BY <2>1, <2>2
<1>2. \E x \in {a, b} : \A y \in {a, b} : x >= y
  <2>1. CASE a <= b
    BY <2>1
  <2>2. CASE ~ (a <= b)
    BY <2>2
  <2> QED BY <2>1, <2>2
<1>3. Min({a, b}) \in {a, b} /\ \A y \in {a, b} : Min({a, b}) <= y
  BY <1>1 DEF Min
<1>4. Max({a, b}) \in {a, b} /\ \A y \in {a, b} : Max({a, b}) >= y
  BY <1>2 DEF Max
<1> QED BY <1>3, <1>4

(* The load of a process is a number.                                       *)
LEMMA LoadIs ==
  ASSUME NEW p \in Process, NEW ticks \in Nat, NEW interval \in Nat \ {0}
  PROVE  CalcLoad(p, ticks, interval) \in Int
<1>1. ticks - p.lastTicks \in Int
  BY DEF Process
<1>2. \A n \in Int : (100 * n) \div interval \in Int
  OBVIOUS
<1> QED BY <1>1, <1>2 DEF CalcLoad

(* A line of proc_ps.log leaves entries, and the rewritten keys as they are.*)
LEMMA PsLineKeeps ==
  ASSUME NEW s, NEW time \in Nat, NEW ltime \in Nat, ReadSoFar(s, time), NEW l \in PsRecord
  PROVE  ReadSoFar(PsLine(s, time, ltime, l), time)
<1> DEFINE key == Key(l.pid)
           known == key \in DOMAIN s.procs
           p == IF known THEN [s.procs[key] EXCEPT !.cmd = l.cmd]
                ELSE NewProcess(key, l.cmd, Key(l.ppid), Min({time, l.stime}))
           load == CalcLoad(p, l.ticks, Max({1, time - ltime}))
           samples == IF p.lastTicks = NoTicks THEN p.samples
                      ELSE Append(p.samples, Sample(time, l.state, load, 0, 0))
           charged == [p EXCEPT !.samples = samples, !.lastTicks = l.ticks]
           t == PsLine(s, time, ltime, l)
<1>1. /\ l.pid \in Nat \ {0} /\ l.ppid \in Nat /\ l.cmd \in Text /\ l.state \in Text
      /\ l.ticks \in Nat /\ l.stime \in Nat
  BY DEF PsRecord, Text
<1>2. key \in Nat \ {0} /\ Key(l.ppid) \in Nat
  BY <1>1, KeyIs
<1>3. t.procs = Put(s.procs, key, charged) /\ t.rewrites = s.rewrites
      /\ t = [procs |-> t.procs, rewrites |-> t.rewrites]
  <2>1. t = [s EXCEPT !.procs = Put(@, key, charged)]
    BY DEF PsLine
  <2>2. s = [procs |-> s.procs, rewrites |-> s.rewrites]
    BY DEF ReadSoFar
  <2> HIDE DEF t, charged, key
  <2> QED BY <2>1, <2>2
<1>4. Entries(s.procs, time)
  BY DEF ReadSoFar
<1> HIDE DEF t, key
<1>5. EntryAt(key, p, time)
  <2>1. CASE known
    <3> DEFINE q == s.procs[key]
    <3>1. EntryAt(key, q, time) /\ q \in Process
      BY <2>1, <1>4 DEF Entries, EntryAt
    <3>2. p = [q EXCEPT !.cmd = l.cmd]
      BY <2>1
    <3> HIDE DEF q, p
    <3>3. p \in Process /\ p.pid = q.pid /\ p.samples = q.samples
      BY <3>1, <3>2, <1>1 DEF Process
    <3> QED BY <3>1, <3>3 DEF EntryAt
  <2>2. CASE ~ known
    <3>1. Min({time, l.stime}) \in Nat
      <4>1. time \in Int /\ l.stime \in Int
        BY <1>1
      <4>2. Min({time, l.stime}) \in {time, l.stime}
        BY <4>1, TwoNumbers, Zenon
      <4> QED BY <4>2, <1>1
    <3>2. p = NewProcess(key, l.cmd, Key(l.ppid), Min({time, l.stime})) /\ key \in {key, 1}
      BY <2>2
    <3> HIDE DEF p
    <3> QED BY <3>1, <3>2, <1>1, <1>2, NewEntry
  <2> QED BY <2>1, <2>2
<1> HIDE DEF p, known
<1>6. p \in Process /\ load \in Int
  <2>1. p \in Process
    BY <1>5 DEF EntryAt
  <2>2. Max({1, time - ltime}) \in Nat \ {0}
    <3>1. time - ltime \in Int
      OBVIOUS
    <3> DEFINE step == time - ltime
    <3> HIDE DEF step
    <3>2. 1 \in Int /\ step \in Int
      BY <3>1 DEF step
    <3>3. Max({1, step}) \in {1, step} /\ Max({1, step}) >= 1
      BY <3>2, TwoNumbers, Zenon
    <3> QED BY <3>2, <3>3 DEF step
  <2> QED BY <2>1, <2>2, <1>1, LoadIs
<1>7. /\ samples \in Samples /\ Ordered(samples)
      /\ \A i \in 1..Len(samples) : samples[i].time <= time
  <2>1. /\ p.samples \in Samples /\ Ordered(p.samples)
        /\ \A i \in 1..Len(p.samples) : p.samples[i].time <= time
    BY <1>5 DEF EntryAt, Process
  <2> HIDE DEF load
  <2>2. CASE p.lastTicks = NoTicks
    BY <2>1, <2>2
  <2>3. CASE p.lastTicks # NoTicks
    <3>1. samples = Append(p.samples, Sample(time, l.state, load, 0, 0))
      BY <2>3
    <3>2. 0 \in Int
      OBVIOUS
    <3> HIDE DEF samples
    <3> QED BY <3>1, <3>2, <2>1, <1>1, <1>6, SampleAdded
  <2> QED BY <2>2, <2>3
<1> HIDE DEF samples, load
<1>8. charged \in Process /\ charged.pid = p.pid /\ charged.samples = samples
  <2>1. l.ticks \in Int
    BY <1>1
  <2> QED BY <2>1, <1>6, <1>7 DEF Process
<1>9. EntryAt(key, charged, time)
  <2> HIDE DEF charged
  <2> QED BY <1>5, <1>7, <1>8 DEF EntryAt
<1> HIDE DEF charged
<1>10. Entries(t.procs, time)
  BY <1>2, <1>3, <1>4, <1>9, EntryPut
<1>11. \A o \in DOMAIN t.rewrites : t.rewrites[o] \in Nat \ {0}
  BY <1>3 DEF ReadSoFar
<1> QED BY <1>3, <1>10, <1>11 DEF ReadSoFar, t

(* What ReadLines reads, as a function defined by its equation.             *)
Line(name, b, ltime, s, n) ==
  IF name = "taskstats.log" THEN TaskLine(s, b.time, b.lines[n])
  ELSE PsLine(s, b.time, ltime, b.lines[n])
Reads(name, b, ltime, before, m, read) ==
  read = [n \in 0..m |-> IF n = 0 THEN before ELSE Line(name, b, ltime, read[n - 1], n)]

(* There is such a function, for any number of lines.                       *)
LEMMA ReadFrom ==
  ASSUME NEW name, NEW b, NEW ltime, NEW before, NEW m \in Nat
  PROVE  \E read : Reads(name, b, ltime, before, m, read)
<1> DEFINE R(n, f) == Reads(name, b, ltime, before, n, f)
           Next1(s, n) == Line(name, b, ltime, s, n)
           Bad == {n \in Nat : \A f : ~ R(n, f)}
<1>1. \A n, f : R(n, f) <=> f = [i \in 0..n |-> IF i = 0 THEN before ELSE Next1(f[i - 1], i)]
  BY DEF Reads
<1> HIDE DEF R, Next1
<1> SUFFICES Bad = {}
  BY DEF R
<1> SUFFICES ASSUME Bad # {} PROVE FALSE
  OBVIOUS
<1>2. PICK k \in Bad : \A j \in Bad : k <= j
  <2>1. Bad \subseteq Nat
    OBVIOUS
  <2> HIDE DEF Bad
  <2> QED BY <2>1, LeastNatural
<1>3. k # 0
  <2> DEFINE one == [i \in 0..0 |-> before]
  <2>1. one = [i \in 0..0 |-> IF i = 0 THEN before ELSE Next1(one[i - 1], i)]
    OBVIOUS
  <2> HIDE DEF one
  <2> QED BY <2>1, <1>1, <1>2
<1>4. PICK f : R(k - 1, f)
  <2>1. k - 1 \in Nat /\ ~ (k <= k - 1)
    BY <1>3
  <2>2. k - 1 \notin Bad
    BY <1>2, <2>1
  <2> QED BY <2>1, <2>2
<1>5. \A i \in 0..k - 1 : f[i] = IF i = 0 THEN before ELSE Next1(f[i - 1], i)
  <2>1. f = [i \in 0..k - 1 |-> IF i = 0 THEN before ELSE Next1(f[i - 1], i)]
    BY <1>1, <1>4
  <2> QED BY <2>1
<1> DEFINE more == [i \in 0..k |-> IF i = k THEN Next1(f[k - 1], k) ELSE f[i]]
<1>6. ASSUME NEW i \in 0..k
      PROVE  more[i] = IF i = 0 THEN before ELSE Next1(more[i - 1], i)
  <2>1. CASE i = k
    <3>1. k - 1 \in 0..k /\ k - 1 # k
      BY <1>3
    <3>2. more[i] = Next1(f[k - 1], k) /\ more[k - 1] = f[k - 1]
      BY <2>1, <3>1
    <3> HIDE DEF more
    <3> QED BY <2>1, <3>2, <1>3
  <2>2. CASE i # k
    <3>1. i \in 0..k - 1 /\ more[i] = f[i]
      BY <2>2
    <3>2. i # 0 => i - 1 \in 0..k /\ i - 1 # k
      BY <2>2
    <3>3. i # 0 => more[i - 1] = f[i - 1]
      BY <3>2
    <3> HIDE DEF more
    <3> QED BY <3>1, <3>3, <1>5
  <2> QED BY <2>1, <2>2
<1>7. more = [i \in 0..k |-> IF i = 0 THEN before ELSE Next1(more[i - 1], i)]
  <2>1. more = [i \in 0..k |-> more[i]]
    OBVIOUS
  <2> HIDE DEF more
  <2> QED BY <2>1, <1>6
<1> QED
  <2> HIDE DEF more
  <2>1. R(k, more)
    BY <1>1, <1>7
  <2> QED BY <2>1, <1>2

(* A block of lines leaves entries, all of them as old as the block.        *)
LEMMA BlockKeeps ==
  ASSUME NEW name \in ProcessLogs, NEW b, b.time \in Nat, NEW ltime \in Nat,
         name = "taskstats.log" => b.lines \in Seq(TaskRecord),
         name = "proc_ps.log" => b.lines \in Seq(PsRecord),
         NEW before, ReadSoFar(before, b.time)
  PROVE  ReadSoFar(ReadLines(name, b, ltime, before), b.time)
<1> DEFINE m == Len(b.lines)
           read == CHOOSE f : Reads(name, b, ltime, before, m, f)
           Bad == {n \in 0..m : ~ ReadSoFar(read[n], b.time)}
<1>1. name = "taskstats.log" \/ name = "proc_ps.log"
  BY DEF ProcessLogs
<1>2. /\ m \in Nat
      /\ \A n \in 1..m : /\ name = "taskstats.log" => b.lines[n] \in TaskRecord
                         /\ name # "taskstats.log" => b.lines[n] \in PsRecord
  <2>1. CASE name = "taskstats.log"
    BY <2>1, Elements
  <2>2. CASE name # "taskstats.log"
    BY <2>2, <1>1, Elements
  <2> QED BY <2>1, <2>2
<1>3. ReadLines(name, b, ltime, before) = read[m]
  BY DEF ReadLines, Reads, Line
<1>4. Reads(name, b, ltime, before, m, read)
  <2>1. \E f : Reads(name, b, ltime, before, m, f)
    BY <1>2, ReadFrom
  <2> QED BY <2>1
<1> HIDE DEF read, m
<1>5. \A n \in 0..m : read[n] = IF n = 0 THEN before ELSE Line(name, b, ltime, read[n - 1], n)
  <2>1. read = [n \in 0..m |-> IF n = 0 THEN before ELSE Line(name, b, ltime, read[n - 1], n)]
    BY <1>4 DEF Reads
  <2> QED BY <2>1
<1>6. Bad = {}
  <2> SUFFICES ASSUME Bad # {} PROVE FALSE
    OBVIOUS
  <2>1. PICK n \in Bad : \A j \in Bad : n <= j
    <3>1. Bad \subseteq Nat
      BY <1>2
    <3> HIDE DEF Bad
    <3> QED BY <3>1, LeastNatural
  <2>2. n # 0
    BY <2>1, <1>2, <1>5
  <2>3. n \in 1..m /\ n - 1 \in 0..m /\ ~ (n <= n - 1)
    BY <2>1, <2>2, <1>2
  <2>4. ReadSoFar(read[n - 1], b.time)
    BY <2>1, <2>3
  <2>5. read[n] = Line(name, b, ltime, read[n - 1], n)
    BY <2>2, <2>3, <1>5
  <2> DEFINE s == read[n - 1]
             l == b.lines[n]
             time == b.time
  <2> HIDE DEF s, l, time
  <2>6. ReadSoFar(Line(name, b, ltime, read[n - 1], n), b.time)
    <3>1. CASE name = "taskstats.log"
      <4>1. l \in TaskRecord /\ ReadSoFar(s, time) /\ time \in Nat
        BY <3>1, <2>3, <2>4, <1>2 DEF s, l, time
      <4>2. ReadSoFar(TaskLine(s, time, l), time)
        BY <4>1, TaskLineKeeps
      <4> QED BY <3>1, <4>2 DEF Line, s, l, time
    <3>2. CASE name # "taskstats.log"
      <4>1. l \in PsRecord /\ ReadSoFar(s, time) /\ time \in Nat
        BY <3>2, <2>3, <2>4, <1>2 DEF s, l, time
      <4>2. ReadSoFar(PsLine(s, time, ltime, l), time)
        BY <4>1, PsLineKeeps
      <4> QED BY <3>2, <4>2 DEF Line, s, l, time
    <3> QED BY <3>1, <3>2
  <2> QED BY <2>1, <2>5, <2>6
<1>7. m \in 0..m
  BY <1>2
<1> QED BY <1>3, <1>6, <1>7

(* ------------------------------------------------------------------------ *)
(* What Total adds up                                                       *)

(* What Total adds up, as a function defined by its equation.               *)
AddsUp(a, j, m, sum) == sum = [n \in 0..m |-> IF n < j THEN 0 ELSE sum[n - 1] + a[n]]
SumOf(a, j, m) == CHOOSE sum : AddsUp(a, j, m, sum)

(* There is such a function. *)
LEMMA SumFrom ==
  ASSUME NEW a, NEW j \in Nat \ {0}, NEW m \in Nat
  PROVE  \E sum : AddsUp(a, j, m, sum)
<1> DEFINE R(n, f) == AddsUp(a, j, n, f)
           Bad == {n \in Nat : \A f : ~ R(n, f)}
<1>1. \A n, f : R(n, f) <=> f = [i \in 0..n |-> IF i < j THEN 0 ELSE f[i - 1] + a[i]]
  BY DEF AddsUp
<1> HIDE DEF R
<1> SUFFICES Bad = {}
  BY DEF R
<1> SUFFICES ASSUME Bad # {} PROVE FALSE
  OBVIOUS
<1>2. PICK k \in Bad : \A i \in Bad : k <= i
  <2>1. Bad \subseteq Nat
    OBVIOUS
  <2> HIDE DEF Bad
  <2> QED BY <2>1, LeastNatural
<1>3. k # 0
  <2> DEFINE one == [i \in 0..0 |-> 0]
  <2>1. one = [i \in 0..0 |-> IF i < j THEN 0 ELSE one[i - 1] + a[i]]
    OBVIOUS
  <2> HIDE DEF one
  <2> QED BY <2>1, <1>1, <1>2
<1>4. PICK f : R(k - 1, f)
  <2>1. k - 1 \in Nat /\ ~ (k <= k - 1)
    BY <1>3
  <2>2. k - 1 \notin Bad
    BY <1>2, <2>1
  <2> QED BY <2>1, <2>2
<1>5. \A i \in 0..k - 1 : f[i] = IF i < j THEN 0 ELSE f[i - 1] + a[i]
  <2>1. f = [i \in 0..k - 1 |-> IF i < j THEN 0 ELSE f[i - 1] + a[i]]
    BY <1>1, <1>4
  <2> QED BY <2>1
<1> DEFINE last == IF k < j THEN 0 ELSE f[k - 1] + a[k]
           more == [i \in 0..k |-> IF i = k THEN last ELSE f[i]]
<1>6. ASSUME NEW i \in 0..k
      PROVE  more[i] = IF i < j THEN 0 ELSE more[i - 1] + a[i]
  <2>1. i >= j => i - 1 \in 0..k /\ i - 1 # k
    OBVIOUS
  <2>2. i >= j => more[i - 1] = f[i - 1]
    BY <2>1
  <2>3. CASE i = k
    <3>1. more[i] = last
      BY <2>3
    <3> HIDE DEF more
    <3> QED BY <2>2, <2>3, <3>1
  <2>4. CASE i # k
    <3>1. i \in 0..k - 1 /\ more[i] = f[i]
      BY <2>4
    <3> HIDE DEF more
    <3> QED BY <2>2, <3>1, <1>5
  <2> QED BY <2>3, <2>4
<1>7. more = [i \in 0..k |-> IF i < j THEN 0 ELSE more[i - 1] + a[i]]
  <2>1. more = [i \in 0..k |-> more[i]]
    OBVIOUS
  <2> HIDE DEF more
  <2> QED BY <2>1, <1>6
<1> QED
  <2> HIDE DEF more
  <2>1. R(k, more)
    BY <1>1, <1>7
  <2> QED BY <2>1, <1>2

(* Its values. *)
LEMMA SumValues ==
  ASSUME NEW a, NEW j \in Nat \ {0}, NEW m \in Nat
  PROVE  \A n \in 0..m : SumOf(a, j, m)[n] = IF n < j THEN 0 ELSE SumOf(a, j, m)[n - 1] + a[n]
<1> DEFINE f == SumOf(a, j, m)
<1>1. AddsUp(a, j, m, f)
  <2>1. \E sum : AddsUp(a, j, m, sum)
    BY SumFrom
  <2> QED BY <2>1 DEF SumOf
<1> HIDE DEF f
<1>2. f = [n \in 0..m |-> IF n < j THEN 0 ELSE f[n - 1] + a[n]]
  BY <1>1 DEF AddsUp
<1>3. \A n \in 0..m : f[n] = IF n < j THEN 0 ELSE f[n - 1] + a[n]
  BY <1>2
<1> QED BY <1>3 DEF f

(* A sum up to k is the sum up to the place before and what is at k.        *)
LEMMA TotalStep ==
  ASSUME NEW a, NEW j \in Nat \ {0}, NEW k \in Nat
  PROVE  Total(a, j, k) = IF k < j THEN 0 ELSE Total(a, j, k - 1) + a[k]
<1> DEFINE f == SumOf(a, j, k)
           g == SumOf(a, j, k - 1)
           Bad == {n \in 0..k - 1 : f[n] # g[n]}
<1>1. Total(a, j, k) = f[k] /\ Total(a, j, k - 1) = g[k - 1]
  BY DEF Total, SumOf, AddsUp
<1>2. \A n \in 0..k : f[n] = IF n < j THEN 0 ELSE f[n - 1] + a[n]
  BY SumValues
<1>3. k >= j => k - 1 \in Nat /\ \A n \in 0..k - 1 : g[n] = IF n < j THEN 0 ELSE g[n - 1] + a[n]
  <2> SUFFICES ASSUME k >= j
               PROVE  k - 1 \in Nat /\ \A n \in 0..k - 1 : g[n] = IF n < j THEN 0 ELSE g[n - 1] + a[n]
    OBVIOUS
  <2>1. k - 1 \in Nat
    OBVIOUS
  <2> DEFINE m == k - 1
  <2> HIDE DEF m
  <2>2. \A n \in 0..m : SumOf(a, j, m)[n] = IF n < j THEN 0 ELSE SumOf(a, j, m)[n - 1] + a[n]
    BY <2>1, SumValues DEF m
  <2> QED BY <2>1, <2>2 DEF m
<1> HIDE DEF f, g
<1>4. ASSUME k >= j PROVE Bad = {}
  <2> SUFFICES ASSUME Bad # {} PROVE FALSE
    OBVIOUS
  <2>1. PICK n \in Bad : \A i \in Bad : n <= i
    <3>1. Bad \subseteq Nat
      OBVIOUS
    <3> HIDE DEF Bad
    <3> QED BY <3>1, LeastNatural
  <2>2. n \in 0..k - 1 /\ n \in 0..k
    OBVIOUS
  <2>3. n >= j
    BY <2>1, <2>2, <1>2, <1>3, <1>4
  <2>4. n - 1 \in 0..k - 1 /\ ~ (n <= n - 1)
    BY <2>2, <2>3
  <2>5. f[n - 1] = g[n - 1]
    BY <2>1, <2>4
  <2> QED BY <2>1, <2>2, <2>3, <2>5, <1>2, <1>3, <1>4
<1>5. CASE k < j
  BY <1>1, <1>2, <1>5
<1>6. CASE k >= j
  <2>1. k - 1 \in 0..k - 1 /\ k \in 0..k
    BY <1>6
  <2>2. f[k - 1] = g[k - 1]
    BY <2>1, <1>4, <1>6
  <2>3. f[k] = f[k - 1] + a[k]
    BY <2>1, <1>2, <1>6
  <2> QED BY <2>2, <2>3, <1>1, <1>6
<1> QED BY <1>5, <1>6

(* A sum of integers is one. *)
LEMMA TotalIs ==
  ASSUME NEW a, NEW j \in Nat \ {0}, NEW k \in Nat, \A i \in j..k : a[i] \in Int
  PROVE  Total(a, j, k) \in Int
<1> DEFINE Bad == {n \in 0..k : Total(a, j, n) \notin Int}
<1>1. \A n \in 0..k : Total(a, j, n) = IF n < j THEN 0 ELSE Total(a, j, n - 1) + a[n]
  BY TotalStep
<1>2. Bad = {}
  <2> SUFFICES ASSUME Bad # {} PROVE FALSE
    OBVIOUS
  <2>1. PICK n \in Bad : \A i \in Bad : n <= i
    <3>1. Bad \subseteq Nat
      OBVIOUS
    <3> HIDE DEF Bad
    <3> QED BY <3>1, LeastNatural
  <2>2. n \in 0..k /\ n >= j
    BY <2>1, <1>1
  <2>3. n - 1 \in 0..k /\ ~ (n <= n - 1) /\ n \in j..k
    BY <2>2
  <2>4. Total(a, j, n - 1) \in Int /\ a[n] \in Int
    BY <2>1, <2>3
  <2>5. Total(a, j, n) = Total(a, j, n - 1) + a[n]
    BY <2>2, <1>1
  <2> QED BY <2>1, <2>4, <2>5
<1>3. k \in 0..k
  OBVIOUS
<1> QED BY <1>2, <1>3

(* A sum is that of its two parts. *)
LEMMA TotalSplits ==
  ASSUME NEW a, NEW j \in Nat \ {0}, NEW k \in Nat, NEW i \in j..k,
         \A n \in j..k : a[n] \in Int
  PROVE  Total(a, j, k) = Total(a, j, i - 1) + Total(a, i, k)
<1> DEFINE Bad == {n \in i - 1..k : Total(a, j, n) # Total(a, j, i - 1) + Total(a, i, n)}
<1>1. i \in Nat \ {0} /\ i - 1 \in Nat /\ i >= j /\ i <= k
  OBVIOUS
<1>2. \A n \in i - 1..k : n \in Nat /\ \A m \in j..n : a[m] \in Int
  BY <1>1
<1>3. \A n \in i - 1..k : Total(a, j, n) \in Int /\ Total(a, i, n) \in Int
  BY <1>1, <1>2, TotalIs
<1>4. ASSUME NEW n \in i..k
      PROVE  Total(a, j, n) = Total(a, j, n - 1) + a[n] /\ Total(a, i, n) = Total(a, i, n - 1) + a[n]
  <2>1. n \in Nat /\ ~ (n < j) /\ ~ (n < i)
    BY <1>1
  <2> QED BY <2>1, <1>1, TotalStep
<1>5. Total(a, i, i - 1) = 0
  BY <1>1, TotalStep
<1>6. Bad = {}
  <2> SUFFICES ASSUME Bad # {} PROVE FALSE
    OBVIOUS
  <2>1. PICK n \in Bad : \A m \in Bad : n <= m
    <3>1. Bad \subseteq Nat
      BY <1>2
    <3> HIDE DEF Bad
    <3> QED BY <3>1, LeastNatural
  <2>2. i - 1 \in i - 1..k
    BY <1>1
  <2>3. n # i - 1
    BY <2>1, <2>2, <1>3, <1>5
  <2>4. n \in i..k /\ n - 1 \in i - 1..k /\ ~ (n <= n - 1) /\ n \in i - 1..k
    BY <2>1, <2>3, <1>1
  <2>5. Total(a, j, n - 1) = Total(a, j, i - 1) + Total(a, i, n - 1)
    BY <2>1, <2>4
  <2>6. /\ Total(a, j, n) = Total(a, j, n - 1) + a[n]
        /\ Total(a, i, n) = Total(a, i, n - 1) + a[n]
    BY <2>4, <1>4
  <2>7. a[n] \in Int
    BY <2>4, <1>1
  <2>8. /\ Total(a, j, i - 1) \in Int /\ Total(a, i, n - 1) \in Int
    BY <2>2, <2>4, <1>3
  <2>9. Total(a, j, n) = Total(a, j, i - 1) + Total(a, i, n)
    BY <2>5, <2>6, <2>7, <2>8
  <2> QED BY <2>1, <2>9
<1>7. k \in i - 1..k
  BY <1>1
<1> QED BY <1>6, <1>7

(* A sum of small integers is small. *)
LEMMA TotalSmall ==
  ASSUME NEW a, NEW j \in Nat \ {0}, NEW k \in Nat, k >= j - 1,
         \A n \in j..k : a[n] \in Int /\ a[n] < 25
  PROVE  Total(a, j, k) <= 24 * (k - j + 1)
<1> DEFINE Bad == {n \in j - 1..k : ~ (Total(a, j, n) <= 24 * (n - j + 1))}
<1>1. \A n \in j - 1..k : n \in Nat /\ Total(a, j, n) = IF n < j THEN 0 ELSE Total(a, j, n - 1) + a[n]
  BY TotalStep
<1>2. \A n \in j - 1..k : Total(a, j, n) \in Int
  BY TotalIs
<1>3. Bad = {}
  <2> SUFFICES ASSUME Bad # {} PROVE FALSE
    OBVIOUS
  <2>1. PICK n \in Bad : \A i \in Bad : n <= i
    <3>1. Bad \subseteq Nat
      BY <1>1
    <3> HIDE DEF Bad
    <3> QED BY <3>1, LeastNatural
  <2>2. n \in j - 1..k /\ n >= j
    BY <2>1, <1>1
  <2>3. n - 1 \in j - 1..k /\ ~ (n <= n - 1) /\ n \in j..k
    BY <2>2
  <2>4. Total(a, j, n - 1) <= 24 * (n - 1 - j + 1) /\ Total(a, j, n - 1) \in Int
    BY <2>1, <2>3, <1>2
  <2>5. Total(a, j, n) = Total(a, j, n - 1) + a[n]
    BY <2>2, <1>1
  <2>6. Total(a, j, n) <= 24 * (n - j + 1)
    BY <2>2, <2>3, <2>4, <2>5
  <2> QED BY <2>1, <2>6
<1>4. k \in j - 1..k
  OBVIOUS
<1> QED BY <1>3, <1>4

(* ------------------------------------------------------------------------ *)
(* The loads of processors and disks                                        *)

(* Loads of a chart, in the order of their times.                           *)
Loads(s) == s \in Seq([time : Nat, load : Int]) /\ Ordered(s)

(* A non-empty set of naturals has its least member, one of places its      *)
(* greatest.                                                                *)
LEMMA LeastIs ==
  ASSUME NEW S, S \subseteq Nat, S # {}
  PROVE  Min(S) \in S /\ \A x \in S : Min(S) <= x
<1>1. \E x \in S : \A y \in S : x <= y
  BY LeastNatural
<1> QED BY <1>1 DEF Min

(* The last element of a sequence that is not empty.                        *)
LEMMA LastIs ==
  ASSUME NEW n \in Nat, NEW S, S \subseteq 0..n, S # {}
  PROVE  Max(S) \in S /\ \A x \in S : Max(S) >= x
<1> DEFINE Far == {n - x : x \in S}
<1>1. PICK m \in Far : \A k \in Far : m <= k
  <2>1. \A x \in S : x \in 0..n /\ n - x \in Nat
    OBVIOUS
  <2>2. Far \subseteq Nat /\ Far # {}
    BY <2>1
  <2> HIDE DEF Far
  <2> QED BY <2>2, LeastNatural
<1>2. PICK x \in S : m = n - x
  OBVIOUS
<1>3. \A y \in S : x >= y
  <2> SUFFICES ASSUME NEW y \in S PROVE x >= y
    OBVIOUS
  <2>1. n - y \in Far
    OBVIOUS
  <2>2. m <= n - y
    BY <2>1, <1>1
  <2>3. x \in 0..n /\ y \in 0..n
    OBVIOUS
  <2> QED BY <2>2, <2>3, <1>2
<1>4. \E z \in S : \A y \in S : z >= y
  BY <1>3
<1> QED BY <1>4 DEF Max

(* Intervals that are the same have the same end. *)
LEMMA SameEnd ==
  ASSUME NEW a \in Nat, NEW b \in Nat, 1..a = 1..b
  PROVE  a = b
<1>1. \A k : k \in 1..a <=> k \in 1..b
  OBVIOUS
<1>2. (a = 0 \/ a \in 1..a) /\ (b = 0 \/ b \in 1..b)
  OBVIOUS
<1> QED BY <1>1, <1>2

(* A function on the places of a sequence of loads is one.                  *)
LEMMA LoadsMade ==
  ASSUME NEW n \in Int, NEW s, DOMAIN s = 1..n, s = [i \in 1..n |-> s[i]],
         \A i \in 1..n : s[i] \in [time : Nat, load : Int],
         \A i, k \in 1..n : i <= k => s[i].time <= s[k].time
  PROVE  Loads(s) /\ (n >= 0 => Len(s) = n) /\ DOMAIN s = 1..Len(s)
<1> DEFINE m == IF n < 0 THEN 0 ELSE n
           S == [time : Nat, load : Int]
<1>1. m \in Nat /\ 1..n = 1..m /\ (n >= 0 => m = n)
  OBVIOUS
<1> HIDE DEF m, S
<1>2. \A i \in 1..m : s[i] \in S
  BY <1>1 DEF S
<1>3. s = [i \in 1..m |-> s[i]]
  BY <1>1
<1>4. s \in [1..m -> S]
  BY <1>2, <1>3
<1>5. s \in Seq(S)
  BY <1>1, <1>4, SeqDef
<1>6. Len(s) \in Nat /\ 1..Len(s) = 1..m
  BY <1>4, <1>5, LenProperties
<1>7. Len(s) = m
  <2> DEFINE k == Len(s)
  <2> HIDE DEF k
  <2>1. k \in Nat /\ m \in Nat /\ 1..k = 1..m
    BY <1>1, <1>6 DEF k
  <2>2. k = m
    BY <2>1, SameEnd
  <2> QED BY <2>2 DEF k
<1> QED BY <1>1, <1>5, <1>7 DEF Loads, Ordered, S

(* The product of two positive numbers. *)
LEMMA Positive ==
  ASSUME NEW a \in Nat, NEW b \in Nat, a >= 1, b >= 1
  PROVE  a * b \in Nat \ {0}
<1>1. a * b \in Nat
  OBVIOUS
<1>2. a * b >= 1
  OBVIOUS
<1> QED BY <1>1, <1>2

(* The loads of the processors.                                             *)
LEMMA CpuLoadsIs ==
  ASSUME NEW body \in Seq([time : Nat, busy : Nat, rest : Nat]), Ordered(body)
  PROVE  Loads(CpuLoads(body))
<1> DEFINE S == [time : Nat, busy : Nat, rest : Nat]
           n == Len(body) - 1
           t == CpuLoads(body)
<1>1. Len(body) \in Nat /\ \A i \in 1..Len(body) : body[i] \in S
  <2> HIDE DEF S
  <2>1. body \in Seq(S)
    BY DEF S
  <2> QED BY <2>1, Elements
<1>2. \A i \in 1..Len(body) : body[i].time \in Nat /\ body[i].busy \in Nat /\ body[i].rest \in Nat
  BY <1>1
<1>3. n \in Int /\ \A i \in 1..n : i \in 1..Len(body) /\ i + 1 \in 1..Len(body)
  BY <1>1
<1>4. DOMAIN t = 1..n /\ t = [i \in 1..n |-> t[i]]
  BY DEF CpuLoads
<1>5. ASSUME NEW i \in 1..n
      PROVE  t[i] \in [time : Nat, load : Int] /\ t[i].time = body[i + 1].time
  <2> DEFINE busy == body[i + 1].busy - body[i].busy
             rest == body[i + 1].rest - body[i].rest
             all == Max({busy + rest, 1})
             load == (100 * busy) \div all
  <2>1. t[i] = [time |-> body[i + 1].time, load |-> load]
    BY DEF CpuLoads
  <2>2. body[i + 1].time \in Nat /\ busy \in Int /\ busy + rest \in Int
    <3>1. i \in 1..Len(body) /\ i + 1 \in 1..Len(body)
      BY <1>3
    <3> DEFINE b0 == body[i].busy
               r0 == body[i].rest
               b1 == body[i + 1].busy
               r1 == body[i + 1].rest
    <3>2. body[i + 1].time \in Nat /\ b0 \in Nat /\ r0 \in Nat /\ b1 \in Nat /\ r1 \in Nat
      BY <3>1, <1>2
    <3> HIDE DEF b0, r0, b1, r1
    <3>3. b1 - b0 \in Int /\ r1 - r0 \in Int /\ (b1 - b0) + (r1 - r0) \in Int
      BY <3>2
    <3> QED BY <3>2, <3>3 DEF b0, r0, b1, r1
  <2>3. load \in Int
    <3> HIDE DEF busy, rest
    <3>1. all \in {busy + rest, 1} /\ all >= 1
      <4>1. 1 \in Int
        OBVIOUS
      <4> QED BY <4>1, <2>2, TwoNumbers, Zenon
    <3> DEFINE x == busy + rest
    <3>2. x \in Int /\ all \in {x, 1} /\ all >= 1
      BY <3>1, <2>2
    <3> HIDE DEF all, x
    <3>3. all \in Nat \ {0}
      BY <3>2
    <3>4. \A k \in Int : k \div all \in Int
      BY <3>3
    <3>5. 100 * busy \in Int
      BY <2>2
    <3> QED BY <3>4, <3>5
  <2> HIDE DEF load
  <2> QED BY <2>1, <2>2, <2>3
<1>6. \A i, k \in 1..n : i <= k => body[i + 1].time <= body[k + 1].time
  BY <1>3 DEF Ordered
<1>7. /\ \A i \in 1..n : t[i] \in [time : Nat, load : Int]
      /\ \A i, k \in 1..n : i <= k => t[i].time <= t[k].time
  BY <1>5, <1>6
<1> HIDE DEF t, n
<1>8. Loads(t)
  BY <1>3, <1>4, <1>7, LoadsMade
<1> QED BY <1>8 DEF t

(* What the disks were used for in a block is a number.                     *)
LEMMA DiskUseIs ==
  ASSUME NEW b, b.lines \in Seq([whole : BOOLEAN, use : Nat])
  PROVE  DiskUse(b) \in Int
<1> DEFINE S == [whole : BOOLEAN, use : Nat]
           a == [i \in 1..Len(b.lines) |-> IF b.lines[i].whole THEN b.lines[i].use ELSE 0]
<1>1. Len(b.lines) \in Nat /\ \A i \in 1..Len(b.lines) : b.lines[i] \in S
  <2> HIDE DEF S
  <2>1. b.lines \in Seq(S)
    BY DEF S
  <2> QED BY <2>1, Elements
<1>2. \A i \in 1..Len(b.lines) : a[i] \in Int
  BY <1>1
<1>3. DiskUse(b) = Total(a, 1, Len(b.lines))
  BY DEF DiskUse
<1> HIDE DEF a
<1> DEFINE m == Len(b.lines)
<1> HIDE DEF m
<1>4. 1 \in Nat \ {0} /\ m \in Nat /\ \A i \in 1..m : a[i] \in Int
  BY <1>1, <1>2 DEF m
<1>5. Total(a, 1, m) \in Int
  BY <1>4, TotalIs
<1> QED BY <1>3, <1>5 DEF m

(* The loads of the disks are percentages.                                  *)
LEMMA DiskUtilIs ==
  ASSUME NEW body \in Seq([time : Nat, lines : Seq([whole : BOOLEAN, use : Nat])]),
         Ordered(body), NEW cpus \in Nat \ {0}
  PROVE  /\ Loads(DiskUtil(body, cpus))
         /\ \A i \in 1..Len(DiskUtil(body, cpus)) : DiskUtil(body, cpus)[i].load \in 0..100
<1> DEFINE L == Seq([whole : BOOLEAN, use : Nat])
           S == [time : Nat, lines : L]
           n == Len(body) - 1
           t == DiskUtil(body, cpus)
<1>1. Len(body) \in Nat /\ \A i \in 1..Len(body) : body[i] \in S
  <2> HIDE DEF S
  <2>1. body \in Seq(S)
    BY DEF S
  <2> QED BY <2>1, Elements
<1>2. \A i \in 1..Len(body) : body[i].time \in Nat /\ body[i].lines \in L
  <2> HIDE DEF L
  <2> QED BY <1>1
<1>3. n \in Int /\ \A i \in 1..n : i \in 1..Len(body) /\ i + 1 \in 1..Len(body)
  BY <1>1
<1>4. DOMAIN t = 1..n /\ t = [i \in 1..n |-> t[i]]
  BY DEF DiskUtil
<1>5. \A i \in 1..Len(body) : DiskUse(body[i]) \in Int
  BY <1>2, DiskUseIs
<1>6. ASSUME NEW i \in 1..n
      PROVE  /\ t[i] \in [time : Nat, load : Int] /\ t[i].time = body[i + 1].time
             /\ t[i].load \in 0..100
  <2> DEFINE dt == body[i + 1].time - body[i].time
             use == DiskUse(body[i + 1]) - DiskUse(body[i])
             util == IF dt = 0 THEN -(10 * use) \div cpus ELSE (10 * use) \div (dt * cpus)
             low == Min({100, util})
             load == Max({0, low})
  <2>1. t[i] = [time |-> body[i + 1].time, load |-> load]
    BY DEF DiskUtil
  <2>2. body[i + 1].time \in Nat /\ body[i].time \in Nat /\ use \in Int
    <3>1. i \in 1..Len(body) /\ i + 1 \in 1..Len(body)
      BY <1>3
    <3>2. /\ body[i].time \in Nat /\ body[i + 1].time \in Nat
          /\ DiskUse(body[i]) \in Int /\ DiskUse(body[i + 1]) \in Int
      BY <3>1, <1>2, <1>5
    <3> QED BY <3>2
  <2>3. dt \in Nat
    <3>1. body[i].time <= body[i + 1].time
      <4>1. i \in 1..Len(body) /\ i + 1 \in 1..Len(body) /\ i <= i + 1
        BY <1>3
      <4> QED BY <4>1 DEF Ordered
    <3> DEFINE p == body[i].time
               q == body[i + 1].time
    <3>2. p \in Nat /\ q \in Nat /\ p <= q /\ dt = q - p
      BY <3>1, <2>2
    <3> HIDE DEF p, q, dt
    <3> QED BY <3>2
  <2> HIDE DEF dt, use
  <2>4. util \in Int
    <3>1. 10 * use \in Int
      BY <2>2
    <3> DEFINE u == 10 * use
    <3> HIDE DEF u
    <3>2. CASE dt = 0
      <4>1. \A k \in Int : k \div cpus \in Int
        OBVIOUS
      <4>2. u \div cpus \in Int
        BY <4>1, <3>1 DEF u
      <4>3. -u \in Int /\ -u \div cpus \in Int
        BY <4>1, <4>2, <3>1 DEF u
      <4>4. util = -u \div cpus
        BY <3>2 DEF u
      <4> QED BY <4>3, <4>4
    <3>3. CASE dt # 0
      <4>1. dt >= 1
        BY <2>3, <3>3
      <4>2. dt * cpus \in Nat \ {0}
        <5>1. cpus \in Nat /\ cpus >= 1
          OBVIOUS
        <5> QED BY <4>1, <2>3, <5>1, Positive
      <4> DEFINE d == dt * cpus
      <4> HIDE DEF d
      <4>3. \A k \in Int : k \div d \in Int
        BY <4>2 DEF d
      <4>4. u \div d \in Int
        BY <4>3, <3>1 DEF u
      <4>5. util = u \div d
        BY <3>3 DEF u, d
      <4> QED BY <4>4, <4>5
    <3> QED BY <3>2, <3>3
  <2> HIDE DEF util
  <2>5. low \in Int /\ low <= 100
    <3>1. 100 \in Int
      OBVIOUS
    <3>2. low \in {100, util} /\ low <= 100
      BY <3>1, <2>4, TwoNumbers, Zenon
    <3> QED BY <3>2, <2>4
  <2> HIDE DEF low
  <2>6. load \in 0..100
    <3>1. 0 \in Int
      OBVIOUS
    <3>2. load \in {0, low} /\ load >= 0
      BY <3>1, <2>5, TwoNumbers, Zenon
    <3> HIDE DEF load
    <3> QED BY <3>2, <2>5
  <2> HIDE DEF load
  <2> QED BY <2>1, <2>2, <2>6
<1>7. \A i, k \in 1..n : i <= k => body[i + 1].time <= body[k + 1].time
  BY <1>3 DEF Ordered
<1>8. /\ \A i \in 1..n : t[i] \in [time : Nat, load : Int]
      /\ \A i, k \in 1..n : i <= k => t[i].time <= t[k].time
  BY <1>6, <1>7
<1> HIDE DEF t, n
<1>9. Loads(t) /\ DOMAIN t = 1..Len(t)
  BY <1>3, <1>4, <1>8, LoadsMade
<1> QED BY <1>4, <1>6, <1>9 DEF t

(* ------------------------------------------------------------------------ *)
(* Parents, command lines and the kernel's log                              *)

(* The map of parents: finitely many pids, the parents natural, 0 its own.  *)
ParentMap(m) ==
  /\ IsFiniteSet(DOMAIN m)
  /\ \A p \in DOMAIN m : m[p] \in Nat
  /\ 0 \in DOMAIN m => m[0] = 0

(* The last line about a child says who its parent is.                      *)
LEMMA ParentsIs ==
  ASSUME NEW body \in Seq([child : Nat \ {0}, parent : Nat])
  PROVE  ParentMap(Parents(body))
<1> DEFINE S == [child : Nat \ {0}, parent : Nat]
           n == Len(body)
           lines(p) == {i \in 1..n : body[i].child = p}
           D == {0} \cup {l.child : l \in ToSet(body)}
           m == Parents(body)
<1>1. /\ n \in Nat
      /\ \A i \in 1..n : body[i].child \in Nat \ {0} /\ body[i].parent \in Nat
      /\ \A i \in 1..n : body[i] \in ToSet(body)
      /\ \A e \in ToSet(body) : \E i \in 1..n : body[i] = e
  <2>1. body \in Seq(S) /\ \A e \in S : e.child \in Nat \ {0} /\ e.parent \in Nat
    OBVIOUS
  <2> HIDE DEF S
  <2> QED BY <2>1, Elements
<1>2. DOMAIN m = D /\ \A p \in D : m[p] = IF lines(p) = {} THEN 0 ELSE body[Max(lines(p))].parent
  BY DEF Parents
<1>3. IsFiniteSet(D)
  <2> DEFINE f == [i \in 0..n |-> IF i = 0 THEN 0 ELSE body[i].child]
  <2>1. \A i \in 0..n : f[i] \in D
    BY <1>1
  <2>2. ASSUME NEW p \in D PROVE \E i \in 0..n : f[i] = p
    <3>1. CASE p = 0
      <4>1. 0 \in 0..n /\ f[0] = 0
        BY <1>1
      <4> QED BY <3>1, <4>1
    <3>2. CASE p # 0
      <4>1. PICK l \in ToSet(body) : l.child = p
        BY <3>2
      <4>2. PICK i \in 1..n : body[i] = l
        BY <1>1
      <4>3. i \in 0..n /\ f[i] = body[i].child
        BY <1>1
      <4> QED BY <4>1, <4>2, <4>3
    <3> QED BY <3>1, <3>2
  <2>3. f \in [0..n -> D]
    BY <2>1
  <2> HIDE DEF f, D, n
  <2>4. f \in Surjection(0..n, D)
    BY <2>2, <2>3 DEF Surjection
  <2>5. IsFiniteSet(0..n)
    BY <1>1, FS_Interval
  <2> QED BY <2>4, <2>5, FS_Surjection
<1>4. ASSUME NEW p \in D PROVE m[p] \in Nat
  <2>1. CASE lines(p) = {}
    <3>1. m[p] = 0
      BY <1>2, <2>1
    <3> HIDE DEF m
    <3> QED BY <3>1
  <2>2. CASE lines(p) # {}
    <3>1. lines(p) \subseteq 0..n
      OBVIOUS
    <3>2. Max(lines(p)) \in lines(p)
      <4> HIDE DEF lines, n
      <4> QED BY <2>2, <3>1, <1>1, LastIs
    <3>3. m[p] = body[Max(lines(p))].parent
      BY <1>2, <2>2
    <3> QED BY <3>2, <3>3, <1>1
  <2> QED BY <2>1, <2>2
<1>5. lines(0) = {} /\ 0 \in D
  BY <1>1
<1>6. m[0] = 0
  BY <1>2, <1>5
<1> HIDE DEF m, D, lines
<1> QED BY <1>2, <1>3, <1>4, <1>6 DEF ParentMap, m

(* Command lines. *)
LEMMA CmdlinesIs ==
  ASSUME NEW body \in Seq([pid : Nat, exe : Word])
  PROVE  \A p \in DOMAIN Cmdlines(body) : Cmdlines(body)[p] \in Text
<1> DEFINE S == [pid : Nat, exe : Word]
           n == Len(body)
           lines(p) == {i \in 1..n : body[i].pid = p}
           D == {l.pid : l \in ToSet(body)}
           m == Cmdlines(body)
<1>1. /\ n \in Nat
      /\ \A i \in 1..n : body[i].exe \in Word
      /\ \A e \in ToSet(body) : \E i \in 1..n : body[i] = e
  <2>1. body \in Seq(S) /\ \A e \in S : e.exe \in Word
    OBVIOUS
  <2> HIDE DEF S
  <2> QED BY <2>1, Elements
<1>2. DOMAIN m = D /\ \A p \in D : m[p] = body[Max(lines(p))].exe
  BY DEF Cmdlines
<1>3. ASSUME NEW p \in D PROVE m[p] \in Word
  <2>1. lines(p) # {}
    <3>1. PICK l \in ToSet(body) : l.pid = p
      BY <1>3
    <3>2. PICK i \in 1..n : body[i] = l
      BY <1>1
    <3> QED BY <3>1, <3>2
  <2>2. lines(p) \subseteq 0..n
    OBVIOUS
  <2>3. Max(lines(p)) \in lines(p)
    <3> HIDE DEF lines, n
    <3> QED BY <2>1, <2>2, <1>1, LastIs
  <2>4. Max(lines(p)) \in 1..n
    BY <2>3
  <2> QED BY <2>4, <1>1, <1>2
<1> HIDE DEF m, D
<1> QED BY <1>2, <1>3 DEF Text, m

(* What has been read of the kernel's log up to a line of time now.         *)
KernelAt(s, now) ==
  /\ s = [max |-> s.max, base |-> s.base, boot |-> s.boot, procs |-> s.procs]
  /\ s.max \in Nat /\ s.base \in Nat /\ s.base <= now
  /\ \A f \in DOMAIN s.procs :
       /\ s.procs[f] = [start |-> s.procs[f].start, duration |-> s.procs[f].duration]
       /\ s.procs[f].start \in Nat /\ s.procs[f].duration \in Nat
       /\ s.base + s.procs[f].start <= now
       /\ s.max = 0 => s.procs[f].start = 0

(* A line not earlier than the one before keeps that so: the base is moved  *)
(* only while all calls have begun at 0.                                    *)
LEMMA KernelLine ==
  ASSUME NEW s, NEW now \in Nat, KernelAt(s, now), NEW l, l.time \in Nat, now <= l.time
  PROVE  KernelAt(DmesgLine(s, l), l.time)
<1> DEFINE t == DmesgLine(s, l)
           at == l.time
           time == at - s.base
           m == Max({at, s.max})
           seen == [s EXCEPT !.max = m]
<1>1. /\ s = [max |-> s.max, base |-> s.base, boot |-> s.boot, procs |-> s.procs]
      /\ s.max \in Nat /\ s.base \in Nat /\ s.base <= now
  BY DEF KernelAt
<1>2. ASSUME NEW f \in DOMAIN s.procs
      PROVE  /\ s.procs[f] = [start |-> s.procs[f].start, duration |-> s.procs[f].duration]
             /\ s.procs[f].start \in Nat /\ s.procs[f].duration \in Nat
             /\ s.base + s.procs[f].start <= now
             /\ s.max = 0 => s.procs[f].start = 0
  BY DEF KernelAt
<1>3. at \in Nat /\ now <= at
  OBVIOUS
<1>4. CASE s.max = 0 /\ s.base = 0 /\ at > 100
  <2>1. t = [s EXCEPT !.base = at]
    BY <1>4 DEF DmesgLine
  <2> HIDE DEF t, at
  <2>2. t = [max |-> s.max, base |-> at, boot |-> s.boot, procs |-> s.procs]
    BY <2>1, <1>1
  <2>3. /\ t.max = 0 /\ t.base = at /\ t.procs = s.procs /\ t.boot = s.boot
        /\ t = [max |-> t.max, base |-> t.base, boot |-> t.boot, procs |-> t.procs]
    BY <2>2, <1>4
  <2>4. ASSUME NEW f \in DOMAIN t.procs
        PROVE  /\ t.procs[f] = [start |-> t.procs[f].start, duration |-> t.procs[f].duration]
               /\ t.procs[f].start \in Nat /\ t.procs[f].duration \in Nat
               /\ t.base + t.procs[f].start <= at
               /\ t.procs[f].start = 0
    BY <2>3, <2>4, <1>2, <1>3, <1>4
  <2> HIDE DEF KernelAt
  <2>5. KernelAt(t, at)
    BY <2>3, <2>4, <1>3 DEF KernelAt
  <2> QED BY <2>5 DEF t, at
<1>5. CASE ~ (s.max = 0 /\ s.base = 0 /\ at > 100)
  <2> DEFINE call == [start |-> time, duration |-> 0]
             old == s.procs[l.func]
             ended == [old EXCEPT !.duration = time - old.start]
  <2>1. t = CASE l.kind = "freeing" -> [seen EXCEPT !.boot = time]
              [] l.kind = "calling" -> [seen EXCEPT !.procs = Put(@, l.func, call)]
              [] l.kind = "initcall" /\ l.func \in DOMAIN s.procs ->
                   [seen EXCEPT !.procs[l.func].duration = time - s.procs[l.func].start]
              [] OTHER -> seen
    BY <1>5, Zenon DEF DmesgLine
  <2>2. m \in Nat /\ (m = 0 => at = 0) /\ m >= s.max
    <3>1. s.max \in Int /\ at \in Int
      BY <1>1, <1>3
    <3>2. m \in {at, s.max} /\ m >= at /\ m >= s.max
      BY <3>1, TwoNumbers, Zenon
    <3> HIDE DEF m, at
    <3> QED BY <3>2, <1>1, <1>3
  <2> HIDE DEF m
  <2>3. seen = [max |-> m, base |-> s.base, boot |-> s.boot, procs |-> s.procs]
    BY <1>1
  <2>4. time \in Nat /\ s.base + time = at /\ s.base <= at
    <3> HIDE DEF at
    <3> QED BY <1>1, <1>3
  <2>5. m = 0 => time = 0
    <3> HIDE DEF at
    <3> QED BY <2>2, <2>4, <1>1
  <2> HIDE DEF time, seen, t
  <2>6. /\ t = [max |-> m, base |-> s.base, boot |-> t.boot, procs |-> t.procs]
        /\ \/ t.procs = s.procs
           \/ t.procs = Put(s.procs, l.func, call)
           \/ l.func \in DOMAIN s.procs /\ t.procs = [s.procs EXCEPT ![l.func] = ended]
    <3> HIDE DEF call
    <3>1. CASE l.kind = "freeing"
      <4>1. t = [seen EXCEPT !.boot = time]
        BY <3>1, <2>1, Zenon
      <4> QED BY <4>1, <2>3
    <3>2. CASE l.kind # "freeing" /\ l.kind = "calling"
      <4>1. t = [seen EXCEPT !.procs = Put(@, l.func, call)]
        BY <3>2, <2>1
      <4> QED BY <4>1, <2>3
    <3>3. CASE l.kind # "freeing" /\ l.kind # "calling"
      <4>1. CASE l.kind = "initcall" /\ l.func \in DOMAIN s.procs
        <5>1. t = [seen EXCEPT !.procs[l.func].duration = time - s.procs[l.func].start]
          BY <4>1, <3>3, <2>1
        <5> QED BY <5>1, <4>1, <2>3
      <4>2. CASE ~ (l.kind = "initcall" /\ l.func \in DOMAIN s.procs)
        <5>1. t = seen
          BY <4>2, <3>3, <2>1
        <5> QED BY <5>1, <2>3
      <4> QED BY <4>1, <4>2
    <3> QED BY <3>1, <3>2, <3>3
  <2>7. ASSUME NEW f \in DOMAIN t.procs
        PROVE  /\ t.procs[f] = [start |-> t.procs[f].start, duration |-> t.procs[f].duration]
               /\ t.procs[f].start \in Nat /\ t.procs[f].duration \in Nat
               /\ s.base + t.procs[f].start <= at
               /\ m = 0 => t.procs[f].start = 0
    <3> HIDE DEF at, old
    <3>1. ASSUME NEW g \in DOMAIN s.procs
          PROVE  /\ s.base + s.procs[g].start <= at /\ s.procs[g].start <= time
                 /\ m = 0 => s.procs[g].start = 0
      <4>1. s.max = 0 => s.procs[g].start = 0
        BY <1>2
      <4>2. s.procs[g].start \in Nat /\ s.base + s.procs[g].start <= now
        BY <1>2
      <4> DEFINE b == s.procs[g].start
      <4> HIDE DEF b
      <4>3. s.base + b <= at /\ b <= time
        BY <4>2, <2>4, <1>1, <1>3 DEF b
      <4>4. m = 0 => b = 0
        BY <4>1, <2>2, <1>1 DEF b
      <4> QED BY <4>3, <4>4 DEF b
    <3>2. CASE t.procs = s.procs
      BY <3>1, <3>2, <2>7, <1>2
    <3>3. CASE t.procs = Put(s.procs, l.func, call)
      <4>1. f = l.func \/ f \in DOMAIN s.procs
        BY <3>3, <2>7, PutIs
      <4>2. t.procs[f] = IF f = l.func THEN call ELSE s.procs[f]
        BY <3>3, <2>7, PutIs
      <4>3. CASE f = l.func
        <5>1. t.procs[f] = call
          BY <4>2, <4>3
        <5>2. call.start = time /\ call.duration = 0 /\ call = [start |-> call.start, duration |-> call.duration]
          OBVIOUS
        <5> HIDE DEF call
        <5>3. /\ t.procs[f].start = time /\ t.procs[f].duration = 0
              /\ t.procs[f] = [start |-> t.procs[f].start, duration |-> t.procs[f].duration]
          BY <5>1, <5>2
        <5>4. s.base + time <= at /\ time \in Nat /\ 0 \in Nat
          BY <2>4, <1>1, <1>3
        <5> QED BY <5>3, <5>4, <2>5
      <4>4. CASE f # l.func
        BY <4>1, <4>2, <4>4, <3>1, <1>2
      <4> QED BY <4>3, <4>4
    <3>4. CASE l.func \in DOMAIN s.procs /\ t.procs = [s.procs EXCEPT ![l.func] = ended]
      <4>1. f \in DOMAIN s.procs /\ t.procs[f] = IF f = l.func THEN ended ELSE s.procs[f]
        BY <3>4, <2>7
      <4>2. CASE f # l.func
        BY <4>1, <4>2, <3>1, <1>2
      <4>3. CASE f = l.func
        <5>1. old = s.procs[f]
          BY <4>3 DEF old
        <5>2. /\ old = [start |-> old.start, duration |-> old.duration]
              /\ old.start \in Nat /\ s.base + old.start <= at /\ old.start <= time
              /\ m = 0 => old.start = 0
          BY <5>1, <4>1, <3>1, <1>2
        <5>3. ended = [start |-> old.start, duration |-> time - old.start]
          BY <5>2
        <5>4. time - old.start \in Nat
          BY <5>2, <2>4
        <5>5. t.procs[f] = ended
          BY <4>1, <4>3
        <5> HIDE DEF ended
        <5> QED BY <5>2, <5>3, <5>4, <5>5
      <4> QED BY <4>2, <4>3
    <3> QED BY <3>2, <3>3, <3>4, <2>6
  <2>8. t.max = m /\ t.base = s.base
        /\ t = [max |-> t.max, base |-> t.base, boot |-> t.boot, procs |-> t.procs]
    BY <2>6
  <2> HIDE DEF at
  <2>9. KernelAt(t, at)
    BY <2>2, <2>4, <2>7, <2>8, <1>1 DEF KernelAt
  <2> QED BY <2>9 DEF t, at
<1> QED BY <1>4, <1>5

(* What Dmesg reads, as a function defined by its equation; there is one.   *)
Kernels(body, m, read) ==
  read = [n \in 0..m |-> IF n = 0 THEN [max |-> 0, base |-> 0, boot |-> 0, procs |-> <<>>]
                         ELSE DmesgLine(read[n - 1], body[n])]

(* One line more is read after those before it.                             *)
LEMMA KernelFrom ==
  ASSUME NEW body, NEW m \in Nat
  PROVE  \E read : Kernels(body, m, read)
<1> DEFINE R(n, f) == Kernels(body, n, f)
           first == [max |-> 0, base |-> 0, boot |-> 0, procs |-> <<>>]
           Next1(s, n) == DmesgLine(s, body[n])
           Bad == {n \in Nat : \A f : ~ R(n, f)}
<1>1. \A n, f : R(n, f) <=> f = [i \in 0..n |-> IF i = 0 THEN first ELSE Next1(f[i - 1], i)]
  BY DEF Kernels
<1> HIDE DEF R, Next1, first
<1> SUFFICES Bad = {}
  BY DEF R
<1> SUFFICES ASSUME Bad # {} PROVE FALSE
  OBVIOUS
<1>2. PICK k \in Bad : \A j \in Bad : k <= j
  <2>1. Bad \subseteq Nat
    OBVIOUS
  <2> HIDE DEF Bad
  <2> QED BY <2>1, LeastNatural
<1>3. k # 0
  <2> DEFINE one == [i \in 0..0 |-> first]
  <2>1. one = [i \in 0..0 |-> IF i = 0 THEN first ELSE Next1(one[i - 1], i)]
    OBVIOUS
  <2> HIDE DEF one
  <2> QED BY <2>1, <1>1, <1>2
<1>4. PICK f : R(k - 1, f)
  <2>1. k - 1 \in Nat /\ ~ (k <= k - 1)
    BY <1>3
  <2>2. k - 1 \notin Bad
    BY <1>2, <2>1
  <2> QED BY <2>1, <2>2
<1>5. \A i \in 0..k - 1 : f[i] = IF i = 0 THEN first ELSE Next1(f[i - 1], i)
  <2>1. f = [i \in 0..k - 1 |-> IF i = 0 THEN first ELSE Next1(f[i - 1], i)]
    BY <1>1, <1>4
  <2> QED BY <2>1
<1> DEFINE more == [i \in 0..k |-> IF i = k THEN Next1(f[k - 1], k) ELSE f[i]]
<1>6. ASSUME NEW i \in 0..k
      PROVE  more[i] = IF i = 0 THEN first ELSE Next1(more[i - 1], i)
  <2>1. CASE i = k
    <3>1. k - 1 \in 0..k /\ k - 1 # k
      BY <1>3
    <3>2. more[i] = Next1(f[k - 1], k) /\ more[k - 1] = f[k - 1]
      BY <2>1, <3>1
    <3> HIDE DEF more
    <3> QED BY <2>1, <3>2, <1>3
  <2>2. CASE i # k
    <3>1. i \in 0..k - 1 /\ more[i] = f[i]
      BY <2>2
    <3>2. i # 0 => i - 1 \in 0..k /\ i - 1 # k
      BY <2>2
    <3>3. i # 0 => more[i - 1] = f[i - 1]
      BY <3>2
    <3> HIDE DEF more
    <3> QED BY <3>1, <3>3, <1>5
  <2> QED BY <2>1, <2>2
<1>7. more = [i \in 0..k |-> IF i = 0 THEN first ELSE Next1(more[i - 1], i)]
  <2>1. more = [i \in 0..k |-> more[i]]
    OBVIOUS
  <2> HIDE DEF more
  <2> QED BY <2>1, <1>6
<1> QED
  <2> HIDE DEF more
  <2>1. R(k, more)
    BY <1>1, <1>7
  <2> QED BY <2>1, <1>2

(* All of the kernel's log has been read at some time.                      *)
LEMMA DmesgIs ==
  ASSUME NEW body, Len(body) \in Nat, \A i \in 1..Len(body) : body[i].time \in Nat,
         Ordered(body)
  PROVE  \E now \in Nat : KernelAt(Dmesg(body), now)
<1> DEFINE m == Len(body)
           read == CHOOSE f : Kernels(body, m, f)
           now(n) == IF n = 0 THEN 0 ELSE body[n].time
           Bad == {n \in 0..m : ~ KernelAt(read[n], now(n))}
<1>1. m \in Nat /\ \A n \in 0..m : now(n) \in Nat
  OBVIOUS
<1>2. \A n \in 1..m : now(n - 1) <= body[n].time
  <2> SUFFICES ASSUME NEW n \in 1..m PROVE now(n - 1) <= body[n].time
    OBVIOUS
  <2>1. CASE n = 1
    <3>1. now(n - 1) = 0 /\ body[n].time \in Nat
      BY <2>1
    <3> HIDE DEF now
    <3> QED BY <3>1
  <2>2. CASE n # 1
    <3>1. n - 1 \in 1..m /\ n - 1 <= n /\ n - 1 # 0
      BY <2>2
    <3>2. body[n - 1].time <= body[n].time
      BY <3>1 DEF Ordered
    <3> QED BY <3>1, <3>2
  <2> QED BY <2>1, <2>2
<1>3. Dmesg(body) = read[m]
  BY DEF Dmesg, Kernels
<1>4. Kernels(body, m, read)
  <2>1. \E f : Kernels(body, m, f)
    BY <1>1, KernelFrom
  <2> QED BY <2>1
<1> HIDE DEF read, m
<1>5. \A n \in 0..m :
        read[n] = IF n = 0 THEN [max |-> 0, base |-> 0, boot |-> 0, procs |-> <<>>]
                  ELSE DmesgLine(read[n - 1], body[n])
  <2>1. read = [n \in 0..m |-> IF n = 0 THEN [max |-> 0, base |-> 0, boot |-> 0, procs |-> <<>>]
                               ELSE DmesgLine(read[n - 1], body[n])]
    BY <1>4 DEF Kernels
  <2> QED BY <2>1
<1>6. Bad = {}
  <2> SUFFICES ASSUME Bad # {} PROVE FALSE
    OBVIOUS
  <2>1. PICK n \in Bad : \A j \in Bad : n <= j
    <3>1. Bad \subseteq Nat
      BY <1>1
    <3> HIDE DEF Bad
    <3> QED BY <3>1, LeastNatural
  <2>2. n # 0
    <3>1. read[0] = [max |-> 0, base |-> 0, boot |-> 0, procs |-> <<>>]
      BY <1>1, <1>5
    <3>2. KernelAt(read[0], 0)
      <4>1. KernelAt([max |-> 0, base |-> 0, boot |-> 0, procs |-> <<>>], 0)
        BY DEF KernelAt
      <4> QED BY <4>1, <3>1
    <3>3. now(0) = 0
      OBVIOUS
    <3> QED BY <2>1, <3>2, <3>3
  <2>3. n \in 1..m /\ n - 1 \in 0..m /\ ~ (n <= n - 1) /\ n \in 0..m
    BY <2>1, <2>2, <1>1
  <2> HIDE DEF now
  <2>4. KernelAt(read[n - 1], now(n - 1))
    BY <2>1, <2>3
  <2>5. read[n] = DmesgLine(read[n - 1], body[n])
    BY <2>2, <2>3, <1>5
  <2>6. now(n - 1) \in Nat /\ body[n].time \in Nat /\ now(n - 1) <= body[n].time
        /\ now(n) = body[n].time
    BY <2>2, <2>3, <1>1, <1>2 DEF m, now
  <2>7. KernelAt(DmesgLine(read[n - 1], body[n]), body[n].time)
    BY <2>4, <2>6, KernelLine
  <2> QED BY <2>1, <2>5, <2>6, <2>7
<1>7. m \in 0..m
  BY <1>1
<1>8. KernelAt(read[m], now(m)) /\ now(m) \in Nat
  <2> HIDE DEF now
  <2> QED BY <1>1, <1>6, <1>7
<1> QED BY <1>3, <1>8

(* What is left when what comes after t is popped.                          *)
LEMMA PopAfterIs ==
  ASSUME NEW S, NEW s \in Seq(S), NEW t \in Int, \A i \in 1..Len(s) : s[i].time \in Nat,
         Ordered(s)
  PROVE  /\ PopAfter(s, t) \in Seq(S) /\ Len(PopAfter(s, t)) \in 0..Len(s)
         /\ Ordered(PopAfter(s, t))
         /\ \A i \in 1..Len(PopAfter(s, t)) : PopAfter(s, t)[i] = s[i] /\ s[i].time <= t
         /\ \A i \in 1..Len(s) : s[i].time <= t => i <= Len(PopAfter(s, t))
<1> DEFINE n == Len(s)
           C == {0} \cup {i \in 1..n : s[i].time <= t}
           m == Max(C)
           r == PopAfter(s, t)
<1>1. n \in Nat /\ \A i \in 1..n : s[i] \in S
  BY Elements
<1>2. m \in C /\ \A i \in C : m >= i
  <2>1. C \subseteq 0..n /\ C # {}
    BY <1>1
  <2> HIDE DEF C, n
  <2> QED BY <2>1, <1>1, LastIs
<1>3. r = SubSeq(s, 1, m)
  BY DEF PopAfter
<1>4. m \in 0..n /\ (m = 0 \/ (s[m].time <= t /\ m \in 1..n))
  <2> DEFINE k == m
  <2>1. k \in C
    BY <1>2
  <2> HIDE DEF k
  <2>2. k \in 0..n /\ (k = 0 \/ (s[k].time <= t /\ k \in 1..n))
    BY <2>1, <1>1
  <2> QED BY <2>2 DEF k
<1>5. \A i \in 1..n : s[i].time <= t => i <= m
  BY <1>2
<1> HIDE DEF m, C, r
<1>6. /\ r \in Seq(S) /\ Len(r) = IF 1 <= m THEN m - 1 + 1 ELSE 0
      /\ \A i \in 1..m - 1 + 1 : r[i] = s[1 + i - 1]
  <2>1. 1 \in Int /\ m \in Int /\ \A i \in 1..m : s[i] \in S
    BY <1>1, <1>4
  <2> QED BY <2>1, <1>3, SubSeqProperties
<1>7. Len(r) = m /\ \A i \in 1..m : r[i] = s[i]
  BY <1>4, <1>6
<1>8. ASSUME NEW i \in 1..m PROVE s[i].time <= t
  <2>1. i \in 1..n /\ m \in 1..n /\ i <= m /\ s[m].time <= t
    BY <1>4
  <2>2. s[i].time <= s[m].time
    BY <2>1 DEF Ordered
  <2>3. s[i].time \in Nat /\ s[m].time \in Nat
    BY <2>1
  <2> DEFINE a == s[i].time
             b == s[m].time
  <2>4. a <= b /\ b <= t /\ a \in Nat /\ b \in Nat
    BY <2>1, <2>2, <2>3
  <2> HIDE DEF a, b
  <2>5. a <= t
    BY <2>4
  <2> QED BY <2>5 DEF a
<1>9. Ordered(r)
  <2> SUFFICES ASSUME NEW i \in 1..m, NEW k \in 1..m, i <= k PROVE s[i].time <= s[k].time
    BY <1>7 DEF Ordered
  <2>1. i \in 1..n /\ k \in 1..n
    BY <1>4
  <2> QED BY <2>1 DEF Ordered
<1> QED BY <1>4, <1>5, <1>6, <1>7, <1>8, <1>9 DEF r, n

(* The statistics of an entry. *)
LEMMA StatsEntry ==
  ASSUME NEW k, NEW now \in Nat, NEW p, EntryAt(k, p, now), NEW ps, NEW period \in Int
  PROVE  LET q == CalcStats(SetParent(p, ps), period)
         IN  EntryAt(k, q, now) /\ q.ppid = p.ppid /\ q.pid = p.pid
<1> DEFINE a == SetParent(p, ps)
           q == CalcStats(a, period)
           n == Len(a.samples)
           first == Min({a.samples[1].time, a.start})
           busy == Quantify(1..n, LAMBDA i : a.samples[i].cpu + a.samples[i].io > 0)
           wait == Quantify(1..n, LAMBDA i : a.samples[i].state = "D")
           start == IF n = 0 THEN a.start ELSE first
           duration == IF n = 0 THEN a.duration ELSE a.samples[n].time - first + period
           active == busy + wait > 2
<1>1. p \in Process /\ p.pid \in {k, 1} /\ Ordered(p.samples)
      /\ \A i \in 1..Len(p.samples) : p.samples[i].time <= now
  BY DEF EntryAt
<1>2. a \in Process /\ a.samples = p.samples /\ a.pid = p.pid /\ a.ppid = p.ppid
  <2> DEFINE parent == IF p.ppid \in DOMAIN ps THEN p.ppid ELSE NoParent
  <2>1. a = [p EXCEPT !.parent = parent]
    BY DEF SetParent
  <2>2. parent \in Int
    BY <1>1 DEF Process, NoParent
  <2> HIDE DEF parent, a
  <2> QED BY <1>1, <2>1, <2>2 DEF Process
<1>3. q = [a EXCEPT !.start = start, !.duration = duration, !.active = active]
  BY Zenon DEF CalcStats
<1>4. a.samples \in Samples /\ a.start \in Nat /\ a.duration \in Int
  BY <1>2 DEF Process
<1> HIDE DEF a, q
<1>5. n \in Nat /\ \A i \in 1..n : a.samples[i].time \in Nat
  BY <1>4, SampleTimes
<1>6. start \in Nat /\ duration \in Int
  <2>1. CASE n = 0
    BY <2>1, <1>4
  <2>2. CASE n # 0
    <3> DEFINE x == a.samples[1].time
               y == a.samples[n].time
               z == a.start
    <3>1. 1 \in 1..n /\ n \in 1..n
      BY <1>5, <2>2
    <3>2. x \in Nat /\ y \in Nat /\ z \in Nat
      BY <1>4, <1>5, <3>1
    <3>3. first = Min({x, z})
      OBVIOUS
    <3>4. start = first /\ duration = y - first + period
      BY <2>2
    <3> HIDE DEF x, y, z, first, start, duration
    <3>5. x \in Int /\ z \in Int
      BY <3>2
    <3>6. Min({x, z}) \in {x, z}
      BY <3>5, TwoNumbers, Zenon
    <3>7. first \in Nat
      BY <3>2, <3>3, <3>6
    <3> QED BY <3>2, <3>4, <3>7
  <2> QED BY <2>1, <2>2
<1>7. active \in BOOLEAN
  <2> HIDE DEF busy, wait
  <2> QED OBVIOUS
<1> HIDE DEF start, duration, active, n
<1>8. q \in Process /\ q.pid = a.pid /\ q.ppid = a.ppid /\ q.samples = a.samples
  BY <1>2, <1>3, <1>6, <1>7 DEF Process
<1>9. EntryAt(k, q, now)
  BY <1>1, <1>2, <1>8 DEF EntryAt
<1> QED BY <1>2, <1>8, <1>9 DEF q, a

(* What is left of an entry that is cut off at a time.                      *)
CutOff(q, p, t) ==
  /\ EndTime(q) <= t
  /\ \A s \in ToSet(q.samples) : s.time <= t
  /\ q.cmd = p.cmd /\ q.exe = p.exe /\ q.start = p.start

(* An entry cut off at a time is one.                                       *)
LEMMA CroppedEntry ==
  ASSUME NEW k, NEW now \in Nat, NEW p, EntryAt(k, p, now), NEW t \in Int
  PROVE  EntryAt(k, Cropped(p, t), now) /\ CutOff(Cropped(p, t), p, t)
<1> DEFINE S == [time : Nat, state : Text, cpu : Int, io : Int, swap : Int]
           s == p.samples
           r == PopAfter(s, t)
           d == Min({p.duration, t - p.start})
           q == Cropped(p, t)
<1>1. p \in Process /\ p.pid \in {k, 1} /\ Ordered(s)
      /\ \A i \in 1..Len(s) : s[i].time <= now
  BY DEF EntryAt
<1>2. s \in Samples /\ p.start \in Nat /\ p.duration \in Int
  BY <1>1 DEF Process
<1>3. s \in Seq(S) /\ \A i \in 1..Len(s) : s[i].time \in Nat
  BY <1>2, SampleTimes DEF Samples
<1>4. q = [p EXCEPT !.duration = d, !.samples = r]
  BY DEF Cropped
<1> HIDE DEF S, s, q, r
<1>5. /\ r \in Seq(S) /\ Len(r) \in 0..Len(s) /\ Ordered(r)
      /\ \A i \in 1..Len(r) : r[i] = s[i] /\ s[i].time <= t
  BY <1>1, <1>3, PopAfterIs DEF r
<1>6. \A i \in 1..Len(r) : i \in 1..Len(s)
  <2>1. Len(s) \in Nat
    BY <1>3, LenProperties
  <2> QED BY <2>1, <1>5
<1>7. d \in Int /\ d <= t - p.start
  <2> DEFINE a == p.duration
             b == t - p.start
  <2>1. a \in Int /\ b \in Int
    BY <1>2
  <2> HIDE DEF a, b
  <2>2. Min({a, b}) \in {a, b} /\ Min({a, b}) <= b
    BY <2>1, TwoNumbers, Zenon
  <2>3. Min({a, b}) \in Int
    BY <2>1, <2>2
  <2> QED BY <2>2, <2>3 DEF a, b
<1> HIDE DEF d
<1>8. r \in Samples
  BY <1>5 DEF Samples, S
<1>9. q \in Process /\ q.pid = p.pid /\ q.samples = r /\ q.duration = d /\ q.start = p.start
      /\ q.cmd = p.cmd /\ q.exe = p.exe
  BY <1>1, <1>4, <1>7, <1>8 DEF Process
<1>10. EntryAt(k, q, now)
  <2>1. \A i \in 1..Len(r) : r[i].time <= now
    BY <1>1, <1>5, <1>6
  <2> QED BY <2>1, <1>1, <1>5, <1>9 DEF EntryAt
<1>11. q.start + q.duration <= t
  BY <1>2, <1>7, <1>9
<1>12. \A e \in ToSet(r) : e.time <= t
  <2> SUFFICES ASSUME NEW e \in ToSet(r) PROVE e.time <= t
    OBVIOUS
  <2>1. PICK i \in 1..Len(r) : r[i] = e
    BY <1>5, Elements
  <2> QED BY <2>1, <1>5
<1>13. CutOff(q, p, t)
  BY <1>9, <1>11, <1>12 DEF CutOff, EndTime
<1> QED BY <1>10, <1>13 DEF q

(* ------------------------------------------------------------------------ *)
(* The invariant of the parser                                              *)

(* A trace whose fields are what they should be.                            *)
TraceOK(t) ==
  /\ t = [has |-> t.has, cpus |-> t.cpus, disk |-> t.disk, cpu |-> t.cpu, mem |-> t.mem,
          kernel |-> t.kernel, parents |-> t.parents, cmdlines |-> t.cmdlines,
          period |-> t.period, taskstats |-> t.taskstats]
  /\ t.cpus \in Nat \ {0} /\ t.period \in Int
  /\ Loads(t.cpu)
  /\ Loads(t.disk) /\ \A i \in 1..Len(t.disk) : t.disk[i].load \in 0..100
  /\ \E now \in Nat : KernelAt(t.kernel, now)
  /\ ParentMap(t.parents)
  /\ \A p \in DOMAIN t.cmdlines : t.cmdlines[p] \in Text

(* Where the parser is: within a process log only between two blocks of it, *)
(* and what it has read of it is as old as the block before.                *)
InLog ==
  /\ archive \in Archives /\ file \in 1..Len(archive) + 1 /\ block \in Nat \ {0}
  /\ block > 1 => /\ pc = "parse" /\ file <= Len(archive) /\ Name \in ProcessLogs
                  /\ block - 1 \in 1..Len(Body)
                  /\ ReadSoFar([procs |-> procs, rewrites |-> rewrites],
                               Body[block - 1].time)

(* Processes in search of a parent.                                         *)
Climbing ==
  /\ climb = [todo |-> climb.todo, pid |-> climb.pid]
  /\ climb.todo \subseteq DOMAIN procs
  /\ climb.todo # {} => pc = "reparent" /\ climb.pid \in Nat

(* What the parser has made at every moment: a trace and entries of the     *)
(* right form, samples up to the time of some block, and a search only      *)
(* while processes are given parents.                                       *)
TypeInv ==
  /\ pc \in {"parse", "failed", "cmdlines", "reparent", "crop", "annotate", "done"}
  /\ InLog
  /\ TraceOK(trace)
  /\ \E now \in Nat : Entries(procs, now)
  /\ Climbing
  /\ idle \in Nat \cup {NoTime}

(* It is stronger than TypeOK. *)
LEMMA TypeInvTypes == TypeInv => TypeOK
<1> SUFFICES ASSUME TypeInv PROVE TypeOK
  OBVIOUS
<1>1. /\ pc \in {"parse", "failed", "cmdlines", "reparent", "crop", "annotate", "done"}
      /\ file \in 1..Len(archive) + 1 /\ climb.todo \subseteq DOMAIN procs
      /\ idle \in Nat \cup {NoTime}
      /\ \A i \in 1..Len(trace.disk) : trace.disk[i].load \in 0..100
  BY DEF TypeInv, InLog, Climbing, TraceOK
<1>2. PICK now \in Nat : Entries(procs, now)
  BY DEF TypeInv
<1>3. ASSUME NEW k \in DOMAIN procs
      PROVE  /\ procs[k].pid \in {k, 1}
             /\ \A i \in 1..Len(procs[k].samples) : SampleOK(procs[k].samples[i])
  <2> DEFINE S == [time : Nat, state : Text, cpu : Int, io : Int, swap : Int]
             s == procs[k].samples
  <2>1. procs[k].pid \in {k, 1} /\ s \in Samples
    BY <1>2 DEF Entries, EntryAt, Process
  <2>2. \A x \in S : SampleOK(x)
    BY DEF SampleOK
  <2> HIDE DEF S
  <2>3. s \in Seq(S)
    BY <2>1 DEF Samples, S
  <2>4. \A i \in 1..Len(s) : SampleOK(s[i])
    <3> HIDE DEF s
    <3> QED BY <2>2, <2>3, Elements
  <2> QED BY <2>1, <2>4
<1> QED BY <1>1, <1>3 DEF TypeOK

(* What the logs of an archive say. *)
LEMMA LogIs ==
  ASSUME InLog, file <= Len(archive)
  PROVE  Written(archive[file]) /\ file \in Nat /\ Len(archive) \in Nat
<1>1. Len(archive) \in Nat /\ \A f \in 1..Len(archive) : Written(archive[f])
  BY ArchivesAssumption DEF InLog
<1>2. file \in 1..Len(archive) /\ file \in Nat
  BY <1>1 DEF InLog
<1> QED BY <1>1, <1>2

(* Initially. *)
LEMMA InitTypes == ASSUME Init PROVE TypeInv
<1>1. InLog
  <2>1. archive \in Archives /\ Len(archive) \in Nat /\ file = 1 /\ block = 1
    BY ArchivesAssumption DEF Init
  <2>2. file \in 1..Len(archive) + 1 /\ ~ (block > 1) /\ block \in Nat \ {0}
    BY <2>1
  <2> QED BY <2>1, <2>2 DEF InLog
<1>2. Loads(<<>>) /\ Len(<<>>) = 0
  BY DEF Loads, Ordered
<1>3. \E now \in Nat : KernelAt(Dmesg(<<>>), now)
  <2> DEFINE none == <<>>
  <2>1. Len(none) \in Nat /\ (\A i \in 1..Len(none) : none[i].time \in Nat) /\ Ordered(none)
    BY <1>2 DEF Ordered
  <2> HIDE DEF none
  <2>2. \E now \in Nat : KernelAt(Dmesg(none), now)
    BY <2>1, DmesgIs
  <2> QED BY <2>2 DEF none
<1>4. ParentMap(<<>>)
  <2>1. DOMAIN <<>> = {}
    OBVIOUS
  <2>2. IsFiniteSet({})
    BY FS_EmptySet
  <2> QED BY <2>1, <2>2 DEF ParentMap
<1>5. TraceOK(trace)
  <2>1. trace = [has |-> {}, cpus |-> 1, disk |-> <<>>, cpu |-> <<>>, mem |-> <<>>,
                 kernel |-> Dmesg(<<>>), parents |-> <<>>, cmdlines |-> <<>>,
                 period |-> 0, taskstats |-> FALSE]
    BY DEF Init
  <2> QED BY <1>2, <1>3, <1>4, <2>1 DEF TraceOK
<1>6. \E now \in Nat : Entries(procs, now)
  <2>1. procs = <<>> /\ DOMAIN procs = {}
    BY DEF Init
  <2>2. Entries(procs, 0)
    BY <2>1 DEF Entries
  <2> QED BY <2>2
<1>7. Climbing
  BY DEF Init, Climbing
<1>8. pc = "parse" /\ idle = NoTime
  BY DEF Init
<1> QED BY <1>1, <1>5, <1>6, <1>7, <1>8 DEF TypeInv

(* The end of a log, from what its parsing has made of the trace.           *)
LEMMA ParsedTypes ==
  ASSUME TypeInv, pc = "parse", file <= Len(archive), NEW t, TraceOK(t), NEW field, NEW ok,
         Parsed(t, field, ok), block' = 1, \E now \in Nat : Entries(procs', now)
  PROVE  TypeInv'
<1> DEFINE h == IF ok THEN t.has \cup {field} ELSE t.has \ {field}
<1>1. /\ trace' = [t EXCEPT !.has = h] /\ file' = file + 1
      /\ pc' = pc /\ archive' = archive /\ climb' = climb /\ idle' = idle
  BY DEF Parsed
<1> HIDE DEF h
<1>2. TraceOK(trace')
  <2>1. t = [has |-> t.has, cpus |-> t.cpus, disk |-> t.disk, cpu |-> t.cpu, mem |-> t.mem,
             kernel |-> t.kernel, parents |-> t.parents, cmdlines |-> t.cmdlines,
             period |-> t.period, taskstats |-> t.taskstats]
    BY DEF TraceOK
  <2>2. trace' = [has |-> h, cpus |-> t.cpus, disk |-> t.disk, cpu |-> t.cpu, mem |-> t.mem,
                  kernel |-> t.kernel, parents |-> t.parents, cmdlines |-> t.cmdlines,
                  period |-> t.period, taskstats |-> t.taskstats]
    BY <1>1, <2>1
  <2> DEFINE u == trace'
  <2>3. /\ u.has = h /\ u.cpus = t.cpus /\ u.disk = t.disk /\ u.cpu = t.cpu /\ u.mem = t.mem
        /\ u.kernel = t.kernel /\ u.parents = t.parents /\ u.cmdlines = t.cmdlines
        /\ u.period = t.period /\ u.taskstats = t.taskstats
        /\ u = [has |-> u.has, cpus |-> u.cpus, disk |-> u.disk, cpu |-> u.cpu, mem |-> u.mem,
                kernel |-> u.kernel, parents |-> u.parents, cmdlines |-> u.cmdlines,
                period |-> u.period, taskstats |-> u.taskstats]
    BY <2>2
  <2> HIDE DEF u
  <2>4. TraceOK(u)
    BY <2>3 DEF TraceOK
  <2> QED BY <2>4 DEF u
<1>3. InLog'
  <2>1. InLog /\ Len(archive) \in Nat /\ file \in Nat
    BY LogIs DEF TypeInv
  <2>2. archive' \in Archives /\ file' \in 1..Len(archive') + 1
    BY <2>1, <1>1 DEF InLog
  <2>3. block' \in Nat \ {0} /\ ~ (block' > 1)
    OBVIOUS
  <2> QED BY <2>2, <2>3 DEF InLog
<1>4. Climbing'
  BY <1>1 DEF TypeInv, Climbing
<1> QED BY <1>1, <1>2, <1>3, <1>4 DEF TypeInv

(* The logs that are parsed in one go: only a process log is left in between.*)
LEMMA WholeLog ==
  ASSUME TypeInv, NEW name, Reading(name), name \notin ProcessLogs, UntouchedProcs
  PROVE  /\ pc = "parse" /\ file <= Len(archive) /\ Name = name /\ Written(archive[file])
         /\ block' = 1 /\ \E now \in Nat : Entries(procs', now)
<1>1. pc = "parse" /\ file <= Len(archive) /\ Name = name
  BY DEF Reading
<1>2. block = 1
  <2>1. ~ (block > 1) /\ block \in Nat \ {0}
    BY <1>1 DEF TypeInv, InLog
  <2> QED BY <2>1
<1>3. Written(archive[file])
  BY <1>1, LogIs DEF TypeInv
<1>4. block' = 1 /\ procs' = procs
  BY <1>2 DEF UntouchedProcs
<1> QED BY <1>1, <1>3, <1>4 DEF TypeInv

(* Each of them sets a field.                                               *)
LEMMA HeaderTypes == ASSUME TypeInv, ReadHeader PROVE TypeInv'
<1> DEFINE c == Max({Body, 1})
           t == [trace EXCEPT !.cpus = c]
<1>1. Reading("header") /\ Parsed(t, "headers", TRUE) /\ UntouchedProcs
  BY DEF ReadHeader
<1>2. "header" \notin ProcessLogs
  BY DEF ProcessLogs
<1>3. /\ pc = "parse" /\ file <= Len(archive) /\ Name = "header" /\ Written(archive[file])
      /\ block' = 1 /\ \E now \in Nat : Entries(procs', now)
  BY <1>1, <1>2, WholeLog
<1>4. Body \in Nat
  BY <1>3 DEF Written, Name, Body
<1>5. c \in Nat \ {0}
  <2> DEFINE b == Body
  <2> HIDE DEF b
  <2>1. b \in Int /\ b \in Nat /\ 1 \in Int
    BY <1>4 DEF b
  <2>2. Max({b, 1}) \in {b, 1} /\ Max({b, 1}) >= 1
    BY <2>1, TwoNumbers, Zenon
  <2>3. Max({b, 1}) \in Nat \ {0}
    BY <2>1, <2>2
  <2> QED BY <2>3 DEF b
<1>6. TraceOK(t)
  <2> HIDE DEF c
  <2> QED BY <1>5 DEF TypeInv, TraceOK
<1> HIDE DEF t
<1> QED BY <1>1, <1>3, <1>6, ParsedTypes

(* The log of the disks: loads in order, of at most a hundred percent.      *)
LEMMA DiskStatsTypes == ASSUME TypeInv, ReadDiskStats PROVE TypeInv'
<1> DEFINE d == DiskUtil(Body, trace.cpus)
           t == [trace EXCEPT !.disk = d]
<1>1. Reading("proc_diskstats.log") /\ Parsed(t, "disk", TRUE) /\ UntouchedProcs
  BY DEF ReadDiskStats
<1>2. "proc_diskstats.log" \notin ProcessLogs
  BY DEF ProcessLogs
<1>3. /\ pc = "parse" /\ file <= Len(archive) /\ Name = "proc_diskstats.log"
      /\ Written(archive[file])
      /\ block' = 1 /\ \E now \in Nat : Entries(procs', now)
  BY <1>1, <1>2, WholeLog
<1>4. /\ Body \in Seq([time : Nat, lines : Seq([whole : BOOLEAN, use : Nat])])
      /\ Ordered(Body)
  BY <1>3 DEF Written, Name, Body
<1>5. Loads(d) /\ \A i \in 1..Len(d) : d[i].load \in 0..100
  <2>1. trace.cpus \in Nat \ {0}
    BY DEF TypeInv, TraceOK
  <2> QED BY <2>1, <1>4, DiskUtilIs
<1>6. TraceOK(t)
  <2> HIDE DEF d
  <2> QED BY <1>5 DEF TypeInv, TraceOK
<1> HIDE DEF t
<1> QED BY <1>1, <1>3, <1>6, ParsedTypes

(* The log of the processors: loads in order.                               *)
LEMMA StatTypes == ASSUME TypeInv, ReadStat PROVE TypeInv'
<1> DEFINE d == CpuLoads(Body)
           t == [trace EXCEPT !.cpu = d]
<1>1. Reading("proc_stat.log") /\ Parsed(t, "cpu", TRUE) /\ UntouchedProcs
  BY DEF ReadStat
<1>2. "proc_stat.log" \notin ProcessLogs
  BY DEF ProcessLogs
<1>3. /\ pc = "parse" /\ file <= Len(archive) /\ Name = "proc_stat.log"
      /\ Written(archive[file])
      /\ block' = 1 /\ \E now \in Nat : Entries(procs', now)
  BY <1>1, <1>2, WholeLog
<1>4. Body \in Seq([time : Nat, busy : Nat, rest : Nat]) /\ Ordered(Body)
  BY <1>3 DEF Written, Name, Body
<1>5. Loads(d)
  BY <1>4, CpuLoadsIs
<1>6. TraceOK(t)
  <2> HIDE DEF d
  <2> QED BY <1>5 DEF TypeInv, TraceOK
<1> HIDE DEF t
<1> QED BY <1>1, <1>3, <1>6, ParsedTypes

(* The log of the memory.                                                   *)
LEMMA MeminfoTypes == ASSUME TypeInv, ReadMeminfo PROVE TypeInv'
<1> DEFINE d == SelectSeq(Body, MemValid)
           t == [trace EXCEPT !.mem = d]
<1>1. Reading("proc_meminfo.log") /\ Parsed(t, "mem", TRUE) /\ UntouchedProcs
  BY DEF ReadMeminfo
<1>2. "proc_meminfo.log" \notin ProcessLogs
  BY DEF ProcessLogs
<1>3. /\ pc = "parse" /\ file <= Len(archive)
      /\ block' = 1 /\ \E now \in Nat : Entries(procs', now)
  BY <1>1, <1>2, WholeLog
<1>4. TraceOK(t)
  <2> HIDE DEF d
  <2> QED BY DEF TypeInv, TraceOK
<1> HIDE DEF t
<1> QED BY <1>1, <1>3, <1>4, ParsedTypes

(* The log of the kernel.                                                   *)
LEMMA DmesgTypes == ASSUME TypeInv, ReadDmesg PROVE TypeInv'
<1> DEFINE d == Dmesg(Body)
           t == [trace EXCEPT !.kernel = d]
           S == [time : Nat, kind : Word, func : Word]
<1>1. Reading("dmesg") /\ Parsed(t, "kernel", TRUE) /\ UntouchedProcs
  BY DEF ReadDmesg
<1>2. "dmesg" \notin ProcessLogs
  BY DEF ProcessLogs
<1>3. /\ pc = "parse" /\ file <= Len(archive) /\ Name = "dmesg" /\ Written(archive[file])
      /\ block' = 1 /\ \E now \in Nat : Entries(procs', now)
  BY <1>1, <1>2, WholeLog
<1>4. Body \in Seq(S) /\ Ordered(Body)
  BY <1>3 DEF Written, Name, Body
<1>5. \E now \in Nat : KernelAt(d, now)
  <2>1. \A x \in S : x.time \in Nat
    OBVIOUS
  <2> HIDE DEF S
  <2>2. Len(Body) \in Nat /\ \A i \in 1..Len(Body) : Body[i].time \in Nat
    BY <2>1, <1>4, Elements
  <2> QED BY <2>2, <1>4, DmesgIs
<1>6. TraceOK(t)
  <2> HIDE DEF d
  <2> QED BY <1>5 DEF TypeInv, TraceOK
<1> HIDE DEF t
<1> QED BY <1>1, <1>3, <1>6, ParsedTypes

(* The log of the parents.                                                  *)
LEMMA PaternityTypes == ASSUME TypeInv, ReadPaternity PROVE TypeInv'
<1> DEFINE d == Parents(Body)
           t == [trace EXCEPT !.parents = d]
<1>1. Reading("paternity.log") /\ Parsed(t, "parents", TRUE) /\ UntouchedProcs
  BY DEF ReadPaternity
<1>2. "paternity.log" \notin ProcessLogs
  BY DEF ProcessLogs
<1>3. /\ pc = "parse" /\ file <= Len(archive) /\ Name = "paternity.log"
      /\ Written(archive[file])
      /\ block' = 1 /\ \E now \in Nat : Entries(procs', now)
  BY <1>1, <1>2, WholeLog
<1>4. Body \in Seq([child : Nat \ {0}, parent : Nat])
  BY <1>3 DEF Written, Name, Body
<1>5. ParentMap(d)
  BY <1>4, ParentsIs
<1>6. TraceOK(t)
  <2> HIDE DEF d
  <2> QED BY <1>5 DEF TypeInv, TraceOK
<1> HIDE DEF t
<1> QED BY <1>1, <1>3, <1>6, ParsedTypes

(* The log of the command lines.                                            *)
LEMMA CmdlinesTypes == ASSUME TypeInv, ReadCmdlines PROVE TypeInv'
<1> DEFINE d == Cmdlines(Body)
           t == [trace EXCEPT !.cmdlines = d]
<1>1. Reading("cmdline2.log") /\ Parsed(t, "cmdlines", TRUE) /\ UntouchedProcs
  BY DEF ReadCmdlines
<1>2. "cmdline2.log" \notin ProcessLogs
  BY DEF ProcessLogs
<1>3. /\ pc = "parse" /\ file <= Len(archive) /\ Name = "cmdline2.log"
      /\ Written(archive[file])
      /\ block' = 1 /\ \E now \in Nat : Entries(procs', now)
  BY <1>1, <1>2, WholeLog
<1>4. Body \in Seq([pid : Nat, exe : Word])
  BY <1>3 DEF Written, Name, Body
<1>5. \A p \in DOMAIN d : d[p] \in Text
  BY <1>4, CmdlinesIs
<1>6. TraceOK(t)
  <2> HIDE DEF d
  <2> QED BY <1>5 DEF TypeInv, TraceOK
<1> HIDE DEF t
<1> QED BY <1>1, <1>3, <1>6, ParsedTypes

(* A process log says blocks of lines, in order.                            *)
LEMMA ProcessLogIs ==
  ASSUME TypeInv, NEW name \in ProcessLogs, Reading(name)
  PROVE  /\ pc = "parse" /\ file <= Len(archive) /\ Name = name /\ Len(Body) \in Nat
         /\ Ordered(Body)
         /\ \A i \in 1..Len(Body) :
              /\ Body[i].time \in Nat
              /\ name = "taskstats.log" => Body[i].lines \in Seq(TaskRecord)
              /\ name = "proc_ps.log" => Body[i].lines \in Seq(PsRecord)
<1> DEFINE TL == Seq(TaskRecord)
           PL == Seq(PsRecord)
           T == [time : Nat, lines : TL]
           S == [time : Nat, lines : PL]
<1>1. pc = "parse" /\ file <= Len(archive) /\ Name = name
  BY DEF Reading
<1>2. Written(archive[file])
  BY <1>1, LogIs DEF TypeInv
<1>3. /\ name = "taskstats.log" => Body \in Seq(T)
      /\ name = "proc_ps.log" => Body \in Seq(S)
      /\ Ordered(Body)
  BY <1>1, <1>2 DEF Written, Name, Body
<1> HIDE DEF TL, PL
<1>4. /\ \A b \in T : b.time \in Nat /\ b.lines \in TL
      /\ \A b \in S : b.time \in Nat /\ b.lines \in PL
  OBVIOUS
<1> HIDE DEF T, S
<1>5. CASE name = "taskstats.log"
  <2>1. Len(Body) \in Nat /\ \A i \in 1..Len(Body) : Body[i] \in T
    BY <1>3, <1>5, Elements
  <2> QED BY <2>1, <1>1, <1>3, <1>4, <1>5 DEF TL
<1>6. CASE name = "proc_ps.log"
  <2>1. Len(Body) \in Nat /\ \A i \in 1..Len(Body) : Body[i] \in S
    BY <1>3, <1>6, Elements
  <2> QED BY <2>1, <1>1, <1>3, <1>4, <1>6 DEF PL
<1> QED BY <1>5, <1>6 DEF ProcessLogs

(* The map before the first block has an entry for init, or none.           *)
LEMMA FirstEntries ==
  ASSUME NEW name, NEW now \in Nat
  PROVE  LET init == IF name = "taskstats.log"
                       THEN Put(<<>>, Key(1), NewProcess(1, "[init]", 0, 0)) ELSE <<>>
         IN  ReadSoFar([procs |-> init, rewrites |-> <<>>], now)
<1> DEFINE p == NewProcess(1, "[init]", 0, 0)
           init == IF name = "taskstats.log" THEN Put(<<>>, Key(1), p) ELSE <<>>
           s == [procs |-> init, rewrites |-> <<>>]
<1>1. Entries(<<>>, now)
  <2>1. DOMAIN <<>> = {}
    OBVIOUS
  <2> QED BY <2>1 DEF Entries
<1>2. Key(1) \in Nat \ {0}
  <2>1. 1 \in Nat /\ 1 # 0
    OBVIOUS
  <2> QED BY <2>1, KeyIs
<1>3. EntryAt(Key(1), p, now)
  <2>1. "[init]" \in Text
    BY DEF Text
  <2>2. 1 \in Nat /\ 0 \in Nat /\ 1 \in {Key(1), 1}
    OBVIOUS
  <2> DEFINE c == "[init]"
             k == Key(1)
  <2> HIDE DEF c, k, p
  <2>3. c \in Text /\ 1 \in {k, 1} /\ p = NewProcess(1, c, 0, 0)
    BY <2>1, <2>2 DEF c, k, p
  <2>4. EntryAt(k, NewProcess(1, c, 0, 0), now)
    BY <2>2, <2>3, NewEntry
  <2> QED BY <2>3, <2>4 DEF k
<1> HIDE DEF p
<1>4. Entries(Put(<<>>, Key(1), p), now)
  BY <1>1, <1>2, <1>3, EntryPut
<1>5. Entries(init, now)
  <2>1. CASE name = "taskstats.log"
    BY <2>1, <1>4
  <2>2. CASE name # "taskstats.log"
    BY <2>2, <1>1
  <2> QED BY <2>1, <2>2
<1> HIDE DEF init
<1>6. s.procs = init /\ s.rewrites = <<>> /\ DOMAIN <<>> = {}
  OBVIOUS
<1>7. s = [procs |-> s.procs, rewrites |-> s.rewrites]
  OBVIOUS
<1> HIDE DEF s
<1>8. ReadSoFar(s, now)
  <2>1. \A o \in DOMAIN s.rewrites : s.rewrites[o] \in Nat \ {0}
    BY <1>6
  <2>2. Entries(s.procs, now)
    BY <1>5, <1>6
  <2> QED BY <2>1, <2>2, <1>7 DEF ReadSoFar
<1> QED BY <1>8 DEF s, init, p

(* One block of a process log: its entries have samples up to its time.     *)
LEMMA BlockTypes == ASSUME TypeInv, ReadBlock PROVE TypeInv'
<1> DEFINE b == Body[block]
           ltime == IF block = 1 THEN 0 ELSE Body[block - 1].time
           init == IF Name = "taskstats.log"
                     THEN Put(<<>>, Key(1), NewProcess(1, "[init]", 0, 0)) ELSE <<>>
           before == [procs |-> IF block = 1 THEN init ELSE procs,
                      rewrites |-> IF block = 1 THEN <<>> ELSE rewrites]
           read == ReadLines(Name, b, ltime, before)
<1>1. PICK name \in ProcessLogs : Reading(name)
  BY DEF ReadBlock
<1>2. /\ block <= Len(Body) /\ procs' = read.procs /\ rewrites' = read.rewrites
      /\ block' = block + 1
      /\ UNCHANGED <<pc, archive, file, trace, climb, idle, times>>
  BY DEF ReadBlock
<1>3. /\ pc = "parse" /\ file <= Len(archive) /\ Name = name /\ Len(Body) \in Nat
      /\ Ordered(Body)
      /\ \A i \in 1..Len(Body) :
           /\ Body[i].time \in Nat
           /\ name = "taskstats.log" => Body[i].lines \in Seq(TaskRecord)
           /\ name = "proc_ps.log" => Body[i].lines \in Seq(PsRecord)
  BY <1>1, ProcessLogIs
<1>4. /\ block \in Nat \ {0} /\ block \in 1..Len(Body)
      /\ block > 1 => ReadSoFar([procs |-> procs, rewrites |-> rewrites], Body[block - 1].time)
  BY <1>2, <1>3 DEF TypeInv, InLog
<1>5. ltime \in Nat /\ ltime <= b.time
  <2>1. CASE block = 1
    <3>1. b.time \in Nat
      BY <1>3, <1>4
    <3> HIDE DEF b
    <3> QED BY <2>1, <3>1
  <2>2. CASE block # 1
    <3>1. block - 1 \in 1..Len(Body) /\ block - 1 <= block
      BY <2>2, <1>4
    <3>2. Body[block - 1].time \in Nat
      BY <3>1, <1>3
    <3>3. Body[block - 1].time <= Body[block].time
      BY <3>1, <1>3, <1>4 DEF Ordered
    <3> QED BY <2>2, <3>2, <3>3
  <2> QED BY <2>1, <2>2
<1>6. /\ b.time \in Nat
      /\ Name = "taskstats.log" => b.lines \in Seq(TaskRecord)
      /\ Name = "proc_ps.log" => b.lines \in Seq(PsRecord)
  BY <1>3, <1>4
<1>7. ReadSoFar(before, ltime)
  <2>1. CASE block = 1
    <3>1. ReadSoFar([procs |-> init, rewrites |-> <<>>], 0)
      BY FirstEntries
    <3> HIDE DEF init
    <3> QED BY <2>1, <3>1
  <2>2. CASE block # 1
    <3>1. block > 1
      BY <2>2, <1>4
    <3> HIDE DEF init
    <3> QED BY <2>2, <3>1, <1>4
  <2> QED BY <2>1, <2>2
<1> HIDE DEF before
<1>8. ReadSoFar(before, b.time)
  <2>1. Entries(before.procs, ltime)
    BY <1>7 DEF ReadSoFar
  <2> HIDE DEF ltime, b
  <2>2. Entries(before.procs, b.time)
    BY <2>1, <1>5, <1>6, EntriesLater
  <2> QED BY <2>2, <1>7 DEF ReadSoFar
<1>9. ReadSoFar(read, b.time)
  <2> HIDE DEF ltime, b
  <2> QED BY <1>1, <1>3, <1>5, <1>6, <1>8, BlockKeeps
<1> HIDE DEF read, ltime
<1>10. ReadSoFar([procs |-> procs', rewrites |-> rewrites'], b.time)
  <2>1. read = [procs |-> procs', rewrites |-> rewrites']
    BY <1>2, <1>9 DEF ReadSoFar
  <2> QED BY <2>1, <1>9
<1>11. InLog'
  <2>1. /\ file' = file /\ archive' = archive /\ Name' = Name /\ Body' = Body
    BY <1>2 DEF Name, Body
  <2>2. block' - 1 = block /\ block' \in Nat \ {0}
    BY <1>2, <1>4
  <2>3. Body'[block' - 1].time = b.time
    BY <2>1, <2>2
  <2>4. block' - 1 \in 1..Len(Body')
    BY <2>1, <2>2, <1>4
  <2>5. ReadSoFar([procs |-> procs', rewrites |-> rewrites'], Body'[block' - 1].time)
    BY <2>3, <1>10
  <2>6. archive' \in Archives /\ file' \in 1..Len(archive') + 1
    BY <2>1 DEF TypeInv, InLog
  <2>7. pc' = "parse" /\ file' <= Len(archive') /\ Name' \in ProcessLogs
    BY <2>1, <1>1, <1>2, <1>3
  <2> QED BY <2>2, <2>4, <2>5, <2>6, <2>7 DEF InLog
<1>12. \E now \in Nat : Entries(procs', now)
  <2>1. Entries(procs', b.time)
    BY <1>10 DEF ReadSoFar
  <2> HIDE DEF b
  <2> QED BY <2>1, <1>6
<1>13. Climbing'
  <2>1. climb.todo = {} /\ climb' = climb /\ climb = [todo |-> climb.todo, pid |-> climb.pid]
    BY <1>2, <1>3 DEF TypeInv, Climbing
  <2> QED BY <2>1 DEF Climbing
<1> QED BY <1>2, <1>11, <1>12, <1>13 DEF TypeInv

(* The end of a process log, whose entries are kept or dropped.             *)
LEMMA EndLogTypes == ASSUME TypeInv, EndProcessLog PROVE TypeInv'
<1> DEFINE n == Len(Body)
           ok == n >= 2
           period == IF ok THEN (Body[n].time - Body[1].time) \div (n - 1) ELSE trace.period
           tasks == trace.taskstats \/ Name = "taskstats.log"
           t == [trace EXCEPT !.period = period, !.taskstats = tasks]
<1>1. PICK name \in ProcessLogs : Reading(name)
  BY DEF EndProcessLog
<1>2. /\ Parsed(t, "ps", ok) /\ procs' = IF ok THEN procs ELSE <<>>
      /\ block' = 1
  BY DEF EndProcessLog
<1>3. /\ pc = "parse" /\ file <= Len(archive) /\ n \in Nat
      /\ \A i \in 1..n : Body[i].time \in Nat
  BY <1>1, ProcessLogIs
<1>4. period \in Int
  <2>1. trace.period \in Int
    BY DEF TypeInv, TraceOK
  <2>2. CASE ok
    <3> DEFINE d == n - 1
               a == Body[n].time - Body[1].time
    <3>1. a \in Int /\ d \in Nat \ {0}
      BY <2>2, <1>3
    <3>2. period = a \div d
      BY <2>2
    <3> HIDE DEF a, d, period
    <3>3. a \div d \in Int
      BY <3>1
    <3> QED BY <3>2, <3>3
  <2>3. CASE ~ ok
    BY <2>1, <2>3
  <2> QED BY <2>2, <2>3
<1>5. TraceOK(t)
  <2> HIDE DEF period, tasks
  <2>1. t = [has |-> trace.has, cpus |-> trace.cpus, disk |-> trace.disk, cpu |-> trace.cpu,
             mem |-> trace.mem, kernel |-> trace.kernel, parents |-> trace.parents,
             cmdlines |-> trace.cmdlines, period |-> period, taskstats |-> tasks]
    <3>1. trace = [has |-> trace.has, cpus |-> trace.cpus, disk |-> trace.disk,
                   cpu |-> trace.cpu, mem |-> trace.mem, kernel |-> trace.kernel,
                   parents |-> trace.parents, cmdlines |-> trace.cmdlines,
                   period |-> trace.period, taskstats |-> trace.taskstats]
      BY DEF TypeInv, TraceOK
    <3> HIDE DEF t
    <3>2. ASSUME NEW u, NEW q, NEW v, NEW w,
                 u = [has |-> u.has, cpus |-> u.cpus, disk |-> u.disk,
                      cpu |-> u.cpu, mem |-> u.mem, kernel |-> u.kernel,
                      parents |-> u.parents, cmdlines |-> u.cmdlines,
                      period |-> u.period, taskstats |-> u.taskstats],
                 w = [u EXCEPT !.period = q, !.taskstats = v]
          PROVE  w = [has |-> u.has, cpus |-> u.cpus, disk |-> u.disk, cpu |-> u.cpu,
                      mem |-> u.mem, kernel |-> u.kernel, parents |-> u.parents,
                      cmdlines |-> u.cmdlines, period |-> q, taskstats |-> v]
      BY <3>2
    <3> QED BY <3>1, <3>2, Zenon DEF t
  <2>2. /\ t.cpus = trace.cpus /\ t.disk = trace.disk /\ t.cpu = trace.cpu
        /\ t.kernel = trace.kernel /\ t.parents = trace.parents
        /\ t.cmdlines = trace.cmdlines /\ t.period = period
        /\ t = [has |-> t.has, cpus |-> t.cpus, disk |-> t.disk, cpu |-> t.cpu, mem |-> t.mem,
                kernel |-> t.kernel, parents |-> t.parents, cmdlines |-> t.cmdlines,
                period |-> t.period, taskstats |-> t.taskstats]
    BY <2>1
  <2> HIDE DEF t
  <2> QED BY <1>4, <2>2 DEF TypeInv, TraceOK
<1>6. \E now \in Nat : Entries(procs', now)
  <2>1. CASE ok
    <3>1. procs' = procs
      BY <2>1, <1>2
    <3> QED BY <3>1 DEF TypeInv
  <2>2. CASE ~ ok
    <3>1. procs' = <<>> /\ DOMAIN <<>> = {}
      BY <2>2, <1>2
    <3>2. Entries(procs', 0)
      BY <3>1 DEF Entries
    <3> QED BY <3>2
  <2> QED BY <2>1, <2>2
<1> HIDE DEF t, ok
<1> QED BY <1>2, <1>3, <1>5, <1>6, ParsedTypes

(* The steps after the parsing leave the logs. *)
LEMMA LogsLeft ==
  ASSUME TypeInv, UNCHANGED <<archive, file, block, rewrites>>,
         pc # "parse" \/ file > Len(archive)
  PROVE  InLog'
<1>1. ~ (block > 1)
  <2>1. Len(archive) \in Nat /\ file \in 1..Len(archive) + 1
    BY ArchivesAssumption DEF TypeInv, InLog
  <2>2. block > 1 => pc = "parse" /\ file <= Len(archive)
    BY DEF TypeInv, InLog
  <2> QED BY <2>1, <2>2
<1> QED BY <1>1 DEF TypeInv, InLog

(* The trace is found valid or not.                                         *)
LEMMA ValidateTypes == ASSUME TypeInv, Validate PROVE TypeInv'
<1>1. /\ pc = "parse" /\ pc' \in {"cmdlines", "failed"}
      /\ UNCHANGED <<archive, file, block, rewrites, trace, procs, climb, idle, times>>
  BY DEF Validate
<1>2. InLog'
  <2>1. file > Len(archive)
    BY DEF Validate
  <2> QED BY <2>1, <1>1, LogsLeft
<1>3. Climbing'
  <2>1. climb.todo = {}
    BY <1>1 DEF TypeInv, Climbing
  <2> QED BY <2>1, <1>1 DEF TypeInv, Climbing
<1> QED BY <1>1, <1>2, <1>3 DEF TypeInv

(* The process id of a key. *)
LEMMA RealPidIs ==
  ASSUME NEW key \in Nat
  PROVE  RealPid(key) \in Nat
<1>1. Spread \in Nat \ {0}
  BY SpreadAssumption
<1>2. key \div Spread \in Nat
  BY <1>1
<1> QED BY <1>2 DEF RealPid

(* Entries are given command lines, and the search begins.                  *)
LEMMA MergeTypes == ASSUME TypeInv, MergeCmdlines PROVE TypeInv'
<1> DEFINE merged(k) == IF "cmdlines" \in trace.has
                            /\ RealPid(procs[k].pid) \in DOMAIN trace.cmdlines
                          THEN [procs[k] EXCEPT !.exe = trace.cmdlines[RealPid(procs[k].pid)]]
                          ELSE procs[k]
           first == Min(DOMAIN procs)
<1>1. /\ pc = "cmdlines" /\ pc' = "reparent"
      /\ procs' = [k \in DOMAIN procs |-> merged(k)]
      /\ climb' = IF "parents" \in trace.has
                    THEN [todo |-> DOMAIN procs, pid |-> RealPid(procs[first].pid)]
                    ELSE [todo |-> {}, pid |-> 0]
      /\ UNCHANGED <<archive, file, block, rewrites, trace, idle, times>>
  BY DEF MergeCmdlines
<1>2. PICK now \in Nat : Entries(procs, now)
  BY DEF TypeInv
<1>3. ASSUME NEW k \in DOMAIN procs PROVE EntryAt(k, merged(k), now)
  <2> DEFINE p == procs[k]
  <2>1. EntryAt(k, p, now)
    BY <1>2 DEF Entries
  <2>2. ASSUME NEW e \in Text PROVE EntryAt(k, [p EXCEPT !.exe = e], now)
    <3> DEFINE q == [p EXCEPT !.exe = e]
    <3>1. p \in Process
      BY <2>1 DEF EntryAt
    <3> HIDE DEF p
    <3>2. q \in Process /\ q.pid = p.pid /\ q.samples = p.samples
      BY <3>1 DEF Process
    <3> HIDE DEF q
    <3>3. EntryAt(k, q, now)
      BY <2>1, <3>2 DEF EntryAt
    <3> QED BY <3>3 DEF q
  <2> DEFINE r == RealPid(p.pid)
  <2>3. r \in DOMAIN trace.cmdlines => trace.cmdlines[r] \in Text
    BY DEF TypeInv, TraceOK
  <2>4. merged(k) = IF "cmdlines" \in trace.has /\ r \in DOMAIN trace.cmdlines
                      THEN [p EXCEPT !.exe = trace.cmdlines[r]] ELSE p
    OBVIOUS
  <2> HIDE DEF merged, p, r
  <2> QED BY <2>1, <2>2, <2>3, <2>4
<1> HIDE DEF merged
<1>4. Entries(procs', now)
  BY <1>1, <1>2, <1>3 DEF Entries
<1>5. Climbing'
  <2>1. CASE "parents" \in trace.has
    <3>1. climb' = [todo |-> DOMAIN procs, pid |-> RealPid(procs[first].pid)]
      BY <1>1, <2>1
    <3>2. ASSUME DOMAIN procs # {} PROVE RealPid(procs[first].pid) \in Nat
      <4>1. first \in DOMAIN procs
        <5>1. DOMAIN procs \subseteq Nat
          BY <1>2 DEF Entries
        <5> QED BY <5>1, <3>2, LeastIs
      <4>2. procs[first].pid \in Nat
        BY <4>1, <1>2 DEF Entries, EntryAt, Process
      <4> QED BY <4>2, RealPidIs
    <3>3. climb'.todo = DOMAIN procs' /\ climb'.pid = RealPid(procs[first].pid)
      BY <1>1, <3>1
    <3> HIDE DEF first
    <3>4. climb' = [todo |-> climb'.todo, pid |-> climb'.pid]
      BY <3>1
    <3> QED BY <1>1, <3>2, <3>3, <3>4 DEF Climbing
  <2>2. CASE "parents" \notin trace.has
    <3>1. climb' = [todo |-> {}, pid |-> 0]
      BY <1>1, <2>2
    <3> QED BY <3>1 DEF Climbing
  <2> QED BY <2>1, <2>2
<1>6. InLog'
  BY <1>1, LogsLeft
<1> QED BY <1>1, <1>4, <1>5, <1>6 DEF TypeInv

(* The process now given a parent is of the map, and so is the next.        *)
LEMMA ClimbIs ==
  ASSUME TypeInv, Climb
  PROVE  LET k    == Min(climb.todo)
             rest == climb.todo \ {k}
             ppid == IF climb.pid \in DOMAIN trace.parents
                       THEN trace.parents[climb.pid] ELSE 0
         IN  /\ k \in climb.todo /\ k \in DOMAIN procs /\ climb.pid \in Nat /\ ppid \in Nat
             /\ rest # {} => /\ Min(rest) \in rest /\ procs[Min(rest)].pid \in Nat
                             /\ RealPid(procs[Min(rest)].pid) \in Nat
<1> DEFINE k == Min(climb.todo)
           rest == climb.todo \ {k}
<1>1. climb.todo # {} /\ climb.todo \subseteq DOMAIN procs /\ climb.pid \in Nat
  BY DEF Climb, TypeInv, Climbing
<1>2. PICK now \in Nat : Entries(procs, now)
  BY DEF TypeInv
<1>3. DOMAIN procs \subseteq Nat /\ \A q \in DOMAIN procs : procs[q].pid \in Nat
  BY <1>2 DEF Entries, EntryAt, Process
<1>4. k \in climb.todo
  BY <1>1, <1>3, LeastIs
<1>5. climb.pid \in DOMAIN trace.parents => trace.parents[climb.pid] \in Nat
  BY DEF TypeInv, TraceOK, ParentMap
<1>6. rest # {} => Min(rest) \in rest
  BY <1>1, <1>3, LeastIs
<1> HIDE DEF k, rest
<1>7. rest # {} => procs[Min(rest)].pid \in Nat
  BY <1>1, <1>3, <1>6 DEF rest
<1>8. rest # {} => RealPid(procs[Min(rest)].pid) \in Nat
  BY <1>7, RealPidIs
<1>9. k \in DOMAIN procs
  BY <1>1, <1>4
<1> QED BY <1>1, <1>4, <1>5, <1>6, <1>7, <1>8, <1>9 DEF k, rest

(* One step of the search, for the first process still to be done.          *)
LEMMA ClimbTypes == ASSUME TypeInv, Climb PROVE TypeInv'
<1> DEFINE k == Min(climb.todo)
           rest == climb.todo \ {k}
           ppid == IF climb.pid \in DOMAIN trace.parents
                     THEN trace.parents[climb.pid] ELSE 0
           next == IF rest = {} THEN 0 ELSE RealPid(procs[Min(rest)].pid)
           named == [procs EXCEPT ![k].ppid = Key(ppid)]
<1>1. /\ k \in climb.todo /\ k \in DOMAIN procs /\ climb.pid \in Nat /\ ppid \in Nat
      /\ next \in Nat
  BY ClimbIs
<1>2. /\ pc = "reparent"
      /\ \/ climb' = [climb EXCEPT !.pid = ppid] /\ procs' = procs
         \/ /\ procs' = procs \/ procs' = named
            /\ climb' = [todo |-> rest, pid |-> next]
      /\ UNCHANGED <<pc, archive, file, block, rewrites, trace, idle, times>>
  BY DEF Climb
<1>3. PICK now \in Nat : Entries(procs, now)
  BY DEF TypeInv
<1>4. /\ climb = [todo |-> climb.todo, pid |-> climb.pid]
      /\ climb.todo \subseteq DOMAIN procs
  BY DEF TypeInv, Climbing
<1>5. Key(ppid) \in Nat
  BY <1>1, KeyIs
<1> HIDE DEF ppid, next, k
<1>6. DOMAIN named = DOMAIN procs /\ Entries(named, now)
  <2> DEFINE p == procs[k]
             q == [p EXCEPT !.ppid = Key(ppid)]
  <2>1. EntryAt(k, p, now) /\ p \in Process
    BY <1>1, <1>3 DEF Entries, EntryAt
  <2>2. named = [procs EXCEPT ![k] = q]
    OBVIOUS
  <2> HIDE DEF p, named
  <2>3. q \in Process /\ q.pid = p.pid /\ q.samples = p.samples
    BY <2>1, <1>5 DEF Process
  <2> HIDE DEF q
  <2>4. EntryAt(k, q, now)
    BY <2>1, <2>3 DEF EntryAt
  <2>5. DOMAIN named = DOMAIN procs
        /\ \A x \in DOMAIN procs : named[x] = IF x = k THEN q ELSE procs[x]
    BY <2>2
  <2> QED BY <1>3, <2>4, <2>5 DEF Entries
<1> HIDE DEF named
<1>7. Entries(procs', now) /\ DOMAIN procs' = DOMAIN procs
  BY <1>2, <1>3, <1>6
<1>8. Climbing'
  <2>1. CASE climb' = [climb EXCEPT !.pid = ppid]
    <3>1. climb' = [todo |-> climb.todo, pid |-> ppid]
      BY <2>1, <1>4
    <3> QED BY <3>1, <1>1, <1>2, <1>4, <1>7 DEF Climbing
  <2>2. CASE climb' = [todo |-> rest, pid |-> next]
    <3>1. rest \subseteq DOMAIN procs
      BY <1>4
    <3> HIDE DEF rest
    <3> QED BY <3>1, <2>2, <1>1, <1>2, <1>7 DEF Climbing
  <2> QED BY <2>1, <2>2, <1>2
<1>9. InLog'
  BY <1>2, LogsLeft
<1> QED BY <1>2, <1>7, <1>8, <1>9 DEF TypeInv

(* Entries are given parents and statistics.                                *)
LEMMA StitchTypes == ASSUME TypeInv, Stitch PROVE TypeInv'
<1> DEFINE q(k) == CalcStats(SetParent(procs[k], procs), trace.period)
<1>1. /\ pc = "reparent" /\ climb.todo = {} /\ pc' = "crop"
      /\ procs' = [k \in DOMAIN procs |-> q(k)]
      /\ UNCHANGED <<archive, file, block, rewrites, trace, climb, idle, times>>
  BY DEF Stitch
<1>2. PICK now \in Nat : Entries(procs, now)
  BY DEF TypeInv
<1>3. trace.period \in Int
  BY DEF TypeInv, TraceOK
<1>4. ASSUME NEW k \in DOMAIN procs PROVE EntryAt(k, q(k), now)
  <2> DEFINE p == procs[k]
             ps == procs
             period == trace.period
  <2>1. EntryAt(k, p, now)
    BY <1>2 DEF Entries
  <2>2. period \in Int
    BY <1>3
  <2> HIDE DEF p, ps, period
  <2>3. EntryAt(k, CalcStats(SetParent(p, ps), period), now)
    BY <2>1, <2>2, StatsEntry
  <2> QED BY <2>3 DEF p, ps, period
<1> HIDE DEF q
<1>5. Entries(procs', now)
  BY <1>1, <1>2, <1>4 DEF Entries
<1>6. Climbing'
  BY <1>1 DEF TypeInv, Climbing
<1>7. InLog'
  BY <1>1, LogsLeft
<1> QED BY <1>1, <1>5, <1>6, <1>7 DEF TypeInv

(* The idle times are times, of samples no earlier than the start.          *)
LEMMA IdleTimesAre ==
  ASSUME TypeInv, NEW start
  PROVE  /\ IdleTimes(start) \subseteq Nat
         /\ IdleTimes(start) # {} => Min(IdleTimes(start)) \in IdleTimes(start)
         /\ \A t \in IdleTimes(start) : Min(IdleTimes(start)) <= t
         /\ \A t \in IdleTimes(start) : t >= start
<1> DEFINE S == [time : Nat, load : Int]
           util == trace.cpu
<1>1. util \in Seq(S)
  BY DEF TypeInv, TraceOK, Loads
<1>2. \A x \in S : x.time \in Nat
  OBVIOUS
<1> HIDE DEF S, util
<1>3. \A i \in 1..Len(util) : util[i].time \in Nat
  BY <1>1, <1>2, Elements
<1>4. \A t \in IdleTimes(start) : \E i \in 1..Len(util) : t = util[i].time /\ util[i].time >= start
  BY DEF IdleTimes, util
<1>5. IdleTimes(start) \subseteq Nat /\ \A t \in IdleTimes(start) : t >= start
  BY <1>3, <1>4
<1> QED BY <1>5, LeastIs

(* What is left of loads that are cut off at a time.                        *)
CutLoads(r, s, t) ==
  /\ Loads(r) /\ Len(r) \in 0..Len(s)
  /\ \A i \in 1..Len(r) : i \in 1..Len(s) /\ r[i] = s[i] /\ s[i].time <= t
  /\ \A i \in 1..Len(s) : s[i].time <= t => i <= Len(r)

(* They are what PopAfter leaves. *)
LEMMA CroppedLoads ==
  ASSUME NEW s, Loads(s), NEW t \in Int
  PROVE  CutLoads(PopAfter(s, t), s, t)
<1> DEFINE S == [time : Nat, load : Int]
           r == PopAfter(s, t)
<1>1. s \in Seq(S) /\ Ordered(s)
  BY DEF Loads
<1>2. \A x \in S : x.time \in Nat
  OBVIOUS
<1> HIDE DEF S, r
<1>3. Len(s) \in Nat /\ \A i \in 1..Len(s) : s[i].time \in Nat
  BY <1>1, <1>2, Elements
<1>4. /\ r \in Seq(S) /\ Len(r) \in 0..Len(s) /\ Ordered(r)
      /\ \A i \in 1..Len(r) : r[i] = s[i] /\ s[i].time <= t
      /\ \A i \in 1..Len(s) : s[i].time <= t => i <= Len(r)
  BY <1>1, <1>3, PopAfterIs DEF r
<1>5. \A i \in 1..Len(r) : i \in 1..Len(s)
  BY <1>3, <1>4
<1>6. Loads(r)
  BY <1>4 DEF Loads, S
<1> QED BY <1>4, <1>5, <1>6 DEF CutLoads, r

(* What is left by the crop still has its form.                             *)
LEMMA CropTypes == ASSUME TypeInv, Crop PROVE TypeInv'
<1>1. /\ pc = "crop" /\ pc' = "annotate"
      /\ UNCHANGED <<archive, file, block, rewrites, climb, times>>
  BY DEF Crop
<1>2. PICK k \in Chosen :
        LET found == IdleTimes(procs[k].start)
        IN  IF CropAfter = {} \/ found = {}
              THEN UNCHANGED <<trace, procs, idle>>
              ELSE LET at == Min(found) + Window
                   IN  /\ idle' = Min(found)
                       /\ trace' = [trace EXCEPT !.cpu  = PopAfter(@, at),
                                                 !.disk = PopAfter(@, at)]
                       /\ procs' = [q \in {q \in DOMAIN procs : procs[q].start <= at}
                                      |-> Cropped(procs[q], at)]
  BY DEF Crop
<1>3. InLog'
  BY <1>1, LogsLeft
<1>4. climb.todo = {} /\ climb = [todo |-> climb.todo, pid |-> climb.pid]
  BY <1>1 DEF TypeInv, Climbing
<1>5. Climbing'
  BY <1>1, <1>4 DEF Climbing
<1> DEFINE found == IdleTimes(procs[k].start)
           first == Min(found)
           at == first + Window
<1>6. CASE CropAfter = {} \/ found = {}
  <2>1. UNCHANGED <<trace, procs, idle>>
    BY <1>2, <1>6
  <2> QED BY <2>1, <1>1, <1>3, <1>5 DEF TypeInv
<1>7. CASE ~ (CropAfter = {} \/ found = {})
  <2>1. /\ idle' = first
        /\ trace' = [trace EXCEPT !.cpu = PopAfter(@, at), !.disk = PopAfter(@, at)]
        /\ procs' = [q \in {q \in DOMAIN procs : procs[q].start <= at}
                       |-> Cropped(procs[q], at)]
    BY <1>2, <1>7
  <2>2. first \in Nat /\ found \subseteq Nat
    BY <1>7, IdleTimesAre
  <2> HIDE DEF found, first
  <2>3. at \in Int
    BY <2>2 DEF Window
  <2> HIDE DEF at
  <2> DEFINE cpu == PopAfter(trace.cpu, at)
             disk == PopAfter(trace.disk, at)
  <2>4. /\ Loads(trace.cpu) /\ Loads(trace.disk)
        /\ \A i \in 1..Len(trace.disk) : trace.disk[i].load \in 0..100
    BY DEF TypeInv, TraceOK
  <2>5. /\ Loads(cpu) /\ Loads(disk)
        /\ \A i \in 1..Len(disk) : disk[i].load \in 0..100
    <3>1. CutLoads(cpu, trace.cpu, at) /\ CutLoads(disk, trace.disk, at)
      BY <2>3, <2>4, CroppedLoads
    <3> DEFINE d == trace.disk
    <3>2. \A i \in 1..Len(d) : d[i].load \in 0..100
      BY <2>4
    <3> HIDE DEF cpu, disk, d
    <3>3. Loads(cpu) /\ Loads(disk)
      BY <3>1 DEF CutLoads
    <3>4. \A i \in 1..Len(disk) : i \in 1..Len(d) /\ disk[i] = d[i]
      BY <3>1 DEF CutLoads, d
    <3> QED BY <3>2, <3>3, <3>4
  <2>6. TraceOK(trace')
    <3>1. trace = [has |-> trace.has, cpus |-> trace.cpus, disk |-> trace.disk,
                   cpu |-> trace.cpu, mem |-> trace.mem, kernel |-> trace.kernel,
                   parents |-> trace.parents, cmdlines |-> trace.cmdlines,
                   period |-> trace.period, taskstats |-> trace.taskstats]
      BY DEF TypeInv, TraceOK
    <3>2. trace' = [trace EXCEPT !.cpu = cpu, !.disk = disk]
      BY <2>1
    <3> HIDE DEF cpu, disk
    <3>3. trace' = [has |-> trace.has, cpus |-> trace.cpus, disk |-> disk,
                    cpu |-> cpu, mem |-> trace.mem, kernel |-> trace.kernel,
                    parents |-> trace.parents, cmdlines |-> trace.cmdlines,
                    period |-> trace.period, taskstats |-> trace.taskstats]
      BY <3>1, <3>2
    <3> DEFINE u == trace'
    <3>4. /\ u.cpus = trace.cpus /\ u.disk = disk /\ u.cpu = cpu /\ u.kernel = trace.kernel
          /\ u.parents = trace.parents /\ u.cmdlines = trace.cmdlines
          /\ u.period = trace.period
          /\ u = [has |-> u.has, cpus |-> u.cpus, disk |-> u.disk, cpu |-> u.cpu, mem |-> u.mem,
                  kernel |-> u.kernel, parents |-> u.parents, cmdlines |-> u.cmdlines,
                  period |-> u.period, taskstats |-> u.taskstats]
      BY <3>3
    <3> HIDE DEF u
    <3>5. TraceOK(u)
      BY <2>5, <3>4 DEF TypeInv, TraceOK
    <3> QED BY <3>5 DEF u
  <2>7. \E now \in Nat : Entries(procs', now)
    <3>1. PICK now \in Nat : Entries(procs, now)
      BY DEF TypeInv
    <3>2. ASSUME NEW q \in DOMAIN procs PROVE EntryAt(q, Cropped(procs[q], at), now)
      <4> DEFINE p == procs[q]
      <4>1. EntryAt(q, p, now)
        BY <3>1 DEF Entries
      <4> HIDE DEF p
      <4>2. EntryAt(q, Cropped(p, at), now)
        BY <4>1, <2>3, CroppedEntry
      <4> QED BY <4>2 DEF p
    <3>3. \A q \in DOMAIN procs' : q \in DOMAIN procs /\ procs'[q] = Cropped(procs[q], at)
      BY <2>1
    <3>4. DOMAIN procs \subseteq Nat \ {0}
      BY <3>1 DEF Entries
    <3>5. Entries(procs', now)
      BY <3>2, <3>3, <3>4 DEF Entries
    <3> QED BY <3>5
  <2> QED BY <1>1, <1>3, <1>5, <2>1, <2>2, <2>6, <2>7 DEF TypeInv
<1> QED BY <1>6, <1>7

(* Times are annotated, and nothing else changes.                           *)
LEMMA AnnotateTypes == ASSUME TypeInv, Annotate PROVE TypeInv'
<1>1. /\ pc = "annotate" /\ pc' = "done"
      /\ UNCHANGED <<archive, file, block, rewrites, trace, procs, climb, idle>>
  BY DEF Annotate
<1>2. InLog'
  BY <1>1, LogsLeft
<1>3. Climbing'
  BY <1>1 DEF TypeInv, Climbing
<1> QED BY <1>1, <1>2, <1>3 DEF TypeInv

(* Every step keeps the types. *)
LEMMA StepTypes == ASSUME TypeInv, [Next]_vars PROVE TypeInv'
<1>1. CASE UNCHANGED vars
  BY <1>1 DEF vars, TypeInv, InLog, Name, Body, Climbing
<1>2. CASE Next
  BY <1>2, HeaderTypes, DiskStatsTypes, StatTypes, MeminfoTypes, DmesgTypes, PaternityTypes,
     CmdlinesTypes, BlockTypes, EndLogTypes, ValidateTypes, MergeTypes, ClimbTypes,
     StitchTypes, CropTypes, AnnotateTypes DEF Next
<1> QED BY <1>1, <1>2

(* The parser's own entries, samples and loads are what TypeOK says, for    *)
(* any archives (parsing.py, 337-487 and 120-125).                          *)
THEOREM TypesOK == Spec => []TypeOK
<1>1. Spec => []TypeInv
  <2>1. Init => TypeInv
    BY InitTypes
  <2>2. TypeInv /\ [Next]_vars => TypeInv'
    BY StepTypes
  <2> QED BY <2>1, <2>2, PTL DEF Spec
<1>2. TypeInv => TypeOK
  BY TypeInvTypes
<1> QED BY <1>1, <1>2, PTL

(* The kernel's calls begin when or after the chart does and end after they *)
(* begin, wherever in its log the clock was set (parsing.py, 541-585).      *)
THEOREM KernelMovesForward == Spec => []KernelForward
<1>1. Spec => []TypeInv
  <2>1. Init => TypeInv
    BY InitTypes
  <2>2. TypeInv /\ [Next]_vars => TypeInv'
    BY StepTypes
  <2> QED BY <2>1, <2>2, PTL DEF Spec
<1>2. ASSUME TypeInv PROVE KernelForward
  <2>1. PICK now \in Nat : KernelAt(trace.kernel, now)
    BY <1>2 DEF TypeInv, TraceOK
  <2>2. \A f \in DOMAIN trace.kernel.procs :
          trace.kernel.procs[f].start \in Nat /\ trace.kernel.procs[f].duration \in Nat
    BY <2>1 DEF KernelAt
  <2> QED BY <2>2 DEF KernelForward
<1>3. TypeInv => KernelForward
  BY <1>2
<1> QED BY <1>1, <1>3, PTL

(* ------------------------------------------------------------------------ *)
(* The search for parents                                                   *)

(* The ancestors of a pid by a map of parents, as a function defined by its *)
(* equation.                                                                *)
Above(map, q) == IF q \in DOMAIN map THEN map[q] ELSE 0
Climbs(map, pid, m, up) == up = [n \in 0..m |-> IF n = 0 THEN pid ELSE Above(map, up[n - 1])]
Up(map, pid) == CHOOSE up : Climbs(map, pid, Cardinality(DOMAIN map), up)

(* What the search for the parent of an entry is to find, and how far it    *)
(* has come for the first of those left: no ancestor looked at so far has   *)
(* an entry, or none at all has one.                                        *)
Hits(map, ps, k) ==
  LET up == Up(map, RealPid(ps[k].pid))
  IN  {n \in DOMAIN up \ {0} : Key(up[n]) \in DOMAIN ps}
Found(map, ps, k) ==
  Hits(map, ps, k) # {} =>
    ps[k].ppid = Key(Up(map, RealPid(ps[k].pid))[Min(Hits(map, ps, k))])
Sought(map, ps, k, pid) ==
  LET up == Up(map, RealPid(ps[k].pid))
  IN  \/ Hits(map, ps, k) = {}
      \/ \E n \in DOMAIN up : up[n] = pid /\ \A m \in 1..n : m \notin Hits(map, ps, k)

(* The search so far: those done hang where they should, the first of those *)
(* still to be done has looked at ancestors without an entry only.          *)
Search ==
  /\ pc = "reparent" /\ "parents" \in trace.has =>
       /\ \A k \in DOMAIN procs \ climb.todo : Found(trace.parents, procs, k)
       /\ climb.todo # {} => Sought(trace.parents, procs, Min(climb.todo), climb.pid)
  /\ pc = "crop" /\ "parents" \in trace.has =>
       \A k \in DOMAIN procs : Found(trace.parents, procs, k)

(* There is such a function, for any number of generations. *)
LEMMA ClimbFrom ==
  ASSUME NEW map, NEW pid, NEW m \in Nat
  PROVE  \E up : Climbs(map, pid, m, up)
<1> DEFINE R(n, f) == Climbs(map, pid, n, f)
           Bad == {n \in Nat : \A f : ~ R(n, f)}
<1>1. \A n, f : R(n, f) <=> f = [i \in 0..n |-> IF i = 0 THEN pid ELSE Above(map, f[i - 1])]
  BY DEF Climbs
<1> HIDE DEF R
<1> SUFFICES Bad = {}
  BY DEF R
<1> SUFFICES ASSUME Bad # {} PROVE FALSE
  OBVIOUS
<1>2. PICK k \in Bad : \A j \in Bad : k <= j
  <2>1. Bad \subseteq Nat
    OBVIOUS
  <2> HIDE DEF Bad
  <2> QED BY <2>1, LeastNatural
<1>3. k # 0
  <2> DEFINE one == [i \in 0..0 |-> pid]
  <2>1. one = [i \in 0..0 |-> IF i = 0 THEN pid ELSE Above(map, one[i - 1])]
    OBVIOUS
  <2> HIDE DEF one
  <2> QED BY <2>1, <1>1, <1>2
<1>4. PICK f : R(k - 1, f)
  <2>1. k - 1 \in Nat /\ ~ (k <= k - 1)
    BY <1>3
  <2>2. k - 1 \notin Bad
    BY <1>2, <2>1
  <2> QED BY <2>1, <2>2
<1>5. \A i \in 0..k - 1 : f[i] = IF i = 0 THEN pid ELSE Above(map, f[i - 1])
  <2>1. f = [i \in 0..k - 1 |-> IF i = 0 THEN pid ELSE Above(map, f[i - 1])]
    BY <1>1, <1>4
  <2> QED BY <2>1
<1> DEFINE more == [i \in 0..k |-> IF i = k THEN Above(map, f[k - 1]) ELSE f[i]]
<1>6. ASSUME NEW i \in 0..k
      PROVE  more[i] = IF i = 0 THEN pid ELSE Above(map, more[i - 1])
  <2>1. CASE i = k
    <3>1. k - 1 \in 0..k /\ k - 1 # k
      BY <1>3
    <3>2. more[i] = Above(map, f[k - 1]) /\ more[k - 1] = f[k - 1]
      BY <2>1, <3>1
    <3> HIDE DEF more
    <3> QED BY <2>1, <3>2, <1>3
  <2>2. CASE i # k
    <3>1. i \in 0..k - 1 /\ more[i] = f[i]
      BY <2>2
    <3>2. i # 0 => i - 1 \in 0..k /\ i - 1 # k
      BY <2>2
    <3>3. i # 0 => more[i - 1] = f[i - 1]
      BY <3>2
    <3> HIDE DEF more
    <3> QED BY <3>1, <3>3, <1>5
  <2> QED BY <2>1, <2>2
<1>7. more = [i \in 0..k |-> IF i = 0 THEN pid ELSE Above(map, more[i - 1])]
  <2>1. more = [i \in 0..k |-> more[i]]
    OBVIOUS
  <2> HIDE DEF more
  <2> QED BY <2>1, <1>6
<1> QED
  <2> HIDE DEF more
  <2>1. R(k, more)
    BY <1>1, <1>7
  <2> QED BY <2>1, <1>2

(* Its values: above nobody is nobody, for ever.                            *)
LEMMA UpValues ==
  ASSUME NEW map, ParentMap(map), NEW pid
  PROVE  \E c \in Nat :
           /\ DOMAIN Up(map, pid) = 0..c /\ Up(map, pid)[0] = pid
           /\ \A n \in 1..c : Up(map, pid)[n] = Above(map, Up(map, pid)[n - 1])
           /\ \A n \in 0..c : Up(map, pid)[n] = 0 =>
                \A m \in n..c : Up(map, pid)[m] = 0
<1> DEFINE c == Cardinality(DOMAIN map)
           up == Up(map, pid)
<1>1. c \in Nat
  BY FS_CardinalityType DEF ParentMap
<1>2. Climbs(map, pid, c, up)
  <2>1. \E f : Climbs(map, pid, c, f)
    BY <1>1, ClimbFrom
  <2> QED BY <2>1 DEF Up
<1> HIDE DEF up, c
<1>3. up = [n \in 0..c |-> IF n = 0 THEN pid ELSE Above(map, up[n - 1])]
  BY <1>2 DEF Climbs
<1>4. DOMAIN up = 0..c /\ \A n \in 0..c : up[n] = IF n = 0 THEN pid ELSE Above(map, up[n - 1])
  BY <1>3
<1>5. up[0] = pid /\ \A n \in 1..c : up[n] = Above(map, up[n - 1])
  BY <1>1, <1>4
<1>6. Above(map, 0) = 0
  BY DEF Above, ParentMap
<1>7. ASSUME NEW n \in 0..c, up[n] = 0 PROVE \A m \in n..c : up[m] = 0
  <2> DEFINE Bad == {m \in n..c : up[m] # 0}
  <2> SUFFICES ASSUME Bad # {} PROVE FALSE
    OBVIOUS
  <2>1. PICK m \in Bad : \A j \in Bad : m <= j
    <3>1. Bad \subseteq Nat
      BY <1>1
    <3> HIDE DEF Bad
    <3> QED BY <3>1, LeastNatural
  <2>2. m # n
    BY <2>1, <1>7
  <2>3. m \in 1..c /\ m - 1 \in n..c /\ ~ (m <= m - 1)
    BY <2>2, <1>1
  <2>4. up[m - 1] = 0
    BY <2>1, <2>3
  <2>5. up[m] = 0
    BY <2>3, <2>4, <1>5, <1>6
  <2> QED BY <2>1, <2>5
<1> QED BY <1>1, <1>4, <1>5, <1>7 DEF up

(* The search goes on: to the next ancestor if this one has no entry, to    *)
(* its end if it has one or is nobody.                                      *)
LEMMA SearchStep ==
  ASSUME NEW map, ParentMap(map), NEW ps, 0 \notin DOMAIN ps, NEW k, NEW pid,
         Sought(map, ps, k, pid)
  PROVE  /\ Above(map, pid) # 0 /\ Key(Above(map, pid)) \notin DOMAIN ps
              => Sought(map, ps, k, Above(map, pid))
         /\ Above(map, pid) = 0 => Hits(map, ps, k) = {}
         /\ Above(map, pid) # 0 /\ Key(Above(map, pid)) \in DOMAIN ps /\ Hits(map, ps, k) # {}
              => Above(map, pid) = Up(map, RealPid(ps[k].pid))[Min(Hits(map, ps, k))]
<1> DEFINE up == Up(map, RealPid(ps[k].pid))
           H == Hits(map, ps, k)
           next == Above(map, pid)
<1>1. PICK c \in Nat :
        /\ DOMAIN up = 0..c
        /\ \A n \in 1..c : up[n] = Above(map, up[n - 1])
        /\ \A n \in 0..c : up[n] = 0 => \A m \in n..c : up[m] = 0
  BY UpValues
<1>2. \A n : n \in H <=> n \in 0..c /\ n # 0 /\ Key(up[n]) \in DOMAIN ps
  BY <1>1 DEF Hits
<1>3. H = {} \/ \E n \in 0..c : up[n] = pid /\ \A m \in 1..n : m \notin H
  BY <1>1 DEF Sought
<1>4. Key(0) = 0
  BY SpreadAssumption DEF Key
<1> HIDE DEF H
<1>5. CASE H = {}
  BY <1>5 DEF H, Sought
<1>6. ASSUME NEW n \in 0..c, up[n] = pid, \A m \in 1..n : m \notin H
      PROVE  /\ next # 0 /\ Key(next) \notin DOMAIN ps => Sought(map, ps, k, next)
             /\ next = 0 => H = {}
             /\ next # 0 /\ Key(next) \in DOMAIN ps /\ H # {} => next = up[Min(H)]
  <2>1. \A m \in H : m \in 1..c /\ m > n
    BY <1>1, <1>2, <1>6
  <2>2. CASE n = c
    <3>1. H = {}
      BY <2>1, <2>2
    <3> QED BY <3>1 DEF H, Sought
  <2>3. CASE n # c
    <3>1. n + 1 \in 1..c /\ n + 1 \in 0..c /\ (n + 1) - 1 = n
      BY <2>3
    <3>2. up[n + 1] = next
      BY <3>1, <1>1, <1>6
    <3>3. ASSUME next # 0, Key(next) \notin DOMAIN ps PROVE Sought(map, ps, k, next)
      <4>1. n + 1 \notin H
        BY <3>2, <3>3, <1>2
      <4>2. \A m \in 1..n + 1 : m \notin H
        BY <4>1, <1>6
      <4> QED BY <3>1, <3>2, <4>2, <1>1 DEF Sought, H
    <3>4. ASSUME next = 0 PROVE H = {}
      <4> SUFFICES ASSUME NEW m \in H PROVE FALSE
        OBVIOUS
      <4>1. m \in n + 1..c
        BY <2>1
      <4>2. up[m] = 0
        BY <4>1, <3>1, <3>2, <3>4, <1>1
      <4> QED BY <4>2, <1>2, <1>4
    <3>5. ASSUME next # 0, Key(next) \in DOMAIN ps PROVE next = up[Min(H)]
      <4>1. n + 1 \in H
        BY <3>1, <3>2, <3>5, <1>2
      <4>2. H \subseteq Nat
        BY <2>1
      <4>3. Min(H) \in H /\ \A x \in H : Min(H) <= x
        BY <4>1, <4>2, LeastIs
      <4>4. Min(H) = n + 1
        BY <4>1, <4>3, <2>1
      <4> QED BY <4>4, <3>2
    <3> QED BY <3>3, <3>4, <3>5
  <2> QED BY <2>2, <2>3
<1> QED BY <1>3, <1>5, <1>6 DEF H

(* Only the pids of the entries, and who has one, matter to the search.     *)
LEMMA SameSearch ==
  ASSUME NEW map, NEW ps, NEW qs, DOMAIN qs = DOMAIN ps, NEW k, qs[k].pid = ps[k].pid
  PROVE  /\ Hits(map, qs, k) = Hits(map, ps, k)
         /\ \A pid : Sought(map, ps, k, pid) => Sought(map, qs, k, pid)
         /\ qs[k].ppid = ps[k].ppid /\ Found(map, ps, k) => Found(map, qs, k)
<1>1. Hits(map, qs, k) = Hits(map, ps, k)
  BY DEF Hits
<1>2. ASSUME NEW pid, Sought(map, ps, k, pid) PROVE Sought(map, qs, k, pid)
  BY <1>1, <1>2 DEF Sought
<1>3. ASSUME qs[k].ppid = ps[k].ppid, Found(map, ps, k) PROVE Found(map, qs, k)
  BY <1>1, <1>3 DEF Found
<1> QED BY <1>1, <1>2, <1>3

(* A search begins at the process itself. *)
LEMMA SearchStarts ==
  ASSUME NEW map, ParentMap(map), NEW ps, NEW k
  PROVE  Sought(map, ps, k, RealPid(ps[k].pid))
<1> DEFINE up == Up(map, RealPid(ps[k].pid))
<1>1. PICK c \in Nat : DOMAIN up = 0..c /\ up[0] = RealPid(ps[k].pid)
  BY UpValues
<1>2. 0 \in DOMAIN up /\ up[0] = RealPid(ps[k].pid) /\ \A m \in 1..0 : m \notin Hits(map, ps, k)
  BY <1>1
<1> QED BY <1>2 DEF Sought

(* At its beginning the search has looked at nobody.                        *)
LEMMA MergeSearch == ASSUME TypeInv, Search, MergeCmdlines PROVE Search'
<1>1. /\ pc' = "reparent" /\ trace' = trace
      /\ procs' = [k \in DOMAIN procs |->
                     IF "cmdlines" \in trace.has
                        /\ RealPid(procs[k].pid) \in DOMAIN trace.cmdlines
                       THEN [procs[k] EXCEPT !.exe = trace.cmdlines[RealPid(procs[k].pid)]]
                       ELSE procs[k]]
      /\ climb' = IF "parents" \in trace.has
                    THEN [todo |-> DOMAIN procs, pid |-> RealPid(procs[Min(DOMAIN procs)].pid)]
                    ELSE [todo |-> {}, pid |-> 0]
  BY DEF MergeCmdlines
<1>2. PICK now \in Nat : Entries(procs, now)
  BY DEF TypeInv
<1>3. ASSUME NEW k \in DOMAIN procs PROVE procs'[k].pid = procs[k].pid
  <2>1. procs[k] \in Process
    BY <1>2 DEF Entries, EntryAt
  <2> DEFINE p == procs[k]
  <2>2. \A e : [p EXCEPT !.exe = e].pid = p.pid
    <3> HIDE DEF p
    <3>1. p \in Process
      BY <2>1 DEF p
    <3> QED BY <3>1 DEF Process
  <2>3. procs'[k] = p \/ \E e : procs'[k] = [p EXCEPT !.exe = e]
    BY <1>1
  <2> HIDE DEF p
  <2> QED BY <2>2, <2>3 DEF p
<1>4. ASSUME "parents" \in trace.has, DOMAIN procs # {}
      PROVE  Sought(trace.parents, procs', Min(DOMAIN procs), climb'.pid)
  <2> DEFINE k == Min(DOMAIN procs)
  <2>1. k \in DOMAIN procs
    <3>1. DOMAIN procs \subseteq Nat
      BY <1>2 DEF Entries
    <3> QED BY <3>1, <1>4, LeastIs
  <2>2. climb'.pid = RealPid(procs[k].pid)
    BY <1>1, <1>4
  <2>3. ParentMap(trace.parents)
    BY DEF TypeInv, TraceOK
  <2> HIDE DEF k
  <2>4. climb'.pid = RealPid(procs'[k].pid)
    BY <2>1, <2>2, <1>3
  <2>5. Sought(trace.parents, procs', k, RealPid(procs'[k].pid))
    BY <2>3, SearchStarts
  <2> QED BY <2>4, <2>5 DEF k
<1>5. "parents" \in trace.has => climb'.todo = DOMAIN procs /\ DOMAIN procs' = DOMAIN procs
  BY <1>1
<1> QED BY <1>1, <1>4, <1>5 DEF Search

(* One step of the search finds the parent or rules out one ancestor.       *)
LEMMA ClimbSearch == ASSUME TypeInv, Search, Climb PROVE Search'
<1> DEFINE k == Min(climb.todo)
           rest == climb.todo \ {k}
           map == trace.parents
           ppid == Above(map, climb.pid)
           named == [procs EXCEPT ![k].ppid = Key(ppid)]
<1>1. /\ k \in climb.todo /\ k \in DOMAIN procs
      /\ rest # {} => Min(rest) \in rest
  BY ClimbIs
<1>2. /\ pc = "reparent" /\ pc' = "reparent" /\ trace' = trace
      /\ IF ppid # 0 /\ Key(ppid) \notin DOMAIN procs
           THEN climb' = [climb EXCEPT !.pid = ppid] /\ procs' = procs
           ELSE /\ procs' = IF ppid = 0 THEN procs ELSE named
                /\ climb' = [todo |-> rest,
                             pid  |-> IF rest = {} THEN 0 ELSE RealPid(procs[Min(rest)].pid)]
  BY DEF Climb, Above
<1>3. PICK now \in Nat : Entries(procs, now)
  BY DEF TypeInv
<1>4. ParentMap(map) /\ 0 \notin DOMAIN procs
  BY <1>3 DEF TypeInv, TraceOK, Entries
<1>5. /\ climb = [todo |-> climb.todo, pid |-> climb.pid]
      /\ climb.todo \subseteq DOMAIN procs
  BY DEF TypeInv, Climbing
<1> SUFFICES ASSUME "parents" \in trace.has
             PROVE  /\ \A q \in DOMAIN procs' \ climb'.todo : Found(map, procs', q)
                    /\ climb'.todo # {} => Sought(map, procs', Min(climb'.todo), climb'.pid)
  BY <1>2 DEF Search
<1>6. /\ \A q \in DOMAIN procs \ climb.todo : Found(map, procs, q)
      /\ Sought(map, procs, k, climb.pid)
  BY <1>1, <1>2 DEF Search
<1> HIDE DEF k, map, ppid
<1>7. /\ ppid # 0 /\ Key(ppid) \notin DOMAIN procs => Sought(map, procs, k, ppid)
      /\ ppid = 0 => Hits(map, procs, k) = {}
      /\ ppid # 0 /\ Key(ppid) \in DOMAIN procs /\ Hits(map, procs, k) # {}
           => ppid = Up(map, RealPid(procs[k].pid))[Min(Hits(map, procs, k))]
  BY <1>4, <1>6, SearchStep DEF ppid
<1>8. CASE ppid # 0 /\ Key(ppid) \notin DOMAIN procs
  <2>1. climb' = [todo |-> climb.todo, pid |-> ppid] /\ procs' = procs
    BY <1>2, <1>5, <1>8
  <2>2. climb'.todo = climb.todo /\ climb'.pid = ppid
    BY <2>1
  <2> QED BY <2>1, <2>2, <1>6, <1>7, <1>8 DEF k
<1>9. CASE ~ (ppid # 0 /\ Key(ppid) \notin DOMAIN procs)
  <2>1. /\ procs' = IF ppid = 0 THEN procs ELSE named
        /\ climb'.todo = rest
        /\ rest # {} => climb'.pid = RealPid(procs[Min(rest)].pid)
    BY <1>2, <1>9
  <2>2. /\ DOMAIN procs' = DOMAIN procs
        /\ \A q \in DOMAIN procs : /\ procs'[q].pid = procs[q].pid
                                   /\ q # k => procs'[q].ppid = procs[q].ppid
        /\ ppid # 0 => procs'[k].ppid = Key(ppid)
    <3>1. CASE ppid = 0
      BY <3>1, <2>1
    <3>2. CASE ppid # 0
      <4> DEFINE p == procs[k]
                 w == [p EXCEPT !.ppid = Key(ppid)]
      <4>1. p \in Process
        BY <1>1, <1>3 DEF Entries, EntryAt
      <4>2. procs' = [procs EXCEPT ![k] = w]
        BY <3>2, <2>1
      <4> HIDE DEF p
      <4>3. w.pid = p.pid /\ w.ppid = Key(ppid)
        BY <4>1 DEF Process
      <4> HIDE DEF w
      <4>4. DOMAIN procs' = DOMAIN procs
            /\ \A q \in DOMAIN procs : procs'[q] = IF q = k THEN w ELSE procs[q]
        BY <4>2
      <4> QED BY <4>3, <4>4, <1>1 DEF p
    <3> QED BY <3>1, <3>2
  <2>3. Found(map, procs', k)
    <3>1. Hits(map, procs', k) = Hits(map, procs, k) /\ procs'[k].pid = procs[k].pid
      BY <2>2, <1>1, SameSearch
    <3>2. CASE ppid = 0
      BY <3>1, <3>2, <1>7 DEF Found
    <3>3. CASE ppid # 0
      <4>1. Key(ppid) \in DOMAIN procs /\ procs'[k].ppid = Key(ppid)
        BY <3>3, <1>9, <2>2
      <4> QED BY <4>1, <3>1, <3>3, <1>7 DEF Found
    <3> QED BY <3>2, <3>3
  <2>4. ASSUME NEW q \in DOMAIN procs' \ climb'.todo PROVE Found(map, procs', q)
    <3>1. CASE q = k
      BY <3>1, <2>3
    <3>2. CASE q # k
      <4>1. q \in DOMAIN procs \ climb.todo
        BY <3>2, <2>1, <2>2
      <4>2. Found(map, procs, q) /\ procs'[q].pid = procs[q].pid /\ procs'[q].ppid = procs[q].ppid
        BY <4>1, <3>2, <1>6, <2>2
      <4> QED BY <4>2, <2>2, SameSearch
    <3> QED BY <3>1, <3>2
  <2>5. ASSUME climb'.todo # {} PROVE Sought(map, procs', Min(climb'.todo), climb'.pid)
    <3> DEFINE r == Min(rest)
    <3>1. r \in rest /\ climb'.pid = RealPid(procs[r].pid) /\ climb'.todo = rest
      BY <2>1, <2>5, <1>1
    <3>2. r \in DOMAIN procs
      BY <3>1, <1>5
    <3> HIDE DEF r
    <3>3. climb'.pid = RealPid(procs'[r].pid)
      BY <3>1, <3>2, <2>2
    <3>4. Sought(map, procs', r, RealPid(procs'[r].pid))
      BY <1>4, SearchStarts
    <3> QED BY <3>1, <3>3, <3>4 DEF r
  <2> QED BY <2>4, <2>5
<1> QED BY <1>8, <1>9

(* Statistics change no pid and no parent's pid.                            *)
LEMMA StitchSearch == ASSUME TypeInv, Search, Stitch PROVE Search'
<1> DEFINE q(k) == CalcStats(SetParent(procs[k], procs), trace.period)
<1>1. /\ pc = "reparent" /\ climb.todo = {} /\ pc' = "crop" /\ trace' = trace
      /\ procs' = [k \in DOMAIN procs |-> q(k)]
  BY DEF Stitch
<1>2. PICK now \in Nat : Entries(procs, now)
  BY DEF TypeInv
<1>3. trace.period \in Int
  BY DEF TypeInv, TraceOK
<1>4. ASSUME NEW k \in DOMAIN procs
      PROVE  procs'[k].pid = procs[k].pid /\ procs'[k].ppid = procs[k].ppid
  <2> DEFINE p == procs[k]
             ps == procs
             period == trace.period
  <2>1. EntryAt(k, p, now) /\ procs'[k] = CalcStats(SetParent(p, ps), period)
    BY <1>1, <1>2 DEF Entries
  <2>2. period \in Int
    BY <1>3
  <2> HIDE DEF p, ps, period
  <2>3. LET r == CalcStats(SetParent(p, ps), period)
        IN  r.ppid = p.ppid /\ r.pid = p.pid
    BY <2>1, <2>2, StatsEntry
  <2>4. procs'[k].ppid = p.ppid /\ procs'[k].pid = p.pid
    BY <2>1, <2>3
  <2> QED BY <2>4 DEF p
<1> HIDE DEF q
<1>5. DOMAIN procs' = DOMAIN procs
  BY <1>1
<1>6. ASSUME "parents" \in trace.has, NEW k \in DOMAIN procs' PROVE Found(trace.parents, procs', k)
  <2>1. Found(trace.parents, procs, k)
    BY <1>1, <1>5, <1>6 DEF Search
  <2>2. procs'[k].pid = procs[k].pid /\ procs'[k].ppid = procs[k].ppid
    BY <1>4, <1>5, <1>6
  <2> QED BY <2>1, <2>2, <1>5, SameSearch
<1> QED BY <1>1, <1>6 DEF Search

(* The search is right in every step. *)
LEMMA StepSearch == ASSUME TypeInv, Search, [Next]_vars PROVE Search'
<1>1. CASE UNCHANGED vars
  BY <1>1 DEF vars, Search
<1>2. CASE pc' # "reparent" /\ pc' # "crop"
  BY <1>2 DEF Search
<1>3. CASE Next /\ (pc' = "reparent" \/ pc' = "crop")
  <2>1. MergeCmdlines \/ Climb \/ Stitch
    <3>1. ASSUME ReadHeader \/ ReadDiskStats \/ ReadStat \/ ReadMeminfo \/ ReadDmesg
                 \/ ReadPaternity \/ ReadCmdlines \/ EndProcessLog
          PROVE  pc' = "parse"
      BY <3>1 DEF ReadHeader, ReadDiskStats, ReadStat, ReadMeminfo, ReadDmesg, ReadPaternity,
                  ReadCmdlines, EndProcessLog, Parsed, Reading
    <3>2. ASSUME ReadBlock PROVE pc' = "parse"
      BY <3>2 DEF ReadBlock, Reading
    <3>3. ASSUME Validate \/ Crop \/ Annotate
          PROVE  pc' \in {"cmdlines", "failed", "annotate", "done"}
      BY <3>3 DEF Validate, Crop, Annotate
    <3> QED BY <1>3, <3>1, <3>2, <3>3 DEF Next
  <2> QED BY <2>1, MergeSearch, ClimbSearch, StitchSearch
<1> QED BY <1>1, <1>2, <1>3

(* Every process whose parent left no entry is given the nearest ancestor   *)
(* that left one, whatever the two logs say (parsing.py, 100-125).          *)
THEOREM ParentsNearest == Spec => []NearestAncestor
<1>1. Init => TypeInv /\ Search
  <2>1. Init => Search
    BY DEF Init, Search
  <2> QED BY <2>1, InitTypes
<1>2. TypeInv /\ Search /\ [Next]_vars => (TypeInv /\ Search)'
  BY StepTypes, StepSearch
<1>3. ASSUME Search PROVE NearestAncestor
  <2> SUFFICES ASSUME pc = "crop", "parents" \in trace.has, NEW k \in DOMAIN procs
               PROVE  LET up   == Ancestor(RealPid(procs[k].pid))
                          hits == {n \in DOMAIN up \ {0} : Key(up[n]) \in DOMAIN procs}
                      IN  hits # {} => procs[k].ppid = Key(up[Min(hits)])
    BY DEF NearestAncestor
  <2>1. Ancestor(RealPid(procs[k].pid)) = Up(trace.parents, RealPid(procs[k].pid))
    BY DEF Ancestor, Up, Climbs, Above
  <2>2. Found(trace.parents, procs, k)
    BY <1>3 DEF Search
  <2> QED BY <2>1, <2>2 DEF Found, Hits
<1>4. Search => NearestAncestor
  BY <1>3
<1> QED BY <1>1, <1>2, <1>4, PTL DEF Spec

(* ------------------------------------------------------------------------ *)
(* The crop                                                                 *)

(* A window at the end of which the load stayed below a quarter, on average,*)
(* and any window that begins before it, quiet as far as it can still be    *)
(* seen: that one was idle as well.                                         *)
LEMMA StillIdle ==
  ASSUME NEW U, Loads(U), NEW t \in Nat, NEW F \in Nat, t < F,
         Quiet(PopAfter(U, F + Window), t),
         NEW J \in 1..Len(U), IsIdleAt(U, F, J),
         \A i \in 1..Len(U) : U[i].time > F + Window => J <= i,
         NEW j \in 1..Len(U), j <= J, U[j].time >= t, U[j].time <= t + Window
  PROVE  IsIdleAt(U, t, j)
<1> DEFINE S == [time : Nat, load : Int]
           n == Len(U)
           at == F + Window
           V == PopAfter(U, at)
           m == Len(V)
           after == {i \in j + 1..n : U[i].time >= t + Window}
           k == Min(after \cup {n})
           afterF == {i \in J + 1..n : U[i].time >= F + Window}
           kF == Min(afterF \cup {n})
           a == [i \in 1..n |-> U[i].load]
<1>1. n \in Nat /\ \A i \in 1..n : U[i].time \in Nat /\ U[i].load \in Int
  <2>1. U \in Seq(S) /\ \A x \in S : x.time \in Nat /\ x.load \in Int
    BY DEF Loads
  <2> HIDE DEF S
  <2> QED BY <2>1, Elements
<1>2. Window = 300
  BY DEF Window
<1>3. at \in Int /\ at = F + 300
  BY <1>2
<1>4. /\ m \in 0..n
      /\ \A i \in 1..m : i \in 1..n /\ V[i] = U[i] /\ U[i].time <= at
      /\ \A i \in 1..n : U[i].time <= at => i <= m
  <2>1. CutLoads(V, U, at)
    BY <1>3, CroppedLoads
  <2> QED BY <2>1 DEF CutLoads
<1>5. Quiet(V, t)
  OBVIOUS
<1>6. IsIdleAt(U, t, j) <=> U[j].load < 25 /\ Total(a, j, k) < 25 * (k - j + 1)
  BY DEF IsIdleAt
<1>7. U[J].load < 25 /\ Total(a, J, kF) < 25 * (kF - J + 1)
  BY DEF IsIdleAt
<1>8. /\ j \in 1..n /\ J \in 1..n /\ j <= J
      /\ \A i \in 1..n : U[i].time > at => J <= i
      /\ U[j].time >= t /\ U[j].time <= t + 300
  BY <1>2
<1>9. \A i, h \in 1..n : i <= h => U[i].time <= U[h].time
  BY DEF Loads, Ordered
<1>10. /\ k \in after \cup {n} /\ \A i \in after \cup {n} : k <= i
       /\ kF \in afterF \cup {n} /\ \A i \in afterF \cup {n} : kF <= i
  <2>1. after \cup {n} \subseteq Nat /\ afterF \cup {n} \subseteq Nat
    BY <1>1
  <2>2. after \cup {n} # {} /\ afterF \cup {n} # {}
    OBVIOUS
  <2> HIDE DEF after, afterF, n
  <2> QED BY <2>1, <2>2, LeastIs
<1>11. k \in j..n /\ \A i \in j + 1..k - 1 : i \in 1..n /\ U[i].time < t + 300
  <2> HIDE DEF k
  <2>1. k \in j..n
    BY <1>1, <1>8, <1>10
  <2>2. ASSUME NEW i \in j + 1..k - 1 PROVE i \in 1..n /\ U[i].time < t + 300
    <3>1. i \in j + 1..n /\ i \in 1..n /\ ~ (k <= i)
      BY <2>1, <1>1, <1>8
    <3>2. i \notin after
      BY <3>1, <1>10
    <3>3. ~ (U[i].time >= t + 300) /\ U[i].time \in Nat
      BY <3>1, <3>2, <1>1, <1>2
    <3> QED BY <3>1, <3>3
  <2> QED BY <2>1, <2>2
<1>12. \A i \in 1..n : a[i] = U[i].load /\ a[i] \in Int
  BY <1>1
<1> HIDE DEF S, n, at, V, m, k, kF, a
(* What is seen is below a quarter. *)
<1>13. ASSUME NEW i \in 1..m, U[i].time >= t, U[i].time <= t + 600 PROVE U[i].load < 25
  <2>1. i \in 1..Len(V) /\ V[i] = U[i] /\ U[i].time \in Nat
    BY <1>1, <1>4 DEF m
  <2>2. V[i].time \in t..t + 2 * Window
    BY <2>1, <1>2, <1>13
  <2> QED BY <2>1, <2>2, <1>5 DEF Quiet
<1>14. ASSUME NEW i \in 1..m, i + 1 \in 1..m PROVE U[i + 1].time <= U[i].time + 300
  <2>1. i \in 1..Len(V) - 1 /\ V[i] = U[i] /\ V[i + 1] = U[i + 1]
    BY <1>14, <1>4 DEF m
  <2>2. V[i + 1].time <= V[i].time + Window
    BY <2>1, <1>5 DEF Quiet
  <2> QED BY <2>1, <2>2, <1>2
<1>15. \A i \in j..k - 1 : i \in 1..n /\ U[i].time >= t /\ U[i].time <= t + 300 /\ i <= m
                           /\ U[i].load < 25
  <2> SUFFICES ASSUME NEW i \in j..k - 1
               PROVE  i \in 1..n /\ U[i].time >= t /\ U[i].time <= t + 300 /\ i <= m
                      /\ U[i].load < 25
    OBVIOUS
  <2>1. i \in 1..n /\ (i = j \/ i \in j + 1..k - 1)
    BY <1>1, <1>8, <1>11
  <2>2. U[i].time <= t + 300 /\ U[i].time \in Nat
    <3> DEFINE x == U[i].time
    <3>1. x \in Nat
      BY <2>1, <1>1
    <3>2. i = j => x <= t + 300
      BY <1>8
    <3>3. i \in j + 1..k - 1 => x < t + 300
      BY <1>11
    <3> HIDE DEF x
    <3>4. x <= t + 300
      BY <3>1, <3>2, <3>3, <2>1
    <3> QED BY <3>1, <3>4 DEF x
  <2>3. U[i].time >= t
    <3>1. U[j].time <= U[i].time /\ U[j].time \in Nat
      BY <2>1, <1>1, <1>8, <1>9
    <3> QED BY <3>1, <2>2, <1>8
  <2>4. i <= m
    <3>1. U[i].time <= at
      BY <2>2, <1>3
    <3> QED BY <3>1, <2>1, <1>4
  <2>5. i \in 1..m /\ U[i].time <= t + 600
    BY <2>1, <2>2, <2>4, <1>4
  <2>6. U[i].load < 25
    BY <2>3, <2>5, <1>13
  <2> QED BY <2>1, <2>2, <2>3, <2>4, <2>6
<1>16. j <= m /\ U[j].load < 25
  <2>1. U[j].time \in Nat /\ U[j].time <= at
    BY <1>1, <1>3, <1>8
  <2>2. j <= m
    BY <2>1, <1>4, <1>8
  <2>3. j \in 1..m /\ U[j].time <= t + 600
    BY <2>1, <2>2, <1>4, <1>8
  <2> QED BY <2>2, <2>3, <1>8, <1>13
(* The average of loads all below a quarter is. *)
<1>17. ASSUME U[k].load < 25 PROVE Total(a, j, k) < 25 * (k - j + 1)
  <2>1. j \in Nat \ {0} /\ k \in Nat /\ k >= j - 1 /\ k >= j
    BY <1>1, <1>8, <1>11
  <2>2. \A i \in j..k : i \in 1..n /\ (i = k \/ i \in j..k - 1)
    BY <1>1, <1>8, <1>11
  <2>3. \A i \in j..k : a[i] \in Int /\ a[i] < 25
    BY <2>2, <1>12, <1>15, <1>17
  <2>4. Total(a, j, k) <= 24 * (k - j + 1)
    BY <2>1, <2>3, TotalSmall
  <2>5. Total(a, j, k) \in Int
    BY <2>1, <2>3, TotalIs
  <2> QED BY <2>1, <2>4, <2>5
<1>18. CASE k <= m
  <2>1. k \in 1..m /\ k \in 1..n /\ U[k].time \in Nat
    BY <1>18, <1>1, <1>4, <1>8, <1>11
  <2>2. U[k].time <= t + 600
    <3>1. CASE k = j
      BY <3>1, <2>1, <1>8
    <3>2. CASE k # j
      <4> DEFINE h == k - 1
      <4>1. k \in Nat /\ j \in Nat /\ m \in Nat /\ j >= 1 /\ k > j /\ k <= m
        BY <3>2, <1>1, <1>4, <1>8, <1>11, <1>18
      <4>2. h \in j..k - 1 /\ h \in 1..m /\ h + 1 = k
        BY <4>1
      <4> HIDE DEF h
      <4>3. U[h].time <= t + 300 /\ U[h].time \in Nat
        BY <4>2, <1>1, <1>15
      <4>4. U[k].time <= U[h].time + 300
        <5>1. h + 1 \in 1..m
          BY <4>2, <2>1
        <5>2. U[h + 1].time <= U[h].time + 300
          BY <4>2, <5>1, <1>14
        <5> QED BY <5>2, <4>2
      <4> DEFINE x == U[h].time
                 y == U[k].time
      <4>5. x \in Nat /\ y \in Nat /\ x <= t + 300 /\ y <= x + 300
        BY <4>3, <4>4, <2>1
      <4> HIDE DEF x, y
      <4>6. y <= t + 600
        BY <4>5
      <4> QED BY <4>6 DEF y
    <3> QED BY <3>1, <3>2
  <2>3. U[k].time >= t
    <3>1. U[j].time <= U[k].time /\ U[j].time \in Nat
      BY <2>1, <1>1, <1>8, <1>9, <1>11
    <3> QED BY <3>1, <2>1, <1>8
  <2>4. U[k].load < 25
    BY <2>1, <2>2, <2>3, <1>13
  <2> QED BY <2>4, <1>6, <1>16, <1>17
<1>19. CASE ~ (k <= m)
  <2>1. k \in 1..n /\ U[k].time \in Nat /\ m \in Nat
    BY <1>1, <1>4, <1>8, <1>11
  <2>2. U[k].time > at
    BY <2>1, <1>3, <1>4, <1>19
  <2>3. J <= k
    BY <2>1, <2>2, <1>8
  <2>4. CASE J = k
    BY <2>4, <1>6, <1>7, <1>16, <1>17
  <2>5. CASE J # k
    <3>1. k \in afterF
      BY <2>1, <2>2, <2>3, <2>5, <1>1, <1>2, <1>3, <1>8
    <3>2. ASSUME NEW i \in J + 1..k - 1 PROVE i \notin afterF
      <4>1. i \in j..k - 1
        BY <1>8, <2>1
      <4>2. U[i].time <= t + 300 /\ U[i].time \in Nat
        BY <4>1, <1>1, <1>15
      <4>3. ~ (U[i].time >= F + Window)
        BY <4>2, <1>2
      <4> QED BY <4>3
    <3>3. kF = k
      <4>1. kF <= k /\ k <= n
        BY <3>1, <1>10, <2>1
      <4>2. kF \in J + 1..n \/ kF = n
        BY <1>10
      <4>3. kF \notin J + 1..k - 1
        <5>1. kF \in J + 1..k - 1 => kF \in afterF
          BY <1>10, <4>1, <1>1, <2>1
        <5> QED BY <5>1, <3>2
      <4>4. k \in Nat /\ kF \in Nat /\ J \in Nat /\ n \in Nat
        BY <4>2, <1>1, <1>8, <2>1
      <4> QED BY <4>1, <4>2, <4>3, <4>4
    <3>4. Total(a, J, k) < 25 * (k - J + 1)
      BY <3>3, <1>7
    <3> DEFINE l == J - 1
    <3>5. /\ j \in Nat \ {0} /\ J \in Nat \ {0} /\ k \in Nat /\ J \in j..k
          /\ l \in Nat /\ l >= j - 1
      <4>1. j \in Nat \ {0} /\ J \in Nat \ {0} /\ j <= J
        BY <1>1, <1>8
      <4>2. k \in Nat /\ J <= k
        BY <4>1, <1>1, <2>1, <2>3
      <4> QED BY <4>1, <4>2
    <3>6. \A i \in j..k : i \in 1..n
      BY <1>1, <1>8, <2>1
    <3>7. \A i \in j..k : a[i] \in Int
      BY <3>6, <1>12
    <3>8. \A i \in j..l : i \in j..k - 1
      BY <3>5, <2>5
    <3>9. \A i \in j..l : a[i] \in Int /\ a[i] < 25
      BY <3>8, <1>12, <1>15
    <3>10. Total(a, j, k) = Total(a, j, l) + Total(a, J, k)
      BY <3>5, <3>7, TotalSplits
    <3>11. \A i \in J..k : a[i] \in Int
      BY <3>5, <3>7
    <3> HIDE DEF l
    <3>12. Total(a, j, l) <= 24 * (l - j + 1) /\ Total(a, j, l) \in Int
      BY <3>5, <3>9, TotalSmall, TotalIs
    <3>13. Total(a, J, k) \in Int
      BY <3>5, <3>11, TotalIs
    <3>14. Total(a, j, k) < 25 * (k - j + 1)
      <4> DEFINE x == Total(a, j, l)
                 y == Total(a, J, k)
      <4>1. x \in Int /\ y \in Int /\ x <= 24 * (J - j) /\ y < 25 * (k - J + 1)
            /\ Total(a, j, k) = x + y
        <5>1. l - j + 1 = J - j
          BY <3>5 DEF l
        <5> QED BY <5>1, <3>4, <3>10, <3>12, <3>13
      <4> HIDE DEF x, y
      <4>2. 24 * (J - j) <= 25 * (J - j)
        BY <1>8, <3>5
      <4>3. x + y < 25 * (k - j + 1)
        BY <4>1, <4>2, <3>5
      <4> QED BY <4>1, <4>3
    <3> QED BY <3>14, <1>6, <1>16
  <2> QED BY <2>4, <2>5
<1> QED BY <1>18, <1>19

(* Where processors and disks stayed idle, and an earlier sample after which*)
(* both were quiet: they stayed idle from that one on.                      *)
LEMMA PassedOver ==
  ASSUME NEW C, Loads(C), NEW D, Loads(D), NEW F \in Nat, NEW t \in Nat, t < F,
         NEW J \in 1..Len(C), C[J].time = F, IsIdleAt(C, F, J), IsIdle(D, F),
         NEW j \in 1..Len(C), C[j].time = t,
         Quiet(PopAfter(C, F + Window), t), Quiet(PopAfter(D, F + Window), t)
  PROVE  IsIdleAt(C, t, j) /\ IsIdle(D, t)
<1>1. /\ Len(C) \in Nat /\ \A i \in 1..Len(C) : C[i].time \in Nat
      /\ Len(D) \in Nat /\ \A i \in 1..Len(D) : D[i].time \in Nat
  <2> DEFINE S == [time : Nat, load : Int]
  <2>1. C \in Seq(S) /\ D \in Seq(S) /\ \A x \in S : x.time \in Nat
    BY DEF Loads
  <2> HIDE DEF S
  <2>2. Len(C) \in Nat /\ \A i \in 1..Len(C) : C[i] \in S
    BY <2>1, Elements
  <2>3. Len(D) \in Nat /\ \A i \in 1..Len(D) : D[i] \in S
    BY <2>1, Elements
  <2> QED BY <2>1, <2>2, <2>3
<1>2. /\ \A i, h \in 1..Len(C) : i <= h => C[i].time <= C[h].time
      /\ \A i, h \in 1..Len(D) : i <= h => D[i].time <= D[h].time
  BY DEF Loads, Ordered
<1>3. Window = 300
  BY DEF Window
<1>4. IsIdleAt(C, t, j)
  <2>1. j <= J
    <3>1. J <= j => F <= t
      BY <1>2
    <3> QED BY <3>1, <1>1
  <2>2. ASSUME NEW i \in 1..Len(C), C[i].time > F + Window PROVE J <= i
    <3>1. i <= J => C[i].time <= F
      BY <1>2
    <3>2. C[i].time \in Nat /\ C[i].time > F + 300
      BY <2>2, <1>1, <1>3
    <3> QED BY <3>1, <3>2, <1>1
  <2>3. C[j].time >= t /\ C[j].time <= t + Window
    BY <1>3
  <2> QED BY <2>1, <2>2, <2>3, StillIdle
<1>5. IsIdle(D, t)
  <2> DEFINE laterF == {i \in 1..Len(D) : D[i].time >= F}
             later == {i \in 1..Len(D) : D[i].time >= t}
             K == Min(laterF)
             k == Min(later)
             V == PopAfter(D, F + Window)
  <2>1. laterF # {} /\ IsIdleAt(D, F, K)
    BY DEF IsIdle
  <2>2. K \in laterF /\ \A i \in laterF : K <= i
    <3>1. laterF \subseteq Nat
      BY <1>1
    <3> HIDE DEF laterF
    <3> QED BY <2>1, <3>1, LeastIs
  <2> HIDE DEF K
  <2>3. K \in 1..Len(D) /\ D[K].time >= F /\ D[K].time \in Nat /\ K \in later
    BY <2>2, <1>1
  <2>4. k \in later /\ \A i \in later : k <= i
    <3>1. later \subseteq 1..Len(D)
      OBVIOUS
    <3> HIDE DEF later
    <3>2. later # {}
      BY <2>3
    <3>3. later \subseteq Nat
      BY <3>1, <1>1
    <3> QED BY <3>2, <3>3, LeastIs
  <2> HIDE DEF k
  <2>5. k \in 1..Len(D) /\ D[k].time >= t /\ D[k].time \in Nat /\ k <= K
    BY <2>3, <2>4, <1>1
  <2>6. ASSUME NEW i \in 1..Len(D), D[i].time > F + Window PROVE K <= i
    <3>1. D[i].time \in Nat /\ D[i].time > F + 300
      BY <2>6, <1>1, <1>3
    <3>2. D[i].time >= F
      BY <3>1
    <3>3. i \in laterF
      BY <3>2
    <3> QED BY <3>3, <2>2
  <2>7. D[k].time <= t + Window
    <3>1. PICK i \in 1..Len(V) : V[i].time \in t..t + 2 * Window /\ V[i].time <= t + Window
      BY DEF Quiet
    <3>2. i \in 1..Len(D) /\ V[i] = D[i]
      <4>1. F + Window \in Int
        BY <1>3
      <4>2. CutLoads(V, D, F + Window)
        BY <4>1, CroppedLoads
      <4> QED BY <4>2 DEF CutLoads
    <3>3. D[i].time >= t /\ D[i].time <= t + Window
      BY <3>1, <3>2, <1>1, <1>3
    <3>4. k <= i
      BY <3>2, <3>3, <2>4
    <3>5. D[k].time <= D[i].time
      BY <3>2, <3>4, <2>5, <1>2
    <3> DEFINE x == D[k].time
               y == D[i].time
    <3>6. x \in Nat /\ y \in Nat /\ x <= y /\ y <= t + 300
      BY <3>2, <3>3, <3>5, <2>5, <1>1, <1>3
    <3> HIDE DEF x, y
    <3>7. x <= t + 300
      BY <3>6
    <3> QED BY <3>7, <1>3 DEF x
  <2>8. IsIdleAt(D, t, k)
    BY <2>1, <2>3, <2>5, <2>6, <2>7, StillIdle
  <2>9. later # {}
    BY <2>4
  <2> QED BY <2>8, <2>9 DEF IsIdle, k
<1> QED BY <1>4, <1>5

(* What the crop is to leave: the property without the state it is about.   *)
Cut ==
  /\ \A k \in DOMAIN procs :
       /\ EndTime(procs[k]) <= idle + Window
       /\ \A s \in ToSet(procs[k].samples) : s.time <= idle + Window
  /\ \A i \in 1..Len(trace.cpu) : trace.cpu[i].time <= idle + Window
  /\ \A i \in 1..Len(trace.disk) : trace.disk[i].time <= idle + Window
  /\ \E k \in Chosen : \A i \in 1..Len(trace.cpu) :
       procs[k].start <= trace.cpu[i].time /\ trace.cpu[i].time < idle
         => ~ (Quiet(trace.cpu, trace.cpu[i].time)
               /\ Quiet(trace.disk, trace.cpu[i].time))

(* No idle time before the crop; from then on what it left.                 *)
CropInv ==
  /\ pc \notin {"annotate", "done"} => idle = NoTime
  /\ pc \in {"annotate", "done"} /\ idle # NoTime => Cut

(* The crop leaves what it should: the idle time is the first there is.     *)
LEMMA CropCuts ==
  ASSUME TypeInv, CropInv, Crop, idle' # NoTime
  PROVE  Cut'
<1>1. pc = "crop" /\ idle = NoTime
  BY DEF Crop, CropInv
<1>2. PICK k \in Chosen :
        LET found == IdleTimes(procs[k].start)
        IN  IF CropAfter = {} \/ found = {}
              THEN UNCHANGED <<trace, procs, idle>>
              ELSE LET at == Min(found) + Window
                   IN  /\ idle' = Min(found)
                       /\ trace' = [trace EXCEPT !.cpu  = PopAfter(@, at),
                                                 !.disk = PopAfter(@, at)]
                       /\ procs' = [q \in {q \in DOMAIN procs : procs[q].start <= at}
                                      |-> Cropped(procs[q], at)]
  BY DEF Crop
<1> DEFINE found == IdleTimes(procs[k].start)
           F == Min(found)
           at == F + Window
           C == trace.cpu
           D == trace.disk
<1>3. found # {} /\ CropAfter # {}
  BY <1>1, <1>2
<1>4. /\ idle' = F
      /\ trace' = [trace EXCEPT !.cpu = PopAfter(@, at), !.disk = PopAfter(@, at)]
      /\ procs' = [q \in {q \in DOMAIN procs : procs[q].start <= at} |-> Cropped(procs[q], at)]
  BY <1>2, <1>3
<1>5. /\ F \in found /\ F \in Nat /\ F >= procs[k].start
      /\ \A t \in found : F <= t
  BY <1>3, IdleTimesAre
<1>6. PICK J \in 1..Len(C) :
        C[J].time = F /\ IsIdleAt(C, C[J].time, J) /\ IsIdle(D, C[J].time)
  BY <1>5 DEF IdleTimes
<1>7. \A j \in 1..Len(C) :
        C[j].time >= procs[k].start /\ IsIdleAt(C, C[j].time, j) /\ IsIdle(D, C[j].time)
          => C[j].time \in found
  BY DEF IdleTimes
<1>8. Loads(C) /\ Loads(D)
  BY DEF TypeInv, TraceOK
<1> HIDE DEF found, F
<1>9. at \in Int
  BY <1>5 DEF Window
<1>10. trace'.cpu = PopAfter(C, at) /\ trace'.disk = PopAfter(D, at)
  <2>1. trace = [has |-> trace.has, cpus |-> trace.cpus, disk |-> trace.disk,
                 cpu |-> trace.cpu, mem |-> trace.mem, kernel |-> trace.kernel,
                 parents |-> trace.parents, cmdlines |-> trace.cmdlines,
                 period |-> trace.period, taskstats |-> trace.taskstats]
    BY DEF TypeInv, TraceOK
  <2> DEFINE c == PopAfter(C, at)
             d == PopAfter(D, at)
  <2>2. trace' = [trace EXCEPT !.cpu = c, !.disk = d]
    BY <1>4
  <2> HIDE DEF c, d
  <2>3. trace'.cpu = c /\ trace'.disk = d
    BY <2>1, <2>2
  <2> QED BY <2>3 DEF c, d
<1>11. PICK now \in Nat : Entries(procs, now)
  BY DEF TypeInv
<1>12. \A q : q \in DOMAIN procs' <=> q \in DOMAIN procs /\ procs[q].start <= at
  BY <1>4
<1>13. ASSUME NEW q \in DOMAIN procs'
       PROVE  /\ q \in DOMAIN procs /\ procs'[q] = Cropped(procs[q], at)
              /\ EndTime(procs'[q]) <= at
              /\ \A s \in ToSet(procs'[q].samples) : s.time <= at
              /\ procs'[q].cmd = procs[q].cmd /\ procs'[q].exe = procs[q].exe
              /\ procs'[q].start = procs[q].start
  <2>1. q \in DOMAIN procs /\ procs'[q] = Cropped(procs[q], at)
    BY <1>4, <1>13
  <2> DEFINE p == procs[q]
  <2>2. /\ EntryAt(q, p, now) /\ procs'[q] = Cropped(p, at)
        /\ at \in Int /\ now \in Nat
    BY <2>1, <1>9, <1>11 DEF Entries
  <2> HIDE DEF p, at
  <2>3. CutOff(Cropped(p, at), p, at)
    BY <2>2, CroppedEntry
  <2>4. CutOff(procs'[q], p, at)
    BY <2>2, <2>3
  <2> QED BY <2>1, <2>4 DEF CutOff, p
<1>14. \A i \in 1..Len(trace'.cpu) : i \in 1..Len(C) /\ trace'.cpu[i] = C[i] /\ C[i].time <= at
  <2> DEFINE r == trace'.cpu
  <2> HIDE DEF C, at
  <2>1. CutLoads(PopAfter(C, at), C, at)
    BY <1>8, <1>9, CroppedLoads
  <2>2. r = PopAfter(C, at)
    BY <1>10
  <2> HIDE DEF r
  <2>3. CutLoads(r, C, at)
    BY <2>1, <2>2
  <2> QED BY <2>3 DEF CutLoads, r
<1>15. \A i \in 1..Len(trace'.disk) : trace'.disk[i].time <= at
  <2> DEFINE r == trace'.disk
  <2> HIDE DEF D, at
  <2>1. CutLoads(PopAfter(D, at), D, at)
    BY <1>8, <1>9, CroppedLoads
  <2>2. r = PopAfter(D, at)
    BY <1>10
  <2> HIDE DEF r
  <2>3. CutLoads(r, D, at)
    BY <2>1, <2>2
  <2>4. \A i \in 1..Len(r) : r[i].time <= at
    BY <2>3 DEF CutLoads
  <2> QED BY <2>4 DEF r
<1>16. k \in Chosen' /\ k \in DOMAIN procs /\ procs[k].start \in Nat
       /\ procs'[k].start = procs[k].start
  <2>1. k \in DOMAIN procs
    BY <1>2 DEF Chosen, Named
  <2>2. procs[k].start \in Nat
    BY <2>1, <1>11 DEF Entries, EntryAt, Process
  <2>3. procs[k].start <= at
    BY <2>2, <1>5 DEF Window
  <2>4. k \in DOMAIN procs'
    BY <2>1, <2>3, <1>12
  <2>5. \A q \in Named(CropAfter)' : q \in Named(CropAfter)
    BY <1>13 DEF Named
  <2>6. k \in Named(CropAfter) => k \in Named(CropAfter)'
    BY <2>4, <1>13 DEF Named
  <2>7. k \in Chosen'
    BY <2>4, <2>5, <2>6, <1>2 DEF Chosen
  <2> QED BY <2>1, <2>2, <2>4, <2>7, <1>13
<1>17. ASSUME NEW i \in 1..Len(trace'.cpu),
              procs'[k].start <= trace'.cpu[i].time, trace'.cpu[i].time < idle',
              Quiet(trace'.cpu, trace'.cpu[i].time), Quiet(trace'.disk, trace'.cpu[i].time)
       PROVE  FALSE
  <2> DEFINE t == C[i].time
  <2>1. i \in 1..Len(C) /\ trace'.cpu[i].time = t /\ t < F
    BY <1>4, <1>14, <1>17
  <2>2. t \in Nat
    <3> DEFINE S == [time : Nat, load : Int]
    <3>1. C \in Seq(S) /\ \A x \in S : x.time \in Nat
      BY <1>8 DEF Loads
    <3> HIDE DEF S, C
    <3>2. C[i] \in S
      BY <3>1, <2>1, Elements
    <3> QED BY <3>1, <3>2
  <2>7. procs[k].start <= t
    BY <2>1, <1>16, <1>17
  <2> HIDE DEF C, D, t
  <2>8. Quiet(PopAfter(C, F + Window), t) /\ Quiet(PopAfter(D, F + Window), t)
    BY <2>1, <1>10, <1>17
  <2>9. C[i].time = t
    BY DEF t
  <2>10. IsIdleAt(C, F, J) /\ IsIdle(D, F) /\ C[J].time = F
    BY <1>6
  <2>11. IsIdleAt(C, t, i) /\ IsIdle(D, t)
    BY <2>1, <2>2, <2>8, <2>9, <2>10, <1>5, <1>8, PassedOver
  <2>12. t \in found
    <3>1. t >= procs[k].start
      BY <1>16, <2>2, <2>7
    <3> QED BY <3>1, <2>1, <2>9, <2>11, <1>7
  <2>13. F <= t
    BY <2>12, <1>5
  <2> QED BY <2>1, <2>2, <2>13, <1>5
<1>18. Cut'
  <2>1. idle' + Window = at
    BY <1>4
  <2> HIDE DEF at
  <2>2. \A q \in DOMAIN procs' :
          /\ EndTime(procs'[q]) <= idle' + Window
          /\ \A s \in ToSet(procs'[q].samples) : s.time <= idle' + Window
    BY <2>1, <1>13
  <2>3. /\ \A i \in 1..Len(trace'.cpu) : trace'.cpu[i].time <= idle' + Window
        /\ \A i \in 1..Len(trace'.disk) : trace'.disk[i].time <= idle' + Window
    BY <2>1, <1>14, <1>15
  <2> QED BY <2>2, <2>3, <1>16, <1>17 DEF Cut
<1> QED BY <1>18

(* Every step keeps that.                                                   *)
LEMMA StepCrop == ASSUME TypeInv, CropInv, [Next]_vars PROVE CropInv'
<1>1. CASE UNCHANGED vars
  BY <1>1 DEF vars, CropInv, Cut, Chosen, Named
<1>2. CASE Crop
  <2>1. pc' = "annotate"
    BY <1>2 DEF Crop
  <2>2. idle' # NoTime => Cut'
    BY <1>2, CropCuts
  <2> QED BY <2>1, <2>2 DEF CropInv
<1>3. CASE Annotate
  <2>1. pc = "annotate" /\ pc' = "done" /\ UNCHANGED <<trace, procs, idle>>
    BY <1>3 DEF Annotate
  <2>2. Cut => Cut'
    BY <2>1 DEF Cut, Chosen, Named
  <2> QED BY <2>1, <2>2 DEF CropInv
<1>4. CASE Next /\ ~ Crop /\ ~ Annotate
  <2>1. idle' = idle /\ pc \notin {"annotate", "done"} /\ pc' \notin {"annotate", "done"}
    <3>1. ASSUME ReadHeader \/ ReadDiskStats \/ ReadStat \/ ReadMeminfo \/ ReadDmesg
                 \/ ReadPaternity \/ ReadCmdlines \/ EndProcessLog
          PROVE  pc = "parse" /\ pc' = "parse" /\ idle' = idle
      BY <3>1 DEF ReadHeader, ReadDiskStats, ReadStat, ReadMeminfo, ReadDmesg, ReadPaternity,
                  ReadCmdlines, EndProcessLog, Parsed, Reading
    <3>2. ASSUME ReadBlock PROVE pc = "parse" /\ pc' = "parse" /\ idle' = idle
      BY <3>2 DEF ReadBlock, Reading
    <3>3. ASSUME Validate PROVE pc = "parse" /\ pc' \in {"cmdlines", "failed"} /\ idle' = idle
      BY <3>3 DEF Validate
    <3>4. ASSUME MergeCmdlines PROVE pc = "cmdlines" /\ pc' = "reparent" /\ idle' = idle
      BY <3>4 DEF MergeCmdlines
    <3>5. ASSUME Climb PROVE pc = "reparent" /\ pc' = "reparent" /\ idle' = idle
      BY <3>5 DEF Climb
    <3>6. ASSUME Stitch PROVE pc = "reparent" /\ pc' = "crop" /\ idle' = idle
      BY <3>6 DEF Stitch
    <3> QED BY <1>4, <3>1, <3>2, <3>3, <3>4, <3>5, <3>6 DEF Next
  <2> QED BY <2>1 DEF CropInv
<1> QED BY <1>1, <1>2, <1>3, <1>4

(* Nothing reaches beyond the crop, and no earlier quiet window after the   *)
(* named process was passed over, whatever was logged (parsing.py, 144-218).*)
THEOREM CropsAtFirstIdle == Spec => []CroppedAtFirstIdle
<1>1. Init => TypeInv /\ CropInv
  <2>1. Init => CropInv
    BY DEF Init, CropInv
  <2> QED BY <2>1, InitTypes
<1>2. TypeInv /\ CropInv /\ [Next]_vars => (TypeInv /\ CropInv)'
  BY StepTypes, StepCrop
<1>3. CropInv => CroppedAtFirstIdle
  BY DEF CropInv, Cut, CroppedAtFirstIdle
<1> QED BY <1>1, <1>2, <1>3, PTL DEF Spec

=============================================================================
