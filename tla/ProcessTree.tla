----------------------------- MODULE ProcessTree -----------------------------
(***************************************************************************)
(* The tree of processes of a chart (pybootchartgui/process_tree.py): it   *)
(* is built from the parents the parser found, then pruned and merged, and *)
(* sorted.                                                                 *)
(*                                                                         *)
(* A process is its place in the process list, which is sorted by pid.     *)
(* kids[p] is p.child_list, and kids[Top] is the list of roots; a recursive *)
(* method is a stack of frames, each a list and the index of a loop over   *)
(* it, counted from 1.  A frame's index is moved on before the recursive   *)
(* call that precedes the increment.                                       *)
(***************************************************************************)
EXTENDS SequencesExt

CONSTANTS
  N,         \* number of processes
  Forests,   \* the processes a run considers
  Period,    \* sample_period
  CropAt,    \* where the trace was cropped, or a time after all of it
  Prune,     \* the option of that name
  Monitored  \* profile.process of the header, or NoCmd

(* A sample is within the bar of its process, and so is the period it       *)
(* stands for, but for what of it is beyond the crop.                       *)
InBar(r, s) ==
  /\ r.start <= s.time /\ s.time <= r.start + r.dur
  /\ s.time + Period <= r.start + r.dur \/ CropAt <= r.start + r.dur

ASSUME TreeAssumption == N \in Nat \ {0} /\ Period \in Nat \ {0} /\ CropAt \in Nat

(* What the parser makes of a process, and the samples it took of it.       *)
P == 1..N
Sample == [time : Nat, of : P]
Process == [cmd : STRING, ppid : Nat, parent : 0..N, start : Nat, dur : Nat,
            active : BOOLEAN, samples : Seq(Sample)]

(* A process has been sampled once at a time, the log is read from its      *)
(* start, calc_stats has made the bar reach over the samples (samples.py,   *)
(* 109-113), and crop has then cut bars at CropAt and kept the samples up   *)
(* to it, that of CropAt itself among them (parsing.py, 210-214).           *)
ASSUME ForestsAssumption ==
  \A f \in Forests :
    /\ f.proc \in [P -> Process] /\ f.accurate \in BOOLEAN
    /\ \A p \in P :
         LET samples == f.proc[p].samples
         IN  /\ \A s \in ToSet(samples) : s.of = p /\ InBar(f.proc[p], s)
             /\ \A i, k \in 1..Len(samples) : i < k => samples[i].time < samples[k].time

VARIABLES
  pc,        \* the method the constructor is in
  accurate,  \* accurate_parentage: the parents are from a log
  proc,      \* [cmd, ppid, parent, start, dur, active, samples] of each
  kids,      \* child lists
  span,      \* start_time and end_time of the tree
  stack,     \* frames of the method
  loggers,   \* logger processes still to be merged
  removed,   \* the processes prune has taken out of the tree
  numProc    \* num_proc

treeVars == <<pc, accurate, proc, kids, span, stack, loggers, removed, numProc>>

Top == 0
NoCmd == "none"
LoggerProc == "bootchartd"

(* The processes of a list and below it, in the order of the tree: each     *)
(* process is followed by its own subtree.                                  *)
Preorder(children, o) ==
  LET walk[d \in 0..N] ==
        [q \in P |->
           <<q>> \o (IF d = 0 THEN <<>>
                     ELSE FlattenSeq([i \in 1..Len(children[q]) |->
                                        walk[d - 1][children[q][i]]]))]
  IN  FlattenSeq([i \in 1..Len(children[o]) |-> walk[N][children[o][i]]])

(* Mutant: what is below the processes of the list is not counted. *)
NumNodesFlat(children, o) == Len(children[o])

NumNodes(children, o) == Len(Preorder(children, o))

(* The processes of a list and below it: the lists are gone down N levels,  *)
(* and no process can be further down.                                      *)
Below(children, o) ==
  LET down[n \in 0..N] ==
        IF n = 0 THEN ToSet(children[o])
                 ELSE down[n - 1] \cup UNION {ToSet(children[p]) : p \in down[n - 1]}
  IN  down[N]

InTree == Below(kids, Top)

End(ps, p) == ps[p].start + ps[p].dur

SpanOf(ps, children) ==
  LET tree == Below(children, Top)
  IN  [start |-> Min({100000000} \cup {ps[p].start : p \in tree}),
       end   |-> Max({-100000000} \cup {End(ps, p) : p \in tree})]

(* A list sorted by pid: the i-th has fewer than i before it, and with those *)
(* of its own pid at least i.                                               *)
SortedByPid(l) ==
  [i \in 1..Len(l) |->
     CHOOSE p \in ToSet(l) : /\ Cardinality({k \in 1..Len(l) : l[k] < p}) < i
                            /\ i <= Cardinality({k \in 1..Len(l) : l[k] <= p})]

(* Roots are the processes without a parent; lists are in order of pids.    *)
Built(ps) ==
  [o \in 0..N |-> SortedByPid(SetToSeq({p \in P : ps[p].parent = o}))]

Frame(o) == [of |-> o, at |-> 1]
Start == <<Frame(Top)>>

Build ==
  /\ pc = "build"
  /\ kids' = Built(proc)
  /\ span' = SpanOf(proc, kids')
  /\ pc' = IF accurate THEN "logger" ELSE "daemons"
  /\ stack' = Start
  /\ UNCHANGED <<accurate, proc, loggers, removed, numProc>>

(* Daemons that rc started have had their parent, runuser, die: processes   *)
(* of init between rc and the last of its descendants are given to rc.      *)
UpdateDaemons ==
  /\ pc = "daemons"
  /\ LET rcs     == {p \in P : proc[p].cmd = "rc" /\ proc[p].ppid = 1}
         rc      == Max(rcs)
         last    == Max({0} \cup Below(kids, rc))
         daemons == {p \in P : rc < p /\ p < last /\ proc[p].ppid = 1}
     IN  /\ proc' = IF rcs = {} THEN proc
                    ELSE [p \in P |-> IF p \in daemons
                                        THEN [proc[p] EXCEPT !.ppid = rc, !.parent = rc]
                                        ELSE proc[p]]
         /\ kids' = Built(proc')
         /\ span' = SpanOf(proc', kids')
  /\ pc' = "logger"
  /\ UNCHANGED <<accurate, stack, loggers, removed, numProc>>

(* Samples sorted by time, those of one time in the order they were in: the *)
(* i-th is the one with i samples up to it.                                 *)
NotAfter(s, j, k) == s[j].time < s[k].time \/ (s[j].time = s[k].time /\ j <= k)
Rank(s, k) == Cardinality({j \in 1..Len(s) : NotAfter(s, j, k)})
ByTime(s) == [i \in 1..Len(s) |-> s[CHOOSE k \in 1..Len(s) : Rank(s, k) = i]]

(* Mutant: the samples are appended and not sorted. *)
MergedUnsorted(p, q) ==
  LET first == Min({p.start, q.start})
      last  == Max({p.start + p.dur, q.start + q.dur})
  IN  [p EXCEPT !.samples = @ \o q.samples, !.start = first, !.dur = last - first]

(* Mutant: the duration is counted from the start p had before. *)
MergedLate(p, q) ==
  LET last == Max({p.start + p.dur, q.start + q.dur})
  IN  [p EXCEPT !.samples = ByTime(@ \o q.samples),
                !.start   = Min({@, q.start}),
                !.dur     = last - p.start]

(* Process q's samples and time are added to p.                             *)
Merged(p, q) ==
  LET first == Min({p.start, q.start})
      last  == Max({p.start + p.dur, q.start + q.dur})
  IN  [p EXCEPT !.samples = ByTime(@ \o q.samples),
                !.start   = first,
                !.dur     = last - first]

(* ------------------------------------------------------------------------ *)
(* A recursive method goes through a list                                   *)

Here == stack[Len(stack)]
List == kids[Here.of]
At(phase) == pc = phase /\ Here.at <= Len(List)
This == List[Here.at]

Enter(p, next) ==
  stack' = Append([stack EXCEPT ![Len(stack)].at = next], Frame(p))

(* A list has been gone through: back to the caller.                        *)
Return ==
  /\ pc \in {"logger", "prune", "siblings", "runs"}
  /\ Len(stack) > 1 /\ Here.at > Len(List)
  /\ stack' = Front(stack)
  /\ UNCHANGED <<pc, accurate, proc, kids, span, loggers, removed, numProc>>

Through(phase) == pc = phase /\ Len(stack) = 1 /\ Here.at > Len(List)

(* ------------------------------------------------------------------------ *)
(* merge_logger                                                             *)

(* One turn of the loop of filter_subtree.                                  *)
FilterStep ==
  /\ At("logger")
  /\ loggers' = IF proc[This].cmd = LoggerProc THEN Append(loggers, This) ELSE loggers
  /\ Enter(This, Here.at + 1)
  /\ UNCHANGED <<pc, accurate, proc, kids, span, removed, numProc>>

LoggersFound ==
  /\ Through("logger")
  /\ pc' = "merge logger"
  /\ stack' = IF loggers = <<>> THEN <<>> ELSE <<Frame(Head(loggers))>>
  /\ UNCHANGED <<accurate, proc, kids, span, loggers, removed, numProc>>

(* One turn of the loop over a logger's children: the child is merged and   *)
(* removed from the list being iterated, so that the next one is skipped.   *)
MergeLogger ==
  /\ pc = "merge logger"
  /\ loggers # <<>>
  /\ LET p == Head(loggers)
         i == stack[1].at
     IN  IF i > Len(kids[p])
           THEN /\ loggers' = Tail(loggers)
                /\ stack' = IF loggers' = <<>> THEN <<>> ELSE <<Frame(Head(loggers'))>>
                /\ UNCHANGED <<proc, kids>>
           ELSE /\ stack' = <<[of |-> p, at |-> i + 1]>>
                /\ LET child == kids[p][i]
                   IN  IF Monitored # NoCmd /\ proc[child].cmd = Monitored
                         THEN UNCHANGED <<proc, kids>>
                         ELSE /\ proc' = [proc EXCEPT ![p] = Merged(@, proc[child])]
                              /\ kids' = [kids EXCEPT ![p] = RemoveFirst(@, child)]
                /\ UNCHANGED loggers
  /\ UNCHANGED <<pc, accurate, span, removed, numProc>>

LoggersMerged ==
  /\ pc = "merge logger"
  /\ loggers = <<>>
  /\ pc' = IF Prune THEN "prune" ELSE "sort"
  /\ stack' = Start
  /\ UNCHANGED <<accurate, proc, kids, span, loggers, removed, numProc>>

(* ------------------------------------------------------------------------ *)
(* prune, merge_exploders, merge_siblings, merge_runs                       *)

IdleBackground(p) ==
  /\ ~ proc[p].active
  /\ End(proc, p) >= span.end
  /\ proc[p].start > span.start
  /\ 10 * proc[p].dur > 9 * (span.end - span.start)
  /\ kids[p] = <<>>

(* Mutant: only processes of a single period are short-lived. *)
ShortLivedBelow(p) == proc[p].dur < 2 * Period

ShortLived(p) == proc[p].dur <= 2 * Period

Prunable(p) == /\ Here.of # Top \/ kids[p] = <<>>
               /\ IdleBackground(p) \/ ShortLived(p)

(* Mutant: the children of a pruned process go with it. *)
PruneSubtree ==
  /\ At("prune")
  /\ LET p == This
         i == Here.at
     IN  IF Prunable(p)
           THEN /\ kids' = [kids EXCEPT ![Here.of] = RemoveAt(@, i)]
                /\ removed' = removed \cup {p}
                /\ UNCHANGED stack
           ELSE Enter(p, i + 1) /\ UNCHANGED <<kids, removed>>
  /\ UNCHANGED <<pc, accurate, proc, span, loggers, numProc>>

(* Mutant: the loop goes on with the next process also after pruning one.   *)
PruneSkip ==
  /\ At("prune")
  /\ LET p == This
         i == Here.at
     IN  IF Prunable(p)
           THEN /\ kids' = [kids EXCEPT ![Here.of] =
                              SubSeq(@, 1, i - 1) \o Reverse(kids[p])
                              \o SubSeq(@, i + 1, Len(@))]
                /\ removed' = removed \cup {p}
                /\ stack' = [stack EXCEPT ![Len(stack)].at = i + 1]
           ELSE Enter(p, i + 1) /\ UNCHANGED <<kids, removed>>
  /\ UNCHANGED <<pc, accurate, proc, span, loggers, numProc>>

(* One turn of the loop: a pruned process is replaced by its children, last *)
(* first, and the loop goes on with the first of them.                      *)
PruneStep ==
  /\ At("prune")
  /\ LET p == This
         i == Here.at
     IN  IF Prunable(p)
           THEN /\ kids' = [kids EXCEPT ![Here.of] =
                              SubSeq(@, 1, i - 1) \o Reverse(kids[p])
                              \o SubSeq(@, i + 1, Len(@))]
                /\ removed' = removed \cup {p}
                /\ UNCHANGED stack
           ELSE Enter(p, i + 1) /\ UNCHANGED <<kids, removed>>
  /\ UNCHANGED <<pc, accurate, proc, span, loggers, numProc>>

(* The set of names is never one of its own members: nothing is merged.     *)
MergeExploders ==
  /\ pc = "exploders"
  /\ pc' = "siblings"
  /\ UNCHANGED <<accurate, proc, kids, span, stack, loggers, removed, numProc>>

(* Mutant: after a merge the loop goes on with the next pair. *)
SiblingSkip ==
  /\ At("siblings")
  /\ LET p    == This
         i    == Here.at
         twin == i < Len(List) /\ proc[List[i + 1]].cmd = proc[p].cmd
     IN  /\ IF twin
              THEN LET q == List[i + 1]
                   IN  /\ kids' = [kids EXCEPT ![Here.of] = RemoveAt(@, i + 1),
                                               ![p] = @ \o kids[q]]
                       /\ proc' = [proc EXCEPT ![p] = Merged(@, proc[q])]
              ELSE UNCHANGED <<kids, proc>>
         /\ Enter(p, i + 1)
  /\ UNCHANGED <<pc, accurate, span, loggers, removed, numProc>>

(* One turn of the loop, or the call for the last process after it.  A      *)
(* process merges with the next one while that has the same command.        *)
SiblingStep ==
  /\ At("siblings")
  /\ LET p    == This
         i    == Here.at
         twin == i < Len(List) /\ proc[List[i + 1]].cmd = proc[p].cmd
     IN  /\ IF twin
              THEN LET q == List[i + 1]
                   IN  /\ kids' = [kids EXCEPT ![Here.of] = RemoveAt(@, i + 1),
                                               ![p] = @ \o kids[q]]
                       /\ proc' = [proc EXCEPT ![p] = Merged(@, proc[q])]
              ELSE UNCHANGED <<kids, proc>>
         /\ Enter(p, IF twin THEN i ELSE i + 1)
  /\ UNCHANGED <<pc, accurate, span, loggers, removed, numProc>>

IsRun(p) == Len(kids[p]) = 1 /\ proc[kids[p][1]].cmd = proc[p].cmd

(* Mutant: the merged child stays in the list. *)
RunKept ==
  /\ At("runs")
  /\ LET p == This
         q == kids[p][1]
     IN  IF IsRun(p)
           THEN /\ kids' = [kids EXCEPT ![p] = <<q>> \o kids[q]]
                /\ proc' = [proc EXCEPT ![p] = Merged(@, proc[q])]
                /\ UNCHANGED stack
           ELSE Enter(p, Here.at + 1) /\ UNCHANGED <<kids, proc>>
  /\ UNCHANGED <<pc, accurate, span, loggers, removed, numProc>>

(* Mutant: after a merge the loop goes on with the next process. *)
RunOnce ==
  /\ At("runs")
  /\ LET p == This
         q == kids[p][1]
     IN  /\ IF IsRun(p)
              THEN /\ kids' = [kids EXCEPT ![p] = kids[q]]
                   /\ proc' = [proc EXCEPT ![p] = Merged(@, proc[q])]
              ELSE UNCHANGED <<kids, proc>>
         /\ Enter(p, Here.at + 1)
  /\ UNCHANGED <<pc, accurate, span, loggers, removed, numProc>>

(* One turn of the loop: an only child of the same command is merged.       *)
RunStep ==
  /\ At("runs")
  /\ LET p == This
         q == kids[p][1]
     IN  IF IsRun(p)
           THEN /\ kids' = [kids EXCEPT ![p] = kids[q]]
                /\ proc' = [proc EXCEPT ![p] = Merged(@, proc[q])]
                /\ UNCHANGED stack
           ELSE Enter(p, Here.at + 1) /\ UNCHANGED <<kids, proc>>
  /\ UNCHANGED <<pc, accurate, span, loggers, removed, numProc>>

(* The next method, when all lists have been gone through.                  *)
NextMethod ==
  /\ \E phase \in {"prune", "siblings", "runs"} : Through(phase)
  /\ stack' = Start
  /\ pc' = CASE pc = "prune" -> "exploders"
             [] pc = "siblings" -> "runs"
             [] pc = "runs" -> "sort"
  /\ UNCHANGED <<accurate, proc, kids, span, loggers, removed, numProc>>

(* ------------------------------------------------------------------------ *)

(* The child lists of the tree are sorted by pid, the list of roots is not. *)
SortedLists ==
  [o \in 0..N |-> IF o \in InTree THEN SortedByPid(kids[o]) ELSE kids[o]]

Sort ==
  /\ pc = "sort"
  /\ kids' = SortedLists
  /\ span' = SpanOf(proc, kids')
  /\ numProc' = NumNodes(kids', Top)
  /\ pc' = "done"
  /\ UNCHANGED <<accurate, proc, stack, loggers, removed>>

TreeInit ==
  /\ pc = "build"
  /\ \E f \in Forests : proc = f.proc /\ accurate = f.accurate
  /\ kids = [o \in 0..N |-> <<>>]
  /\ span = [start |-> 0, end |-> 0]
  /\ stack = <<>>
  /\ loggers = <<>>
  /\ removed = {}
  /\ numProc = 0

TreeNext ==
  \/ Build \/ UpdateDaemons \/ FilterStep \/ LoggersFound \/ MergeLogger \/ LoggersMerged
  \/ PruneStep \/ MergeExploders \/ SiblingStep \/ RunStep \/ Return \/ NextMethod \/ Sort

(* ------------------------------------------------------------------------ *)
(* Properties                                                               *)

Phases == {"build", "daemons", "logger", "merge logger", "prune", "exploders",
           "siblings", "runs", "sort", "done"}

(* Lists hold processes, and a frame's index is in its list or just past it *)
(* (one further in a logger's list, from which it removes), although lists  *)
(* are changed while they are gone through (process_tree.py, 182-284).      *)
TreeTypeOK ==
  /\ kids \in [0..N -> UNION {[1..n -> P] : n \in 0..N}]
  /\ \A k \in 1..Len(stack) :
       /\ stack[k].of \in 0..N
       /\ stack[k].at \in 1..Len(kids[stack[k].of])
                         + (IF pc = "merge logger" THEN 2 ELSE 1)
  /\ removed \subseteq P
  /\ pc \in Phases \ {"done"} => numProc = 0

(* No process is at two places of the lists of the tree, though they are    *)
(* changed while they are gone through, and those of pruned and merged      *)
(* processes stay what they were (process_tree.py, 82-89 and 171-284).      *)
InTreeOnce ==
  \A o, q \in InTree \cup {Top} : \A i \in 1..Len(kids[o]), k \in 1..Len(kids[q]) :
    kids[o][i] = kids[q][k] => o = q /\ i = k

(* Each process of the tree is counted, and once, by the recursion that     *)
(* later gives the chart its height (process_tree.py, 100-105).             *)
CountedOnce == pc = "done" => numProc = Cardinality(InTree)

Own(p) == {s \in ToSet(proc[p].samples) : s.of = p}
Places(s, tree) ==
  UNION {{q} \X {i \in 1..Len(proc[q].samples) : proc[q].samples[i] = s} : q \in tree}

(* The processes below the roots and not below a logger, as the tree was    *)
(* built, but for those that were pruned.                                   *)
Kept ==
  LET built   == Built(proc)
      logging == {q \in P : proc[q].cmd = LoggerProc}
  IN  Below(built, Top) \ (removed \cup UNION {Below(built, q) : q \in logging})

(* Merging and pruning lose nothing and show nothing twice: each sample of  *)
(* a process is in exactly one process of the tree, unless the process      *)
(* itself was pruned, or is below a logger (process_tree.py, 155-294).      *)
EverySampleOnce ==
  LET tree == InTree
  IN  pc \notin {"build", "daemons"} =>
        \A p \in Kept : \A s \in Own(p) : Cardinality(Places(s, tree)) = 1

(* The bar of a process reaches from before its first sample to the end of  *)
(* its last, or to the crop, and the tree's time span covers all bars it    *)
(* was taken from (samples.py, 109-113; parsing.py, 210-214;                *)
(* process_tree.py, 107-129 and 286-294).                                   *)
BarsCoverSamples ==
  \A p \in P :
    /\ \A s \in ToSet(proc[p].samples) : InBar(proc[p], s)
    /\ pc = "done" /\ p \in InTree =>
         span.start <= proc[p].start /\ End(proc, p) <= span.end

Lists == {kids[o] : o \in InTree \cup {Top}}

(* What the frames have still to go through.                                *)
Ahead(f) == UNION {{kids[f.of][i]} \cup Below(kids, kids[f.of][i]) :
                     i \in f.at..Len(kids[f.of])}
Pending == UNION {{k} \X Ahead(stack[k]) : k \in 1..Len(stack)}
Work == Len(stack) + 2 * Cardinality(Pending)

(* No loop goes on for ever although three of them stay where they are      *)
(* after a change: each turn takes a process out of the tree, or leaves     *)
(* the tree as it is and less to do (process_tree.py, 171-193, 249-265 and  *)
(* 272-284).                                                                *)
LoopsEnd ==
  [][pc' = pc /\ pc \in {"logger", "prune", "siblings", "runs"} =>
       \/ InTree' \subseteq InTree /\ InTree' # InTree
       \/ InTree' = InTree /\ Work' < Work]_treeVars

(* No two neighbours in a list have the same command once siblings have     *)
(* been merged, also where a merge brought their lists together             *)
(* (process_tree.py, 244-265).                                              *)
NoTwinsLeft ==
  pc = "runs" =>
    \A l \in Lists : \A i \in 2..Len(l) : proc[l[i]].cmd # proc[l[i - 1]].cmd

(* An only child differs from its parent in its command once runs have been *)
(* merged (process_tree.py, 267-284).                                       *)
NoRunsLeft == pc \in {"sort", "done"} /\ Prune => \A p \in InTree : ~ IsRun(p)

(* Below the roots every process has lived longer than two samples once the *)
(* tree has been pruned (process_tree.py, 163-193).                         *)
ShortLivedGone ==
  pc \in {"exploders", "siblings", "runs"} =>
    \A o \in InTree : \A p \in ToSet(kids[o]) : proc[p].dur > 2 * Period
==============================================================================
