-------------------------- MODULE ProcessTreeProofs -------------------------
(***************************************************************************)
(* What the methods that prune and merge the tree of processes achieve,    *)
(* for any number of processes and any commands, parents, times and        *)
(* samples of them.                                                        *)
(*                                                                         *)
(* The invariant says that the child lists form a forest, that the frames  *)
(* of a recursive method lead down the tree, each index in its list or     *)
(* just past it, and that there is a set of processes the method has       *)
(* finished: it has all that is below them, and the lists of all of them   *)
(* are as the method leaves lists.  A second invariant follows the samples *)
(* from the processes they were taken of to those that show them.          *)
(***************************************************************************)
EXTENDS Chart, ForestFacts

(* The records of the processes; S is whatever their samples and parents    *)
(* are.                                                                     *)
Rec(S) == [cmd : STRING, ppid : S, parent : S, start : Nat, dur : Nat,
           active : BOOLEAN, samples : S]
Procs(ps) == \E S : ps \in [P -> Rec(S)]

(* Neither its command nor its parent changes when a process gets more      *)
(* samples, and it does not become shorter.                                 *)
LEMMA MergedRecord ==
  ASSUME NEW S, NEW p \in Rec(S), NEW q \in Rec(S)
  PROVE  /\ Merged(p, q) \in Rec(S \cup {Merged(p, q).samples})
         /\ Merged(p, q).cmd = p.cmd /\ Merged(p, q).dur >= p.dur
<1> DEFINE first == Min({p.start, q.start})
           last == Max({p.start + p.dur, q.start + q.dur})
           s == ByTime(p.samples \o q.samples)
           m == [cmd |-> p.cmd, ppid |-> p.ppid, parent |-> p.parent, start |-> first,
                 dur |-> last - first, active |-> p.active, samples |-> s]
<1>1. /\ p.cmd \in STRING /\ p.active \in BOOLEAN /\ p.ppid \in S /\ p.parent \in S
      /\ p.start \in Nat /\ p.dur \in Nat /\ q.start \in Nat /\ q.dur \in Nat
  BY DEF Rec
<1>2. first \in Nat /\ first <= p.start
  <2>1. \A a, b \in Nat : Min({a, b}) \in Nat /\ Min({a, b}) <= a
    <3> SUFFICES ASSUME NEW a \in Nat, NEW b \in Nat
                 PROVE  Min({a, b}) \in Nat /\ Min({a, b}) <= a
      OBVIOUS
    <3>1. \E x \in {a, b} : \A y \in {a, b} : x <= y
      OBVIOUS
    <3>2. Min({a, b}) \in {a, b} /\ \A y \in {a, b} : Min({a, b}) <= y
      BY <3>1 DEF Min
    <3> QED BY <3>2
  <2> QED BY <2>1, <1>1
<1>3. last \in Nat /\ last >= p.start + p.dur
  <2>1. \A a, b \in Nat : Max({a, b}) \in Nat /\ Max({a, b}) >= a
    <3> SUFFICES ASSUME NEW a \in Nat, NEW b \in Nat
                 PROVE  Max({a, b}) \in Nat /\ Max({a, b}) >= a
      OBVIOUS
    <3>1. \E x \in {a, b} : \A y \in {a, b} : x >= y
      OBVIOUS
    <3>2. Max({a, b}) \in {a, b} /\ \A y \in {a, b} : Max({a, b}) >= y
      BY <3>1 DEF Max
    <3> QED BY <3>2
  <2>2. p.start + p.dur \in Nat /\ q.start + q.dur \in Nat
    BY <1>1
  <2> QED BY <2>1, <2>2
<1>4. Merged(p, q) = m
  <2>1. Merged(p, q) = [p EXCEPT !.samples = s, !.start = first, !.dur = last - first]
    BY DEF Merged
  <2> HIDE DEF first, last, s
  <2> QED BY <2>1 DEF Rec
<1> HIDE DEF first, last, s
<1>5. last - first \in Nat /\ last - first >= p.dur
  BY <1>1, <1>2, <1>3
<1>6. m \in Rec(S \cup {m.samples})
  BY <1>1, <1>2, <1>5 DEF Rec
<1>7. m.cmd = p.cmd /\ m.dur = last - first
  OBVIOUS
<1> HIDE DEF m
<1> QED BY <1>4, <1>5, <1>6, <1>7

(* What is so of a list stays so while commands stay and lives get longer.  *)
Later(ps, upd) ==
  \A p \in P : /\ upd[p].cmd = ps[p].cmd /\ upd[p].dur >= ps[p].dur
               /\ ps[p].dur \in Nat /\ upd[p].dur \in Nat

(* add_item: one process gets the samples and the time of another. *)
LEMMA MergedProcs ==
  ASSUME NEW ps, Procs(ps), NEW p \in P, NEW q \in P,
         NEW new, new = [ps EXCEPT ![p] = Merged(@, ps[q])]
  PROVE  Procs(new) /\ Later(ps, new)
<1>1. PICK S : ps \in [P -> Rec(S)]
  BY DEF Procs
<1> DEFINE m == Merged(ps[p], ps[q])
           R == S \cup {m.samples}
<1>2. /\ m \in Rec(R) /\ m.cmd = ps[p].cmd /\ m.dur >= ps[p].dur
  BY <1>1, MergedRecord
<1>3. new = [ps EXCEPT ![p] = m]
  OBVIOUS
<1> HIDE DEF m
<1>4. \A x \in P : new[x] = IF x = p THEN m ELSE ps[x]
  BY <1>1, <1>3
<1>5. \A x \in P : ps[x] \in Rec(R) /\ ps[x].dur \in Nat
  BY <1>1 DEF Rec
<1> HIDE DEF R
<1>6. new \in [P -> Rec(R)]
  BY <1>1, <1>2, <1>3, <1>4, <1>5
<1>7. \A x \in P : /\ new[x].cmd = ps[x].cmd /\ new[x].dur >= ps[x].dur
                  /\ new[x].dur \in Nat
  BY <1>2, <1>4, <1>5, <1>6 DEF Rec
<1> QED BY <1>5, <1>6, <1>7 DEF Procs, Later

(* Processes start and last some number of time units. *)
LEMMA Durations ==
  ASSUME NEW ps, Procs(ps)
  PROVE  \A p \in P : ps[p].dur \in Nat /\ ps[p].start \in Nat
BY DEF Procs, Rec

Walks == {"logger", "prune", "siblings", "runs"}

StackInv ==
  /\ stack \in Seq(Frames)
  /\ pc \in Walks => OnPath(stack, kids)
  /\ pc = "build" => stack = <<>>
  /\ pc = "merge logger" =>
       IF loggers = <<>> THEN stack = <<>>
       ELSE /\ Len(stack) = 1 /\ stack[1].of = Head(loggers)
            /\ stack[1].at \in 1..Len(kids[stack[1].of]) + 2
  /\ pc \notin Walks \cup {"build", "merge logger"} => stack = Start

FinishedInv ==
  pc \in {"prune", "siblings", "runs"} => \E F : Finished(pc, kids, proc, stack, F)

Achieved ==
  /\ pc \in {"exploders", "siblings", "runs"} =>
       \A o \in InTree : Good("prune", kids, proc, o)
  /\ pc = "runs" => \A o \in Tree(kids) : Good("siblings", kids, proc, o)
  /\ pc \in {"sort", "done"} /\ Prune => \A o \in InTree : Good("runs", kids, proc, o)

TypedInv ==
  /\ Procs(proc)
  /\ Forest(kids)
  /\ loggers \in Seq(P)
  /\ removed \subseteq P
  /\ pc \in Phases \ {"done"} => numProc = 0

TreeInv == TypedInv /\ StackInv /\ FinishedInv /\ Achieved

(* Before the tree is built the invariant holds. *)
LEMMA InitTree == Init => TreeInv
<1> SUFFICES ASSUME Init PROVE TreeInv
  OBVIOUS
<1> USE DEF Init, TreeInit
<1>1. Procs(proc)
  <2>1. PICK f \in Forests : proc = f.proc
    OBVIOUS
  <2>2. proc \in [P -> Process]
    BY <2>1, ForestsAssumption
  <2> DEFINE S == Nat \cup 0..N \cup Seq([time : Nat, of : P])
  <2>3. Process \subseteq Rec(S)
    BY DEF Process, Rec, Sample
  <2>4. proc \in [P -> Rec(S)]
    BY <2>2, <2>3
  <2> QED BY <2>4 DEF Procs
<1>2. Forest(kids)
  <2>1. kids \in ChildLists
    BY DEF ChildLists
  <2>2. \A o \in 0..N : IsInjective(kids[o])
    BY DEF IsInjective
  <2>3. Apart(kids)
    <3>1. \A o \in Tree(kids) : o \in 0..N /\ kids[o] = <<>>
      BY <2>1, TreeIsLeast
    <3>2. ToSet(<<>>) = {}
      BY DEF ToSet
    <3> QED BY <3>1, <3>2 DEF Apart
  <2> QED BY <2>1, <2>2, <2>3 DEF Forest
<1>3. stack \in Seq(Frames) /\ loggers \in Seq(P)
  BY EmptySeq
<1> QED BY <1>1, <1>2, <1>3 DEF TreeInv, TypedInv, StackInv, FinishedInv, Achieved, Walks

(* What was achieved for a list stays so when its processes only get        *)
(* longer.                                                                  *)
LEMMA GoodKept ==
  ASSUME NEW phase, NEW kds, Forest(kds), NEW ps, NEW new, NEW upd, Later(ps, upd),
         NEW x \in Tree(kds), new[x] = kds[x]
  PROVE  /\ Good(phase, kds, ps, x) /\ (x # Top \/ phase # "runs")
              => Good(phase, new, upd, x)
         /\ \A at \in 1..Len(kds[x]) + 1 :
              SoFar(phase, kds, ps, x, at) => SoFar(phase, new, upd, x, at)
<1>1. /\ Len(kds[x]) \in Nat /\ x \in 0..N /\ \A i \in 1..Len(kds[x]) : kds[x][i] \in P
      /\ ToSet(kds[x]) \subseteq P
  BY TreeKids, ForestLists
<1>2. x # Top => x \in P
  BY <1>1 DEF P, Top
<1>3. \A p \in P : ps[p].dur > 2 * Period => upd[p].dur > 2 * Period
  BY TreeAssumption DEF Later
<1>4. \A p \in P : upd[p].cmd = ps[p].cmd
  BY DEF Later
<1>5. Good(phase, kds, ps, x) /\ (x # Top \/ phase # "runs") => Good(phase, new, upd, x)
  <2> SUFFICES ASSUME Good(phase, kds, ps, x), x # Top \/ phase # "runs"
               PROVE  Good(phase, new, upd, x)
    OBVIOUS
  <2>1. phase = "prune" => \A p \in ToSet(new[x]) : upd[p].dur > 2 * Period
    BY <1>1, <1>3 DEF Good
  <2>2. phase = "siblings" =>
          \A i \in 1..Len(new[x]) - 1 : upd[new[x][i]].cmd # upd[new[x][i + 1]].cmd
    <3>1. \A i \in 1..Len(kds[x]) - 1 : i \in 1..Len(kds[x]) /\ i + 1 \in 1..Len(kds[x])
      BY <1>1
    <3> QED BY <3>1, <1>1, <1>4 DEF Good
  <2>3. phase = "runs" => ~ (Len(new[x]) = 1 /\ upd[new[x][1]].cmd = upd[x].cmd)
    <3>1. Len(kds[x]) = 1 => kds[x][1] \in P
      BY <1>1
    <3> QED BY <3>1, <1>2, <1>4 DEF Good
  <2> QED BY <2>1, <2>2, <2>3 DEF Good
<1>6. ASSUME NEW at \in 1..Len(kds[x]) + 1, SoFar(phase, kds, ps, x, at)
      PROVE  SoFar(phase, new, upd, x, at)
  <2>1. \A i \in 1..at - 1 : i \in 1..Len(kds[x])
    BY <1>1
  <2>2. phase = "prune" /\ x # Top => \A i \in 1..at - 1 : upd[new[x][i]].dur > 2 * Period
    BY <2>1, <1>1, <1>3, <1>6 DEF SoFar
  <2>3. phase = "siblings" =>
          \A i \in 1..at - 1 : i < Len(new[x]) => upd[new[x][i]].cmd # upd[new[x][i + 1]].cmd
    <3>1. \A i \in 1..at - 1 : i < Len(kds[x]) => i + 1 \in 1..Len(kds[x])
      BY <1>1
    <3> QED BY <2>1, <3>1, <1>1, <1>4, <1>6 DEF SoFar
  <2>4. phase = "runs" /\ x # Top => Good(phase, new, upd, x)
    BY <1>5, <1>6 DEF SoFar
  <2> QED BY <2>2, <2>3, <2>4 DEF SoFar
<1> QED BY <1>5, <1>6

(* The list at the end of the way down changes from its index on, and with  *)
(* it lists below that are not finished.                                    *)
LEMMA FinishedUnder ==
  ASSUME NEW phase, NEW kds, NEW ps, NEW stk, NEW F,
         Forest(kds), OnPath(stk, kds), Finished(phase, kds, ps, stk, F),
         NEW new, NEW upd, Later(ps, upd),
         NEW G, Tree(kds) \ G \subseteq Tree(new),
         \A x \in Tree(kds) : x # stk[Len(stk)].of /\ x \notin G =>
           new[x] = kds[x] /\ ToSet(kds[x]) \cap G = {},
         \A k \in 1..Len(stk) : stk[k].of \notin G,
         \A k \in 1..stk[Len(stk)].at - 1 :
           /\ new[stk[Len(stk)].of][k] = kds[stk[Len(stk)].of][k]
           /\ kds[stk[Len(stk)].of][k] \notin G,
         SoFar(phase, new, upd, stk[Len(stk)].of, stk[Len(stk)].at)
  PROVE  Finished(phase, new, upd, stk, F \ G)
<1> DEFINE o == stk[Len(stk)].of
<1>1. stk \in Seq(Frames) /\ stk # <<>> /\ stk[1].of = Top
  BY DEF OnPath
<1>2. Len(stk) \in Nat \ {0} /\ Len(stk) \in 1..Len(stk) /\ 1 \in 1..Len(stk)
  BY <1>1, PathFrames
<1>3. o \notin F /\ Top \notin F /\ F \subseteq Tree(kds)
  BY <1>1, <1>2 DEF Finished
<1>4. ASSUME NEW x \in F \ G
      PROVE  new[x] = kds[x] /\ ToSet(kds[x]) \cap G = {} /\ Good(phase, new, upd, x)
  <2>1. x \in Tree(kds) /\ x # o /\ x # Top /\ Good(phase, kds, ps, x)
    BY <1>3 DEF Finished
  <2> QED BY <2>1, GoodKept
<1>5. ASSUME NEW k \in 1..Len(stk)
      PROVE  /\ SoFar(phase, new, upd, stk[k].of, stk[k].at)
             /\ \A j \in 1..stk[k].at - 1 :
                  new[stk[k].of][j] = kds[stk[k].of][j] /\ kds[stk[k].of][j] \notin G
  <2>1. CASE k = Len(stk)
    BY <2>1
  <2>2. CASE k # Len(stk)
    <3> DEFINE x == stk[k].of
               at == stk[k].at
    <3>1. /\ x # o /\ x \in Tree(kds) /\ at \in 1..Len(kds[x]) + 1 /\ x \notin G
          /\ SoFar(phase, kds, ps, x, at)
      BY <2>2, <1>2 DEF OnPath, Finished
    <3> HIDE DEF x, at
    <3>2. new[x] = kds[x] /\ ToSet(kds[x]) \cap G = {}
      BY <3>1
    <3>3. SoFar(phase, new, upd, x, at)
      BY <3>1, <3>2, GoodKept
    <3>4. ASSUME NEW j \in 1..at - 1 PROVE new[x][j] = kds[x][j] /\ kds[x][j] \notin G
      <4>1. x \in 0..N
        BY <3>1, TreeKids
      <4>2. Len(kds[x]) \in Nat /\ \A l \in 1..Len(kds[x]) : kds[x][l] \in ToSet(kds[x])
        BY <4>1, ForestLists
      <4>3. j \in 1..Len(kds[x])
        BY <3>1, <4>2
      <4> QED BY <4>2, <4>3, <3>2
    <3> QED BY <3>3, <3>4 DEF x, at
  <2> QED BY <2>1, <2>2
<1>6. F \ G \subseteq Tree(new)
  BY <1>3
<1> QED BY <1>4, <1>5, <1>6, FinishedKept

(* ------------------------------------------------------------------------ *)
(* The steps that build the tree and merge the loggers                      *)

(* The processes of the tree are those of the lists, without the roots' own *)
(* place.                                                                   *)
LEMMA InTreeIs == Forest(kids) => InTree = Tree(kids) \ {Top} /\ InTree \subseteq P
BY TreeIsLeast DEF InTree, Forest

(* What a method that goes through the tree looks at.                       *)
LEMMA WalkFacts ==
  ASSUME TreeInv, pc \in Walks
  PROVE  /\ Forest(kids) /\ OnPath(stack, kids) /\ stack \in Seq(Frames) /\ stack # <<>>
         /\ Len(stack) \in 1..Len(stack) /\ Len(stack) \in Nat \ {0}
         /\ Here.of \in Tree(kids) /\ Here.of \in 0..N /\ Here.at \in 1..Len(List) + 1
         /\ List \in Seq(P) /\ Len(List) \in Nat
         /\ Here.at <= Len(List) =>
              /\ Here.at \in 1..Len(List) /\ This \in ToSet(List) /\ This \in P
              /\ This \in Tree(kids) /\ This # Here.of
<1>1. Forest(kids) /\ OnPath(stack, kids)
  BY DEF TreeInv, TypedInv, StackInv
<1>2. stack \in Seq(Frames) /\ stack # <<>>
  BY <1>1 DEF OnPath
<1>3. Len(stack) \in 1..Len(stack) /\ Len(stack) \in Nat \ {0}
  BY <1>2, PathFrames
<1>4. Here.of \in Tree(kids) /\ Here.at \in 1..Len(List) + 1
  BY <1>1, <1>3 DEF OnPath, Here, List
<1>5. Here.of \in 0..N /\ ToSet(List) \subseteq Tree(kids) /\ Here.of \notin ToSet(List)
  BY <1>1, <1>4, TreeKids DEF List
<1>6. /\ List \in Seq(P) /\ Len(List) \in Nat
      /\ \A i \in 1..Len(List) : List[i] \in P /\ List[i] \in ToSet(List)
  BY <1>1, <1>5, ForestLists DEF List
<1>7. ASSUME Here.at <= Len(List)
      PROVE  /\ Here.at \in 1..Len(List) /\ This \in ToSet(List) /\ This \in P
             /\ This \in Tree(kids) /\ This # Here.of
  <2>1. Here.at \in 1..Len(List)
    BY <1>4, <1>6, <1>7
  <2> QED BY <2>1, <1>5, <1>6 DEF This
<1> QED BY <1>1, <1>2, <1>3, <1>4, <1>5, <1>6, <1>7

(* The action's call is the one of the lemmas. *)
LEMMA EnterEntered ==
  ASSUME NEW p, NEW next, Enter(p, next)
  PROVE  stack' = Entered(stack, p, next)
BY DEF Enter, Entered

(* build, for the lists of the parents that were parsed. *)
LEMMA StepBuild == TreeInv /\ Build => TreeInv'
<1> SUFFICES ASSUME TreeInv, Build PROVE TreeInv'
  OBVIOUS
<1>1. /\ pc = "build" /\ kids' = Built(proc) /\ (pc' = "logger" \/ pc' = "daemons")
      /\ stack' = Start
      /\ UNCHANGED <<proc, loggers, removed, numProc>>
  BY DEF Build
<1>2. Forest(kids')
  BY <1>1, BuiltForest
<1>3. OnPath(Start, kids')
  BY <1>2, PathStarts DEF Forest
<1>4. TypedInv'
  BY <1>1, <1>2 DEF TreeInv, TypedInv, Phases
<1>5. StackInv'
  BY <1>1, <1>3 DEF StackInv, Walks, OnPath
<1>6. FinishedInv' /\ Achieved'
  BY <1>1 DEF FinishedInv, Achieved
<1> QED BY <1>4, <1>5, <1>6 DEF TreeInv

(* update_ppids_for_daemons, with the lists it builds again. *)
LEMMA StepUpdateDaemons == TreeInv /\ UpdateDaemons => TreeInv'
<1> SUFFICES ASSUME TreeInv, UpdateDaemons PROVE TreeInv'
  OBVIOUS
<1>1. /\ pc = "daemons" /\ kids' = Built(proc') /\ pc' = "logger"
      /\ UNCHANGED <<stack, loggers, removed, numProc>>
  BY DEF UpdateDaemons
<1>2. Forest(kids')
  BY <1>1, BuiltForest
<1>3. stack' = Start /\ OnPath(Start, kids')
  BY <1>1, <1>2, PathStarts DEF Forest, TreeInv, StackInv, Walks
<1>4. Procs(proc')
  <2>1. PICK S : proc \in [P -> Rec(S)]
    BY DEF TreeInv, TypedInv, Procs
  <2> DEFINE rcs == {p \in P : proc[p].cmd = "rc" /\ proc[p].ppid = 1}
             rc == Max(rcs)
             given(p) == [proc[p] EXCEPT !.ppid = rc, !.parent = rc]
             R == S \cup {rc}
  <2>2. PICK D : proc' = IF rcs = {} THEN proc
                         ELSE [p \in P |-> IF p \in D THEN given(p) ELSE proc[p]]
    BY DEF UpdateDaemons
  <2> HIDE DEF rc, rcs
  <2>3. \A p \in P : proc[p] \in Rec(R) /\ given(p) \in Rec(R)
    BY <2>1 DEF Rec
  <2> HIDE DEF given, R
  <2>4. proc' \in [P -> Rec(R)]
    <3>1. proc \in [P -> Rec(R)]
      BY <2>1, <2>3
    <3>2. [p \in P |-> IF p \in D THEN given(p) ELSE proc[p]] \in [P -> Rec(R)]
      BY <2>3
    <3> QED BY <2>2, <3>1, <3>2
  <2> QED BY <2>4 DEF Procs
<1>5. TypedInv'
  BY <1>1, <1>2, <1>4 DEF TreeInv, TypedInv, Phases
<1>6. StackInv'
  BY <1>1, <1>3 DEF StackInv, Walks, OnPath
<1>7. FinishedInv' /\ Achieved'
  BY <1>1 DEF FinishedInv, Achieved
<1> QED BY <1>5, <1>6, <1>7 DEF TreeInv

(* One turn of filter_subtree. *)
LEMMA StepFilterStep == TreeInv /\ FilterStep => TreeInv'
<1> SUFFICES ASSUME TreeInv, FilterStep PROVE TreeInv'
  OBVIOUS
<1>1. /\ pc = "logger" /\ Here.at <= Len(List)
      /\ loggers' = loggers \/ loggers' = Append(loggers, This)
      /\ UNCHANGED <<pc, proc, kids, removed, numProc>>
  BY DEF FilterStep, At
<1>2. /\ Forest(kids) /\ OnPath(stack, kids) /\ This \in ToSet(List) /\ This \in P
      /\ Here.at \in 1..Len(List) /\ Len(List) \in Nat
  BY <1>1, WalkFacts DEF Walks
<1>3. stack' = Entered(stack, This, Here.at + 1)
  BY EnterEntered DEF FilterStep
<1>4. OnPath(stack', kids')
  <2>1. Here.at + 1 \in 1..Len(List) + 1
    BY <1>2
  <2> QED BY <1>1, <1>2, <1>3, <2>1, PathEnters DEF Here, List
<1>5. loggers' \in Seq(P)
  BY <1>1, <1>2, AppendProperties DEF TreeInv, TypedInv
<1>6. TypedInv'
  BY <1>1, <1>5 DEF TreeInv, TypedInv
<1>7. StackInv'
  BY <1>1, <1>4 DEF StackInv, Walks, OnPath
<1>8. FinishedInv' /\ Achieved'
  BY <1>1 DEF FinishedInv, Achieved
<1> QED BY <1>6, <1>7, <1>8 DEF TreeInv

(* A stack of one frame. *)
LEMMA OneFrame ==
  ASSUME NEW o \in 0..N, NEW i \in Nat
  PROVE  LET s == <<[of |-> o, at |-> i]>>
         IN  s \in Seq(Frames) /\ Len(s) = 1 /\ s[1].of = o /\ s[1].at = i
BY DEF Frames

(* The loop over the children of the next logger process begins. *)
LEMMA NextLogger ==
  ASSUME Forest(kids), NEW q \in Seq(P), q # <<>>
  PROVE  LET s == <<Frame(Head(q))>>
         IN  /\ s \in Seq(Frames) /\ Len(s) = 1 /\ s[1].of = Head(q)
             /\ s[1].at \in 1..Len(kids[s[1].of]) + 2
<1>1. Head(q) \in P
  BY HeadTailProperties
<1>2. Head(q) \in 0..N
  BY <1>1, Numbers
<1>3. Len(kids[Head(q)]) \in Nat
  BY <1>2, ForestLists
<1>4. /\ <<Frame(Head(q))>> \in Seq(Frames) /\ Len(<<Frame(Head(q))>>) = 1
      /\ <<Frame(Head(q))>>[1].of = Head(q) /\ <<Frame(Head(q))>>[1].at = 1
  BY <1>2, OneFrame DEF Frame
<1> QED BY <1>3, <1>4

(* merge_logger has its list of logger processes. *)
LEMMA StepLoggersFound == TreeInv /\ LoggersFound => TreeInv'
<1> SUFFICES ASSUME TreeInv, LoggersFound PROVE TreeInv'
  OBVIOUS
<1>1. /\ pc = "logger" /\ pc' = "merge logger"
      /\ stack' = IF loggers = <<>> THEN <<>> ELSE <<Frame(Head(loggers))>>
      /\ UNCHANGED <<proc, kids, loggers, removed, numProc>>
  BY DEF LoggersFound, Through
<1>2. Forest(kids) /\ loggers \in Seq(P)
  BY DEF TreeInv, TypedInv
<1>3. TypedInv'
  BY <1>1 DEF TreeInv, TypedInv, Phases
<1>4. StackInv'
  <2>1. CASE loggers = <<>>
    BY <2>1, <1>1, EmptySeq DEF StackInv, Walks
  <2>2. CASE loggers # <<>>
    BY <2>2, <1>1, <1>2, NextLogger DEF StackInv, Walks
  <2> QED BY <2>1, <2>2
<1>5. FinishedInv' /\ Achieved'
  BY <1>1 DEF FinishedInv, Achieved
<1> QED BY <1>3, <1>4, <1>5 DEF TreeInv

(* One turn of the loop over the children of a logger process. *)
LEMMA StepMergeLogger == TreeInv /\ MergeLogger => TreeInv'
<1> SUFFICES ASSUME TreeInv, MergeLogger PROVE TreeInv'
  OBVIOUS
<1> DEFINE p == Head(loggers)
           i == stack[1].at
<1>1. pc = "merge logger" /\ loggers # <<>> /\ UNCHANGED <<pc, removed, numProc>>
  BY DEF MergeLogger
<1>2. /\ Procs(proc) /\ Forest(kids) /\ loggers \in Seq(P) /\ p \in P /\ p \in 0..N
      /\ Tail(loggers) \in Seq(P) /\ i \in 1..Len(kids[p]) + 2 /\ Len(kids[p]) \in Nat
  <2>1. /\ Procs(proc) /\ Forest(kids) /\ loggers \in Seq(P)
        /\ i \in 1..Len(kids[p]) + 2
    BY <1>1 DEF TreeInv, TypedInv, StackInv
  <2>2. p \in P /\ Tail(loggers) \in Seq(P)
    BY <2>1, <1>1, HeadTailProperties
  <2>3. p \in 0..N
    BY <2>2, Numbers
  <2> QED BY <2>1, <2>2, <2>3, ForestLists
<1>3. FinishedInv' /\ Achieved'
  BY <1>1 DEF FinishedInv, Achieved
<1>4. CASE i > Len(kids[p])
  <2>1. /\ loggers' = Tail(loggers)
        /\ stack' = IF loggers' = <<>> THEN <<>> ELSE <<Frame(Head(loggers'))>>
        /\ UNCHANGED <<proc, kids>>
    BY <1>4 DEF MergeLogger
  <2>2. TypedInv'
    BY <2>1, <1>1, <1>2 DEF TreeInv, TypedInv
  <2>3. StackInv'
    <3>1. CASE loggers' = <<>>
      BY <3>1, <2>1, <1>1, EmptySeq DEF StackInv, Walks
    <3>2. CASE loggers' # <<>>
      BY <3>2, <2>1, <1>1, <1>2, NextLogger DEF StackInv, Walks
    <3> QED BY <3>1, <3>2
  <2> QED BY <2>2, <2>3, <1>3 DEF TreeInv
<1>5. CASE i <= Len(kids[p])
  <2> DEFINE child == kids[p][i]
  <2>1. /\ stack' = <<[of |-> p, at |-> i + 1]>> /\ loggers' = loggers
        /\ \/ UNCHANGED <<proc, kids>>
           \/ /\ proc' = [proc EXCEPT ![p] = Merged(@, proc[child])]
              /\ kids' = [kids EXCEPT ![p] = RemoveFirst(@, child)]
    <3>1. ~ (i > Len(kids[p]))
      BY <1>2, <1>5
    <3>2. /\ stack' = <<[of |-> p, at |-> i + 1]>> /\ loggers' = loggers
          /\ IF Monitored # NoCmd /\ proc[child].cmd = Monitored
               THEN UNCHANGED <<proc, kids>>
               ELSE /\ proc' = [proc EXCEPT ![p] = Merged(@, proc[child])]
                    /\ kids' = [kids EXCEPT ![p] = RemoveFirst(@, child)]
      BY ONLY MergeLogger, <3>1 DEF MergeLogger
    <3> QED BY <3>2
  <2>2. i \in 1..Len(kids[p]) /\ i + 1 \in Nat
    BY <1>2, <1>5
  <2>3. child \in P
    BY <2>2, <1>2, ForestLists
  <2> HIDE DEF p, i, child
  <2>4. Procs(proc') /\ Forest(kids') /\ Len(kids'[p]) \in Len(kids[p]) - 1..Len(kids[p])
    <3>1. CASE UNCHANGED <<proc, kids>>
      BY <3>1, <1>2
    <3>2. CASE /\ proc' = [proc EXCEPT ![p] = Merged(@, proc[child])]
               /\ kids' = [kids EXCEPT ![p] = RemoveFirst(@, child)]
      <4>1. Procs(proc')
        BY <3>2, <1>2, <2>3, MergedProcs
      <4>2. Forest(kids') /\ Len(kids'[p]) = Len(kids[p]) - 1
        <5>1. kids' = [kids EXCEPT ![p] = RemoveFirst(@, kids[p][i])]
          BY <3>2 DEF child
        <5> QED BY ONLY <5>1, <1>2, <2>2, RemovedForest
      <4> QED BY <4>1, <4>2, <1>2
    <3> QED BY <2>1, <3>1, <3>2
  <2>5. TypedInv'
    BY <2>1, <2>4, <1>1, <1>2 DEF TreeInv, TypedInv
  <2>6. StackInv'
    <3>1. i + 1 \in 1..Len(kids'[p]) + 2
      BY <2>2, <2>4, <1>2
    <3>2. /\ stack' \in Seq(Frames) /\ Len(stack') = 1
          /\ stack'[1].of = p /\ stack'[1].at = i + 1
      BY <2>1, <2>2, <1>2, OneFrame
    <3>3. Head(loggers') = p
      BY <2>1 DEF p
    <3> QED BY <3>1, <3>2, <3>3, <2>1, <1>1 DEF StackInv, Walks
  <2> QED BY <2>5, <2>6, <1>3 DEF TreeInv
<1> QED BY <1>2, <1>4, <1>5

(* ------------------------------------------------------------------------ *)
(* The steps that prune and merge                                           *)

(* merge_logger is through with all of them. *)
LEMMA StepLoggersMerged == TreeInv /\ LoggersMerged => TreeInv'
<1> SUFFICES ASSUME TreeInv, LoggersMerged PROVE TreeInv'
  OBVIOUS
<1>1. /\ pc = "merge logger" /\ pc' = (IF Prune THEN "prune" ELSE "sort") /\ stack' = Start
      /\ UNCHANGED <<proc, kids, loggers, removed, numProc>>
  BY DEF LoggersMerged
<1>2. Forest(kids) /\ OnPath(Start, kids)
  BY PathStarts DEF TreeInv, TypedInv, Forest
<1>3. pc' = "prune" \/ (pc' = "sort" /\ ~ Prune)
  BY <1>1
<1>4. TypedInv'
  BY <1>1, <1>3 DEF TreeInv, TypedInv, Phases
<1>5. StackInv'
  BY <1>1, <1>2, <1>3 DEF StackInv, Walks, OnPath
<1>6. FinishedInv'
  <2>1. Finished(pc', kids', proc', stack', {})
    BY <1>1, FinishedStarts
  <2> QED BY <2>1 DEF FinishedInv
<1>7. Achieved'
  BY <1>3 DEF Achieved
<1> QED BY <1>4, <1>5, <1>6, <1>7 DEF TreeInv

(* A process that is not pruned has lived long enough, below the roots.     *)
LEMMA NotPruned ==
  ASSUME NEW p \in P, Procs(proc), ~ Prunable(p), Here.of # Top
  PROVE  proc[p].dur > 2 * Period
<1>1. ~ ShortLived(p)
  BY DEF Prunable
<1>2. proc[p].dur \in Nat
  BY Durations
<1> QED BY <1>1, <1>2, TreeAssumption DEF ShortLived

(* Nothing changes. *)
LEMMA SameLater ==
  ASSUME NEW ps, Procs(ps)
  PROVE  Later(ps, ps)
BY Durations DEF Later

(* One turn of prune. *)
LEMMA StepPruneStep == TreeInv /\ PruneStep => TreeInv'
<1> SUFFICES ASSUME TreeInv, PruneStep PROVE TreeInv'
  OBVIOUS
<1> DEFINE o == Here.of
           i == Here.at
           p == This
<1>1. pc = "prune" /\ i <= Len(List) /\ UNCHANGED <<pc, proc, loggers, numProc>>
  BY DEF PruneStep, At
<1>2. /\ Forest(kids) /\ OnPath(stack, kids) /\ stack \in Seq(Frames) /\ stack # <<>>
      /\ Len(stack) \in 1..Len(stack) /\ Len(stack) \in Nat \ {0}
      /\ o \in Tree(kids) /\ o \in 0..N /\ i \in 1..Len(kids[o])
      /\ Len(kids[o]) \in Nat /\ p \in ToSet(kids[o]) /\ p \in P /\ p # o
      /\ p \in Tree(kids) /\ p = kids[o][i]
      /\ o = stack[Len(stack)].of /\ i = stack[Len(stack)].at
  BY <1>1, WalkFacts DEF Walks, List, This, Here
<1>3. Procs(proc) /\ removed \subseteq P /\ loggers \in Seq(P)
  BY DEF TreeInv, TypedInv
<1>4. PICK F : Finished("prune", kids, proc, stack, F)
  BY <1>1 DEF TreeInv, FinishedInv
<1>5. Achieved'
  BY <1>1 DEF Achieved
<1>6. SoFar("prune", kids, proc, o, i)
  BY <1>2, <1>4 DEF Finished
<1>7. CASE Prunable(p)
  <2>1. kids' = Pruned(kids, o, i) /\ removed' = removed \cup {p} /\ stack' = stack
    BY <1>2, <1>7 DEF PruneStep, Pruned
  <2> HIDE DEF o, i, p
  <2>2. /\ Forest(kids') /\ Tree(kids') = Tree(kids) \ {p}
        /\ \A x \in 0..N : x # o => kids'[x] = kids[x]
        /\ i \in 1..Len(kids'[o]) + 1 /\ \A k \in 1..i - 1 : kids'[o][k] = kids[o][k]
    <3>1. /\ Forest(kids) /\ o \in Tree(kids) /\ i \in 1..Len(kids[o])
          /\ p = kids[o][i] /\ kids' = Pruned(kids, o, i)
      BY <1>2, <2>1
    <3> QED BY ONLY <3>1, PrunedForest
  <2>3. \A k \in 1..Len(stack) - 1 : stack[k].of # o
    BY <1>2 DEF OnPath
  <2>4. \A k \in 1..Len(stack) : stack[k].of # p
    BY <1>2, <2>3, KidNotOnPath
  <2>5. \A k \in 1..Len(stack) : stack[k].of \in Tree(kids) /\ stack[k].of \in 0..N
    BY <1>2, PathFrames DEF OnPath
  <2>6. OnPath(stack, kids')
    <3>1. \A k \in 1..Len(stack) : stack[k].of \in Tree(kids')
      BY <2>2, <2>4, <2>5
    <3>2. \A k \in 1..Len(stack) - 1 : kids'[stack[k].of] = kids[stack[k].of]
      BY <1>2, <2>2, <2>3, <2>5
    <3> QED BY <3>1, <3>2, <1>2, <2>2, PathKept
  <2>7. Finished("prune", kids', proc, stack, F \ {p})
    <3>1. \A x \in Tree(kids) : x # o /\ x \notin {p} =>
            kids'[x] = kids[x] /\ ToSet(kids[x]) \cap {p} = {}
      BY <1>2, <2>2, TreeKids
    <3>2. \A k \in 1..i - 1 : kids'[o][k] = kids[o][k] /\ kids[o][k] \notin {p}
      <4>1. \A a, b \in 1..Len(kids[o]) : kids[o][a] = kids[o][b] => a = b
        BY <1>2, ForestLists, Distinct
      <4>2. i \in 1..Len(kids[o]) /\ \A k \in 1..i - 1 : k \in 1..Len(kids[o]) /\ k # i
        BY <1>2
      <4>3. \A k \in 1..i - 1 : kids[o][k] # kids[o][i]
        BY ONLY <4>1, <4>2
      <4> QED BY <4>3, <1>2, <2>2
    <3>3. SoFar("prune", kids', proc, o, i)
      BY <1>6, <2>2 DEF SoFar
    <3>4. Later(proc, proc)
      BY <1>3, SameLater
    <3>5. Tree(kids) \ {p} \subseteq Tree(kids')
      BY <2>2
    <3>6. \A k \in 1..Len(stack) : stack[k].of \notin {p}
      BY <2>4
    <3>7. o = stack[Len(stack)].of /\ i = stack[Len(stack)].at
      BY <1>2
    <3>8. Forest(kids) /\ OnPath(stack, kids)
      BY <1>2
    <3> QED BY ONLY <1>4, <3>1, <3>2, <3>3, <3>4, <3>5, <3>6, <3>7, <3>8, FinishedUnder
  <2>8. TypedInv'
    BY <2>1, <2>2, <1>1, <1>2, <1>3 DEF TreeInv, TypedInv
  <2>9. StackInv'
    BY <2>1, <2>6, <1>1, <1>2 DEF StackInv, Walks
  <2>10. FinishedInv'
    BY <2>1, <2>7, <1>1 DEF FinishedInv
  <2> QED BY <2>8, <2>9, <2>10, <1>5 DEF TreeInv
<1>8. CASE ~ Prunable(p)
  <2>1. kids' = kids /\ removed' = removed /\ stack' = Entered(stack, p, i + 1)
    BY <1>8, EnterEntered DEF PruneStep
  <2>2. SoFar("prune", kids, proc, o, i + 1)
    <3>1. o # Top => proc[p].dur > 2 * Period
      BY <1>2, <1>3, <1>8, NotPruned
    <3> HIDE DEF o, i, p
    <3>2. \A k \in 1..(i + 1) - 1 : k \in 1..i - 1 \/ k = i
      BY <1>2
    <3> QED BY <3>1, <3>2, <1>2, <1>6 DEF SoFar
  <2>3. SoFar("prune", kids, proc, p, 1)
    BY DEF SoFar
  <2> HIDE DEF o, i, p
  <2>4. OnPath(Entered(stack, p, i + 1), kids)
    <3>1. i + 1 \in 1..Len(kids[o]) + 1
      BY <1>2
    <3> QED BY <3>1, <1>2, PathEnters
  <2>5. Finished("prune", kids, proc, Entered(stack, p, i + 1), F \ {p})
    <3>1. i <= Len(kids[o]) /\ i + 1 \in {i, i + 1}
      BY <1>2
    <3> QED BY ONLY <3>1, <2>2, <2>3, <1>2, <1>4, FinishedEnters
  <2>6. TypedInv'
    BY <2>1, <1>1, <1>2, <1>3 DEF TreeInv, TypedInv
  <2>7. StackInv'
    BY <2>1, <2>4, <1>1 DEF StackInv, Walks, OnPath
  <2>8. FinishedInv'
    BY <2>1, <2>5, <1>1 DEF FinishedInv
  <2> QED BY <2>6, <2>7, <2>8, <1>5 DEF TreeInv
<1> QED BY <1>7, <1>8

(* merge_exploders. *)
LEMMA StepMergeExploders == TreeInv /\ MergeExploders => TreeInv'
<1> SUFFICES ASSUME TreeInv, MergeExploders PROVE TreeInv'
  OBVIOUS
<1>1. /\ pc = "exploders" /\ pc' = "siblings"
      /\ UNCHANGED <<proc, kids, stack, loggers, removed, numProc>>
  BY DEF MergeExploders
<1>2. stack = Start /\ Forest(kids) /\ OnPath(Start, kids)
  BY <1>1, PathStarts DEF TreeInv, TypedInv, StackInv, Walks, Forest
<1>3. TypedInv'
  BY <1>1 DEF TreeInv, TypedInv, Phases
<1>4. StackInv'
  BY <1>1, <1>2 DEF StackInv, Walks, OnPath
<1>5. FinishedInv'
  <2>1. Finished(pc', kids', proc', stack', {})
    BY <1>1, <1>2, FinishedStarts
  <2> QED BY <2>1 DEF FinishedInv
<1>6. Achieved'
  BY <1>1 DEF TreeInv, Achieved, InTree
<1> QED BY <1>3, <1>4, <1>5, <1>6 DEF TreeInv

(* A method is through with a list and returns to its caller. *)
LEMMA StepReturn == TreeInv /\ Return => TreeInv'
<1> SUFFICES ASSUME TreeInv, Return PROVE TreeInv'
  OBVIOUS
<1>1. /\ pc \in Walks /\ Len(stack) > 1
      /\ stack[Len(stack)].at > Len(kids[stack[Len(stack)].of])
      /\ stack' = Front(stack)
      /\ UNCHANGED <<pc, proc, kids, loggers, removed, numProc>>
  BY DEF Return, Walks, Here, List
<1>2. Forest(kids) /\ OnPath(stack, kids)
  BY <1>1, WalkFacts
<1>3. OnPath(Front(stack), kids)
  BY <1>1, <1>2, PathBack DEF Forest
<1>4. TypedInv'
  BY <1>1 DEF TreeInv, TypedInv
<1>5. StackInv'
  BY <1>1, <1>3 DEF StackInv, Walks, OnPath
<1>6. FinishedInv'
  <2> SUFFICES ASSUME pc \in {"prune", "siblings", "runs"}
               PROVE  \E F : Finished(pc, kids, proc, Front(stack), F)
    BY <1>1 DEF FinishedInv
  <2>1. PICK F : Finished(pc, kids, proc, stack, F)
    BY DEF TreeInv, FinishedInv
  <2>2. Finished(pc, kids, proc, Front(stack), F \cup {stack[Len(stack)].of})
    BY ONLY <2>1, <1>1, <1>2, FinishedReturns
  <2> QED BY <2>2
<1>7. Achieved'
  BY <1>1 DEF TreeInv, Achieved, InTree
<1> QED BY <1>4, <1>5, <1>6, <1>7 DEF TreeInv

(* A method is through with the list of roots. *)
LEMMA StepNextMethod == TreeInv /\ NextMethod => TreeInv'
<1> SUFFICES ASSUME TreeInv, NextMethod PROVE TreeInv'
  OBVIOUS
<1>1. /\ \/ pc = "prune" /\ pc' = "exploders"
         \/ pc = "siblings" /\ pc' = "runs"
         \/ pc = "runs" /\ pc' = "sort"
      /\ Len(stack) = 1 /\ stack[Len(stack)].at > Len(kids[stack[Len(stack)].of])
      /\ stack' = Start
      /\ UNCHANGED <<proc, kids, loggers, removed, numProc>>
  BY DEF NextMethod, Through, Here, List
<1>2. Forest(kids) /\ OnPath(stack, kids) /\ OnPath(Start, kids)
  BY <1>1, WalkFacts, PathStarts DEF Walks, Forest
<1>3. stack[1].of = Top /\ stack[1].at > Len(kids[Top])
  BY <1>1, <1>2 DEF OnPath
<1>4. PICK F : Finished(pc, kids, proc, stack, F)
  BY <1>1 DEF TreeInv, FinishedInv
<1>5. /\ \A p \in InTree : Good(pc, kids, proc, p)
      /\ pc = "siblings" => Good(pc, kids, proc, Top)
  BY <1>1, <1>2, <1>3, <1>4, FinishedEnds DEF InTree
<1>6. InTree = Tree(kids) \ {Top}
  BY <1>2, InTreeIs
<1>7. TypedInv'
  BY <1>1 DEF TreeInv, TypedInv, Phases
<1>8. StackInv'
  BY <1>1, <1>2 DEF StackInv, Walks, OnPath
<1>9. FinishedInv'
  <2>1. Finished(pc', kids', proc', stack', {})
    BY <1>1, FinishedStarts
  <2> QED BY <2>1 DEF FinishedInv
<1>10. Achieved'
  <2>1. InTree' = InTree
    BY <1>1 DEF InTree
  <2>2. CASE pc = "prune"
    BY <2>1, <2>2, <1>1, <1>5 DEF Achieved
  <2>3. CASE pc = "siblings"
    <3>1. \A o \in Tree(kids) : Good("siblings", kids, proc, o)
      BY <2>3, <1>5, <1>6
    <3> QED BY <2>1, <2>3, <3>1, <1>1 DEF TreeInv, Achieved
  <2>4. CASE pc = "runs"
    BY <2>1, <2>4, <1>1, <1>5 DEF Achieved
  <2> QED BY <2>2, <2>3, <2>4, <1>1
<1> QED BY <1>7, <1>8, <1>9, <1>10 DEF TreeInv

(* sort. *)
LEMMA StepSort == TreeInv /\ Sort => TreeInv'
<1> SUFFICES ASSUME TreeInv, Sort PROVE TreeInv'
  OBVIOUS
<1>1. /\ pc = "sort" /\ pc' = "done" /\ kids' = SortedLists
      /\ UNCHANGED <<proc, stack, loggers, removed>>
  BY DEF Sort
<1>2. Forest(kids) /\ kids \in ChildLists /\ Apart(kids)
  BY DEF TreeInv, TypedInv, Forest
<1>3. /\ kids' = [o \in 0..N |-> kids'[o]]
      /\ \A o \in 0..N : kids'[o] = kids[o] \/ kids'[o] = SortedByPid(kids[o])
  BY <1>1 DEF SortedLists
<1>4. ASSUME NEW o \in 0..N
      PROVE  /\ kids'[o] \in Seq(P) /\ IsInjective(kids'[o])
             /\ Len(kids'[o]) = Len(kids[o]) /\ ToSet(kids'[o]) \subseteq ToSet(kids[o])
  <2>1. kids[o] \in Seq(P) /\ IsInjective(kids[o])
    BY <1>2, ForestLists
  <2>2. LET r == SortedByPid(kids[o])
        IN  /\ r \in Seq(P) /\ IsInjective(r)
            /\ Len(r) = Len(kids[o]) /\ ToSet(r) \subseteq ToSet(kids[o])
    BY <2>1, SortedDistinct
  <2> QED BY <2>1, <2>2, <1>3
<1>5. kids' \in ChildLists
  BY <1>3, <1>4 DEF ChildLists
<1>6. Tree(kids') \subseteq Tree(kids) /\ Apart(kids')
  <2>1. \A x \in Tree(kids) : ToSet(kids'[x]) \subseteq ToSet(kids[x])
    BY <1>2, <1>4, TreeKids
  <2> QED BY ONLY <2>1, <1>2, <1>5, TreeOfSublists
<1>7. Forest(kids')
  BY <1>4, <1>5, <1>6 DEF Forest
<1>8. TypedInv'
  BY <1>1, <1>7 DEF TreeInv, TypedInv
<1>9. StackInv'
  BY <1>1 DEF TreeInv, StackInv, Walks
<1>10. FinishedInv'
  BY <1>1 DEF FinishedInv
<1>11. Achieved'
  <2> SUFFICES ASSUME Prune, NEW o \in InTree' PROVE Good("runs", kids', proc, o)
    BY <1>1 DEF Achieved
  <2>1. InTree' = Tree(kids') \ {Top} /\ InTree = Tree(kids) \ {Top}
    BY <1>2, <1>5, TreeIsLeast DEF InTree
  <2>2. o \in InTree /\ o \in 0..N
    BY <2>1, <1>2, <1>6, TreeKids
  <2>3. Good("runs", kids, proc, o)
    BY <2>2, <1>1 DEF TreeInv, Achieved
  <2>4. ASSUME Len(kids'[o]) = 1 PROVE kids'[o][1] = kids[o][1]
    <3>1. Len(kids[o]) = 1 /\ kids[o] \in Seq(P) /\ kids'[o] \in Seq(P)
      BY <2>2, <2>4, <1>2, <1>4, ForestLists
    <3>2. kids'[o][1] \in ToSet(kids[o])
      BY <2>2, <2>4, <3>1, <1>4, Elements
    <3> QED BY <3>1, <3>2, Elements
  <2> QED BY <2>2, <2>3, <2>4, <1>4 DEF Good
<1> QED BY <1>8, <1>9, <1>10, <1>11 DEF TreeInv

(* One turn of merge_siblings: twins become one, with the children of both, *)
(* or the first of the pair is left for good.                               *)
LEMMA StepSiblingStep == TreeInv /\ SiblingStep => TreeInv'
<1> SUFFICES ASSUME TreeInv, SiblingStep PROVE TreeInv'
  OBVIOUS
<1> DEFINE o == Here.of
           i == Here.at
           p == This
           twin == i < Len(List) /\ proc[List[i + 1]].cmd = proc[p].cmd
           q == List[i + 1]
<1>1. pc = "siblings" /\ i <= Len(List) /\ UNCHANGED <<pc, loggers, removed, numProc>>
  BY DEF SiblingStep, At
<1>2. /\ Forest(kids) /\ OnPath(stack, kids) /\ stack \in Seq(Frames) /\ stack # <<>>
      /\ Len(stack) \in 1..Len(stack) /\ Len(stack) \in Nat \ {0}
      /\ o \in Tree(kids) /\ o \in 0..N /\ i \in 1..Len(kids[o])
      /\ Len(kids[o]) \in Nat /\ p \in ToSet(kids[o]) /\ p \in P /\ p # o
      /\ p \in Tree(kids) /\ p = kids[o][i] /\ List = kids[o]
      /\ o = stack[Len(stack)].of /\ i = stack[Len(stack)].at
  BY <1>1, WalkFacts DEF Walks, List, This, Here
<1>3. Procs(proc) /\ removed \subseteq P /\ loggers \in Seq(P)
  BY DEF TreeInv, TypedInv
<1>4. PICK F : Finished("siblings", kids, proc, stack, F)
  BY <1>1 DEF TreeInv, FinishedInv
<1>5. \A x \in InTree : Good("prune", kids, proc, x)
  BY <1>1 DEF TreeInv, Achieved
<1>6. SoFar("siblings", kids, proc, o, i)
  BY <1>2, <1>4 DEF Finished
<1>7. InTree = Tree(kids) \ {Top}
  BY <1>2, InTreeIs
<1>8. CASE twin
  <2>1. /\ kids' = Twinned(kids, o, i) /\ proc' = [proc EXCEPT ![p] = Merged(@, proc[q])]
        /\ stack' = Entered(stack, p, i)
        /\ i \in 1..Len(kids[o]) - 1 /\ q = kids[o][i + 1]
    <3>1. /\ kids' = [kids EXCEPT ![Here.of] = RemoveAt(@, i + 1), ![p] = @ \o kids[q]]
          /\ proc' = [proc EXCEPT ![p] = Merged(@, proc[q])]
          /\ Enter(p, i)
      BY <1>8 DEF SiblingStep
    <3>2. i \in 1..Len(kids[o]) - 1 /\ q = kids[o][i + 1]
      BY <1>2, <1>8
    <3>3. kids' = Twinned(kids, o, i)
      BY <3>1, <3>2, <1>2 DEF Twinned
    <3> QED BY <3>1, <3>2, <3>3, EnterEntered
  <2> HIDE DEF o, i, p, q
  <2>2. /\ Forest(kids') /\ Tree(kids') = Tree(kids) \ {q}
        /\ \A x \in 0..N : (x # o /\ x # p) => kids'[x] = kids[x]
        /\ Len(kids'[o]) = Len(kids[o]) - 1
        /\ \A k \in 1..i : kids'[o][k] = kids[o][k]
        /\ ToSet(kids'[o]) = ToSet(kids[o]) \ {q}
        /\ ToSet(kids'[p]) = ToSet(kids[p]) \cup ToSet(kids[q])
    <3>1. /\ Forest(kids) /\ o \in Tree(kids) /\ i \in 1..Len(kids[o]) - 1
          /\ p = kids[o][i] /\ q = kids[o][i + 1] /\ kids' = Twinned(kids, o, i)
      BY <1>2, <2>1
    <3>2. AfterTwins(kids, kids', o, i, p, q)
      BY ONLY <3>1, TwinForest
    <3> QED BY <3>2 DEF AfterTwins
  <2>3. /\ \A a, b \in 1..Len(kids[o]) : kids[o][a] = kids[o][b] => a = b
        /\ q \in ToSet(kids[o]) /\ q \in P /\ q # o /\ q # p /\ q \in Tree(kids)
    <3>1. i + 1 \in 1..Len(kids[o]) /\ i + 1 # i
      BY <1>2, <2>1
    <3>2. \A a, b \in 1..Len(kids[o]) : kids[o][a] = kids[o][b] => a = b
      BY <1>2, ForestLists, Distinct
    <3>3. q \in ToSet(kids[o]) /\ q \in P
      BY <3>1, <2>1, <1>2, ForestLists
    <3> QED BY <3>1, <3>2, <3>3, <2>1, <1>2, TreeKids
  <2>4. /\ Procs(proc')
        /\ Later(proc, proc')
    <3>1. /\ Procs(proc) /\ p \in P /\ q \in P
          /\ proc' = [proc EXCEPT ![p] = Merged(@, proc[q])]
      BY <2>1, <2>3, <1>2, <1>3
    <3> QED BY ONLY <3>1, MergedProcs
  <2>5. \A x \in P : proc'[x].cmd = proc[x].cmd
    BY <2>4 DEF Later
  <2>6. \A k \in 1..Len(stack) - 1 : stack[k].of # o
    BY <1>2 DEF OnPath
  <2>7. \A k \in 1..Len(stack) : stack[k].of # p /\ stack[k].of # q
    <3>1. /\ Forest(kids) /\ OnPath(stack, kids) /\ o \in Tree(kids)
          /\ p \in ToSet(kids[o]) /\ q \in ToSet(kids[o])
      BY <1>2, <2>3
    <3> QED BY ONLY <3>1, <2>6, KidNotOnPath
  <2>8. OnPath(stack, kids')
    <3>1. \A k \in 1..Len(stack) : stack[k].of \in Tree(kids) /\ stack[k].of \in 0..N
      BY <1>2, PathFrames DEF OnPath
    <3>2. \A k \in 1..Len(stack) : stack[k].of \in Tree(kids')
      BY <2>2, <2>7, <3>1
    <3>3. \A k \in 1..Len(stack) - 1 : kids'[stack[k].of] = kids[stack[k].of]
      BY <1>2, <2>2, <2>6, <2>7, <3>1
    <3>4. i \in 1..Len(kids'[o]) + 1
      <4>1. Len(kids'[o]) = Len(kids[o]) - 1 /\ Len(kids[o]) \in Nat /\ i \in 1..Len(kids[o]) - 1
        BY <1>2, <2>1, <2>2
      <4> QED BY ONLY <4>1
    <3> QED BY <3>2, <3>3, <3>4, <1>2, PathKept
  <2>9. i <= Len(kids'[o]) /\ i \in 1..Len(kids'[o]) /\ p = kids'[o][i]
        /\ p \in ToSet(kids'[o])
    <3>1. i <= Len(kids'[o]) /\ i \in 1..Len(kids'[o]) /\ i \in 1..i
      <4>1. Len(kids'[o]) = Len(kids[o]) - 1 /\ Len(kids[o]) \in Nat /\ i \in 1..Len(kids[o]) - 1
        BY <1>2, <2>1, <2>2
      <4> QED BY ONLY <4>1
    <3> QED BY <3>1, <1>2, <2>2, <2>3
  <2>10. OnPath(stack', kids')
    <3>1. i \in 1..Len(kids'[o]) + 1
      BY <2>9
    <3> QED BY <3>1, <1>2, <2>1, <2>2, <2>8, <2>9, PathEnters
  <2>11. SoFar("siblings", kids', proc', o, i)
    <3>1. \A k \in 1..i - 1 : /\ k < Len(kids[o]) /\ kids'[o][k] = kids[o][k]
                              /\ kids'[o][k + 1] = kids[o][k + 1]
                              /\ kids[o][k] \in P /\ kids[o][k + 1] \in P
      <4>1. \A k \in 1..i - 1 : /\ k < Len(kids[o]) /\ k \in 1..i /\ k + 1 \in 1..i
                                /\ k \in 1..Len(kids[o]) /\ k + 1 \in 1..Len(kids[o])
        BY <1>2
      <4> QED BY <4>1, <2>2, <1>2, ForestLists
    <3>2. \A k \in 1..i - 1 : k < Len(kids[o]) =>
            proc[kids[o][k]].cmd # proc[kids[o][k + 1]].cmd
      BY <1>6 DEF SoFar
    <3>3. \A k \in 1..i - 1 : proc'[kids'[o][k]].cmd # proc'[kids'[o][k + 1]].cmd
      BY ONLY <3>1, <3>2, <2>5
    <3> QED BY ONLY <3>3 DEF SoFar
  <2>12. Finished("siblings", kids', proc', stack, F \ {p, q})
    <3>1. \A x \in Tree(kids) : (x # o /\ x \notin {p, q}) =>
            (kids'[x] = kids[x] /\ ToSet(kids[x]) \cap {p, q} = {})
      <4>1. /\ Forest(kids) /\ o \in Tree(kids) /\ p \in ToSet(kids[o]) /\ q \in ToSet(kids[o])
        BY <1>2, <2>3
      <4>2. \A x \in Tree(kids) :
              x \in 0..N /\ (p \in ToSet(kids[x]) => x = o) /\ (q \in ToSet(kids[x]) => x = o)
        BY ONLY <4>1, TreeKids
      <4> QED BY <4>2, <2>2
    <3>2. \A k \in 1..i - 1 : kids'[o][k] = kids[o][k] /\ kids[o][k] \notin {p, q}
      <4>1. \A k \in 1..i - 1 : /\ k \in 1..i /\ k # i /\ k # i + 1
                                /\ k \in 1..Len(kids[o])
        BY <1>2
      <4>2. i + 1 \in 1..Len(kids[o])
        BY <1>2, <2>1
      <4> QED BY <4>1, <4>2, <1>2, <2>1, <2>2, <2>3
    <3>3. Tree(kids) \ {p, q} \subseteq Tree(kids')
      BY <2>2
    <3>4. \A k \in 1..Len(stack) : stack[k].of \notin {p, q}
      BY <2>7
    <3>5. o = stack[Len(stack)].of /\ i = stack[Len(stack)].at
          /\ Forest(kids) /\ OnPath(stack, kids)
      BY <1>2
    <3> QED BY ONLY <1>4, <2>4, <2>11, <3>1, <3>2, <3>3, <3>4, <3>5, FinishedUnder
  <2>13. Finished("siblings", kids', proc', stack', (F \ {p, q}) \ {p})
    <3>1. SoFar("siblings", kids', proc', p, 1)
      BY DEF SoFar
    <3>2. o = stack[Len(stack)].of /\ i = stack[Len(stack)].at /\ i \in {i, i + 1}
      BY <1>2
    <3>3. Finished("siblings", kids', proc', Entered(stack, p, i), (F \ {p, q}) \ {p})
      BY ONLY <3>1, <3>2, <2>2, <2>8, <2>9, <2>11, <2>12, FinishedEnters
    <3> QED BY <3>3, <2>1
  <2>14. ASSUME NEW x \in InTree' PROVE Good("prune", kids', proc', x)
    <3>1. InTree' = Tree(kids') \ {Top}
      BY <2>2, TreeIsLeast DEF InTree, Forest
    <3>2. x \in InTree /\ x # q /\ x \in Tree(kids) /\ x \in 0..N
      BY <3>1, <1>2, <1>7, <2>2, TreeKids
    <3>3. p \in InTree /\ q \in InTree
      <4>1. p # Top /\ q # Top
        BY <1>2, <2>3, Numbers
      <4> QED BY <4>1, <1>2, <1>7, <2>3
    <3>4. \A y \in ToSet(kids'[x]) : \E z \in InTree : y \in ToSet(kids[z])
      <4>1. CASE x = o
        BY <4>1, <3>2, <2>2
      <4>2. CASE x = p
        BY <4>2, <3>3, <2>2
      <4>3. CASE x # o /\ x # p
        BY <4>3, <3>2, <2>2
      <4> QED BY <4>1, <4>2, <4>3
    <3>5. \A z \in InTree : \A y \in ToSet(kids[z]) : y \in P /\ proc[y].dur > 2 * Period
      BY <1>2, <1>5, <1>7, TreeKids DEF Good
    <3>6. \A y \in ToSet(kids'[x]) : proc'[y].dur > 2 * Period
      BY <3>4, <3>5, <2>4, TreeAssumption DEF Later
    <3> QED BY <3>6 DEF Good
  <2>15. TypedInv'
    BY <2>2, <2>4, <1>1, <1>3 DEF TreeInv, TypedInv
  <2>16. StackInv'
    BY <2>10, <1>1 DEF StackInv, Walks, OnPath
  <2>17. FinishedInv'
    BY <2>13, <1>1 DEF FinishedInv
  <2>18. Achieved'
    BY <2>14, <1>1 DEF Achieved
  <2> QED BY <2>15, <2>16, <2>17, <2>18 DEF TreeInv
<1>9. CASE ~ twin
  <2>1. kids' = kids /\ proc' = proc /\ stack' = Entered(stack, p, i + 1)
    BY <1>9, EnterEntered DEF SiblingStep
  <2>2. SoFar("siblings", kids, proc, o, i + 1)
    <3>1. i < Len(kids[o]) => proc[kids[o][i]].cmd # proc[kids[o][i + 1]].cmd
      BY <1>2, <1>9
    <3> HIDE DEF o, i, p, q, twin
    <3>2. \A k \in 1..(i + 1) - 1 : k \in 1..i - 1 \/ k = i
      BY <1>2
    <3> QED BY <3>1, <3>2, <1>6 DEF SoFar
  <2>3. SoFar("siblings", kids, proc, p, 1)
    BY DEF SoFar
  <2> HIDE DEF o, i, p
  <2>4. OnPath(Entered(stack, p, i + 1), kids)
    <3>1. i + 1 \in 1..Len(kids[o]) + 1
      BY <1>2
    <3> QED BY <3>1, <1>2, PathEnters
  <2>5. Finished("siblings", kids, proc, Entered(stack, p, i + 1), F \ {p})
    <3>1. i <= Len(kids[o]) /\ i + 1 \in {i, i + 1}
      BY <1>2
    <3> QED BY ONLY <3>1, <2>2, <2>3, <1>2, <1>4, FinishedEnters
  <2>6. TypedInv'
    BY <2>1, <1>1 DEF TreeInv, TypedInv
  <2>7. StackInv'
    BY <2>1, <2>4, <1>1 DEF StackInv, Walks, OnPath
  <2>8. FinishedInv'
    BY <2>1, <2>5, <1>1 DEF FinishedInv
  <2>9. Achieved'
    BY <2>1, <1>1 DEF TreeInv, Achieved, InTree
  <2> QED BY <2>6, <2>7, <2>8, <2>9 DEF TreeInv
<1> QED BY <1>8, <1>9

(* One turn of merge_runs: an only child of the same command is taken in,   *)
(* or the process is left for good.                                         *)
LEMMA StepRunStep == TreeInv /\ RunStep => TreeInv'
<1> SUFFICES ASSUME TreeInv, RunStep PROVE TreeInv'
  OBVIOUS
<1> DEFINE o == Here.of
           i == Here.at
           p == This
           q == kids[p][1]
<1>1. pc = "runs" /\ i <= Len(List) /\ UNCHANGED <<pc, loggers, removed, numProc>>
  BY DEF RunStep, At
<1>2. /\ Forest(kids) /\ OnPath(stack, kids) /\ stack \in Seq(Frames) /\ stack # <<>>
      /\ Len(stack) \in 1..Len(stack) /\ Len(stack) \in Nat \ {0}
      /\ o \in Tree(kids) /\ o \in 0..N /\ i \in 1..Len(kids[o])
      /\ Len(kids[o]) \in Nat /\ p \in ToSet(kids[o]) /\ p \in P /\ p # o
      /\ p \in Tree(kids) /\ p = kids[o][i]
      /\ o = stack[Len(stack)].of /\ i = stack[Len(stack)].at
  BY <1>1, WalkFacts DEF Walks, List, This, Here
<1>3. Procs(proc) /\ removed \subseteq P /\ loggers \in Seq(P)
  BY DEF TreeInv, TypedInv
<1>4. PICK F : Finished("runs", kids, proc, stack, F)
  BY <1>1 DEF TreeInv, FinishedInv
<1>5. /\ \A x \in InTree : Good("prune", kids, proc, x)
      /\ \A x \in Tree(kids) : Good("siblings", kids, proc, x)
  BY <1>1 DEF TreeInv, Achieved
<1>6. SoFar("runs", kids, proc, o, i)
  BY <1>2, <1>4 DEF Finished
<1>7. InTree = Tree(kids) \ {Top}
  BY <1>2, InTreeIs
<1>8. CASE IsRun(p)
  <2>1. /\ kids' = RunJoined(kids, p) /\ proc' = [proc EXCEPT ![p] = Merged(@, proc[q])]
        /\ stack' = stack /\ Len(kids[p]) = 1
    BY <1>8 DEF RunStep, RunJoined, IsRun
  <2>2. q = kids[p][1]
    OBVIOUS
  <2> HIDE DEF o, i, p, q
  <2>3. /\ Forest(kids') /\ Tree(kids') = Tree(kids) \ {q}
        /\ \A x \in 0..N : x # p => kids'[x] = kids[x]
        /\ kids'[p] = kids[q] /\ q # p /\ q \in Tree(kids) /\ ToSet(kids[p]) = {q}
    <3>1. Forest(kids) /\ p \in Tree(kids)
      BY <1>2
    <3>2. Len(kids[p]) = 1 /\ q = kids[p][1] /\ kids' = RunJoined(kids, p)
      BY <2>1, <2>2
    <3>3. AfterRun(kids, kids', p, q)
      BY ONLY <3>1, <3>2, RunForest
    <3> QED BY <3>3 DEF AfterRun
  <2>4. /\ q \in ToSet(kids[p]) /\ q \in P /\ q # o
        /\ \A x \in Tree(kids) : q \in ToSet(kids[x]) => x = p
        /\ \A x \in Tree(kids) : p \in ToSet(kids[x]) => x = o
    <3>1. q \in ToSet(kids[p])
      BY <2>3
    <3>2. /\ q \in P
          /\ \A x \in Tree(kids) : q \in ToSet(kids[x]) => x = p
          /\ \A x \in Tree(kids) : p \in ToSet(kids[x]) => x = o
      BY <3>1, <1>2, TreeKids
    <3>3. \A k \in 1..Len(stack) - 1 : stack[k].of # o
      BY <1>2 DEF OnPath
    <3>4. \A k \in 1..Len(stack) : stack[k].of # p
      BY <1>2, <3>3, KidNotOnPath
    <3>5. \A k \in 1..Len(stack) - 1 : stack[k].of # p
      BY <3>4, <1>2
    <3>6. \A k \in 1..Len(stack) : stack[k].of # q
      BY <1>2, <3>1, <3>5, KidNotOnPath
    <3> QED BY <3>1, <3>2, <3>6, <1>2
  <2>5. \A k \in 1..Len(stack) : stack[k].of # p /\ stack[k].of # q
    <3>1. \A k \in 1..Len(stack) - 1 : stack[k].of # o
      BY <1>2 DEF OnPath
    <3>2. \A k \in 1..Len(stack) : stack[k].of # p
      BY <1>2, <3>1, KidNotOnPath
    <3>3. \A k \in 1..Len(stack) - 1 : stack[k].of # p
      BY <3>2, <1>2
    <3>4. /\ Forest(kids) /\ OnPath(stack, kids) /\ p \in Tree(kids) /\ q \in ToSet(kids[p])
      BY <1>2, <2>4
    <3>5. \A k \in 1..Len(stack) : stack[k].of # q
      BY ONLY <3>3, <3>4, KidNotOnPath
    <3> QED BY <3>2, <3>5
  <2>6. /\ Procs(proc')
        /\ Later(proc, proc')
    <3>1. /\ Procs(proc) /\ p \in P /\ q \in P
          /\ proc' = [proc EXCEPT ![p] = Merged(@, proc[q])]
      BY <2>1, <2>4, <1>2, <1>3
    <3> QED BY ONLY <3>1, MergedProcs
  <2>7. \A x \in P : proc'[x].cmd = proc[x].cmd
    BY <2>6 DEF Later
  <2>8. kids'[o] = kids[o]
    BY <1>2, <2>3
  <2>9. OnPath(stack, kids')
    <3>1. \A k \in 1..Len(stack) : stack[k].of \in Tree(kids) /\ stack[k].of \in 0..N
      BY <1>2, PathFrames DEF OnPath
    <3>2. \A k \in 1..Len(stack) : stack[k].of \in Tree(kids')
      BY <2>3, <2>5, <3>1
    <3>3. \A k \in 1..Len(stack) - 1 : kids'[stack[k].of] = kids[stack[k].of]
      BY <1>2, <2>3, <2>5, <3>1
    <3>4. i \in 1..Len(kids'[o]) + 1
      BY <1>2, <2>8
    <3> QED BY <3>2, <3>3, <3>4, <1>2, PathKept
  <2>10. SoFar("runs", kids', proc', o, i)
    <3>1. i \in 1..Len(kids[o]) + 1
      BY <1>2
    <3> QED BY <3>1, <1>2, <1>6, <2>6, <2>8, GoodKept
  <2>11. Finished("runs", kids', proc', stack, F \ {p, q})
    <3>1. \A x \in Tree(kids) : (x # o /\ x \notin {p, q}) =>
            (kids'[x] = kids[x] /\ ToSet(kids[x]) \cap {p, q} = {})
      <4>1. \A x \in Tree(kids) : x \in 0..N
        BY <1>2, TreeKids
      <4> QED BY <4>1, <2>3, <2>4
    <3>2. \A k \in 1..i - 1 : kids'[o][k] = kids[o][k] /\ kids[o][k] \notin {p, q}
      <4>1. \A k \in 1..i - 1 : k # i /\ k \in 1..Len(kids[o])
        BY <1>2
      <4>2. \A a, b \in 1..Len(kids[o]) : kids[o][a] = kids[o][b] => a = b
        BY <1>2, ForestLists, Distinct
      <4>3. \A k \in 1..Len(kids[o]) : kids[o][k] \in ToSet(kids[o])
        BY <1>2, ForestLists
      <4>4. q \notin ToSet(kids[o])
        BY <1>2, <2>4
      <4> QED BY <4>1, <4>2, <4>3, <4>4, <1>2, <2>8
    <3>3. Tree(kids) \ {p, q} \subseteq Tree(kids')
      BY <2>3
    <3>4. \A k \in 1..Len(stack) : stack[k].of \notin {p, q}
      BY <2>5
    <3>5. o = stack[Len(stack)].of /\ i = stack[Len(stack)].at
          /\ Forest(kids) /\ OnPath(stack, kids)
      BY <1>2
    <3> QED BY ONLY <1>4, <2>6, <2>10, <3>1, <3>2, <3>3, <3>4, <3>5, FinishedUnder
  <2>12. InTree' = Tree(kids') \ {Top} /\ \A x \in Tree(kids') : x \in Tree(kids) /\ x # q
    BY <2>3, TreeIsLeast DEF InTree, Forest
  <2>13. p # Top /\ q # Top
    BY <1>2, <2>4, Numbers
  <2>14. ASSUME NEW x \in Tree(kids') PROVE Good("siblings", kids', proc', x)
    <3>1. x \in Tree(kids) /\ x \in 0..N /\ x # q
      BY <2>12, <1>2, TreeKids
    <3>2. CASE x # p
      BY <3>1, <3>2, <1>2, <1>5, <2>3, <2>6, GoodKept
    <3>3. CASE x = p
      <4>1. Good("siblings", kids, proc, q)
        BY <1>5, <2>3
      <4>2. q \in 0..N
        BY <1>2, <2>3, TreeKids
      <4>3. Len(kids[q]) \in Nat /\ \A k \in 1..Len(kids[q]) : kids[q][k] \in P
        BY <4>2, <1>2, ForestLists
      <4>4. \A k \in 1..Len(kids[q]) - 1 : k \in 1..Len(kids[q]) /\ k + 1 \in 1..Len(kids[q])
        BY <4>3
      <4> QED BY <3>3, <4>1, <4>3, <4>4, <2>3, <2>7 DEF Good
    <3> QED BY <3>2, <3>3
  <2>15. ASSUME NEW x \in InTree' PROVE Good("prune", kids', proc', x)
    <3>1. x \in Tree(kids) /\ x \in 0..N /\ x # q /\ x \in InTree
      BY <2>12, <1>2, <1>7, TreeKids
    <3>2. CASE x # p
      BY <3>1, <3>2, <1>2, <1>5, <2>3, <2>6, GoodKept
    <3>3. CASE x = p
      <4>1. Good("prune", kids, proc, q) /\ ToSet(kids[q]) \subseteq P
        BY <1>2, <1>5, <1>7, <2>3, <2>13, TreeKids
      <4>2. \A y \in ToSet(kids'[p]) : y \in P /\ proc[y].dur > 2 * Period
        BY <4>1, <2>3 DEF Good
      <4>3. \A y \in ToSet(kids'[p]) : proc'[y].dur > 2 * Period
        BY <4>2, <2>6, TreeAssumption DEF Later
      <4> QED BY <3>3, <4>3 DEF Good
    <3> QED BY <3>2, <3>3
  <2>16. TypedInv'
    BY <2>3, <2>6, <1>1, <1>3 DEF TreeInv, TypedInv
  <2>17. StackInv'
    BY <2>1, <2>9, <1>1 DEF StackInv, Walks, OnPath
  <2>18. FinishedInv'
    BY <2>1, <2>11, <1>1 DEF FinishedInv
  <2>19. Achieved'
    BY <2>14, <2>15, <1>1 DEF Achieved
  <2> QED BY <2>16, <2>17, <2>18, <2>19 DEF TreeInv
<1>9. CASE ~ IsRun(p)
  <2>1. kids' = kids /\ proc' = proc /\ stack' = Entered(stack, p, i + 1)
    BY <1>9, EnterEntered DEF RunStep
  <2>2. SoFar("runs", kids, proc, o, i + 1)
    BY <1>6 DEF SoFar
  <2>3. SoFar("runs", kids, proc, p, 1)
    BY <1>9 DEF SoFar, Good, IsRun
  <2> HIDE DEF o, i, p
  <2>4. OnPath(Entered(stack, p, i + 1), kids)
    <3>1. i + 1 \in 1..Len(kids[o]) + 1
      BY <1>2
    <3> QED BY <3>1, <1>2, PathEnters
  <2>5. Finished("runs", kids, proc, Entered(stack, p, i + 1), F \ {p})
    <3>1. i <= Len(kids[o]) /\ i + 1 \in {i, i + 1}
      BY <1>2
    <3> QED BY ONLY <3>1, <2>2, <2>3, <1>2, <1>4, FinishedEnters
  <2>6. TypedInv'
    BY <2>1, <1>1 DEF TreeInv, TypedInv
  <2>7. StackInv'
    BY <2>1, <2>4, <1>1 DEF StackInv, Walks, OnPath
  <2>8. FinishedInv'
    BY <2>1, <2>5, <1>1 DEF FinishedInv
  <2>9. Achieved'
    BY <2>1, <1>1 DEF TreeInv, Achieved, InTree
  <2> QED BY <2>6, <2>7, <2>8, <2>9 DEF TreeInv
<1> QED BY <1>8, <1>9

(* ------------------------------------------------------------------------ *)
(* The theorems                                                             *)

(* The chart is drawn from the tree and changes nothing of it.              *)
LEMMA StepDrawn ==
  ASSUME TreeInv, pc \in {"done", "bars", "bands"},
         pc' \in {"bars", "bands", "drawn"},
         UNCHANGED <<proc, kids, stack, loggers, removed, numProc>>
  PROVE  TreeInv'
<1>1. stack = Start /\ TypedInv
  BY DEF TreeInv, StackInv, Walks
<1>2. TypedInv'
  BY <1>1 DEF TypedInv, Phases
<1>3. StackInv'
  BY <1>1 DEF TreeInv, StackInv, Walks
<1> QED BY <1>2, <1>3 DEF TreeInv, FinishedInv, Achieved

(* A step that leaves the tree alone. *)
LEMMA StepSame ==
  ASSUME TreeInv, UNCHANGED <<pc, proc, kids, stack, loggers, removed, numProc>>
  PROVE  TreeInv'
<1>1. TypedInv'
  BY DEF TreeInv, TypedInv
<1>2. StackInv'
  BY DEF TreeInv, StackInv
<1>3. FinishedInv'
  BY DEF TreeInv, FinishedInv
<1>4. Achieved'
  BY DEF TreeInv, Achieved, InTree
<1> QED BY <1>1, <1>2, <1>3, <1>4 DEF TreeInv

(* Each step keeps the invariant: those of the tree's constructor           *)
(* (process_tree.py, 82-294) and those of drawing it.                       *)
THEOREM StepTree == TreeInv /\ [Next]_vars => TreeInv'
<1> SUFFICES ASSUME TreeInv, [Next]_vars PROVE TreeInv'
  OBVIOUS
<1>1. ASSUME TreeNext PROVE TreeInv'
  BY <1>1, StepBuild, StepUpdateDaemons, StepFilterStep, StepLoggersFound,
     StepMergeLogger, StepLoggersMerged, StepPruneStep, StepMergeExploders,
     StepSiblingStep, StepRunStep, StepReturn, StepNextMethod, StepSort DEF TreeNext
<1>2. ASSUME DrawBars PROVE TreeInv'
  BY <1>2, StepDrawn DEF DrawBars
<1>3. ASSUME Accumulate PROVE TreeInv'
  <2>1. pc = "bars" /\ (pc' = "drawn" \/ pc' = "bands")
    BY <1>3 DEF Accumulate
  <2> QED BY <1>3, <2>1, StepDrawn DEF Accumulate
<1>4. ASSUME DrawBand PROVE TreeInv'
  BY <1>4, StepSame DEF DrawBand, treeVars
<1>5. ASSUME EndGraph PROVE TreeInv'
  BY <1>5, StepDrawn DEF EndGraph
<1>6. ASSUME UNCHANGED vars PROVE TreeInv'
  BY <1>6, StepSame DEF vars, treeVars
<1> QED BY <1>1, <1>2, <1>3, <1>4, <1>5, <1>6 DEF Next

(* The invariant holds at every step of the tree and of its chart. *)
THEOREM TreeAlways == Spec => []TreeInv
<1>1. Init => TreeInv
  BY InitTree DEF Init
<1> QED BY <1>1, StepTree, PTL DEF Spec

(* For any number of processes, with any commands, parents, times and       *)
(* samples, the child lists hold processes and no more than there are, and  *)
(* the index of each loop is in its list or just past it, although the      *)
(* methods change lists while they go through them (process_tree.py,        *)
(* 182-284).                                                                *)
THEOREM TreeTyped == Spec => []TreeTypeOK
<1>1. ASSUME TreeInv PROVE TreeTypeOK
  <2>1. Forest(kids) /\ stack \in Seq(Frames)
    BY <1>1 DEF TreeInv, TypedInv, StackInv
  <2>2. kids \in [0..N -> UNION {[1..n -> P] : n \in 0..N}]
    <3>1. ASSUME NEW o \in 0..N
          PROVE  kids[o] \in UNION {[1..n -> P] : n \in 0..N}
      <4>1. kids[o] \in Seq(P) /\ IsInjective(kids[o]) /\ Len(kids[o]) \in Nat
        BY <2>1, ForestLists
      <4>2. Len(kids[o]) <= N
        BY <4>1, Numbers, DistinctLength DEF P
      <4>3. Len(kids[o]) \in 0..N /\ kids[o] \in [1..Len(kids[o]) -> P]
        BY <4>1, <4>2, Numbers, LenProperties
      <4> QED BY <4>3
    <3> QED BY <3>1, <2>1 DEF Forest, ChildLists
  <2>3. ASSUME NEW k \in 1..Len(stack)
        PROVE  /\ stack[k].of \in 0..N
               /\ stack[k].at \in 1..Len(kids[stack[k].of])
                                 + (IF pc = "merge logger" THEN 2 ELSE 1)
    <3>1. stack # <<>>
      OBVIOUS
    <3>2. stack[k].of \in 0..N
      BY <2>1, <3>1, PathFrames
    <3>3. CASE pc \in Walks
      BY <1>1, <3>2, <3>3 DEF TreeInv, StackInv, OnPath, Walks
    <3>4. CASE pc = "merge logger"
      <4>1. /\ Len(stack) = 1 /\ stack[1].of = Head(loggers)
            /\ stack[1].at \in 1..Len(kids[stack[1].of]) + 2
        BY <1>1, <3>1, <3>4 DEF TreeInv, StackInv
      <4>2. k = 1
        BY <4>1
      <4> QED BY <3>2, <3>4, <4>1, <4>2
    <3>5. CASE pc \notin Walks \cup {"merge logger"}
      <4>1. stack = Start
        BY <1>1, <3>1, <3>5 DEF TreeInv, StackInv
      <4>2. OnPath(Start, kids)
        BY <2>1, PathStarts DEF Forest
      <4> QED BY <3>2, <3>5, <4>1, <4>2 DEF OnPath
    <3> QED BY <3>3, <3>4, <3>5
  <2> QED BY <1>1, <2>2, <2>3 DEF TreeInv, TypedInv, TreeTypeOK
<1> QED BY <1>1, TreeAlways, PTL

(* However the tree is pruned and merged, no process is at two places of it *)
(* (process_tree.py, 82-89 and 171-284).                                    *)
THEOREM TreeOnce == Spec => []InTreeOnce
<1>1. ASSUME TreeInv PROVE InTreeOnce
  <2>1. Forest(kids) /\ InTree \cup {Top} = Tree(kids)
    BY <1>1, TreeIsLeast, InTreeIs DEF TreeInv, TypedInv, Forest
  <2>2. ASSUME NEW o \in Tree(kids), NEW q \in Tree(kids),
               NEW i \in 1..Len(kids[o]), NEW k \in 1..Len(kids[q]),
               kids[o][i] = kids[q][k]
        PROVE  o = q /\ i = k
    <3>1. o \in 0..N /\ q \in 0..N
      BY <2>1, TreeKids
    <3>2. kids[o][i] \in ToSet(kids[o]) /\ kids[q][k] \in ToSet(kids[q])
      BY <2>1, <3>1, ForestLists
    <3>3. o = q
      BY <2>1, <2>2, <3>2, TreeKids
    <3>4. \A a, b \in 1..Len(kids[o]) : kids[o][a] = kids[o][b] => a = b
      BY <2>1, <3>1, ForestLists, Distinct
    <3> QED BY <2>2, <3>3, <3>4
  <2> QED BY <2>1, <2>2 DEF InTreeOnce
<1> QED BY <1>1, TreeAlways, PTL

(* When prune is through, every process below the roots has lived longer    *)
(* than two samples, also those that took the place of a pruned parent, and *)
(* merging makes none of them shorter (process_tree.py, 163-193).           *)
THEOREM ShortLivedPruned == Spec => []ShortLivedGone
<1>1. TreeInv => ShortLivedGone
  BY DEF TreeInv, Achieved, ShortLivedGone, Good
<1> QED BY <1>1, TreeAlways, PTL

(* When merge_siblings is through, no two neighbours of any list have the   *)
(* same command, also where two lists of children were put together, and    *)
(* merge_runs does not bring twins together again (process_tree.py,         *)
(* 244-284).                                                                *)
THEOREM TwinsMerged == Spec => []NoTwinsLeft
<1>1. ASSUME TreeInv PROVE NoTwinsLeft
  <2> SUFFICES ASSUME pc = "runs", NEW o \in InTree \cup {Top}, NEW i \in 2..Len(kids[o])
               PROVE  proc[kids[o][i]].cmd # proc[kids[o][i - 1]].cmd
    BY DEF NoTwinsLeft, Lists
  <2>1. Forest(kids) /\ o \in Tree(kids)
    BY <1>1, TreeIsLeast, InTreeIs DEF TreeInv, TypedInv, Forest
  <2>2. Len(kids[o]) \in Nat
    BY <2>1, TreeKids, ForestLists
  <2>3. Good("siblings", kids, proc, o)
    BY <1>1, <2>1 DEF TreeInv, Achieved
  <2>4. i - 1 \in 1..Len(kids[o]) - 1 /\ (i - 1) + 1 = i
    BY <2>2
  <2>5. \A k \in 1..Len(kids[o]) - 1 : proc[kids[o][k]].cmd # proc[kids[o][k + 1]].cmd
    BY <2>3 DEF Good
  <2> QED BY <2>4, <2>5
<1> QED BY <1>1, TreeAlways, PTL

(* When merge_runs is through, no only child has the command of its parent, *)
(* also where a merge gave a process new children, and sorting keeps it so  *)
(* (process_tree.py, 267-284).                                              *)
THEOREM RunsMerged == Spec => []NoRunsLeft
<1>1. TreeInv => NoRunsLeft
  BY DEF TreeInv, Achieved, NoRunsLeft, IsRun, Good
<1> QED BY <1>1, TreeAlways, PTL

(* ------------------------------------------------------------------------ *)
(* Samples and bars                                                         *)

(* A merged process has the samples of both, and its bar reaches over both  *)
(* bars.                                                                    *)
LEMMA MergedBar ==
  ASSUME NEW S, NEW p \in Rec(S), NEW q \in Rec(S)
  PROVE  /\ Merged(p, q).samples = ByTime(p.samples \o q.samples)
         /\ Merged(p, q).parent = p.parent
         /\ \A s \in Sample : InBar(p, s) \/ InBar(q, s) => InBar(Merged(p, q), s)
<1> DEFINE first == Min({p.start, q.start})
           last == Max({p.start + p.dur, q.start + q.dur})
           m == Merged(p, q)
<1>1. /\ p.start \in Nat /\ p.dur \in Nat /\ q.start \in Nat /\ q.dur \in Nat
      /\ p.start + p.dur \in Nat /\ q.start + q.dur \in Nat
  BY DEF Rec
<1>2. \A a, b \in Nat : Min({a, b}) \in Nat /\ Min({a, b}) <= a /\ Min({a, b}) <= b
  <2> SUFFICES ASSUME NEW a \in Nat, NEW b \in Nat
               PROVE  Min({a, b}) \in Nat /\ Min({a, b}) <= a /\ Min({a, b}) <= b
    OBVIOUS
  <2>1. \E x \in {a, b} : \A y \in {a, b} : x <= y
    OBVIOUS
  <2>2. Min({a, b}) \in {a, b} /\ \A y \in {a, b} : Min({a, b}) <= y
    BY <2>1 DEF Min
  <2> QED BY <2>2
<1>3. \A a, b \in Nat : Max({a, b}) \in Nat /\ Max({a, b}) >= a /\ Max({a, b}) >= b
  <2> SUFFICES ASSUME NEW a \in Nat, NEW b \in Nat
               PROVE  Max({a, b}) \in Nat /\ Max({a, b}) >= a /\ Max({a, b}) >= b
    OBVIOUS
  <2>1. \E x \in {a, b} : \A y \in {a, b} : x >= y
    OBVIOUS
  <2>2. Max({a, b}) \in {a, b} /\ \A y \in {a, b} : Max({a, b}) >= y
    BY <2>1 DEF Max
  <2> QED BY <2>2
<1>4. first \in Nat /\ first <= p.start /\ first <= q.start
  BY <1>1, <1>2
<1>5. last \in Nat /\ last >= p.start + p.dur /\ last >= q.start + q.dur
  BY <1>1, <1>3
<1>6. m = [p EXCEPT !.samples = ByTime(p.samples \o q.samples), !.start = first,
                    !.dur = last - first]
  BY DEF Merged
<1> HIDE DEF first, last, m
<1>7. /\ m.samples = ByTime(p.samples \o q.samples) /\ m.parent = p.parent
      /\ m.start = first /\ m.dur = last - first
  BY <1>6 DEF Rec
<1>8. ASSUME NEW s \in Sample, InBar(p, s) \/ InBar(q, s) PROVE InBar(m, s)
  <2>1. s.time \in Nat
    BY DEF Sample
  <2>2. first + (last - first) = last
    BY <1>4, <1>5
  <2>3. /\ first <= s.time /\ s.time <= last
        /\ s.time + Period <= last \/ CropAt <= last
    BY <2>1, <1>1, <1>4, <1>5, <1>8, TreeAssumption DEF InBar
  <2> QED BY <2>2, <2>3, <1>7 DEF InBar
<1> QED BY <1>7, <1>8 DEF m

(* The samples of processes are in order of time and all within their bars, *)
(* and every sample is also with the process it was taken of.               *)
Barred(ps) ==
  \A p \in P : /\ ps[p].samples \in Seq(Sample) /\ InOrder(ps[p].samples)
               /\ \A s \in ToSet(ps[p].samples) :
                    InBar(ps[p], s) /\ s \in ToSet(ps[s.of].samples)

(* No sample is twice with the processes of T. *)
Unmixed(ps, T) ==
  /\ \A q \in T : IsInjective(ps[q].samples)
  /\ \A q, r \in T : \A s \in ToSet(ps[q].samples) : s \in ToSet(ps[r].samples) => q = r

(* The samples a process had of itself. *)
OwnOf(ps, p) == {s \in ToSet(ps[p].samples) : s.of = p}

(* What merging q into p does to the samples. *)
Gathered(ps, new, p, q) ==
  /\ Barred(new)
  /\ ToSet(new[p].samples) = ToSet(ps[p].samples) \cup ToSet(ps[q].samples)
  /\ IsInjective(ps[p].samples) /\ IsInjective(ps[q].samples)
       /\ ToSet(ps[p].samples) \cap ToSet(ps[q].samples) = {}
       => IsInjective(new[p].samples)
  /\ \A x \in P : /\ x # p => new[x].samples = ps[x].samples
                  /\ new[x].parent = ps[x].parent /\ new[x].cmd = ps[x].cmd
                  /\ OwnOf(new, x) = OwnOf(ps, x)

(* Process q's samples are added to those of p, and none is lost.           *)
LEMMA GatheredSamples ==
  ASSUME NEW ps, Procs(ps), Barred(ps), NEW p \in P, NEW q \in P,
         NEW new, new = [ps EXCEPT ![p] = Merged(@, ps[q])]
  PROVE  Gathered(ps, new, p, q)
<1>1. PICK S : ps \in [P -> Rec(S)]
  BY DEF Procs
<1> DEFINE m == Merged(ps[p], ps[q])
           a == ps[p].samples
           b == ps[q].samples
<1>2. /\ m.samples = ByTime(a \o b) /\ m.parent = ps[p].parent /\ m.cmd = ps[p].cmd
      /\ \A s \in Sample : InBar(ps[p], s) \/ InBar(ps[q], s) => InBar(m, s)
  <2>1. ps[p] \in Rec(S) /\ ps[q] \in Rec(S)
    BY <1>1
  <2>2. m.cmd = ps[p].cmd
    BY ONLY <2>1, MergedRecord
  <2>3. /\ m.samples = ByTime(a \o b) /\ m.parent = ps[p].parent
        /\ \A s \in Sample : InBar(ps[p], s) \/ InBar(ps[q], s) => InBar(m, s)
    BY ONLY <2>1, MergedBar
  <2> QED BY <2>2, <2>3
<1>3. \A x \in P : new[x] = IF x = p THEN m ELSE ps[x]
  BY <1>1
<1> HIDE DEF m
<1>4. a \in Seq(Sample) /\ b \in Seq(Sample)
  BY DEF Barred
<1>5. /\ a \o b \in Seq(Sample) /\ ToSet(a \o b) = ToSet(a) \cup ToSet(b)
      /\ (IsInjective(a) /\ IsInjective(b) /\ ToSet(a) \cap ToSet(b) = {})
           => IsInjective(a \o b)
  <2> HIDE DEF a, b
  <2> QED BY ONLY <1>4, ConcatDistinct
<1>6. /\ m.samples \in Seq(Sample) /\ ToSet(m.samples) = ToSet(a) \cup ToSet(b)
      /\ InOrder(m.samples)
      /\ (IsInjective(a) /\ IsInjective(b) /\ ToSet(a) \cap ToSet(b) = {})
           => IsInjective(m.samples)
  <2> HIDE DEF a, b
  <2> QED BY ONLY <1>2, <1>5, SortedSamples
<1>7. \A x \in P : ToSet(ps[x].samples) \subseteq ToSet(new[x].samples)
  BY <1>3, <1>6
<1>8. \A x \in P : \A s \in ToSet(ps[x].samples) :
        s \in Sample /\ s.of \in P /\ InBar(ps[x], s) /\ s \in ToSet(ps[s.of].samples)
  <2> SUFFICES ASSUME NEW x \in P, NEW s \in ToSet(ps[x].samples)
               PROVE  /\ s \in Sample /\ s.of \in P /\ InBar(ps[x], s)
                      /\ s \in ToSet(ps[s.of].samples)
    OBVIOUS
  <2>1. ToSet(ps[x].samples) \subseteq Sample
    BY Elements DEF Barred
  <2> QED BY <2>1 DEF Barred, Sample
<1>9. Barred(new)
  <2>1. ASSUME NEW x \in P, NEW s \in ToSet(new[x].samples)
        PROVE  InBar(new[x], s) /\ s \in ToSet(new[s.of].samples)
    <3>1. CASE x = p
      <4>1. s \in ToSet(ps[p].samples) \/ s \in ToSet(ps[q].samples)
        BY <2>1, <3>1, <1>3, <1>6
      <4>2. /\ s \in Sample /\ s.of \in P /\ s \in ToSet(ps[s.of].samples)
            /\ InBar(ps[p], s) \/ InBar(ps[q], s)
        BY <4>1, <1>8
      <4> QED BY <4>2, <3>1, <1>2, <1>3, <1>7
    <3>2. CASE x # p
      BY <2>1, <3>2, <1>3, <1>7, <1>8
    <3> QED BY <3>1, <3>2
  <2>2. \A x \in P : new[x].samples \in Seq(Sample) /\ InOrder(new[x].samples)
    BY <1>3, <1>6 DEF Barred
  <2> QED BY <2>1, <2>2 DEF Barred
<1>10. ASSUME NEW x \in P PROVE OwnOf(new, x) = OwnOf(ps, x)
  <2>1. CASE x # p
    BY <2>1, <1>3 DEF OwnOf
  <2>2. CASE x = p
    <3>1. \A s \in ToSet(b) : s.of = p => s \in ToSet(a)
      BY <1>8
    <3> QED BY <2>2, <3>1, <1>3, <1>6 DEF OwnOf
  <2> QED BY <2>1, <2>2
<1>11. new[p].samples = m.samples
  BY <1>3
<1>12. Gathered(ps, new, p, q)
  <2>1. /\ ToSet(new[p].samples) = ToSet(a) \cup ToSet(b)
        /\ \A x \in P : /\ x # p => new[x].samples = ps[x].samples
                        /\ new[x].parent = ps[x].parent /\ new[x].cmd = ps[x].cmd
    BY <1>2, <1>3, <1>6
  <2>2. /\ IsInjective(a) /\ IsInjective(b) /\ ToSet(a) \cap ToSet(b) = {}
        => IsInjective(new[p].samples)
    BY <1>6, <1>11
  <2> QED BY <2>1, <2>2, <1>9, <1>10 DEF Gathered
<1> QED BY <1>12

(* With fewer processes there are no more samples. *)
LEMMA UnmixedBelow ==
  ASSUME NEW ps, NEW T, NEW U, U \subseteq T, Unmixed(ps, T)
  PROVE  Unmixed(ps, U)
BY DEF Unmixed

(* When one of two processes of T takes over the other's samples and the    *)
(* other leaves, no sample is twice with those that remain; and it makes no *)
(* difference what processes that are not in T take over.                   *)
LEMMA UnmixedMerged ==
  ASSUME NEW ps, NEW new, NEW p, NEW q, p # q, Gathered(ps, new, p, q),
         NEW T, T \subseteq P, Unmixed(ps, T), p \in T => q \in T
  PROVE  /\ p \in T => Unmixed(new, T \ {q})
         /\ p \notin T => Unmixed(new, T)
<1>1. /\ ToSet(new[p].samples) = ToSet(ps[p].samples) \cup ToSet(ps[q].samples)
      /\ \A x \in P : x # p => new[x].samples = ps[x].samples
      /\ IsInjective(ps[p].samples) /\ IsInjective(ps[q].samples)
              /\ ToSet(ps[p].samples) \cap ToSet(ps[q].samples) = {}
              => IsInjective(new[p].samples)
  BY DEF Gathered
<1>2. ASSUME p \in T PROVE Unmixed(new, T \ {q})
  <2>1. \A x, y \in T : \A s \in ToSet(ps[x].samples) : s \in ToSet(ps[y].samples) => x = y
    BY DEF Unmixed
  <2>2. IsInjective(new[p].samples)
    BY <1>1, <1>2, <2>1 DEF Unmixed
  <2>3. ASSUME NEW x \in T \ {q}, NEW y \in T \ {q}, NEW s \in ToSet(new[x].samples),
               s \in ToSet(new[y].samples)
        PROVE  x = y
    <3>1. x \in P /\ y \in P
      OBVIOUS
    <3>2. CASE x = p /\ y # p
      <4>1. s \in ToSet(ps[y].samples)
        BY <3>1, <3>2, <2>3, <1>1
      <4>2. s \in ToSet(ps[p].samples) \/ s \in ToSet(ps[q].samples)
        BY <3>2, <2>3, <1>1
      <4> QED BY <4>1, <4>2, <3>2, <2>1, <2>3, <1>2
    <3>3. CASE x # p /\ y = p
      <4>1. s \in ToSet(ps[x].samples)
        BY <3>1, <3>3, <2>3, <1>1
      <4>2. s \in ToSet(ps[p].samples) \/ s \in ToSet(ps[q].samples)
        BY <3>3, <2>3, <1>1
      <4> QED BY <4>1, <4>2, <3>3, <2>1, <2>3, <1>2
    <3>4. CASE x # p /\ y # p
      BY <3>1, <3>4, <2>1, <2>3, <1>1
    <3> QED BY <3>2, <3>3, <3>4
  <2>4. \A x \in T \ {q} : IsInjective(new[x].samples)
    BY <1>1, <2>2 DEF Unmixed
  <2> QED BY <2>3, <2>4 DEF Unmixed
<1>3. ASSUME p \notin T PROVE Unmixed(new, T)
  BY <1>1, <1>3 DEF Unmixed
<1> QED BY <1>2, <1>3


(* Kept, for any records and any set of pruned processes. *)
KeptOf(ps, rem) ==
  LET built   == Built(ps)
      logging == {q \in P : ps[q].cmd = LoggerProc}
  IN  Below(built, Top) \ (rem \cup UNION {Below(built, q) : q \in logging})

(* The lists are those the tree was built with, but for those of loggers.   *)
Pristine(kds, ps) ==
  \A o \in 0..N : (o = Top \/ ps[o].cmd # LoggerProc) => kds[o] = Built(ps)[o]

(* So far only processes below loggers have left the tree. *)
LEMMA KeptInTree ==
  ASSUME NEW kds, Forest(kds), NEW ps, Pristine(kds, ps), NEW rem
  PROVE  KeptOf(ps, rem) \subseteq Below(kds, Top)
<1> DEFINE b == Built(ps)
           logging == {q \in P : ps[q].cmd = LoggerProc}
           under == UNION {Below(b, q) : q \in logging}
           L == Tree(kds) \cup under
<1>1. b \in ChildLists /\ kds \in ChildLists
  BY BuiltForest DEF Forest
<1> HIDE DEF b
<1>2. ASSUME NEW o \in under PROVE ToSet(b[o]) \subseteq under
  <2>1. PICK q \in logging : o \in Below(b, q)
    OBVIOUS
  <2>2. q \in 0..N
    BY Numbers
  <2>3. ToSet(b[o]) \subseteq Below(b, q)
    BY <1>1, <2>1, <2>2, BelowIsLeast
  <2> QED BY <2>1, <2>3
<1>3. ASSUME NEW o \in Tree(kds) PROVE ToSet(b[o]) \subseteq L
  <2>1. o \in 0..N
    BY TreeKids
  <2>2. CASE o = Top \/ ps[o].cmd # LoggerProc
    <3>1. kds[o] = b[o]
      BY <2>1, <2>2 DEF Pristine, b
    <3> QED BY <3>1, TreeKids
  <2>3. CASE o # Top /\ ps[o].cmd = LoggerProc
    <3>1. o \in logging
      BY <2>1, <2>3, Numbers DEF P, Top
    <3>2. ToSet(b[o]) \subseteq Below(b, o)
      BY <1>1, <2>1, BelowIsLeast
    <3> QED BY <3>1, <3>2
  <2> QED BY <2>2, <2>3
<1>4. Top \in L /\ \A o \in L : ToSet(b[o]) \subseteq L
  <2>1. Top \in Tree(kds)
    BY DEF Tree
  <2> QED BY <2>1, <1>2, <1>3
<1>5. Tree(b) \subseteq L
  <2> HIDE DEF L
  <2> QED BY <1>1, <1>4, TreeIsLeast
<1>6. Below(b, Top) \subseteq P /\ Below(b, Top) \subseteq Tree(b)
  BY <1>1, TreeIsLeast
<1>7. KeptOf(ps, rem) \subseteq Below(b, Top) \ under
  BY DEF KeptOf, b
<1>8. Tree(kds) \cap P \subseteq Below(kds, Top)
  BY <1>1, TreeIsLeast, Numbers
<1> QED BY <1>5, <1>6, <1>7, <1>8

(* What was built depends on the parents, and what is kept of it on the     *)
(* commands.                                                                *)
LEMMA KeptSame ==
  ASSUME NEW ps, NEW new,
         \A p \in P : new[p].parent = ps[p].parent /\ new[p].cmd = ps[p].cmd
  PROVE  /\ Built(new) = Built(ps)
         /\ \A rem : KeptOf(new, rem) = KeptOf(ps, rem)
<1>1. \A o \in 0..N : {p \in P : new[p].parent = o} = {p \in P : ps[p].parent = o}
  OBVIOUS
<1>2. Built(new) = Built(ps)
  BY <1>1 DEF Built
<1>3. {q \in P : new[q].cmd = LoggerProc} = {q \in P : ps[q].cmd = LoggerProc}
  OBVIOUS
<1> QED BY <1>2, <1>3 DEF KeptOf

(* Of finitely many processes some one has the largest number. *)
LEMMA LargestOf ==
  ASSUME NEW e \in [P -> Nat], NEW T, T \subseteq P, T # {}
  PROVE  \E k \in T : \A p \in T : e[p] <= e[k]
<1> DEFINE U(m) == {p \in T : p <= m}
           Has(m) == \E k \in U(m) : \A p \in U(m) : e[p] <= e[k]
           Bad == {m \in 0..N : U(m) # {} /\ ~ Has(m)}
<1>1. T \subseteq 1..N /\ \A p \in T : p \in Nat /\ 1 <= p /\ p <= N /\ e[p] \in Nat
  BY Numbers DEF P
<1>2. Bad = {}
  <2> SUFFICES ASSUME Bad # {} PROVE FALSE
    OBVIOUS
  <2>1. PICK b \in Bad : \A k \in Bad : b <= k
    <3>1. Bad \subseteq Nat
      BY Numbers
    <3> HIDE DEF Bad
    <3> QED BY <3>1, LeastNatural
  <2>2. b \in 0..N /\ U(b) # {} /\ ~ Has(b)
    BY <2>1
  <2>3. b # 0
    <3>1. \A p \in T : ~ (p <= 0)
      BY <1>1
    <3> QED BY <2>2, <3>1
  <2>4. b - 1 \in 0..N /\ ~ (b <= b - 1)
    BY <2>2, <2>3, Numbers
  <2>5. b - 1 \notin Bad
    BY <2>1, <2>4
  <2>6. U(b - 1) = U(b) \ {b}
    <3>1. \A p \in T : p <= b - 1 <=> (p <= b /\ p # b)
      BY <1>1, <2>2, Numbers
    <3> QED BY <3>1
  <2>7. b \in T
    <3>1. b \notin T => U(b - 1) = U(b)
      BY <2>6
    <3> QED BY <3>1, <2>2, <2>4, <2>5
  <2>8. U(b - 1) # {}
    <3>1. U(b - 1) = {} => U(b) = {b}
      BY <2>2, <2>6
    <3>2. U(b) = {b} => Has(b)
      BY <1>1, <2>7
    <3> QED BY <3>1, <3>2, <2>2
  <2>9. PICK k \in U(b - 1) : \A p \in U(b - 1) : e[p] <= e[k]
    BY <2>4, <2>5, <2>8
  <2>10. k \in U(b) /\ b \in U(b) /\ e[k] \in Nat /\ e[b] \in Nat /\ k \in T
    BY <1>1, <2>2, <2>6, <2>7, <2>9, Numbers
  <2>11. CASE e[k] <= e[b]
    <3>1. ASSUME NEW p \in U(b) PROVE e[p] <= e[b]
      <4>1. p = b \/ p \in U(b - 1)
        BY <2>6
      <4>2. e[p] \in Nat
        BY <1>1
      <4>3. p \in U(b - 1) => e[p] <= e[k]
        BY <2>9
      <4> QED BY <4>1, <4>2, <4>3, <2>10, <2>11
    <3> QED BY <3>1, <2>10, <2>2
  <2>12. CASE e[b] <= e[k]
    <3>1. ASSUME NEW p \in U(b) PROVE e[p] <= e[k]
      <4>1. p = b \/ p \in U(b - 1)
        BY <2>6
      <4> QED BY <4>1, <2>9, <2>12
    <3> QED BY <3>1, <2>10, <2>2
  <2> QED BY <2>10, <2>11, <2>12
<1>3. U(N) = T
  BY <1>1, Numbers
<1>4. N \in 0..N
  BY Numbers
<1>5. U(N) # {} /\ N \notin Bad
  BY <1>2, <1>3
<1> QED BY <1>3, <1>4, <1>5

(* The span of a tree covers the bars of all processes in it.               *)
LEMMA SpanCovers ==
  ASSUME NEW ps, Procs(ps), NEW kds \in ChildLists, NEW p \in Below(kds, Top)
  PROVE  LET s == SpanOf(ps, kds)
         IN  s.start <= ps[p].start /\ End(ps, p) <= s.end
<1> DEFINE T == Below(kds, Top)
           low == {100000000} \cup {ps[q].start : q \in T}
           high == {-100000000} \cup {End(ps, q) : q \in T}
<1>1. T \subseteq P
  BY TreeIsLeast
<1>2. \A q \in P : ps[q].start \in Nat /\ End(ps, q) \in Nat
  BY Durations DEF End
<1> HIDE DEF T
<1>3. p \in T
  BY DEF T
<1>4. Min(low) <= ps[p].start
  <2>1. low \subseteq Nat /\ low # {} /\ ps[p].start \in low
    BY <1>1, <1>2, <1>3
  <2> HIDE DEF low
  <2>2. \E x \in low : \A y \in low : x <= y
    BY <2>1, LeastNatural
  <2>3. \A y \in low : Min(low) <= y
    BY <2>2 DEF Min
  <2> QED BY <2>1, <2>3
<1>5. End(ps, p) <= Max(high)
  <2> DEFINE e == [q \in P |-> End(ps, q)]
  <2>1. e \in [P -> Nat]
    BY <1>2
  <2>2. \A q \in P : e[q] = End(ps, q)
    OBVIOUS
  <2> HIDE DEF e
  <2>3. PICK k \in T : \A q \in T : e[q] <= e[k]
    BY <2>1, <1>1, <1>3, LargestOf
  <2>4. End(ps, k) \in high /\ End(ps, p) \in high
    BY <1>3
  <2>5. ASSUME NEW y \in high PROVE End(ps, k) >= y
    <3>1. End(ps, k) \in Nat
      BY <1>1, <1>2
    <3>2. CASE y = -100000000
      BY <3>1, <3>2
    <3>3. CASE \E q \in T : y = End(ps, q)
      <4>1. PICK q \in T : y = End(ps, q)
        BY <3>3
      <4>2. e[q] <= e[k] /\ e[q] = End(ps, q) /\ e[k] = End(ps, k) /\ End(ps, q) \in Nat
        BY <4>1, <2>2, <2>3, <1>1, <1>2
      <4> QED BY <4>1, <4>2, <3>1
    <3> QED BY <3>2, <3>3
  <2> HIDE DEF high
  <2>6. Max(high) \in high /\ \A y \in high : Max(high) >= y
    BY <2>4, <2>5 DEF Max
  <2>7. Max(high) >= End(ps, p)
    BY <2>4, <2>6
  <2>8. Max(high) \in Int /\ End(ps, p) \in Int
    BY <2>6, <1>1, <1>2, <1>3 DEF high
  <2> QED BY <2>7, <2>8
<1>6. SpanOf(ps, kds) = [start |-> Min(low), end |-> Max(high)]
  BY DEF SpanOf, T
<1> HIDE DEF low, high
<1> QED BY <1>4, <1>5, <1>6


(* What was kept is with some process of T. *)
Held(ps, K, T) == \A p \in K : \E q \in T : OwnOf(ps, p) \subseteq ToSet(ps[q].samples)

(* The phases before merge_logger, and those of it. *)
Building == {"build", "daemons"}
Loggers == {"logger", "merge logger"}

(* Samples are within their bars, no sample is twice in the tree (among all *)
(* processes while it is built), only a logger has lost children before     *)
(* prune, prune keeps in the tree what it does not take out itself, from    *)
(* then on each process that is kept has its samples with some process of   *)
(* the tree, and the span is the tree's at the end.                         *)
SampleInv ==
  /\ Barred(proc)
  /\ Unmixed(proc, IF pc \in Building THEN P ELSE InTree)
  /\ \A p \in ToSet(loggers) : proc[p].cmd = LoggerProc
  /\ pc \in Building \cup Loggers => removed = {}
  /\ pc \in Loggers => Pristine(kids, proc)
  /\ pc = "prune" => KeptOf(proc, removed) \subseteq InTree
  /\ pc \notin Building => Held(proc, KeptOf(proc, removed), InTree)
  /\ pc = "done" => \A p \in InTree : span.start <= proc[p].start /\ End(proc, p) <= span.end

(* A process in the tree holds its own samples. *)
LEMMA HeldByItself ==
  ASSUME NEW ps, NEW T, NEW K, K \subseteq T
  PROVE  Held(ps, K, T)
<1>1. \A p \in K : p \in T /\ OwnOf(ps, p) \subseteq ToSet(ps[p].samples)
  BY DEF OwnOf
<1> QED BY <1>1 DEF Held

(* The samples the parser made are within the bars it made. *)
LEMMA InitSamples == Init => SampleInv
<1> SUFFICES ASSUME Init PROVE SampleInv
  OBVIOUS
<1>1. /\ pc = "build" /\ loggers = <<>> /\ removed = {}
  BY DEF Init, TreeInit
<1>2. PICK f \in Forests : proc = f.proc
  BY DEF Init, TreeInit
<1>3. /\ proc \in [P -> Process]
      /\ \A p \in P : \A s \in ToSet(proc[p].samples) : s.of = p /\ InBar(proc[p], s)
      /\ \A p \in P : \A i, k \in 1..Len(proc[p].samples) :
           i < k => proc[p].samples[i].time < proc[p].samples[k].time
  BY <1>2, ForestsAssumption
<1>4. ASSUME NEW p \in P
      PROVE  /\ proc[p].samples \in Seq(Sample) /\ InOrder(proc[p].samples)
             /\ IsInjective(proc[p].samples)
  <2> DEFINE s == proc[p].samples
  <2>1. s \in Seq(Sample)
    BY <1>3 DEF Process
  <2>2. \A i, k \in 1..Len(s) : i < k => s[i].time < s[k].time
    BY <1>3
  <2> HIDE DEF s
  <2>3. Len(s) \in Nat /\ \A i \in 1..Len(s) : s[i].time \in Nat
    <3>1. Len(s) \in Nat /\ \A i \in 1..Len(s) : s[i] \in Sample
      BY <2>1, Elements
    <3>2. \A x \in Sample : x.time \in Nat
      BY DEF Sample
    <3> QED BY <3>1, <3>2
  <2>4. InOrder(s)
    <3> SUFFICES ASSUME NEW i \in 1..Len(s), NEW k \in 1..Len(s), i <= k
                 PROVE  s[i].time <= s[k].time
      BY DEF InOrder
    <3>1. i = k \/ i < k
      BY <2>3
    <3> QED BY <3>1, <2>2, <2>3
  <2>5. ASSUME NEW i \in 1..Len(s), NEW k \in 1..Len(s), s[i] = s[k] PROVE i = k
    <3>1. i = k \/ i < k \/ k < i
      BY <2>3
    <3> QED BY <3>1, <2>2, <2>3, <2>5
  <2>6. IsInjective(s)
    BY <2>1, <2>5, Distinct
  <2> QED BY <2>1, <2>4, <2>6 DEF s
<1>5. Barred(proc)
  BY <1>3, <1>4 DEF Barred
<1>6. Unmixed(proc, P)
  BY <1>3, <1>4 DEF Unmixed
<1>7. ToSet(loggers) = {}
  BY <1>1 DEF ToSet
<1> QED BY <1>1, <1>5, <1>6, <1>7 DEF SampleInv, Building, Loggers

(* A step that neither changes a process nor a list. *)
LEMMA SamplesSame ==
  ASSUME SampleInv, Forest(kids), UNCHANGED <<proc, kids, removed>>,
         \A p \in ToSet(loggers') : proc[p].cmd = LoggerProc,
         pc \notin Building, pc' \notin Building,
         pc' \in Loggers => pc \in Loggers,
         pc' = "prune" => pc \in Loggers \cup {"prune"},
         pc' = "done" => pc = "done" /\ span' = span
  PROVE  SampleInv'
<1>1. InTree' = InTree /\ \A p : End(proc', p) = End(proc, p)
  BY DEF InTree, End
<1>2. pc \in Loggers => KeptOf(proc, removed) \subseteq InTree
  BY KeptInTree DEF SampleInv, InTree
<1> QED BY <1>1, <1>2 DEF SampleInv

(* build. *)
LEMMA SamplesBuild == TreeInv /\ SampleInv /\ Build => SampleInv'
<1> SUFFICES ASSUME TreeInv, SampleInv, Build PROVE SampleInv'
  OBVIOUS
<1>1. /\ pc = "build" /\ kids' = Built(proc) /\ (pc' = "logger" \/ pc' = "daemons")
      /\ UNCHANGED <<proc, loggers, removed>>
  BY DEF Build
<1>2. Forest(kids') /\ InTree' \subseteq P
  <2>1. Forest(kids')
    BY <1>1, BuiltForest
  <2> QED BY <2>1, TreeIsLeast DEF Forest, InTree
<1>3. /\ Barred(proc) /\ Unmixed(proc, P) /\ removed = {}
      /\ \A p \in ToSet(loggers) : proc[p].cmd = LoggerProc
  BY <1>1 DEF SampleInv, Building
<1>4. Unmixed(proc, InTree')
  BY <1>2, <1>3, UnmixedBelow
<1>5. Pristine(kids', proc')
  BY <1>1 DEF Pristine
<1>6. KeptOf(proc', removed') \subseteq InTree'
  BY <1>2, <1>5, KeptInTree DEF InTree
<1>7. Held(proc', KeptOf(proc', removed'), InTree')
  BY <1>6, HeldByItself
<1> QED BY <1>1, <1>3, <1>4, <1>5, <1>7 DEF SampleInv, Building, Loggers

(* update_ppids_for_daemons changes who is whose child.                     *)
LEMMA SamplesDaemons == TreeInv /\ SampleInv /\ UpdateDaemons => SampleInv'
<1> SUFFICES ASSUME TreeInv, SampleInv, UpdateDaemons PROVE SampleInv'
  OBVIOUS
<1>1. /\ pc = "daemons" /\ kids' = Built(proc') /\ pc' = "logger"
      /\ UNCHANGED <<stack, loggers, removed, numProc>>
  BY DEF UpdateDaemons
<1>2. Forest(kids') /\ InTree' \subseteq P
  <2>1. Forest(kids')
    BY <1>1, BuiltForest
  <2> QED BY <2>1, TreeIsLeast DEF Forest, InTree
<1>3. /\ Barred(proc) /\ Unmixed(proc, P) /\ removed = {}
      /\ \A p \in ToSet(loggers) : proc[p].cmd = LoggerProc
  BY <1>1 DEF SampleInv, Building
<1>4. \A p \in P : /\ proc'[p].samples = proc[p].samples /\ proc'[p].cmd = proc[p].cmd
                   /\ proc'[p].start = proc[p].start /\ proc'[p].dur = proc[p].dur
  <2>1. PICK S : proc \in [P -> Rec(S)]
    BY DEF TreeInv, TypedInv, Procs
  <2> DEFINE rcs == {p \in P : proc[p].cmd = "rc" /\ proc[p].ppid = 1}
             rc == Max(rcs)
             given(p) == [proc[p] EXCEPT !.ppid = rc, !.parent = rc]
  <2>2. PICK D : proc' = IF rcs = {} THEN proc
                         ELSE [p \in P |-> IF p \in D THEN given(p) ELSE proc[p]]
    BY DEF UpdateDaemons
  <2> HIDE DEF rc, rcs
  <2>3. \A p \in P : /\ given(p).samples = proc[p].samples /\ given(p).cmd = proc[p].cmd
                     /\ given(p).start = proc[p].start /\ given(p).dur = proc[p].dur
    BY <2>1 DEF Rec
  <2> HIDE DEF given
  <2> QED BY <2>2, <2>3
<1>5. Barred(proc')
  <2>1. ASSUME NEW p \in P, NEW s \in ToSet(proc[p].samples) PROVE s.of \in P
    <3>1. proc[p].samples \in Seq(Sample)
      BY <1>3 DEF Barred
    <3>2. s \in Sample
      BY <3>1, Elements
    <3> QED BY <3>2 DEF Sample
  <2> QED BY <2>1, <1>3, <1>4 DEF Barred, InBar
<1>6. Unmixed(proc', InTree')
  <2>1. Unmixed(proc', P)
    BY <1>3, <1>4 DEF Unmixed
  <2> QED BY <2>1, <1>2, UnmixedBelow
<1>7. Pristine(kids', proc')
  BY <1>1 DEF Pristine
<1>8. KeptOf(proc', removed') \subseteq InTree'
  BY <1>2, <1>7, KeptInTree DEF InTree
<1>9. Held(proc', KeptOf(proc', removed'), InTree')
  BY <1>8, HeldByItself
<1>10. \A p \in ToSet(loggers') : proc'[p].cmd = LoggerProc
  <2>1. ToSet(loggers) \subseteq P
    BY Elements DEF TreeInv, TypedInv
  <2> QED BY <2>1, <1>1, <1>3, <1>4
<1> QED BY <1>1, <1>3, <1>5, <1>6, <1>7, <1>9, <1>10 DEF SampleInv, Building, Loggers

(* One turn of filter_subtree. *)
LEMMA SamplesFilterStep == TreeInv /\ SampleInv /\ FilterStep => SampleInv'
<1> SUFFICES ASSUME TreeInv, SampleInv, FilterStep PROVE SampleInv'
  OBVIOUS
<1>1. /\ pc = "logger" /\ pc' = "logger" /\ Here.at <= Len(List)
      /\ loggers' = IF proc[This].cmd = LoggerProc THEN Append(loggers, This) ELSE loggers
      /\ UNCHANGED <<proc, kids, removed>>
  BY DEF FilterStep, At
<1>2. This \in P /\ loggers \in Seq(P) /\ Forest(kids)
  BY <1>1, WalkFacts DEF Walks, TreeInv, TypedInv
<1>3. ASSUME NEW p \in ToSet(loggers') PROVE proc[p].cmd = LoggerProc
  <2>1. p \in ToSet(loggers) \/ (p = This /\ proc[This].cmd = LoggerProc)
    <3>1. CASE proc[This].cmd = LoggerProc
      <4>1. loggers' = Append(loggers, This)
        BY <3>1, <1>1
      <4>2. ToSet(Append(loggers, This)) \subseteq ToSet(loggers) \cup {This}
        <5>1. /\ Len(Append(loggers, This)) = Len(loggers) + 1 /\ Len(loggers) \in Nat
              /\ \A i \in 1..Len(loggers) + 1 :
                   Append(loggers, This)[i] = IF i <= Len(loggers) THEN loggers[i] ELSE This
          BY <1>2, AppendProperties
        <5>2. \A i \in 1..Len(loggers) + 1 : i <= Len(loggers) => i \in 1..Len(loggers)
          BY <5>1
        <5> QED BY <5>1, <5>2 DEF ToSet
      <4> QED BY <1>3, <3>1, <4>1, <4>2
    <3>2. CASE proc[This].cmd # LoggerProc
      BY <3>2, <1>1, <1>3
    <3> QED BY <3>1, <3>2
  <2> QED BY <2>1 DEF SampleInv
<1> QED BY <1>1, <1>2, <1>3, SamplesSame DEF Building, Loggers

(* One turn of the loop over the children of a logger process. *)
LEMMA SamplesMergeLogger == TreeInv /\ SampleInv /\ MergeLogger => SampleInv'
<1> SUFFICES ASSUME TreeInv, SampleInv, MergeLogger PROVE SampleInv'
  OBVIOUS
<1> DEFINE p == Head(loggers)
           i == stack[1].at
           child == kids[p][i]
<1>1. pc = "merge logger" /\ loggers # <<>> /\ UNCHANGED <<pc, removed, numProc>>
  BY DEF MergeLogger
<1>2. /\ Procs(proc) /\ Forest(kids) /\ loggers \in Seq(P) /\ p \in P /\ p \in 0..N
      /\ i \in Nat /\ i # 0 /\ Len(kids[p]) \in Nat /\ p \in ToSet(loggers)
      /\ ToSet(Tail(loggers)) \subseteq ToSet(loggers)
  <2>1. /\ Procs(proc) /\ Forest(kids) /\ loggers \in Seq(P)
        /\ i \in 1..Len(kids[p]) + 2
    BY <1>1 DEF TreeInv, TypedInv, StackInv
  <2>2. /\ p \in P /\ Tail(loggers) \in Seq(P) /\ p = loggers[1] /\ Len(loggers) \in Nat \ {0}
        /\ Len(Tail(loggers)) = Len(loggers) - 1
        /\ \A k \in 1..Len(loggers) - 1 : Tail(loggers)[k] = loggers[k + 1]
    <3>1. loggers \in Seq(P) /\ loggers # <<>>
      BY <2>1, <1>1
    <3>2. Len(loggers) \in Nat \ {0}
      BY <3>1, EmptySeq, LenProperties
    <3>3. /\ Head(loggers) \in P /\ Tail(loggers) \in Seq(P)
          /\ Len(Tail(loggers)) = Len(loggers) - 1
          /\ \A k \in 1..Len(Tail(loggers)) : Tail(loggers)[k] = loggers[k + 1]
      BY ONLY <3>1, HeadTailProperties
    <3>4. Head(loggers) = loggers[1]
      BY ONLY <3>1
    <3> QED BY <3>2, <3>3, <3>4
  <2>3. p \in 0..N
    BY <2>2, Numbers
  <2>4. p \in ToSet(loggers)
    BY <2>1, <2>2, Elements
  <2>5. ToSet(Tail(loggers)) \subseteq ToSet(loggers)
    <3>1. \A k \in 1..Len(loggers) - 1 : k + 1 \in 1..Len(loggers)
      BY <2>2
    <3> QED BY <3>1, <2>2 DEF ToSet
  <2> QED BY <2>1, <2>2, <2>3, <2>4, <2>5, ForestLists
<1>3. \/ loggers' = Tail(loggers) /\ UNCHANGED <<proc, kids>>
      \/ loggers' = loggers /\ UNCHANGED <<proc, kids>>
      \/ /\ i \in 1..Len(kids[p]) /\ loggers' = loggers
         /\ proc' = [proc EXCEPT ![p] = Merged(@, proc[child])]
         /\ kids' = [kids EXCEPT ![p] = RemoveFirst(@, child)]
  <2>1. CASE i > Len(kids[p])
    BY <2>1 DEF MergeLogger
  <2>2. CASE ~ (i > Len(kids[p]))
    <3>1. i \in 1..Len(kids[p])
      BY <2>2, <1>2
    <3> QED BY <2>2, <3>1 DEF MergeLogger
  <2> QED BY <2>1, <2>2
<1> HIDE DEF p, i
<1>4. CASE UNCHANGED <<proc, kids>>
  <2>1. ToSet(loggers') \subseteq ToSet(loggers)
    BY <1>2, <1>3, <1>4
  <2>2. \A x \in ToSet(loggers') : proc[x].cmd = LoggerProc
    BY <2>1 DEF SampleInv
  <2> QED BY <2>2, <1>1, <1>2, <1>4, SamplesSame DEF Building, Loggers
<1>5. CASE /\ i \in 1..Len(kids[p]) /\ loggers' = loggers
           /\ proc' = [proc EXCEPT ![p] = Merged(@, proc[child])]
           /\ kids' = [kids EXCEPT ![p] = RemoveFirst(@, kids[p][i])]
  <2>1. child = kids[p][i] /\ child \in P /\ child \in ToSet(kids[p])
    BY <1>2, <1>5, ForestLists
  <2> HIDE DEF child
  <2>2. /\ Barred(proc) /\ Unmixed(proc, InTree) /\ removed = {} /\ Pristine(kids, proc)
        /\ \A x \in ToSet(loggers) : proc[x].cmd = LoggerProc
    BY <1>1 DEF SampleInv, Building, Loggers
  <2>3. Gathered(proc, proc', p, child)
    BY <1>2, <1>5, <2>1, <2>2, GatheredSamples
  <2>4. /\ Forest(kids') /\ \A o \in 0..N : o # p => kids'[o] = kids[o]
        /\ ToSet(kids'[p]) = ToSet(kids[p]) \ {child}
    <3>1. Forest(kids')
      BY ONLY <1>2, <1>5, RemovedForest
    <3>2. kids[p] \in Seq(P) /\ IsInjective(kids[p]) /\ kids \in ChildLists
      BY <1>2, ForestLists DEF Forest
    <3>3. RemoveFirst(kids[p], kids[p][i]) = RemoveAt(kids[p], i)
      BY ONLY <3>2, <1>5, FirstRemoved
    <3>4. ToSet(RemoveAt(kids[p], i)) = ToSet(kids[p]) \ {kids[p][i]}
      BY ONLY <3>2, <1>5, RemoveDistinct
    <3>5. kids'[p] = RemoveFirst(kids[p], kids[p][i]) /\ \A o \in 0..N : o # p => kids'[o] = kids[o]
      BY <3>2, <1>2, <1>5 DEF ChildLists
    <3> QED BY <3>1, <3>3, <3>4, <3>5, <2>1
  <2>5. Pristine(kids', proc')
    <3>1. \A x \in P : proc'[x].parent = proc[x].parent /\ proc'[x].cmd = proc[x].cmd
      BY <2>3 DEF Gathered
    <3>2. Built(proc') = Built(proc)
      BY <3>1, KeptSame
    <3>3. proc[p].cmd = LoggerProc /\ p # Top
      BY <1>2, <2>2, Numbers
    <3>4. \A o \in 0..N : o # Top => o \in P
      BY DEF P, Top
    <3> QED BY <3>1, <3>2, <3>3, <3>4, <2>2, <2>4 DEF Pristine
  <2>6. Tree(kids') \subseteq Tree(kids)
    <3>1. kids \in ChildLists /\ kids' \in ChildLists /\ Apart(kids)
      BY <1>2, <2>4 DEF Forest
    <3>2. \A o \in Tree(kids) : ToSet(kids'[o]) \subseteq ToSet(kids[o])
      BY <1>2, <2>4, TreeKids
    <3> QED BY ONLY <3>1, <3>2, TreeOfSublists
  <2>7. Unmixed(proc', InTree')
    <3>1. InTree = Tree(kids) \ {Top} /\ InTree' = Tree(kids') \ {Top} /\ InTree \subseteq P
      BY <1>2, <2>4, TreeIsLeast DEF InTree, Forest
    <3>2. CASE p \in Tree(kids)
      <4>1. child \in Tree(kids) /\ child # p /\ p # Top /\ child # Top
        BY <3>2, <1>2, <2>1, TreeKids, Numbers
      <4>2. child \notin Tree(kids')
        <5> SUFFICES ASSUME child \in Tree(kids') PROVE FALSE
          OBVIOUS
        <5>1. PICK o \in Tree(kids') : child \in ToSet(kids'[o])
          BY <4>1, <2>4, ParentInTree DEF Forest
        <5>2. o \in Tree(kids) /\ o \in 0..N /\ o # p
          BY <5>1, <2>4, <2>6, TreeKids
        <5>3. child \in ToSet(kids[o])
          BY <5>1, <5>2, <2>4
        <5> QED BY <5>2, <5>3, <3>2, <1>2, <2>1, TreeKids
      <4>3. p \in InTree /\ child \in InTree
        BY <3>1, <3>2, <4>1
      <4>4. Unmixed(proc', InTree \ {child})
        <5>1. /\ p # child /\ p \in InTree /\ child \in InTree /\ InTree \subseteq P
              /\ Unmixed(proc, InTree)
          BY <4>1, <4>3, <3>1, <2>2
        <5> QED BY ONLY <5>1, <2>3, UnmixedMerged
      <4>5. InTree' \subseteq InTree \ {child}
        BY <3>1, <4>2, <2>6
      <4> QED BY <4>4, <4>5, UnmixedBelow
    <3>3. CASE p \notin Tree(kids)
      <4>1. \A x \in InTree : proc'[x].samples = proc[x].samples
        BY <3>1, <3>3, <2>3 DEF Gathered
      <4>2. Unmixed(proc', InTree)
        BY <4>1, <2>2 DEF Unmixed
      <4>3. InTree' \subseteq InTree
        BY <3>1, <2>6
      <4> QED BY <4>2, <4>3, UnmixedBelow
    <3> QED BY <3>2, <3>3
  <2>8. KeptOf(proc', removed') \subseteq InTree'
    BY <2>4, <2>5, KeptInTree DEF InTree
  <2>9. Held(proc', KeptOf(proc', removed'), InTree')
    BY <2>8, HeldByItself
  <2>10. Barred(proc') /\ \A x \in ToSet(loggers') : proc'[x].cmd = LoggerProc
    <3>1. ToSet(loggers) \subseteq P
      BY <1>2, Elements
    <3> QED BY <3>1, <1>5, <2>2, <2>3 DEF Gathered
  <2> QED BY <1>1, <2>2, <2>5, <2>7, <2>9, <2>10 DEF SampleInv, Building, Loggers
<1> QED BY <1>3, <1>4, <1>5 DEF child


(* The methods that only go through the tree, or on to the next one. *)
LEMMA SamplesGoOn ==
  TreeInv /\ SampleInv /\ (LoggersFound \/ LoggersMerged \/ MergeExploders \/ Return \/ NextMethod)
    => SampleInv'
<1> SUFFICES ASSUME TreeInv, SampleInv,
                    LoggersFound \/ LoggersMerged \/ MergeExploders \/ Return \/ NextMethod
             PROVE  SampleInv'
  OBVIOUS
<1>1. UNCHANGED <<proc, kids, removed, loggers>>
  BY DEF LoggersFound, LoggersMerged, MergeExploders, Return, NextMethod
<1>2. /\ pc \notin Building /\ pc' \notin Building
      /\ pc' \in Loggers => pc \in Loggers
      /\ pc' = "prune" => pc \in Loggers \cup {"prune"}
      /\ pc' # "done"
  <2>1. CASE LoggersFound
    BY <2>1 DEF LoggersFound, Through, Building, Loggers
  <2>2. CASE LoggersMerged
    BY <2>2 DEF LoggersMerged, Building, Loggers
  <2>3. CASE MergeExploders
    BY <2>3 DEF MergeExploders, Building, Loggers
  <2>4. CASE Return
    BY <2>4 DEF Return, Building, Loggers
  <2>5. CASE NextMethod
    BY <2>5 DEF NextMethod, Through, Building, Loggers
  <2> QED BY <2>1, <2>2, <2>3, <2>4, <2>5
<1>3. Forest(kids) /\ \A p \in ToSet(loggers') : proc[p].cmd = LoggerProc
  BY <1>1 DEF TreeInv, TypedInv, SampleInv
<1> QED BY <1>1, <1>2, <1>3, SamplesSame

(* Of the processes that are kept each is one. *)
LEMMA KeptAreProcs ==
  ASSUME NEW ps, NEW rem
  PROVE  KeptOf(ps, rem) \subseteq P
<1>1. Below(Built(ps), Top) \subseteq P
  BY BuiltForest, TreeIsLeast DEF Forest
<1> QED BY <1>1 DEF KeptOf

(* Two processes of the tree are merged, and the second leaves it: its      *)
(* samples are now with the first.                                          *)
LEMMA SamplesGathered ==
  ASSUME TreeInv, SampleInv, pc \in {"siblings", "runs"},
         UNCHANGED <<pc, loggers, removed>>,
         NEW p \in Tree(kids) \ {Top}, NEW q \in Tree(kids) \ {Top}, q # p,
         proc' = [proc EXCEPT ![p] = Merged(@, proc[q])],
         Forest(kids'), Tree(kids') = Tree(kids) \ {q}
  PROVE  SampleInv'
<1>1. /\ Procs(proc) /\ Forest(kids) /\ loggers \in Seq(P)
  BY DEF TreeInv, TypedInv
<1>2. /\ InTree = Tree(kids) \ {Top} /\ InTree' = Tree(kids') \ {Top} /\ InTree \subseteq P
  BY <1>1, TreeIsLeast DEF InTree, Forest
<1>3. p \in InTree /\ q \in InTree /\ p \in P /\ q \in P /\ InTree' = InTree \ {q}
  BY <1>2
<1>4. /\ Barred(proc) /\ Unmixed(proc, InTree)
      /\ \A x \in ToSet(loggers) : proc[x].cmd = LoggerProc
      /\ Held(proc, KeptOf(proc, removed), InTree)
  BY DEF SampleInv, Building
<1>5. Gathered(proc, proc', p, q)
  BY <1>1, <1>3, <1>4, GatheredSamples
<1>6. Unmixed(proc', InTree')
  <2>1. Unmixed(proc', InTree \ {q})
    BY ONLY <1>2, <1>3, <1>4, <1>5, q # p, UnmixedMerged
  <2> QED BY <2>1, <1>3
<1>7. Held(proc', KeptOf(proc', removed'), InTree')
  <2>1. \A x \in P : proc'[x].parent = proc[x].parent /\ proc'[x].cmd = proc[x].cmd
    BY <1>5 DEF Gathered
  <2>2. KeptOf(proc', removed') = KeptOf(proc, removed)
    BY <2>1, KeptSame
  <2>3. ASSUME NEW x \in KeptOf(proc, removed)
        PROVE  \E h \in InTree' : OwnOf(proc', x) \subseteq ToSet(proc'[h].samples)
    <3>1. PICK h \in InTree : OwnOf(proc, x) \subseteq ToSet(proc[h].samples)
      BY <1>4 DEF Held
    <3>2. x \in P
      BY KeptAreProcs
    <3>3. OwnOf(proc', x) = OwnOf(proc, x)
      BY <3>2, <1>5 DEF Gathered
    <3>4. CASE h \in {p, q}
      <4>1. ToSet(proc[h].samples) \subseteq ToSet(proc'[p].samples)
        BY <3>4, <1>5 DEF Gathered
      <4> QED BY <4>1, <3>1, <3>3, <1>3
    <3>5. CASE h \notin {p, q}
      <4>1. proc'[h].samples = proc[h].samples
        BY <3>5, <1>2, <1>5 DEF Gathered
      <4> QED BY <4>1, <3>1, <3>3, <3>5, <1>3
    <3> QED BY <3>4, <3>5
  <2> QED BY <2>2, <2>3 DEF Held
<1>8. Barred(proc') /\ \A x \in ToSet(loggers') : proc'[x].cmd = LoggerProc
  <2>1. ToSet(loggers) \subseteq P
    BY <1>1, Elements
  <2> QED BY <2>1, <1>4, <1>5 DEF Gathered
<1> QED BY <1>6, <1>7, <1>8 DEF SampleInv, Building, Loggers

(* One turn of prune: a pruned process takes its samples with it. *)
LEMMA SamplesPruneStep == TreeInv /\ SampleInv /\ PruneStep => SampleInv'
<1> SUFFICES ASSUME TreeInv, SampleInv, PruneStep PROVE SampleInv'
  OBVIOUS
<1> DEFINE o == Here.of
           i == Here.at
           p == This
<1>1. pc = "prune" /\ i <= Len(List) /\ UNCHANGED <<pc, proc, loggers>>
  BY DEF PruneStep, At
<1>2. /\ Forest(kids) /\ o \in Tree(kids) /\ i \in 1..Len(kids[o]) /\ p = kids[o][i]
      /\ p \in P
  BY <1>1, WalkFacts DEF Walks, List, This, Here
<1>3. /\ Barred(proc) /\ Unmixed(proc, InTree)
      /\ \A x \in ToSet(loggers) : proc[x].cmd = LoggerProc
      /\ KeptOf(proc, removed) \subseteq InTree
  BY <1>1 DEF SampleInv, Building
<1>4. CASE Prunable(p)
  <2>1. kids' = Pruned(kids, o, i) /\ removed' = removed \cup {p}
    BY <1>2, <1>4 DEF PruneStep, Pruned
  <2> HIDE DEF o, i, p
  <2>2. Forest(kids') /\ Tree(kids') = Tree(kids) \ {p}
    <3>1. /\ Forest(kids) /\ o \in Tree(kids) /\ i \in 1..Len(kids[o])
          /\ p = kids[o][i] /\ kids' = Pruned(kids, o, i)
      BY <1>2, <2>1
    <3> QED BY ONLY <3>1, PrunedForest
  <2>3. InTree' = InTree \ {p}
    BY <1>2, <2>2, TreeIsLeast DEF InTree, Forest
  <2>4. KeptOf(proc', removed') \subseteq InTree'
    <3>1. KeptOf(proc, removed \cup {p}) = KeptOf(proc, removed) \ {p}
      BY DEF KeptOf
    <3> QED BY <3>1, <1>1, <1>3, <2>1, <2>3
  <2>5. Held(proc', KeptOf(proc', removed'), InTree')
    BY <2>4, HeldByItself
  <2>6. Unmixed(proc', InTree')
    BY <1>1, <1>3, <2>3, UnmixedBelow
  <2> QED BY <1>1, <1>3, <2>4, <2>5, <2>6 DEF SampleInv, Building, Loggers
<1>5. CASE ~ Prunable(p)
  <2>1. UNCHANGED <<proc, kids, removed, loggers>>
    BY <1>1, <1>5 DEF PruneStep
  <2> HIDE DEF p
  <2> QED BY <2>1, <1>1, <1>2, <1>3, SamplesSame DEF Building, Loggers
<1> QED BY <1>4, <1>5

(* One turn of merge_siblings. *)
LEMMA SamplesSiblingStep == TreeInv /\ SampleInv /\ SiblingStep => SampleInv'
<1> SUFFICES ASSUME TreeInv, SampleInv, SiblingStep PROVE SampleInv'
  OBVIOUS
<1> DEFINE o == Here.of
           i == Here.at
           p == This
           twin == i < Len(List) /\ proc[List[i + 1]].cmd = proc[p].cmd
           q == List[i + 1]
<1>1. pc = "siblings" /\ i <= Len(List) /\ UNCHANGED <<pc, loggers, removed>>
  BY DEF SiblingStep, At
<1>2. /\ Forest(kids) /\ o \in Tree(kids) /\ o \in 0..N /\ i \in 1..Len(kids[o])
      /\ Len(kids[o]) \in Nat /\ p \in ToSet(kids[o]) /\ p \in P
      /\ p \in Tree(kids) /\ p = kids[o][i] /\ List = kids[o]
  BY <1>1, WalkFacts DEF Walks, List, This, Here
<1>3. \A x \in ToSet(loggers') : proc[x].cmd = LoggerProc
  BY <1>1 DEF SampleInv
<1>4. CASE twin
  <2>1. /\ kids' = Twinned(kids, o, i) /\ proc' = [proc EXCEPT ![p] = Merged(@, proc[q])]
        /\ i \in 1..Len(kids[o]) - 1 /\ q = kids[o][i + 1]
    <3>1. /\ kids' = [kids EXCEPT ![Here.of] = RemoveAt(@, i + 1), ![p] = @ \o kids[q]]
          /\ proc' = [proc EXCEPT ![p] = Merged(@, proc[q])]
      BY <1>4 DEF SiblingStep
    <3>2. i \in 1..Len(kids[o]) - 1 /\ q = kids[o][i + 1]
      BY <1>2, <1>4
    <3>3. kids' = Twinned(kids, o, i)
      BY <3>1, <3>2, <1>2 DEF Twinned
    <3> QED BY <3>1, <3>2, <3>3
  <2> HIDE DEF o, i, p, q
  <2>2. /\ Forest(kids') /\ Tree(kids') = Tree(kids) \ {q}
    <3>1. /\ Forest(kids) /\ o \in Tree(kids) /\ i \in 1..Len(kids[o]) - 1
          /\ p = kids[o][i] /\ q = kids[o][i + 1] /\ kids' = Twinned(kids, o, i)
      BY <1>2, <2>1
    <3>2. AfterTwins(kids, kids', o, i, p, q)
      BY ONLY <3>1, TwinForest
    <3> QED BY <3>2 DEF AfterTwins
  <2>3. q # p /\ q \in Tree(kids) \ {Top} /\ p \in Tree(kids) \ {Top}
    <3>1. i + 1 \in 1..Len(kids[o]) /\ i + 1 # i
      BY <1>2, <2>1
    <3>2. \A a, b \in 1..Len(kids[o]) : kids[o][a] = kids[o][b] => a = b
      BY <1>2, ForestLists, Distinct
    <3>3. q \in ToSet(kids[o])
      BY <3>1, <2>1, <1>2, ForestLists
    <3> QED BY <3>1, <3>2, <3>3, <2>1, <1>2, TreeKids
  <2> QED BY <1>1, <2>1, <2>2, <2>3, SamplesGathered
<1>5. CASE ~ twin
  <2>1. UNCHANGED <<proc, kids, removed, loggers>>
    BY <1>1, <1>5 DEF SiblingStep
  <2> HIDE DEF p, twin, q, i, o
  <2> QED BY <2>1, <1>1, <1>2, <1>3, SamplesSame DEF Building, Loggers
<1> QED BY <1>4, <1>5

(* One turn of merge_runs. *)
LEMMA SamplesRunStep == TreeInv /\ SampleInv /\ RunStep => SampleInv'
<1> SUFFICES ASSUME TreeInv, SampleInv, RunStep PROVE SampleInv'
  OBVIOUS
<1> DEFINE p == This
           q == kids[p][1]
<1>1. pc = "runs" /\ Here.at <= Len(List) /\ UNCHANGED <<pc, loggers, removed>>
  BY DEF RunStep, At
<1>2. Forest(kids) /\ p \in Tree(kids) /\ p \in P
  BY <1>1, WalkFacts DEF Walks
<1>3. \A x \in ToSet(loggers') : proc[x].cmd = LoggerProc
  BY <1>1 DEF SampleInv
<1>4. CASE IsRun(p)
  <2>1. /\ kids' = RunJoined(kids, p) /\ proc' = [proc EXCEPT ![p] = Merged(@, proc[q])]
        /\ Len(kids[p]) = 1 /\ q = kids[p][1]
    BY <1>4 DEF RunStep, RunJoined, IsRun
  <2> HIDE DEF p, q
  <2>2. AfterRun(kids, kids', p, q)
    BY ONLY <1>2, <2>1, RunForest
  <2>3. q # p /\ q \in Tree(kids) \ {Top} /\ p \in Tree(kids) \ {Top}
    <3>1. q # p /\ q \in ToSet(kids[p])
      BY <2>2 DEF AfterRun
    <3> QED BY <3>1, <1>2, TreeKids, Numbers
  <2> QED BY <1>1, <2>1, <2>2, <2>3, SamplesGathered DEF AfterRun
<1>5. CASE ~ IsRun(p)
  <2>1. UNCHANGED <<proc, kids, removed, loggers>>
    BY <1>1, <1>5 DEF RunStep
  <2> HIDE DEF p, q
  <2> QED BY <2>1, <1>1, <1>2, <1>3, SamplesSame DEF Building, Loggers
<1> QED BY <1>4, <1>5

(* sort: the time span is that of the processes in the tree. *)
LEMMA SamplesSort == TreeInv /\ SampleInv /\ Sort => SampleInv'
<1> SUFFICES ASSUME TreeInv, SampleInv, Sort PROVE SampleInv'
  OBVIOUS
<1>1. /\ pc = "sort" /\ pc' = "done" /\ kids' = SortedLists /\ span' = SpanOf(proc, kids')
      /\ UNCHANGED <<proc, loggers, removed>>
  BY DEF Sort
<1>2. Forest(kids) /\ Procs(proc)
  BY DEF TreeInv, TypedInv
<1>3. InTree' = InTree /\ kids' \in ChildLists
  <2>1. kids' = [o \in 0..N |-> IF o \in Below(kids, Top) THEN SortedByPid(kids[o]) ELSE kids[o]]
    BY <1>1 DEF SortedLists, InTree
  <2>2. Below(kids', Top) = Below(kids, Top)
    BY <1>2, <2>1, SortedTree
  <2>3. kids' \in ChildLists
    <3>1. TreeInv'
      BY StepSort
    <3> QED BY <3>1 DEF TreeInv, TypedInv, Forest
  <2> QED BY <2>2, <2>3 DEF InTree
<1>4. ASSUME NEW p \in InTree' PROVE span'.start <= proc'[p].start /\ End(proc', p) <= span'.end
  <2>1. p \in Below(kids', Top)
    BY DEF InTree
  <2>2. LET s == SpanOf(proc, kids') IN s.start <= proc[p].start /\ End(proc, p) <= s.end
    BY <1>2, <1>3, <2>1, SpanCovers
  <2> QED BY <2>2, <1>1
<1> QED BY <1>1, <1>3, <1>4 DEF SampleInv, Building, Loggers

(* The chart is drawn. *)
LEMMA SamplesDrawn ==
  ASSUME TreeInv, SampleInv, pc \in {"done", "bars", "bands"}, pc' \in {"bars", "bands", "drawn"},
         UNCHANGED <<proc, kids, loggers, removed>>
  PROVE  SampleInv'
<1>1. Forest(kids) /\ \A p \in ToSet(loggers') : proc[p].cmd = LoggerProc
  BY DEF TreeInv, TypedInv, SampleInv
<1> QED BY <1>1, SamplesSame DEF Building, Loggers

(* Nothing of the tree changes. *)
LEMMA SamplesStay ==
  ASSUME SampleInv, UNCHANGED <<pc, proc, kids, span, loggers, removed>>
  PROVE  SampleInv'
<1>1. InTree' = InTree /\ \A p : End(proc', p) = End(proc, p)
  BY DEF InTree, End
<1> QED BY <1>1 DEF SampleInv

(* Each step keeps the samples together (process_tree.py, 82-294). *)
THEOREM StepSamples == TreeInv /\ SampleInv /\ [Next]_vars => SampleInv'
<1> SUFFICES ASSUME TreeInv, SampleInv, [Next]_vars PROVE SampleInv'
  OBVIOUS
<1>1. ASSUME TreeNext PROVE SampleInv'
  BY <1>1, SamplesBuild, SamplesDaemons, SamplesFilterStep, SamplesMergeLogger,
     SamplesGoOn, SamplesPruneStep, SamplesSiblingStep, SamplesRunStep, SamplesSort
     DEF TreeNext
<1>2. ASSUME DrawBars PROVE SampleInv'
  BY <1>2, SamplesDrawn DEF DrawBars
<1>3. ASSUME Accumulate PROVE SampleInv'
  <2>1. pc = "bars" /\ (pc' = "drawn" \/ pc' = "bands")
    BY <1>3 DEF Accumulate
  <2> QED BY <1>3, <2>1, SamplesDrawn DEF Accumulate
<1>4. ASSUME DrawBand PROVE SampleInv'
  BY <1>4, SamplesStay DEF DrawBand, treeVars
<1>5. ASSUME EndGraph PROVE SampleInv'
  BY <1>5, SamplesDrawn DEF EndGraph
<1>6. ASSUME UNCHANGED vars PROVE SampleInv'
  BY <1>6, SamplesStay DEF vars, treeVars
<1> QED BY <1>1, <1>2, <1>3, <1>4, <1>5, <1>6 DEF Next

(* The invariant of the samples. *)
THEOREM SamplesAlways == Spec => []SampleInv
<1>1. Init => SampleInv
  BY InitSamples
<1> QED BY <1>1, StepSamples, TreeAlways, PTL DEF Spec

(* For any processes and samples, cropped or not, the bar of each process   *)
(* reaches over all samples it has, its own and those merged into it, as    *)
(* far as the crop, and the time span that the chart is drawn with covers   *)
(* the bars of all processes of the tree (samples.py, 109-113; parsing.py,  *)
(* 210-214; process_tree.py, 107-129 and 286-294).                          *)
THEOREM BarsCover == Spec => []BarsCoverSamples
<1>1. SampleInv => BarsCoverSamples
  BY DEF SampleInv, BarsCoverSamples, Barred
<1> QED BY <1>1, SamplesAlways, PTL

(* For any processes, however they are pruned and merged, each sample of a  *)
(* process is at exactly one place in exactly one process of the tree,      *)
(* unless the process was pruned or is below a logger: merging loses none   *)
(* and shows none twice (process_tree.py, 155-294).                         *)
THEOREM SamplesOnce == Spec => []EverySampleOnce
<1>1. TreeInv /\ SampleInv => EverySampleOnce
  <2> SUFFICES ASSUME TreeInv, SampleInv, pc \notin {"build", "daemons"},
                      NEW p \in Kept, NEW s \in Own(p)
               PROVE  Cardinality(Places(s, InTree)) = 1
    BY DEF EverySampleOnce
  <2>1. /\ Unmixed(proc, InTree) /\ Held(proc, KeptOf(proc, removed), InTree)
    BY DEF SampleInv, Building
  <2>2. p \in KeptOf(proc, removed) /\ s \in OwnOf(proc, p)
    BY DEF Kept, KeptOf, Own, OwnOf
  <2>3. PICK q \in InTree : s \in ToSet(proc[q].samples)
    BY <2>1, <2>2 DEF Held
  <2>4. PICK i \in 1..Len(proc[q].samples) : proc[q].samples[i] = s
    <3>1. q \in P
      BY InTreeIs DEF TreeInv, TypedInv
    <3>2. proc[q].samples \in Seq(Sample)
      BY <3>1 DEF SampleInv, Barred
    <3> QED BY <2>3, <3>2, Elements
  <2>5. ASSUME NEW r \in InTree, NEW k \in 1..Len(proc[r].samples), proc[r].samples[k] = s
        PROVE  r = q /\ k = i
    <3>1. s \in ToSet(proc[r].samples)
      BY <2>5 DEF ToSet
    <3>2. r = q
      BY <3>1, <2>1, <2>3 DEF Unmixed
    <3>3. IsInjective(proc[q].samples)
      BY <2>1 DEF Unmixed
    <3> QED BY <3>2, <3>3, <2>4, <2>5 DEF IsInjective
  <2>6. Places(s, InTree) = {<<q, i>>}
    BY <2>3, <2>4, <2>5 DEF Places
  <2> QED BY <2>6, FS_Singleton
<1> QED BY <1>1, TreeAlways, SamplesAlways, PTL


(* ------------------------------------------------------------------------ *)
(* The loops end                                                            *)

(* A call for the next process leaves less to do. *)
LEMMA CallsLess ==
  ASSUME TreeInv, pc \in Walks, Here.at <= Len(List), Enter(This, Here.at + 1), UNCHANGED kids
  PROVE  InTree' = InTree /\ Work' < Work
<1>1. Forest(kids) /\ OnPath(stack, kids) /\ stack # <<>> /\ Len(stack) \in Nat
  BY WalkFacts
<1>2. stack' = Entered(stack, This, Here.at + 1)
  BY EnterEntered
<1>3. /\ Here.of = stack[Len(stack)].of /\ Here.at = stack[Len(stack)].at
      /\ Here.at <= Len(kids[Here.of]) /\ This = kids[Here.of][Here.at]
  BY DEF Here, This, List
<1>4. /\ Len(Entered(stack, This, Here.at + 1)) = Len(stack) + 1
      /\ Cardinality(PendingOf(kids, Entered(stack, This, Here.at + 1))) \in Nat
      /\ Cardinality(PendingOf(kids, Entered(stack, This, Here.at + 1)))
           < Cardinality(PendingOf(kids, stack))
  <2> DEFINE o == Here.of
             i == Here.at
             p == This
  <2>1. /\ o = stack[Len(stack)].of /\ i = stack[Len(stack)].at
        /\ i <= Len(kids[o]) /\ p = kids[o][i]
    BY <1>3
  <2> HIDE DEF o, i, p
  <2>2. LET new == Entered(stack, p, i + 1)
        IN  /\ Len(new) = Len(stack) + 1
            /\ Cardinality(PendingOf(kids, new)) \in Nat
            /\ Cardinality(PendingOf(kids, new)) < Cardinality(PendingOf(kids, stack))
    BY ONLY <1>1, <2>1, PendingEnters
  <2> QED BY <2>2 DEF o, i, p
<1>5. /\ Pending = PendingOf(kids, stack)
      /\ Pending' = PendingOf(kids, Entered(stack, This, Here.at + 1))
  <2>1. Pending' = PendingOf(kids', stack')
    BY DEF Pending, PendingOf, Ahead, AheadOf, Sub
  <2> QED BY <2>1, <1>2, PendingIs
<1>6. Cardinality(Pending) \in Nat
  BY <1>1, <1>5, PendingFinite
<1>7. /\ Len(stack') = Len(stack) + 1 /\ Cardinality(Pending') \in Nat
      /\ Cardinality(Pending') < Cardinality(Pending)
  BY <1>2, <1>4, <1>5
<1>8. Work' < Work
  BY <1>1, <1>6, <1>7 DEF Work
<1> QED BY <1>8 DEF InTree

(* A return leaves a frame less. *)
LEMMA ReturnsLess ==
  ASSUME TreeInv, Return
  PROVE  InTree' = InTree /\ Work' < Work
<1>1. /\ pc \in Walks /\ Len(stack) > 1 /\ stack' = Front(stack) /\ kids' = kids
  BY DEF Return, Walks
<1>2. Forest(kids) /\ OnPath(stack, kids) /\ Len(stack) \in Nat
  BY <1>1, WalkFacts
<1>3. /\ Len(Front(stack)) = Len(stack) - 1
      /\ Cardinality(PendingOf(kids, Front(stack))) \in Nat
      /\ Cardinality(PendingOf(kids, Front(stack))) <= Cardinality(PendingOf(kids, stack))
  BY ONLY <1>1, <1>2, PendingReturns
<1>4. Pending = PendingOf(kids, stack) /\ Pending' = PendingOf(kids, Front(stack))
  <2>1. Pending' = PendingOf(kids', stack')
    BY DEF Pending, PendingOf, Ahead, AheadOf, Sub
  <2> QED BY <2>1, <1>1, PendingIs
<1>5. Cardinality(Pending) \in Nat
  BY <1>2, <1>4, PendingFinite
<1>6. /\ Len(stack') = Len(stack) - 1 /\ Cardinality(Pending') \in Nat
      /\ Cardinality(Pending') <= Cardinality(Pending)
  BY <1>1, <1>3, <1>4
<1>7. Work' < Work
  BY <1>2, <1>5, <1>6 DEF Work
<1> QED BY <1>1, <1>7 DEF InTree

(* A process that leaves the tree. *)
LEMMA OneFewer ==
  ASSUME Forest(kids), Forest(kids'), NEW x \in Tree(kids), x # Top,
         Tree(kids') = Tree(kids) \ {x}
  PROVE  InTree' \subseteq InTree /\ InTree' # InTree
<1>1. InTree = Tree(kids) \ {Top} /\ InTree' = Tree(kids') \ {Top}
  BY TreeIsLeast DEF InTree, Forest
<1> QED BY <1>1

(* For any number of processes, each turn of the recursive methods takes a  *)
(* process out of the tree or leaves the tree as it is and less to do:      *)
(* filter_subtree, prune, merge_siblings and merge_runs all come to an end, *)
(* although the last three do not move on after a change (process_tree.py,  *)
(* 171-193, 249-265 and 272-284).                                           *)
THEOREM LoopsFinish == Spec => LoopsEnd
<1> DEFINE Less == \/ InTree' \subseteq InTree /\ InTree' # InTree
                   \/ InTree' = InTree /\ Work' < Work
           walks == {"logger", "prune", "siblings", "runs"}
<1>1. ASSUME TreeInv, FilterStep PROVE Less
  <2>1. pc \in Walks /\ Here.at <= Len(List) /\ Enter(This, Here.at + 1) /\ kids' = kids
    BY <1>1 DEF FilterStep, At, Walks
  <2> QED BY <1>1, <2>1, CallsLess
<1>2. ASSUME TreeInv, PruneStep PROVE Less
  <2>1. pc \in Walks /\ Here.at <= Len(List)
    BY <1>2 DEF PruneStep, At, Walks
  <2>2. CASE ~ Prunable(This)
    <3>1. Enter(This, Here.at + 1) /\ kids' = kids
      BY <1>2, <2>2 DEF PruneStep
    <3> QED BY <1>2, <2>1, <3>1, CallsLess
  <2>3. CASE Prunable(This)
    <3> DEFINE o == Here.of
               i == Here.at
               p == This
    <3>1. /\ Forest(kids) /\ o \in Tree(kids) /\ i \in 1..Len(kids[o]) /\ p = kids[o][i]
          /\ p \in P /\ p \in Tree(kids)
      BY <1>2, <2>1, WalkFacts DEF List, This, Here
    <3>2. kids' = Pruned(kids, o, i)
      BY <3>1, <1>2, <2>3 DEF PruneStep, Pruned
    <3> HIDE DEF o, i, p
    <3>3. Forest(kids') /\ Tree(kids') = Tree(kids) \ {p}
      BY ONLY <3>1, <3>2, PrunedForest
    <3>4. p # Top
      BY <3>1, Numbers
    <3> QED BY ONLY <3>1, <3>3, <3>4, OneFewer
  <2> QED BY <2>2, <2>3
<1>3. ASSUME TreeInv, SiblingStep PROVE Less
  <2> DEFINE o == Here.of
             i == Here.at
             p == This
             twin == i < Len(List) /\ proc[List[i + 1]].cmd = proc[p].cmd
             q == List[i + 1]
  <2>1. pc \in Walks /\ i <= Len(List)
    BY <1>3 DEF SiblingStep, At, Walks
  <2>2. CASE ~ twin
    <3>1. Enter(This, Here.at + 1) /\ kids' = kids
      BY <1>3, <2>2 DEF SiblingStep
    <3> QED BY <1>3, <2>1, <3>1, CallsLess
  <2>3. CASE twin
    <3>1. /\ Forest(kids) /\ o \in Tree(kids) /\ i \in 1..Len(kids[o]) /\ p = kids[o][i]
          /\ Len(kids[o]) \in Nat /\ List = kids[o]
      BY <1>3, <2>1, WalkFacts DEF List, This, Here
    <3>2. i \in 1..Len(kids[o]) - 1 /\ q = kids[o][i + 1]
      BY <2>3, <3>1
    <3>3. kids' = Twinned(kids, o, i)
      <4>1. kids' = [kids EXCEPT ![Here.of] = RemoveAt(@, i + 1), ![p] = @ \o kids[q]]
        BY <1>3, <2>3 DEF SiblingStep
      <4> QED BY <4>1, <3>1, <3>2 DEF Twinned
    <3> HIDE DEF o, i, p, q
    <3>4. AfterTwins(kids, kids', o, i, p, q)
      BY ONLY <3>1, <3>2, <3>3, TwinForest
    <3>5. q \in Tree(kids) /\ q # Top
      <4>1. i + 1 \in 1..Len(kids[o]) /\ o \in 0..N
        BY <3>1, <3>2, TreeKids
      <4>2. q \in ToSet(kids[o])
        BY <4>1, <3>1, <3>2, ForestLists
      <4> QED BY <4>2, <3>1, TreeKids
    <3>6. Forest(kids') /\ Tree(kids') = Tree(kids) \ {q}
      BY <3>4 DEF AfterTwins
    <3> QED BY ONLY <3>1, <3>5, <3>6, OneFewer
  <2> QED BY <2>2, <2>3
<1>4. ASSUME TreeInv, RunStep PROVE Less
  <2>1. pc \in Walks /\ Here.at <= Len(List)
    BY <1>4 DEF RunStep, At, Walks
  <2>2. CASE ~ IsRun(This)
    <3>1. Enter(This, Here.at + 1) /\ kids' = kids
      BY <1>4, <2>2 DEF RunStep
    <3> QED BY <1>4, <2>1, <3>1, CallsLess
  <2>3. CASE IsRun(This)
    <3> DEFINE p == This
               q == kids[p][1]
    <3>1. Forest(kids) /\ p \in Tree(kids)
      BY <1>4, <2>1, WalkFacts
    <3>2. kids' = RunJoined(kids, p) /\ Len(kids[p]) = 1 /\ q = kids[p][1]
      BY <1>4, <2>3 DEF RunStep, RunJoined, IsRun
    <3> HIDE DEF p, q
    <3>3. AfterRun(kids, kids', p, q)
      BY ONLY <3>1, <3>2, RunForest
    <3>4. Forest(kids') /\ Tree(kids') = Tree(kids) \ {q} /\ q \in Tree(kids)
      BY <3>3 DEF AfterRun
    <3>5. q # Top
      <4>1. q \in ToSet(kids[p])
        BY <3>3 DEF AfterRun
      <4> QED BY <4>1, <3>1, TreeKids
    <3> QED BY ONLY <3>1, <3>4, <3>5, OneFewer
  <2> QED BY <2>2, <2>3
<1>5. ASSUME TreeInv, Return PROVE Less
  BY <1>5, ReturnsLess
<1>6. ASSUME TreeInv, TreeNext, pc' = pc, pc \in walks PROVE Less
  <2>1. ~ Build /\ ~ UpdateDaemons /\ ~ LoggersFound /\ ~ MergeLogger /\ ~ LoggersMerged
        /\ ~ MergeExploders /\ ~ Sort
    BY <1>6 DEF Build, UpdateDaemons, LoggersFound, Through, MergeLogger, LoggersMerged,
                MergeExploders, Sort
  <2>2. ~ NextMethod
    <3> SUFFICES ASSUME NextMethod PROVE FALSE
      OBVIOUS
    <3>1. /\ pc \in {"prune", "siblings", "runs"}
          /\ pc' = CASE pc = "prune" -> "exploders"
                     [] pc = "siblings" -> "runs"
                     [] pc = "runs" -> "sort"
      BY DEF NextMethod, Through
    <3> QED BY <3>1, <1>6
  <2> HIDE DEF Less
  <2> QED BY <1>1, <1>2, <1>3, <1>4, <1>5, <1>6, <2>1, <2>2 DEF TreeNext
<1>7. TreeInv /\ [Next]_vars => [pc' = pc /\ pc \in walks => Less]_treeVars
  <2> SUFFICES ASSUME TreeInv, Next, pc' = pc, pc \in walks, treeVars' # treeVars PROVE Less
    BY DEF vars
  <2> HIDE DEF Less
  <2>1. TreeNext
    BY DEF Next, DrawBars, Accumulate, DrawBand, EndGraph
  <2> QED BY <2>1, <1>6
<1> QED BY <1>7, TreeAlways, PTL DEF Spec, LoopsEnd

(* ------------------------------------------------------------------------ *)
(* The rows of the chart                                                    *)

(* sort counts the processes of the tree it leaves. *)
NumberInv == pc \in {"done", "bars"} => numProc = NumNodes(kids, Top)

(* Each step keeps the count.                                               *)
LEMMA StepNumber == TreeInv /\ NumberInv /\ [Next]_vars => NumberInv'
<1> SUFFICES ASSUME TreeInv, NumberInv, [Next]_vars, pc' \in {"done", "bars"}
             PROVE  numProc' = NumNodes(kids', Top)
  BY DEF NumberInv
<1>1. CASE Sort
  BY <1>1 DEF Sort
<1>2. CASE UNCHANGED <<kids, numProc>> /\ pc \in {"done", "bars"}
  BY <1>2 DEF NumberInv
<1>3. CASE DrawBars
  BY <1>3, <1>2 DEF DrawBars
<1>4. CASE UNCHANGED vars
  BY <1>4, <1>2 DEF vars, treeVars
<1>5. CASE TreeNext /\ ~ Sort
  BY <1>5 DEF TreeNext, Build, UpdateDaemons, FilterStep, LoggersFound, MergeLogger,
     LoggersMerged, PruneStep, MergeExploders, SiblingStep, RunStep, Return, NextMethod,
     At, Through
<1>6. CASE Accumulate
  BY <1>6 DEF Accumulate
<1>7. CASE DrawBand
  BY <1>7 DEF DrawBand, treeVars
<1>8. CASE EndGraph
  BY <1>8 DEF EndGraph
<1> QED BY <1>1, <1>3, <1>4, <1>5, <1>6, <1>7, <1>8 DEF Next

(* num_proc is the number of nodes of the tree that is drawn. *)
LEMMA NumberAlways == Spec => []NumberInv
<1>1. Init => NumberInv
  BY DEF Init, TreeInit, NumberInv
<1> QED BY <1>1, StepNumber, TreeAlways, PTL DEF Spec

(* For any processes, the recursion that gives the chart its height counts  *)
(* each process of the pruned and merged tree, and none twice               *)
(* (process_tree.py, 100-105).                                              *)
THEOREM Counted == Spec => []CountedOnce
<1>1. TreeInv /\ NumberInv => CountedOnce
  BY CountedForest DEF TreeInv, TypedInv, NumberInv, CountedOnce, InTree
<1> QED BY <1>1, TreeAlways, NumberAlways, PTL

(* What RowsAbove counts, as a function defined by its equation.            *)
CountsRows(list, rows) ==
  rows = [k \in 1..Len(list) |->
            IF k = 1 THEN 0 ELSE rows[k - 1] + ProcH * (1 + NumNodes(kids, list[k - 1]))]

(* The rows above a child are those of the processes before it, one each.   *)
LEMMA RowsOffset ==
  ASSUME Forest(kids), NEW o \in Tree(kids), NEW i \in 1..Len(kids[o])
  PROVE  RowsAbove(kids[o], i) = ProcH * Offset(Branches(kids, o), i)
<1> DEFINE b == Branches(kids, o)
           n == Len(kids[o])
           size(k) == NumNodes(kids, kids[o][k])
           off(k) == Offset(b, k)
           exact == [k \in 1..n |-> ProcH * off(k)]
           rows == CHOOSE r : CountsRows(kids[o], r)
<1>1. b \in Seq(Seq(P)) /\ Len(b) = n /\ n \in Nat
  BY BranchFacts
<1>2. ASSUME NEW k \in 1..n PROVE size(k) \in Nat /\ Len(b[k]) = 1 + size(k)
  <2>1. Branch(kids, o, k, b[k])
    BY <1>2, BranchFacts
  <2> HIDE DEF b
  <2> QED BY <2>1 DEF Branch
<1>3. \A k \in 1..n : off(k) \in Nat
  BY <1>1, OffsetNext
<1>4. ASSUME NEW k \in 1..n, k # 1
      PROVE  k - 1 \in 1..n /\ off(k) = off(k - 1) + 1 + size(k - 1)
  <2>1. k - 1 \in 1..n
    BY <1>1, <1>4
  <2>2. off(k) = off(k - 1) + Len(b[k - 1])
    <3> HIDE DEF b, n
    <3> QED BY <1>1, <1>4, OffsetNext
  <2>3. off(k - 1) \in Nat /\ size(k - 1) \in Nat /\ Len(b[k - 1]) = 1 + size(k - 1)
    BY <2>1, <1>2, <1>3
  <2> HIDE DEF off, size, b, n
  <2> QED BY <2>1, <2>2, <2>3
<1>5. 1 \in 1..n => off(1) = 0
  BY DEF Offset
<1>6. RowsAbove(kids[o], i) = rows[i]
  BY DEF RowsAbove, CountsRows
<1> HIDE DEF b, off
<1>7. CountsRows(kids[o], exact)
  <2>1. ASSUME NEW k \in 1..n
        PROVE  exact[k] = IF k = 1 THEN 0 ELSE exact[k - 1] + ProcH * (1 + size(k - 1))
    <3>1. CASE k = 1
      BY <3>1, <1>5 DEF ProcH
    <3>2. CASE k # 1
      <4>1. k - 1 \in 1..n /\ off(k) = off(k - 1) + 1 + size(k - 1)
        BY <3>2, <1>4
      <4>2. off(k - 1) \in Nat /\ size(k - 1) \in Nat
        BY <4>1, <1>2, <1>3
      <4>3. exact[k] = 16 * off(k) /\ exact[k - 1] = 16 * off(k - 1)
        BY <4>1 DEF ProcH
      <4> HIDE DEF exact, size, n
      <4> QED BY <4>1, <4>2, <4>3, <3>2 DEF ProcH
    <3> QED BY <3>1, <3>2
  <2>2. exact = [k \in 1..n |-> exact[k]]
    OBVIOUS
  <2> HIDE DEF exact
  <2> QED BY <2>1, <2>2 DEF CountsRows
<1>8. CountsRows(kids[o], rows)
  <2> HIDE DEF exact
  <2> QED BY <1>7
<1> HIDE DEF rows
<1>9. \A k \in 1..n : rows[k] = IF k = 1 THEN 0 ELSE rows[k - 1] + ProcH * (1 + size(k - 1))
  <2>1. rows = [k \in 1..n |-> IF k = 1 THEN 0 ELSE rows[k - 1] + ProcH * (1 + size(k - 1))]
    BY <1>8 DEF CountsRows
  <2> QED BY <2>1
<1> DEFINE Bad == {k \in 1..n : rows[k] # exact[k]}
<1>10. \A k \in 1..n : exact[k] = IF k = 1 THEN 0 ELSE exact[k - 1] + ProcH * (1 + size(k - 1))
  <2> HIDE DEF exact, size
  <2>1. exact = [k \in 1..n |-> IF k = 1 THEN 0 ELSE exact[k - 1] + ProcH * (1 + size(k - 1))]
    BY <1>7 DEF CountsRows, size
  <2> QED BY <2>1
<1> HIDE DEF exact, size
<1>11. Bad = {}
  <2> SUFFICES ASSUME Bad # {} PROVE FALSE
    OBVIOUS
  <2>1. PICK k \in Bad : \A j \in Bad : k <= j
    <3>1. Bad \subseteq Nat
      BY <1>1
    <3> HIDE DEF Bad
    <3> QED BY <3>1, LeastNatural
  <2>2. k \in 1..n /\ k # 1
    BY <2>1, <1>9, <1>10
  <2>3. k - 1 \in 1..n /\ ~ (k <= k - 1)
    BY <2>2, <1>1
  <2>4. rows[k - 1] = exact[k - 1]
    BY <2>1, <2>3
  <2> QED BY <2>1, <2>2, <2>4, <1>9, <1>10
<1>12. rows[i] = exact[i] /\ exact[i] = ProcH * off(i)
  BY <1>11 DEF exact
<1> QED BY <1>6, <1>12 DEF off, b

(* What draw_processes_recursively draws, as a function defined by its      *)
(* equation.                                                                *)
NextY(y, p, i) == y + ProcH + RowsAbove(kids[p], i)
ForKids(c, calls, p, y) ==
  UNION {calls[kids[p][i]][NextY(y, p, i)] :
           i \in {i \in 1..Len(kids[p]) : NextY(y, p, i) <= c.bottom}}
Drawn(c, d, calls) ==
  [p \in P |-> [y \in Nat |->
     {[proc |-> p, y |-> y]} \cup
       (IF d = 0 THEN {} ELSE ForKids(c, calls, p, y))]]
GoesDrawing(c, m, draw) == draw = [d \in 0..m |-> Drawn(c, d, draw[d - 1])]
DrawOf(c) == CHOOSE draw : GoesDrawing(c, N, draw)

(* The boxes are those drawn for the roots.                                 *)
LEMMA BoxesAre ==
  ASSUME NEW c
  PROVE  BoxesBelow(c) =
           UNION {DrawOf(c)[N][kids[Top][i]][FirstRow + RowsAbove(kids[Top], i)] :
                    i \in 1..Len(kids[Top])}
BY DEF BoxesBelow, DrawOf, GoesDrawing, Drawn, ForKids, NextY

(* There is such a function, for any depth.                                 *)
LEMMA DrawFrom ==
  ASSUME NEW c, NEW m \in Nat
  PROVE  \E draw : GoesDrawing(c, m, draw)
<1> DEFINE Bad == {n \in Nat : \A draw : ~ GoesDrawing(c, n, draw)}
<1> SUFFICES ASSUME Bad # {} PROVE FALSE
  OBVIOUS
<1>1. PICK b \in Bad : \A k \in Bad : b <= k
  <2>1. Bad \subseteq Nat
    OBVIOUS
  <2> HIDE DEF Bad
  <2> QED BY <2>1, LeastNatural
<1>2. \A x, y : Drawn(c, 0, x) = Drawn(c, 0, y)
  BY DEF Drawn
<1>3. b # 0
  <2> DEFINE one == [d \in 0..0 |-> Drawn(c, 0, <<>>)]
  <2>1. one = [d \in 0..0 |-> Drawn(c, d, one[d - 1])]
    <3>1. \A d \in 0..0 : d = 0
      OBVIOUS
    <3>2. \A d \in 0..0 : one[d] = Drawn(c, d, one[d - 1])
      BY <3>1, <1>2
    <3>3. one = [d \in 0..0 |-> one[d]]
      OBVIOUS
    <3> HIDE DEF one
    <3> QED BY <3>2, <3>3
  <2>2. GoesDrawing(c, 0, one)
    <3> HIDE DEF one
    <3> QED BY <2>1 DEF GoesDrawing
  <2> QED BY <1>1, <2>2
<1>4. PICK draw : GoesDrawing(c, b - 1, draw)
  <2>1. b - 1 \in Nat /\ ~ (b <= b - 1)
    BY <1>3
  <2>2. b - 1 \notin Bad
    BY <1>1, <2>1
  <2> QED BY <2>1, <2>2
<1>5. draw = [d \in 0..b - 1 |-> Drawn(c, d, draw[d - 1])]
  BY <1>4 DEF GoesDrawing
<1> DEFINE more == [d \in 0..b |-> IF d = b THEN Drawn(c, b, draw[b - 1]) ELSE draw[d]]
<1>6. ASSUME NEW d \in 0..b
      PROVE  more[d] = Drawn(c, d, more[d - 1])
  <2>1. CASE d = 0
    <3>1. more[d] = draw[0] /\ 0 \in 0..b - 1
      BY <2>1, <1>3
    <3>2. draw[0] = Drawn(c, 0, draw[0 - 1])
      BY <3>1, <1>5
    <3> HIDE DEF more
    <3> QED BY <2>1, <3>1, <3>2, <1>2
  <2>2. CASE d # 0
    <3>1. d - 1 \in 0..b /\ d - 1 # b /\ d - 1 \in 0..b - 1
      BY <2>2
    <3>2. more[d - 1] = draw[d - 1]
      BY <3>1
    <3>3. CASE d = b
      BY <3>2, <3>3, <2>2
    <3>4. CASE d # b
      <4>1. more[d] = draw[d] /\ d \in 0..b - 1
        BY <3>4
      <4>2. draw[d] = Drawn(c, d, draw[d - 1])
        BY <4>1, <1>5
      <4> QED BY <4>1, <4>2, <3>2
    <3> QED BY <3>3, <3>4
  <2> QED BY <2>1, <2>2
<1>7. more = [d \in 0..b |-> Drawn(c, d, more[d - 1])]
  <2>1. more = [d \in 0..b |-> more[d]]
    OBVIOUS
  <2> HIDE DEF more
  <2> QED BY <2>1, <1>6
<1>8. GoesDrawing(c, b, more)
  <2> HIDE DEF more
  <2> QED BY <1>7 DEF GoesDrawing
<1> QED BY <1>8, <1>1

(* Its values: a call of no depth draws only its own box, a deeper one also *)
(* those of the children.                                                   *)
LEMMA DrawnCall ==
  ASSUME NEW c, NEW calls, NEW d \in Nat, NEW p \in P, NEW y \in Nat
  PROVE  Drawn(c, d, calls)[p][y] =
           {[proc |-> p, y |-> y]} \cup (IF d = 0 THEN {} ELSE ForKids(c, calls, p, y))
<1> DEFINE box(q, z) == {[proc |-> q, y |-> z]} \cup
                          (IF d = 0 THEN {} ELSE ForKids(c, calls, q, z))
<1>1. Drawn(c, d, calls) = [q \in P |-> [z \in Nat |-> box(q, z)]]
  BY DEF Drawn
<1>2. box(p, y) = {[proc |-> p, y |-> y]} \cup (IF d = 0 THEN {} ELSE ForKids(c, calls, p, y))
  OBVIOUS
<1> HIDE DEF box
<1>3. Drawn(c, d, calls)[p][y] = box(p, y)
  BY <1>1
<1> QED BY <1>2, <1>3

(* What the calls of each depth draw. *)
LEMMA DrawValues ==
  ASSUME NEW c, NEW d \in 0..N
  PROVE  DrawOf(c)[d] = Drawn(c, d, DrawOf(c)[d - 1])
<1>1. GoesDrawing(c, N, DrawOf(c))
  <2>1. \E draw : GoesDrawing(c, N, draw)
    BY Numbers, DrawFrom
  <2> QED BY <2>1 DEF DrawOf
<1> DEFINE D == DrawOf(c)
<1> HIDE DEF D
<1>2. D = [e \in 0..N |-> Drawn(c, e, D[e - 1])]
  BY <1>1 DEF GoesDrawing, D
<1>3. D[d] = Drawn(c, d, D[d - 1])
  BY <1>2
<1> QED BY <1>3 DEF D

(* A call of no depth. *)
LEMMA DrawnAlone ==
  ASSUME NEW c, NEW p \in P, NEW y \in Nat
  PROVE  DrawOf(c)[0][p][y] = {[proc |-> p, y |-> y]}
<1> DEFINE first == DrawOf(c)[0]
           calls == DrawOf(c)[0 - 1]
<1>1. first = Drawn(c, 0, calls)
  BY DrawValues, Numbers
<1> HIDE DEF first, calls
<1>2. Drawn(c, 0, calls)[p][y] = {[proc |-> p, y |-> y]} \cup (IF 0 = 0 THEN {} ELSE ForKids(c, calls, p, y))
  BY DrawnCall
<1>3. first[p][y] = {[proc |-> p, y |-> y]}
  BY <1>1, <1>2
<1> QED BY <1>3 DEF first

(* Any other call. *)
LEMMA DrawnDeeper ==
  ASSUME NEW c, NEW d \in 1..N, NEW p \in P, NEW y \in Nat
  PROVE  DrawOf(c)[d][p][y] =
           {[proc |-> p, y |-> y]} \cup ForKids(c, DrawOf(c)[d - 1], p, y)
<1> DEFINE here == DrawOf(c)[d]
           calls == DrawOf(c)[d - 1]
<1>1. here = Drawn(c, d, calls)
  <2>1. d \in 0..N
    BY Numbers
  <2> QED BY <2>1, DrawValues
<1> HIDE DEF here, calls
<1>2. d \in Nat /\ d # 0
  BY Numbers
<1>3. Drawn(c, d, calls)[p][y] = {[proc |-> p, y |-> y]} \cup (IF d = 0 THEN {} ELSE ForKids(c, calls, p, y))
  BY <1>2, DrawnCall
<1>4. here[p][y] = {[proc |-> p, y |-> y]} \cup ForKids(c, calls, p, y)
  BY <1>1, <1>2, <1>3
<1> QED BY <1>4 DEF here, calls


(* The row of the m-th of the tree. *)
RowAt(m) == FirstRow + ProcH * (m - 1)
BoxAt(m) == [proc |-> Preorder(kids, Top)[m], y |-> RowAt(m)]
Size == NumNodes(kids, Top)

(* A process drawn in its row has its children drawn in theirs.             *)
LEMMA KidRow ==
  ASSUME Forest(kids), NEW q \in Tree(kids) \ {Top}, NEW n, StartsAt(kids, q, n),
         NEW i \in 1..Len(kids[q])
  PROVE  \E k \in 1..Size : StartsAt(kids, kids[q][i], k) /\ NextY(RowAt(n), q, i) = RowAt(k)
<1> DEFINE off == Offset(Branches(kids, q), i)
<1>1. n \in 1..Size /\ n \in Nat /\ Size \in Nat
  <2>1. Preorder(kids, Top) \in Seq(P)
    BY PreorderOfTree, TreeIsLeast DEF Forest
  <2> QED BY <2>1, Elements DEF StartsAt, NumNodes, Size
<1>2. StartsAt(kids, kids[q][i], n + 1 + off) /\ off \in Nat
  BY <1>1, KidStartsAt
<1>3. NextY(RowAt(n), q, i) = RowAt(n) + ProcH + ProcH * off
  <2>1. RowsAbove(kids[q], i) = ProcH * off
    BY RowsOffset
  <2> QED BY <2>1 DEF NextY
<1> HIDE DEF off
<1>4. RowAt(n) + ProcH + ProcH * off = RowAt(n + 1 + off)
  BY <1>1, <1>2, ChartAssumption DEF RowAt, ProcH
<1>5. n + 1 + off \in 1..Size
  BY <1>2 DEF StartsAt, Size, NumNodes
<1> QED BY <1>2, <1>3, <1>4, <1>5

(* The process at a place of the tree is at no other.                       *)
LEMMA OnePlace ==
  ASSUME Forest(kids)
  PROVE  /\ Size \in Nat
         /\ \A m \in 1..Size : RowAt(m) \in Nat
         /\ \A m, k \in 1..Size : Preorder(kids, Top)[m] = Preorder(kids, Top)[k] => m = k
         /\ \A m \in 1..Size : Preorder(kids, Top)[m] \in InTree
         /\ \A p \in InTree : \E m \in 1..Size : Preorder(kids, Top)[m] = p
<1>1. /\ Preorder(kids, Top) \in Seq(P) /\ IsInjective(Preorder(kids, Top))
      /\ ToSet(Preorder(kids, Top)) = InTree
  <2>1. Top \in Tree(kids)
    BY TreeIsLeast DEF Forest
  <2> QED BY <2>1, PreorderOfTree DEF InTree
<1>2. \A m \in Nat \ {0} : RowAt(m) \in Nat
  BY ChartAssumption DEF RowAt, ProcH
<1> QED BY <1>1, <1>2, Elements, Distinct DEF Size, NumNodes

(* What is drawn for a process that starts at the n-th place, in the row of *)
(* that place: boxes in their rows, and those of all that a walk as deep    *)
(* meets, unless they are below the clip region.                            *)
InRows(c, d) ==
  \A q \in Tree(kids) \ {Top} : \A n : StartsAt(kids, q, n) =>
    LET boxed == DrawOf(c)[d][q][RowAt(n)]
    IN  /\ \A b \in boxed : \E m \in 1..Size : b = BoxAt(m)
        /\ \A m \in 1..Size :
             Preorder(kids, Top)[m] \in ToSet(WalkOf(kids)[d][q]) /\ RowAt(m) <= c.bottom
               => BoxAt(m) \in boxed

(* That is so for calls of every depth. *)
LEMMA DrawnInRows ==
  ASSUME Forest(kids), NEW c \in Clips
  PROVE  InRows(c, N)
<1> DEFINE D == DrawOf(c)
           W == WalkOf(kids)
           T == Tree(kids) \ {Top}
           tree == Preorder(kids, Top)
           Bad == {d \in 0..N : ~ InRows(c, d)}
<1>1. T \subseteq P /\ kids \in ChildLists /\ c.bottom \in Int
  <2>1. c.bottom \in Int
    BY ChartAssumption
  <2> QED BY <2>1, TreeIsLeast DEF Forest
<1>2. /\ Size \in Nat /\ \A m \in 1..Size : RowAt(m) \in Nat
      /\ \A m, k \in 1..Size : tree[m] = tree[k] => m = k
  BY OnePlace
<1>3. ASSUME NEW q \in T, NEW n, StartsAt(kids, q, n)
      PROVE  n \in 1..Size /\ RowAt(n) \in Nat /\ tree[n] = q /\ q \in P
  <2>1. n \in 1..Size /\ tree[n] = q
    BY <1>3 DEF StartsAt, Size, NumNodes
  <2> QED BY <2>1, <1>1, <1>2
<1>4. ASSUME NEW q \in T, NEW n, StartsAt(kids, q, n)
      PROVE  [proc |-> q, y |-> RowAt(n)] = BoxAt(n)
  BY <1>3, <1>4 DEF BoxAt
<1>5. InRows(c, 0)
  <2> SUFFICES ASSUME NEW q \in T, NEW n, StartsAt(kids, q, n)
               PROVE  /\ \A b \in D[0][q][RowAt(n)] : \E m \in 1..Size : b = BoxAt(m)
                      /\ \A m \in 1..Size :
                           tree[m] \in ToSet(W[0][q]) => BoxAt(m) \in D[0][q][RowAt(n)]
    BY DEF InRows
  <2>1. n \in 1..Size /\ RowAt(n) \in Nat /\ tree[n] = q /\ q \in P
    BY <1>3
  <2>2. D[0][q][RowAt(n)] = {BoxAt(n)}
    <3>1. D[0][q][RowAt(n)] = {[proc |-> q, y |-> RowAt(n)]}
      BY <2>1, DrawnAlone
    <3> HIDE DEF D
    <3> QED BY <3>1, <1>4
  <2>3. ToSet(W[0][q]) = {q}
    <3>1. W[0][q] = <<q>> \o <<>>
      BY <2>1, WalkValues
    <3>2. <<q>> \o <<>> = <<q>>
      OBVIOUS
    <3>3. ToSet(<<q>>) = {q}
      BY DEF ToSet
    <3> QED BY <3>1, <3>2, <3>3
  <2> HIDE DEF D, W, tree
  <2> QED BY <2>1, <2>2, <2>3, <1>2
<1>6. Bad = {}
  <2> SUFFICES ASSUME Bad # {} PROVE FALSE
    OBVIOUS
  <2>1. PICK d \in Bad : \A j \in Bad : d <= j
    <3>1. Bad \subseteq Nat
      BY Numbers
    <3> HIDE DEF Bad
    <3> QED BY <3>1, LeastNatural
  <2>2. d # 0
    BY <2>1, <1>5
  <2>3. d \in 1..N /\ d - 1 \in 0..N /\ ~ (d <= d - 1)
    BY <2>1, <2>2, Numbers
  <2>4. InRows(c, d - 1)
    BY <2>1, <2>3
  <2>5. ASSUME NEW q \in T, NEW n, StartsAt(kids, q, n)
        PROVE  /\ \A b \in D[d][q][RowAt(n)] : \E m \in 1..Size : b = BoxAt(m)
               /\ \A m \in 1..Size :
                    tree[m] \in ToSet(W[d][q]) /\ RowAt(m) <= c.bottom
                      => BoxAt(m) \in D[d][q][RowAt(n)]
    <3> DEFINE y == RowAt(n)
               shown == {i \in 1..Len(kids[q]) : NextY(y, q, i) <= c.bottom}
               part(i) == D[d - 1][kids[q][i]][NextY(y, q, i)]
    <3>1. n \in 1..Size /\ y \in Nat /\ tree[n] = q /\ q \in P /\ q \in Tree(kids)
      BY <1>3, <2>5
    <3>2. D[d][q][y] = {BoxAt(n)} \cup UNION {part(i) : i \in shown}
      <4>1. D[d][q][y] = {[proc |-> q, y |-> y]} \cup UNION {part(i) : i \in shown}
        <5>1. D[d][q][y] = {[proc |-> q, y |-> y]} \cup ForKids(c, D[d - 1], q, y)
          <6> HIDE DEF y
          <6> QED BY <3>1, <2>3, DrawnDeeper
        <5>2. ForKids(c, D[d - 1], q, y) = UNION {part(i) : i \in shown}
          BY DEF ForKids
        <5> QED BY <5>1, <5>2
      <4>2. [proc |-> q, y |-> y] = BoxAt(n)
        BY <2>5, <1>4
      <4> HIDE DEF part, shown, y
      <4> QED BY <4>1, <4>2
    <3>3. ASSUME NEW i \in 1..Len(kids[q])
          PROVE  \E k \in 1..Size :
                   /\ StartsAt(kids, kids[q][i], k) /\ NextY(y, q, i) = RowAt(k)
                   /\ kids[q][i] \in T
                   /\ \A b \in part(i) : \E m \in 1..Size : b = BoxAt(m)
                   /\ \A m \in 1..Size :
                        tree[m] \in ToSet(W[d - 1][kids[q][i]]) /\ RowAt(m) <= c.bottom
                          => BoxAt(m) \in part(i)
      <4>1. PICK k \in 1..Size : StartsAt(kids, kids[q][i], k) /\ NextY(y, q, i) = RowAt(k)
        BY <2>5, KidRow
      <4>2. kids[q][i] \in T
        <5>1. Branch(kids, q, i, Branches(kids, q)[i])
          BY <3>1, BranchFacts
        <5> QED BY <5>1 DEF Branch
      <4>3. part(i) = D[d - 1][kids[q][i]][RowAt(k)]
        BY <4>1
      <4> HIDE DEF part
      <4>4. /\ \A b \in part(i) : \E m \in 1..Size : b = BoxAt(m)
            /\ \A m \in 1..Size :
                 tree[m] \in ToSet(W[d - 1][kids[q][i]]) /\ RowAt(m) <= c.bottom
                   => BoxAt(m) \in part(i)
        BY <2>4, <4>1, <4>2, <4>3 DEF InRows
      <4> QED BY <4>1, <4>2, <4>4
    <3>4. ASSUME NEW b \in D[d][q][y] PROVE \E m \in 1..Size : b = BoxAt(m)
      <4>1. CASE b = BoxAt(n)
        BY <4>1, <3>1
      <4>2. CASE b # BoxAt(n)
        <5>1. PICK i \in shown : b \in part(i)
          <6> HIDE DEF part, shown
          <6> QED BY <4>2, <3>2, <3>4
        <5>2. i \in 1..Len(kids[q])
          OBVIOUS
        <5> HIDE DEF part
        <5> QED BY <5>1, <5>2, <3>3
      <4> QED BY <4>1, <4>2
    <3>5. ASSUME NEW m \in 1..Size, tree[m] \in ToSet(W[d][q]), RowAt(m) <= c.bottom
          PROVE  BoxAt(m) \in D[d][q][y]
      <4>1. CASE tree[m] = q
        <5>1. m = n
          BY <4>1, <3>1, <1>2
        <5> HIDE DEF part, shown
        <5> QED BY <5>1, <3>2
      <4>2. CASE tree[m] # q
        <5>1. PICK x \in ToSet(kids[q]) : tree[m] \in ToSet(W[d - 1][x])
          <6>1. ToSet(W[d][q]) = {q} \cup UNION {ToSet(W[d - 1][x]) : x \in ToSet(kids[q])}
            BY <1>1, <2>3, <3>1, WalkCalls
          <6> HIDE DEF W, tree
          <6> QED BY <6>1, <4>2, <3>5
        <5>2. PICK i \in 1..Len(kids[q]) : kids[q][i] = x
          <6>1. kids[q] \in Seq(P)
            BY <3>1, <1>1, Numbers DEF ChildLists
          <6> QED BY <6>1, Elements
        <5>3. PICK k \in 1..Size :
                   /\ StartsAt(kids, x, k) /\ NextY(y, q, i) = RowAt(k) /\ x \in T
                   /\ tree[m] \in ToSet(W[d - 1][x]) /\ RowAt(m) <= c.bottom
                          => BoxAt(m) \in part(i)
          <6> HIDE DEF part
          <6> QED BY <5>2, <3>3
        <5>4. tree[m] \in Sub(kids, x)
          <6>1. x \in P
            BY <5>3, <1>1
          <6>2. ToSet(W[d - 1][x]) \subseteq Sub(kids, x)
            BY <6>1, <1>1, <2>3, WalkStaysBelow
          <6> QED BY <6>2, <5>1
        <5>5. k <= m
          <6>1. PICK j \in 1..NumNodes(kids, Top) : k <= j /\ Preorder(kids, Top)[j] = tree[m]
            BY <5>3, <5>4, StartsBefore
          <6>2. j = m
            BY <6>1, <1>2 DEF Size
          <6> QED BY <6>1, <6>2
        <5>6. RowAt(k) <= RowAt(m)
          <6>1. k \in Nat /\ m \in Nat
            BY <1>2
          <6> QED BY <6>1, <5>5, ChartAssumption DEF RowAt, ProcH
        <5>7. NextY(y, q, i) <= c.bottom
          <6>1. RowAt(k) \in Nat /\ RowAt(m) \in Nat /\ RowAt(k) <= c.bottom
            BY <5>6, <3>5, <1>1, <1>2
          <6> QED BY <6>1, <5>3
        <5>8. i \in shown /\ BoxAt(m) \in part(i)
          <6>1. i \in shown
            BY <5>7
          <6> HIDE DEF part, shown
          <6> QED BY <6>1, <5>1, <5>3, <3>5
        <5> HIDE DEF part, shown
        <5> QED BY <5>8, <3>2
      <4> QED BY <4>1, <4>2
    <3> QED BY <3>4, <3>5
  <2>6. InRows(c, d)
    BY <2>5 DEF InRows
  <2> QED BY <2>1, <2>6
<1>7. N \in 0..N
  BY Numbers
<1> QED BY <1>6, <1>7


(* Every box of the chart is in the row of its process, and every row that  *)
(* is not below the clip region has its box.                                *)
LEMMA RowsDrawn ==
  ASSUME Forest(kids), NEW c \in Clips
  PROVE  /\ \A b \in BoxesBelow(c) : \E m \in 1..Size : b = BoxAt(m)
         /\ \A m \in 1..Size : RowAt(m) <= c.bottom => BoxAt(m) \in BoxesBelow(c)
<1> DEFINE D == DrawOf(c)
           W == WalkOf(kids)
           tree == Preorder(kids, Top)
           roots == kids[Top]
           part(i) == D[N][roots[i]][FirstRow + RowsAbove(roots, i)]
<1>1. Top \in Tree(kids) /\ kids \in ChildLists /\ Top \in 0..N /\ 0 \in Nat
  BY TreeIsLeast, Numbers DEF Forest
<1>2. BoxesBelow(c) = UNION {part(i) : i \in 1..Len(roots)}
  BY BoxesAre
<1>3. InRows(c, N)
  BY DrawnInRows
<1>4. ASSUME NEW i \in 1..Len(roots)
      PROVE  /\ roots[i] \in Tree(kids) \ {Top}
             /\ \A b \in part(i) : \E m \in 1..Size : b = BoxAt(m)
             /\ \A m \in 1..Size :
                  tree[m] \in ToSet(W[N][roots[i]]) /\ RowAt(m) <= c.bottom
                    => BoxAt(m) \in part(i)
  <2> DEFINE off == Offset(Branches(kids, Top), i)
  <2>1. StartsAt(kids, roots[i], 0 + 1 + off) /\ off \in Nat
    BY <1>1, KidStartsAt
  <2>2. FirstRow + RowsAbove(roots, i) = RowAt(0 + 1 + off)
    <3>1. RowsAbove(roots, i) = ProcH * off
      BY <1>1, RowsOffset
    <3> HIDE DEF off
    <3> QED BY <2>1, <3>1, ChartAssumption DEF RowAt, ProcH
  <2>3. roots[i] \in Tree(kids) \ {Top}
    <3>1. Branch(kids, Top, i, Branches(kids, Top)[i])
      BY <1>1, BranchFacts
    <3> QED BY <3>1 DEF Branch
  <2>4. part(i) = D[N][roots[i]][RowAt(0 + 1 + off)]
    BY <2>2
  <2> HIDE DEF part, off, roots, tree
  <2> QED BY <1>3, <2>1, <2>3, <2>4 DEF InRows, tree
<1>5. ASSUME NEW b \in BoxesBelow(c) PROVE \E m \in 1..Size : b = BoxAt(m)
  <2> HIDE DEF part, roots
  <2>1. PICK i \in 1..Len(roots) : b \in part(i)
    BY <1>2, <1>5
  <2> QED BY <2>1, <1>4
<1>6. ASSUME NEW m \in 1..Size, RowAt(m) <= c.bottom
      PROVE  BoxAt(m) \in BoxesBelow(c)
  <2>1. tree[m] \in ToSet(tree)
    <3>1. tree \in Seq(P) /\ m \in 1..Len(tree)
      BY <1>1, PreorderOfTree DEF Size, NumNodes
    <3> QED BY <3>1, Elements
  <2>2. ToSet(tree) = UNION {ToSet(W[N][x]) : x \in ToSet(roots)}
    <3>1. ToSet(roots) \subseteq P
      BY <1>1, Elements DEF ChildLists
    <3>2. \A x \in ToSet(roots) : W[N][x] \in Seq(P)
      <4>1. N \in 0..N
        BY Numbers
      <4>2. \A x \in P : W[N][x] \in Seq(P)
        BY <1>1, <4>1, WalkStaysBelow
      <4> HIDE DEF roots, W
      <4> QED BY <3>1, <4>2
    <3> QED BY <3>2, <1>1, PreorderIs, JoinedCalls
  <2>3. PICK x \in ToSet(roots) : tree[m] \in ToSet(W[N][x])
    <3> HIDE DEF tree, roots, W
    <3> QED BY <2>1, <2>2
  <2>4. PICK i \in 1..Len(roots) : roots[i] = x
    <3>1. roots \in Seq(P)
      BY <1>1 DEF ChildLists
    <3> QED BY <3>1, Elements
  <2> HIDE DEF part, roots, tree, W
  <2>5. BoxAt(m) \in part(i)
    BY <2>3, <2>4, <1>4, <1>6
  <2> QED BY <2>5, <1>2
<1> QED BY <1>5, <1>6

(* What the bars show of a tree: every box is in its row and every row that *)
(* meets the clip region has its box; every sample that begins there is     *)
(* painted.                                                                 *)
RowIn(kds, n, p) ==
  FirstRow + ProcH * ((CHOOSE i \in 1..n : Preorder(kds, Top)[i] = p) - 1)
Meets(kds, n, p, c) == RowIn(kds, n, p) < c.bottom /\ RowIn(kds, n, p) + ProcH > c.top
RowsIn(kds, n, c, bs) ==
  /\ \A b \in bs : b.proc \in Below(kds, Top) /\ b.y = RowIn(kds, n, b.proc)
  /\ \A p \in Below(kds, Top) : Meets(kds, n, p, c) => [proc |-> p, y |-> RowIn(kds, n, p)] \in bs
PaintedIn(kds, n, ps, c, seen) ==
  \A p \in Below(kds, Top) : Meets(kds, n, p, c) =>
    \A i \in 1..Len(ps[p].samples) :
      ps[p].samples[i].time \in c.left..c.right => <<p, i>> \in seen

ChartInv ==
  pc = "bars" => /\ RowsIn(kids, numProc, clip, boxes)
                 /\ PaintedIn(kids, numProc, proc, clip, painted)

(* The row of a process is that of its place in the tree.                   *)
LEMMA RowOfPlace ==
  ASSUME Forest(kids), NEW m \in 1..Size
  PROVE  RowIn(kids, Size, Preorder(kids, Top)[m]) = RowAt(m)
<1> DEFINE tree == Preorder(kids, Top)
           p == tree[m]
           place == CHOOSE i \in 1..Size : tree[i] = p
<1>1. \A i, k \in 1..Size : tree[i] = tree[k] => i = k
  BY OnePlace
<1> HIDE DEF tree
<1>2. place \in 1..Size /\ tree[place] = p
  OBVIOUS
<1>3. place = m
  BY <1>1, <1>2
<1> QED BY <1>3 DEF RowIn, RowAt, tree

(* The boxes of a clip region are as RowsFollowTree says.                   *)
LEMMA BoxesInRows ==
  ASSUME Forest(kids), NEW c \in Clips
  PROVE  RowsIn(kids, Size, c, BoxesBelow(c))
<1> DEFINE tree == Preorder(kids, Top)
<1>1. /\ \A m \in 1..Size : tree[m] \in InTree
      /\ \A p \in InTree : \E m \in 1..Size : tree[m] = p
      /\ \A m \in 1..Size : RowAt(m) \in Nat
  BY OnePlace
<1>2. \A m \in 1..Size : RowIn(kids, Size, tree[m]) = RowAt(m)
  BY RowOfPlace
<1>3. \A m \in 1..Size : BoxAt(m) = [proc |-> tree[m], y |-> RowAt(m)]
  BY DEF BoxAt
<1>4. c.bottom \in Int
  BY ChartAssumption
<1>5. /\ \A b \in BoxesBelow(c) : \E m \in 1..Size : b = BoxAt(m)
      /\ \A m \in 1..Size : RowAt(m) <= c.bottom => BoxAt(m) \in BoxesBelow(c)
  BY RowsDrawn
<1> HIDE DEF tree
<1>6. ASSUME NEW b \in BoxesBelow(c)
      PROVE  b.proc \in InTree /\ b.y = RowIn(kids, Size, b.proc)
  <2>1. PICK m \in 1..Size : b = BoxAt(m)
    BY <1>5
  <2>2. b.proc = tree[m] /\ b.y = RowAt(m)
    BY <2>1, <1>3
  <2> QED BY <2>2, <1>1, <1>2
<1>7. ASSUME NEW p \in InTree, Meets(kids, Size, p, c)
      PROVE  [proc |-> p, y |-> RowIn(kids, Size, p)] \in BoxesBelow(c)
  <2>1. PICK m \in 1..Size : tree[m] = p
    BY <1>1
  <2>2. RowIn(kids, Size, p) = RowAt(m)
    BY <2>1, <1>2
  <2>3. RowAt(m) <= c.bottom
    BY <2>2, <1>1, <1>4, <1>7 DEF Meets
  <2> QED BY <2>1, <2>2, <2>3, <1>3, <1>5
<1> QED BY <1>6, <1>7 DEF RowsIn, InTree

(* The samples painted in a clip region are as RedrawComplete says: the     *)
(* loop over them may stop at the first one right of the region, for they   *)
(* are in order, and the row is not taken to be out of sight.               *)
LEMMA SamplesShown ==
  ASSUME Forest(kids), Barred(proc), NEW c \in Clips, NEW bs, RowsIn(kids, Size, c, bs),
         NEW seen,
         \A b \in bs : ~ OutOfSight(b.y, c) => {b.proc} \X Visible(b.proc, c) \subseteq seen
  PROVE  PaintedIn(kids, Size, proc, c, seen)
<1> SUFFICES ASSUME NEW p \in InTree, Meets(kids, Size, p, c),
                    NEW i \in 1..Len(proc[p].samples),
                    proc[p].samples[i].time \in c.left..c.right
             PROVE  <<p, i>> \in seen
  BY DEF PaintedIn, InTree
<1> DEFINE b == [proc |-> p, y |-> RowIn(kids, Size, p)]
           s == proc[p].samples
<1>1. c.top \in Int /\ c.bottom \in Int /\ c.left \in Int /\ c.right \in Int
  BY ChartAssumption
<1>2. p \in P
  BY InTreeIs
<1>3. s \in Seq(Sample) /\ InOrder(s)
  BY <1>2 DEF Barred
<1>4. b \in bs
  BY DEF RowsIn, InTree
<1>5. b.proc = p /\ b.y = RowIn(kids, Size, p)
  OBVIOUS
<1>6. ~ OutOfSight(b.y, c)
  <2>1. PICK m \in 1..Size : Preorder(kids, Top)[m] = p /\ RowAt(m) \in Nat
    BY OnePlace
  <2>2. b.y \in Nat
    BY <2>1, <1>5, RowOfPlace
  <2>3. b.y < c.bottom /\ b.y + ProcH > c.top
    BY <1>5 DEF Meets
  <2> HIDE DEF b
  <2> QED BY <2>2, <2>3, <1>1 DEF OutOfSight, ProcH
<1>7. i \in Visible(p, c)
  <2>1. Len(s) \in Nat /\ \A k \in 1..Len(s) : s[k].time \in Nat
    <3>1. \A x \in Sample : x.time \in Nat
      BY DEF Sample
    <3>2. Len(s) \in Nat /\ \A k \in 1..Len(s) : s[k] \in Sample
      BY <1>3, Elements
    <3> QED BY <3>1, <3>2
  <2>2. i \in 1..Len(s) /\ s[i].time >= c.left /\ s[i].time <= c.right
    BY <1>1
  <2>3. ASSUME NEW k \in 1..i PROVE s[k].time <= c.right
    <3>1. k \in 1..Len(s) /\ k <= i
      BY <2>1, <2>2
    <3>2. s[k].time <= s[i].time
      BY <3>1, <2>2, <1>3 DEF InOrder
    <3> HIDE DEF s
    <3> QED BY <3>1, <3>2, <2>1, <2>2, <1>1
  <2> QED BY <2>2, <2>3 DEF Visible
<1>8. {p} \X Visible(p, c) \subseteq seen
  <2> HIDE DEF b
  <2> QED BY <1>4, <1>5, <1>6
<1> QED BY <1>7, <1>8

(* Each step keeps the rows and what is painted in them.                    *)
LEMMA StepChart ==
  TreeInv /\ SampleInv /\ NumberInv /\ ChartInv /\ [Next]_vars => ChartInv'
<1> SUFFICES ASSUME TreeInv, SampleInv, NumberInv, ChartInv, [Next]_vars, pc' = "bars"
             PROVE  /\ RowsIn(kids', numProc', clip', boxes')
                    /\ PaintedIn(kids', numProc', proc', clip', painted')
  BY DEF ChartInv
<1>1. CASE DrawBars
  <2>1. Forest(kids) /\ numProc = Size /\ Barred(proc)
    BY <1>1 DEF DrawBars, TreeInv, TypedInv, NumberInv, SampleInv, Size
  <2>2. PICK c \in Clips :
          /\ clip' = c /\ boxes' = BoxesBelow(c)
          /\ shaded' = {b.proc : b \in {b \in boxes' : ~ OutOfSight(b.y, c)}}
          /\ painted' = UNION {{p} \X Visible(p, c) : p \in shaded'}
    BY <1>1 DEF DrawBars
  <2>3. kids' = kids /\ numProc' = numProc /\ proc' = proc
    BY <1>1 DEF DrawBars
  <2>4. RowsIn(kids, Size, c, boxes')
    BY <2>1, <2>2, BoxesInRows
  <2>5. ASSUME NEW b \in boxes', ~ OutOfSight(b.y, c)
        PROVE  {b.proc} \X Visible(b.proc, c) \subseteq painted'
    <3>1. b.proc \in shaded'
      BY <2>2, <2>5
    <3> QED BY <3>1, <2>2
  <2>6. PaintedIn(kids, Size, proc, c, painted')
    BY <2>1, <2>4, <2>5, SamplesShown
  <2> QED BY <2>1, <2>2, <2>3, <2>4, <2>6
<1>2. CASE UNCHANGED vars
  BY <1>2 DEF vars, treeVars, ChartInv
<1>3. CASE TreeNext
  BY <1>3 DEF TreeNext, Build, UpdateDaemons, FilterStep, LoggersFound, MergeLogger,
     LoggersMerged, PruneStep, MergeExploders, SiblingStep, RunStep, Return, NextMethod,
     Sort, At, Through
<1>4. CASE Accumulate
  BY <1>4 DEF Accumulate
<1>5. CASE DrawBand
  BY <1>5 DEF DrawBand, treeVars
<1>6. CASE EndGraph
  BY <1>6 DEF EndGraph
<1> QED BY <1>1, <1>2, <1>3, <1>4, <1>5, <1>6 DEF Next

(* So the chart is always as drawn. *)
LEMMA ChartAlways == Spec => []ChartInv
<1>1. Init => ChartInv
  BY DEF Init, TreeInit, ChartInv
<1> QED BY <1>1, StepChart, TreeAlways, SamplesAlways, NumberAlways, PTL DEF Spec

(* For any processes and any clip region, every box of the chart is in the  *)
(* row of its process, and a process whose row meets the region has its box,*)
(* though the loops over children stop early (draw.py, 280-288, 459-463 and *)
(* 521-527).                                                                *)
THEOREM RowsFollow == Spec => []RowsFollowTree
<1>1. ChartInv => RowsFollowTree
  BY DEF ChartInv, RowsFollowTree, RowsIn, Meets, RowIn, Row, Place, InTree
<1> QED BY <1>1, ChartAlways, PTL

(* Whatever part of the chart is redrawn, every sample that begins in it is *)
(* painted (draw.py, 532-566).                                              *)
THEOREM Redrawn == Spec => []RedrawComplete
<1>1. ChartInv => RedrawComplete
  BY DEF ChartInv, RedrawComplete, PaintedIn, Meets, RowIn, Row, Place, InTree
<1> QED BY <1>1, ChartAlways, PTL
==============================================================================
