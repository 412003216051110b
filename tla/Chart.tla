-------------------------------- MODULE Chart --------------------------------
(***************************************************************************)
(* Drawing the process tree (pybootchartgui/draw.py): the bars of the      *)
(* processes, of which only those in the clip region are painted, and the  *)
(* graph of cumulative times with one band per command.                    *)
(*                                                                         *)
(* Heights are pixels; across, the chart is scaled by the time span of the *)
(* tree, so that the clip region is given as a range of times.  Every      *)
(* sample stands for one unit of time.                                     *)
(***************************************************************************)
EXTENDS ProcessTree, TLC

CONSTANTS
  Clips,    \* clip regions: [top, bottom, left, right]
  FirstRow, \* where the first bar is drawn: below headers and charts
  Height    \* of the cumulative graph

ASSUME ChartAssumption ==
  /\ FirstRow \in Nat /\ Height \in Nat \ {0}
  /\ Clips \subseteq [top : Int, bottom : Int, left : Int, right : Int]

VARIABLES
  clip,     \* the clip region of the render call
  boxes,    \* the boxes drawn by draw_process_bar_chart
  shaded,   \* the processes whose row was painted
  painted,  \* the samples painted, each a process and a place in its samples
  bands,    \* m_proc_list: samples by command
  total,    \* total_time
  below,    \* for each time the top of the bands drawn so far
  drawn     \* the commands that have a band and a legend

graphVars == <<bands, total, below, drawn>>
vars == <<treeVars, clip, boxes, shaded, painted, graphVars>>

ProcH == 16

(* ------------------------------------------------------------------------ *)
(* The bars                                                                 *)

(* Mutant: a child is moved down by one row for each sibling before it. *)
RowsAboveFlat(list, i) == ProcH * (i - 1)

(* The rows of the processes of a list before its i-th, with their own      *)
(* subtrees.                                                                *)
RowsAbove(list, i) ==
  LET rows[k \in 1..Len(list)] ==
        IF k = 1 THEN 0 ELSE rows[k - 1] + ProcH * (1 + NumNodes(kids, list[k - 1]))
  IN  rows[i]

(* draw_processes_recursively: the box of a process and those of its        *)
(* children, up to the first that is below the clip region.                 *)
BoxesBelow(c) ==
  LET nextY(y, p, i) == y + ProcH + RowsAbove(kids[p], i)
      draw[d \in 0..N] ==
        [p \in P |-> [y \in Nat |->
           {[proc |-> p, y |-> y]} \cup
             (IF d = 0 THEN {}
              ELSE UNION {draw[d - 1][kids[p][i]][nextY(y, p, i)] :
                            i \in {i \in 1..Len(kids[p]) : nextY(y, p, i) <= c.bottom}})]]
  IN  UNION {draw[N][kids[Top][i]][FirstRow + RowsAbove(kids[Top], i)] :
               i \in 1..Len(kids[Top])}

(* Mutant: the row above the clip region is taken to be out of sight when   *)
(* its top is.                                                              *)
OutOfSightTop(y, c) == y > c.bottom \/ y < c.top

OutOfSight(y, c) == y > c.bottom \/ y + ProcH + 2 < c.top

(* The samples a loop paints that stops at the first one right of the clip  *)
(* region.                                                                  *)
Visible(p, c) ==
  LET s == proc[p].samples
  IN  {i \in 1..Len(s) : /\ s[i].time >= c.left
                         /\ \A k \in 1..i : s[k].time <= c.right}

DrawBars ==
  /\ pc = "done"
  /\ pc' = "bars"
  /\ \E c \in Clips :
       /\ clip' = c
       /\ boxes' = BoxesBelow(c)
       /\ shaded' = {b.proc : b \in {b \in boxes' : ~ OutOfSight(b.y, c)}}
       /\ painted' = UNION {{p} \X Visible(p, c) : p \in shaded'}
  /\ UNCHANGED <<accurate, proc, kids, span, stack, loggers, removed, numProc,
                 graphVars>>

(* ------------------------------------------------------------------------ *)
(* The cumulative graph                                                     *)

Elided(p) == proc[p].cmd \in {LoggerProc, "bootchart-colle"}

Charted == SelectSeq([i \in P |-> i], LAMBDA p : ~ Elided(p))

Cmds(ps) == {proc[p].cmd : p \in ToSet(ps)}

(* All samples of the process list, also of processes merged into others,   *)
(* are added up and put together by command.                                *)
Accumulate ==
  /\ pc = "bars"
  /\ bands' = [c \in Cmds(Charted) |->
                 SortSeq(FoldLeft(LAMBDA s, p : IF proc[p].cmd = c
                                                  THEN s \o proc[p].samples ELSE s,
                                  <<>>, Charted),
                         LAMBDA s, t : s.time < t.time)]
  /\ total' = FoldLeft(LAMBDA n, p : n + Len(proc[p].samples), 0, Charted)
  /\ LET times == {s.time : s \in UNION {ToSet(proc[p].samples) : p \in ToSet(Charted)}}
     IN  /\ below' = [t \in times |-> Height]
         /\ pc' = IF Cardinality(times) < 2 THEN "drawn" ELSE "bands"
  /\ clip' = <<>> /\ boxes' = {} /\ shaded' = {} /\ painted' = {}
  /\ UNCHANGED <<accurate, proc, kids, span, stack, loggers, removed, numProc,
                 drawn>>

Pixels(n) == (2 * n * Height + total) \div (2 * total)   \* rounded

CumlAt(c, t) == Quantify(1..Len(bands[c]), LAMBDA i : bands[c][i].time <= t)

TimesSorted == SetToSortSeq(DOMAIN below, <)

(* Mutant: a band follows its own rises only. *)
BandFlat(c) ==
  LET times  == TimesSorted
      at(s, t) ==
        LET nc == Pixels(CumlAt(c, t))
        IN  [s EXCEPT !.cuml = nc,
                      !.y    = IF nc # s.cuml THEN below[t] - nc ELSE @,
                      !.row  = (t :> (IF nc # s.cuml THEN below[t] - nc ELSE s.y)) @@ @]
      start  == [y |-> below[times[1]], cuml |-> 0, row |-> <<>>]
  IN  FoldLeft(at, start, times).row

(* The upper edge of a band.  It is set anew where the band rises, or where *)
(* the edge below it differs from what that was one segment ago.            *)
Band(c) ==
  LET times == TimesSorted
      at(s, t) ==
        LET trend == below[t] # s.lastBelow
            rises == {i \in 1..Len(bands[c]) : bands[c][i].time = t} # {}
            nc    == IF rises THEN Pixels(CumlAt(c, t)) ELSE s.cuml
            seg   == trend \/ nc # s.cuml
            y     == IF seg THEN below[t] - nc ELSE s.y
        IN  [y         |-> y,
             lastBelow |-> IF trend THEN below[s.lastTime] ELSE s.lastBelow,
             lastTime  |-> IF seg THEN t ELSE s.lastTime,
             cuml      |-> nc,
             row       |-> (t :> y) @@ s.row]
      start == [y |-> below[times[1]], lastBelow |-> below[times[1]],
                lastTime |-> times[1], cuml |-> 0, row |-> <<>>]
  IN  FoldLeft(at, start, times).row

Tiny(c) == Len(bands[c]) * Height <= 2 * total

(* The bands are drawn one upon another, in the order of a dictionary; tiny *)
(* ones are hidden.                                                         *)
DrawBand ==
  /\ pc = "bands"
  /\ \E c \in DOMAIN bands \ drawn :
       /\ ~ Tiny(c)
       /\ below' = Band(c)
       /\ drawn' = drawn \cup {c}
  /\ UNCHANGED <<treeVars, clip, boxes, shaded, painted, bands, total>>

EndGraph ==
  /\ pc = "bands"
  /\ \A c \in DOMAIN bands \ drawn : Tiny(c)
  /\ pc' = "drawn"
  /\ UNCHANGED <<accurate, proc, kids, span, stack, loggers, removed, numProc,
                 clip, boxes, shaded, painted, graphVars>>

Init ==
  /\ TreeInit
  /\ clip = <<>> /\ boxes = {} /\ shaded = {} /\ painted = {}
  /\ bands = <<>> /\ total = 0 /\ below = <<>> /\ drawn = {}

Next ==
  \/ TreeNext /\ UNCHANGED <<clip, boxes, shaded, painted, graphVars>>
  \/ DrawBars
  \/ Accumulate
  \/ DrawBand
  \/ EndGraph

Spec == Init /\ [][Next]_vars

(* ------------------------------------------------------------------------ *)
(* Properties                                                               *)

(* Where a process belongs: one row for each process before it in the tree. *)
Place(p) == CHOOSE i \in 1..numProc : Preorder(kids, Top)[i] = p
Row(p) == FirstRow + ProcH * (Place(p) - 1)

(* Every box is in its own row, the rows are those counted for the height   *)
(* of the chart, and a process whose row meets the clip region has its box  *)
(* there, though the loops over children stop early (draw.py, 280-288,      *)
(* 459-463 and 521-527).                                                    *)
RowsFollowTree ==
  pc = "bars" =>
    /\ \A b \in boxes : b.proc \in InTree /\ b.y = Row(b.proc)
    /\ \A p \in InTree :
         Row(p) < clip.bottom /\ Row(p) + ProcH > clip.top =>
           [proc |-> p, y |-> Row(p)] \in boxes

(* A redraw of a part of the chart paints in it every sample that begins    *)
(* there (draw.py, 532-566; the loop relies on the samples' order).         *)
RedrawComplete ==
  pc = "bars" =>
    \A p \in InTree :
      Row(p) < clip.bottom /\ Row(p) + ProcH > clip.top =>
        \A i \in 1..Len(proc[p].samples) :
          proc[p].samples[i].time \in clip.left..clip.right => <<p, i>> \in painted

(* The bands lie upon each other without gaps: at every time the upper edge *)
(* of those drawn is the sum of their heights (draw.py, 668-733).           *)
BandsStack ==
  pc \in {"bands", "drawn"} =>
    \A t \in DOMAIN below :
      below[t] = Height - MapThenSumSet(LAMBDA c : Pixels(CumlAt(c, t)), drawn)

(* Each unit of time is counted once in the total (draw.py, 617-622; the    *)
(* legend, 767, calls it the total CPU).                                    *)
TotalCountsOnce ==
  pc = "bands" =>
    total = Cardinality(UNION {ToSet(proc[p].samples) : p \in ToSet(Charted)})
==============================================================================
