--------------------------- MODULE NetlinkScanner ---------------------------
(***************************************************************************)
(* The netlink pid scanner of bootchart-collector: a listener thread that  *)
(* receives the kernel's process events and queues them behind a mutex,    *)
(* and the main thread that bootstraps its table from /proc, replays the   *)
(* queue at the start of each pass and then walks the table, sampling the  *)
(* processes (collector/tasks-netlink.c, and the main loop and             *)
(* dump_taskstat of collector/collector.c).                                *)
(*                                                                         *)
(* The kernel is external: tasks fork, clone, exec, exit and are reaped,   *)
(* and post events to a socket queue that holds ChanCap of them.           *)
(***************************************************************************)
EXTENDS ProcTable

CONSTANTS
  Tids,         \* task ids the kernel can hand out
  InitPid,      \* the task id of init, which never exits
  InitKernels,  \* the kernel's tasks when the listener starts: the process
                \* of each, and which run (the others are zombie leaders)
  ChanCap,      \* events the socket's receive queue holds
  MaxEvents,    \* bound: events the kernel posts
  None          \* no thread

ASSUME TidsAssumption == Tids \subseteq Nat \ {0} /\ InitPid \in Tids
ASSUME FewTids == IsFiniteSet(Tids)  \* there is a pid_max
ASSUME InitAssumption ==
  \A k \in InitKernels :
    /\ k.tgid \in [Tids -> Tids \cup {0}]
    /\ k.running \subseteq {t \in Tids : k.tgid[t] # 0}
    /\ \A t \in Tids : k.tgid[t] # 0 => k.tgid[k.tgid[t]] = k.tgid[t]
    /\ InitPid \in k.running /\ k.tgid[InitPid] = InitPid
ASSUME BoundsAssumption ==
  /\ ChanCap \in Nat \ {0} /\ MaxEvents \in Nat
  /\ None \notin {"listener", "main"}

VARIABLES
  tgid,         \* kernel: the process a task belongs to, 0 for a free id
  running,      \* kernel: the tasks that have not exited
  headless,     \* history: the processes whose leader did not exit last, or
                \* was a zombie from the start
  beheaded,     \* history: the processes whose leader exited before other
                \* threads and that have not cloned since
  posted,       \* kernel: number of events posted
  chan,         \* the socket's receive queue
  overrun,      \* the socket has an error to report (ENOBUFS)
  lost,         \* history: an event was dropped
  lpc, ev,      \* listener: where it is, the event in its hands
  paternity,    \* history: the <<child, parent>> pairs in paternity.log
  lock,         \* nls->lock: None, "listener" or "main"
  buffer,       \* nls->buffer and buffer_size
  mpc,          \* main: where it is
  procs,        \* nls->procs and n_procs
  curProc,      \* nls->cur_proc
  evs,          \* main: the events taken and not yet replayed
  bootPid,      \* main: the last /proc entry the bootstrap read
  bootTid,      \* main: the last task entry the bootstrap read
  scanned,      \* history: what next returned in this pass
  sampled,      \* history: what dump_taskstat asked the kernel about
  heard,        \* history: the fork and exit events the listener received
  imported      \* history: the events replayed

kernelVars == <<tgid, running, headless, beheaded, posted, chan, overrun, lost>>
listenerVars == <<lpc, ev, paternity, heard>>
mainVars == <<mpc, procs, curProc, evs, bootPid, bootTid, scanned, sampled, imported>>
vars == <<kernelVars, listenerVars, lock, buffer, mainVars>>

NoEvent == Event("NONE", 0, 0, 0)

Init ==
  /\ \E k \in InitKernels : /\ tgid = k.tgid /\ running = k.running
                           /\ headless = {k.tgid[t] : t \in Tids} \ (k.running \cup {0})
  /\ beheaded = {}
  /\ posted = 0
  /\ chan = <<>> /\ overrun = FALSE /\ lost = FALSE
  /\ lpc = "recv" /\ ev = NoEvent
  /\ paternity = {} /\ heard = <<>>
  /\ lock = None /\ buffer = <<>>
  /\ mpc = "boot" /\ procs = <<>> /\ curProc = 0 /\ evs = <<>>
  /\ bootPid = 0 /\ bootTid = 0
  /\ scanned = <<>> /\ sampled = <<>> /\ imported = <<>>

-----------------------------------------------------------------------------
(* The kernel (external) *)

Group(p) == {t \in Tids : tgid[t] = p}
InProc == {p \in Tids : tgid[p] = p}
FreeIds == {t \in Tids : tgid[t] = 0}

(* An event reaches the socket's queue, or is dropped when the queue is full *)
(* and the next recvfrom reports an error.                                   *)
Post(e) ==
  /\ posted < MaxEvents
  /\ posted' = posted + 1
  /\ IF Len(chan) < ChanCap
       THEN chan' = Append(chan, e) /\ UNCHANGED <<overrun, lost>>
       ELSE overrun' = TRUE /\ lost' = TRUE /\ UNCHANGED chan

ForkProcess(parent, child) ==
  /\ parent \in running /\ child \in FreeIds
  /\ tgid' = [tgid EXCEPT ![child] = child]
  /\ running' = running \cup {child} /\ UNCHANGED headless
  /\ beheaded' = beheaded \ {child}
  /\ Post(Event("FORK", child, child, tgid[parent]))

CloneThread(task, thread) ==
  /\ task \in running /\ thread \in FreeIds
  /\ tgid' = [tgid EXCEPT ![thread] = tgid[task]]
  /\ running' = running \cup {thread} /\ UNCHANGED headless
  /\ beheaded' = beheaded \ {tgid[task]}
  /\ Post(Event("FORK", thread, tgid[task], tgid[task]))

(* A thread's id is free at once; a leader stays in /proc until reaped, and *)
(* may exit before the other threads of its process.                        *)
TaskExit(task) ==
  /\ task \in running \ {InitPid}
  /\ LET left == IF tgid[task] = task /\ Group(task) # {task} THEN {task} ELSE {}
     IN  headless' = headless \cup left /\ beheaded' = beheaded \cup left
  /\ running' = running \ {task}
  /\ tgid' = IF tgid[task] = task THEN tgid ELSE [tgid EXCEPT ![task] = 0]
  /\ Post(Event("EXIT", task, tgid[task], 0))

(* Any thread may exec.  It first has the others of its process exit, its   *)
(* leader among them, each with its event; then it takes the place of the   *)
(* leader: its id becomes the leader's, and its own is gone with no event.  *)
Exec(task) ==
  /\ task \in running /\ Group(tgid[task]) \cap running = {task}
  /\ running' = (running \ {task}) \cup {tgid[task]}
  /\ tgid' = IF tgid[task] = task THEN tgid ELSE [tgid EXCEPT ![task] = 0]
  /\ Post(Event("EXEC", tgid[task], tgid[task], 0))
  /\ UNCHANGED <<headless, beheaded>>

Reap(p) ==
  /\ p \in InProc \ running /\ Group(p) = {p}
  /\ tgid' = [tgid EXCEPT ![p] = 0]
  /\ UNCHANGED <<running, headless, beheaded, posted, chan, overrun, lost>>

Kernel ==
  /\ \/ \E t \in Tids : TaskExit(t) \/ Exec(t) \/ Reap(t)
     \/ \E t, c \in Tids : ForkProcess(t, c) \/ CloneThread(t, c)
  /\ UNCHANGED <<listenerVars, lock, buffer, mainVars>>

-----------------------------------------------------------------------------
(* The listener thread: netlink_listen_thread and handle_news *)

(* A failed recvfrom leaves a zeroed message, which NLMSG_OK refuses: the   *)
(* thread goes round again and nobody learns that events were dropped.      *)
RecvError ==
  /\ lpc = "recv" /\ overrun
  /\ overrun' = FALSE
  /\ UNCHANGED <<tgid, running, headless, beheaded, posted, chan, lost,
                 listenerVars, lock, buffer, mainVars>>

Recv ==
  /\ lpc = "recv" /\ ~ overrun /\ chan # <<>>
  /\ ev' = Head(chan) /\ chan' = Tail(chan)
  /\ lpc' = "news"
  /\ UNCHANGED <<tgid, running, headless, beheaded, posted, overrun, lost, paternity,
                 heard, lock, buffer, mainVars>>

(* An exec is reported to cmdline2.log at once and never queued: nothing of *)
(* what this module keeps changes.                                          *)
HandleExec ==
  /\ lpc = "news" /\ ev.what = "EXEC"
  /\ lpc' = "recv"
  /\ UNCHANGED <<kernelVars, ev, paternity, heard, lock, buffer, mainVars>>

(* Mutant: the two pids change places. *)
PaternitySwapped(e) ==
  IF e.what = "FORK" /\ e.pid = e.tgid THEN {<<e.ptgid, e.tgid>>} ELSE {}

(* What an event adds to paternity.log: threads are hidden. *)
Paternity(e) ==
  IF e.what = "FORK" /\ e.pid = e.tgid THEN {<<e.tgid, e.ptgid>>} ELSE {}

(* A new process is reported to paternity.log before its event is queued;   *)
(* the FORK case then drops through to the EXIT case.                       *)
HandleForkOrExit ==
  /\ lpc = "news" /\ ev.what \in {"FORK", "EXIT"}
  /\ paternity' = paternity \cup Paternity(ev)
  /\ heard' = Append(heard, ev)
  /\ lpc' = "lock"
  /\ UNCHANGED <<kernelVars, ev, lock, buffer, mainVars>>

(* Mutant: the listener stores without the mutex. *)
ListenerNoMutex ==
  /\ lpc = "lock"
  /\ lpc' = "store"
  /\ UNCHANGED <<kernelVars, ev, paternity, heard, lock, buffer, mainVars>>

ListenerLock ==
  /\ lpc = "lock" /\ lock = None
  /\ lock' = "listener" /\ lpc' = "store"
  /\ UNCHANGED <<kernelVars, ev, paternity, heard, buffer, mainVars>>

(* realloc, memcpy, buffer_size++, then the mutex is let go. *)
ListenerStore ==
  /\ lpc = "store"
  /\ buffer' = Append(buffer, ev)
  /\ lock' = None /\ lpc' = "recv"
  /\ UNCHANGED <<kernelVars, ev, paternity, heard, mainVars>>

Listener ==
  \/ RecvError \/ Recv \/ HandleExec \/ HandleForkOrExit
  \/ ListenerLock \/ ListenerStore

-----------------------------------------------------------------------------
(* The main thread *)

(* The bootstrap walks /proc in ascending order with the listener running. *)
BootstrapNext ==
  /\ mpc = "boot"
  /\ LET later == {p \in InProc : p > bootPid}
     IN  IF later = {}
           THEN mpc' = "restart" /\ UNCHANGED <<procs, bootPid, bootTid>>
           ELSE /\ procs' = InsertPid(procs, Min(later), 0)
                /\ bootPid' = Min(later) /\ bootTid' = 0
                /\ mpc' = "boottask"
  /\ UNCHANGED <<kernelVars, listenerVars, lock, buffer, curProc, evs,
                 scanned, sampled, imported>>

BootstrapTask ==
  /\ mpc = "boottask"
  /\ LET later == {t \in Group(bootPid) : t # bootPid /\ t > bootTid}
     IN  IF later = {}
           THEN mpc' = "boot" /\ UNCHANGED <<procs, bootTid>>
           ELSE /\ procs' = InsertPidThread(procs, bootPid, Min(later))
                /\ bootTid' = Min(later)
                /\ UNCHANGED mpc
  /\ UNCHANGED <<kernelVars, listenerVars, lock, buffer, curProc, evs, bootPid,
                 scanned, sampled, imported>>

(* Mutant: the buffer is taken without the mutex. *)
RestartNoMutex ==
  /\ mpc = "restart"
  /\ mpc' = "take"
  /\ curProc' = 0 /\ scanned' = <<>> /\ sampled' = <<>>
  /\ UNCHANGED <<kernelVars, listenerVars, lock, buffer, procs, evs, bootPid,
                 bootTid, imported>>

(* Mutant: the walk is not rewound. *)
RestartNoRewind ==
  /\ mpc = "restart" /\ lock = None
  /\ lock' = "main" /\ mpc' = "take"
  /\ scanned' = <<>> /\ sampled' = <<>>
  /\ UNCHANGED <<kernelVars, listenerVars, buffer, procs, curProc, evs, bootPid,
                 bootTid, imported>>

RestartLock ==
  /\ mpc = "restart" /\ lock = None
  /\ lock' = "main" /\ mpc' = "take"
  /\ curProc' = 0 /\ scanned' = <<>> /\ sampled' = <<>>
  /\ UNCHANGED <<kernelVars, listenerVars, buffer, procs, evs, bootPid,
                 bootTid, imported>>

(* Mutant: the pointer is cleared before it is copied. *)
RestartTakeCleared ==
  /\ mpc = "take"
  /\ evs' = <<>> /\ mpc' = "clear"
  /\ UNCHANGED <<kernelVars, listenerVars, lock, buffer, procs, curProc,
                 bootPid, bootTid, scanned, sampled, imported>>

RestartTake ==
  /\ mpc = "take"
  /\ evs' = buffer /\ mpc' = "clear"
  /\ UNCHANGED <<kernelVars, listenerVars, lock, buffer, procs, curProc,
                 bootPid, bootTid, scanned, sampled, imported>>

RestartClear ==
  /\ mpc = "clear"
  /\ buffer' = <<>>
  /\ lock' = None /\ mpc' = "import"
  /\ UNCHANGED <<kernelVars, listenerVars, procs, curProc, evs,
                 bootPid, bootTid, scanned, sampled, imported>>

(* Mutant: the events are replayed from the last. *)
ImportFromLast ==
  /\ mpc = "import" /\ evs # <<>>
  /\ procs' = Replayed(procs, Last(evs))
  /\ evs' = Front(evs) /\ imported' = Append(imported, Last(evs))
  /\ UNCHANGED <<kernelVars, listenerVars, lock, buffer, mpc, curProc,
                 bootPid, bootTid, scanned, sampled>>

ImportEvent ==
  /\ mpc = "import" /\ evs # <<>>
  /\ procs' = Replayed(procs, Head(evs))
  /\ evs' = Tail(evs) /\ imported' = Append(imported, Head(evs))
  /\ UNCHANGED <<kernelVars, listenerVars, lock, buffer, mpc, curProc,
                 bootPid, bootTid, scanned, sampled>>

ImportDone ==
  /\ mpc = "import" /\ evs = <<>>
  /\ mpc' = "scan"
  /\ UNCHANGED <<kernelVars, listenerVars, lock, buffer, procs, curProc, evs,
                 bootPid, bootTid, scanned, sampled, imported>>

(* netlink_pid_scanner_next returns a pid and moves on. *)
ScanNext ==
  /\ mpc = "scan" /\ curProc < Len(procs)
  /\ scanned' = Append(scanned, procs[curProc + 1].pid)
  /\ curProc' = curProc + 1
  /\ mpc' = "sample"
  /\ UNCHANGED <<kernelVars, listenerVars, lock, buffer, procs, evs, bootPid,
                 bootTid, sampled, imported>>

(* get_cur_pid, get_cur_ppid and the get_tasks_* walk use cur_proc as next  *)
(* left it: the entry after the one just returned.                          *)
Current ==
  IF curProc >= Len(procs) THEN Process(0, 0) ELSE procs[curProc + 1]

Sample ==
  /\ mpc = "sample"
  /\ sampled' = Append(sampled, Current)
  /\ mpc' = "scan"
  /\ UNCHANGED <<kernelVars, listenerVars, lock, buffer, procs, curProc, evs,
                 bootPid, bootTid, scanned, imported>>

ScanEnd ==
  /\ mpc = "scan" /\ curProc >= Len(procs)
  /\ mpc' = "sleep"
  /\ UNCHANGED <<kernelVars, listenerVars, lock, buffer, procs, curProc, evs,
                 bootPid, bootTid, scanned, sampled, imported>>

(* usleep returns and the main loop restarts the scanner. *)
Wake ==
  /\ mpc = "sleep"
  /\ mpc' = "restart"
  /\ UNCHANGED <<kernelVars, listenerVars, lock, buffer, procs, curProc, evs,
                 bootPid, bootTid, scanned, sampled, imported>>

Main ==
  \/ BootstrapNext \/ BootstrapTask
  \/ RestartLock \/ RestartTake \/ RestartClear
  \/ ImportEvent \/ ImportDone \/ ScanNext \/ Sample \/ ScanEnd \/ Wake

Next == Kernel \/ Listener \/ Main

Spec == Init /\ [][Next]_vars

(* Both threads are scheduled; the kernel owes nobody an event.  Each       *)
(* thread lets go of the mutex for long (usleep, recvfrom) between two      *)
(* critical sections of a few instructions, so neither is kept out forever. *)
FairSpec ==
  /\ Spec
  /\ WF_vars(Listener) /\ SF_vars(ListenerLock)
  /\ WF_vars(Main) /\ SF_vars(RestartLock)

-----------------------------------------------------------------------------
(* Properties *)

TypeOK ==
  /\ tgid \in [Tids -> Tids \cup {0}] /\ running \subseteq Tids
  /\ posted \in 0..MaxEvents /\ Len(chan) <= ChanCap
  /\ overrun \in BOOLEAN /\ lost \in BOOLEAN
  /\ lpc \in {"recv", "news", "lock", "store"}
  /\ mpc \in {"boot", "boottask", "restart", "take", "clear",
              "import", "scan", "sample", "sleep"}
  /\ lock \in {None, "listener", "main"}
  /\ \A i \in 1..Len(procs) : /\ procs[i].pid \in Tids
                              /\ procs[i].parent \in Tids \cup {0}
                              /\ procs[i].threads \in Seq(Tids)
  /\ curProc \in 0..Cardinality(Tids)
  /\ bootPid \in Tids \cup {0} /\ bootTid \in Tids \cup {0}

(* Whatever the order in which the bootstrap and the queued events reach    *)
(* it, the table stays strictly sorted by pid, which the append shortcut    *)
(* and the early exit of find_pid_an_idx take for granted.                  *)
Sorted == SortedByPid(procs)

InHand == IF lpc \in {"lock", "store"} THEN <<ev>> ELSE <<>>
Queued == IF mpc = "clear" THEN evs ELSE evs \o buffer

(* The hand-over between the two threads is exact: the events replayed,     *)
(* then those taken, then those in the buffer, then the one in the          *)
(* listener's hands are the events received, in order, each once.           *)
HandoverExact == heard = imported \o Queued \o InHand

(* A process the table knows the parent of has its pair in paternity.log:   *)
(* the listener logs a fork before it queues it, so the table can never     *)
(* run ahead of the log.                                                    *)
ParentLogged ==
  \A i \in 1..Len(procs) :
    procs[i].parent # 0 => <<procs[i].pid, procs[i].parent>> \in paternity

(* What has been announced and not yet replayed, in order. *)
Received == IF lpc = "news" THEN <<ev>> ELSE <<>>
OnWay == (Queued \o InHand) \o (Received \o chan)

(* The events that decide whether a process is in the table: its fork and   *)
(* the clones of its threads bring it in, its own exit takes it out, and    *)
(* the last of them wins.                                                   *)
About(e, p) == e.tgid = p /\ (e.what = "FORK" \/ (e.what = "EXIT" /\ e.pid = p))
Silent(s, p) == \A i \in 1..Len(s) : ~ About(s[i], p)
LastAbout(s, p, what) ==
  \E i \in 1..Len(s) : /\ About(s[i], p) /\ s[i].what = what
                       /\ \A k \in i + 1..Len(s) : ~ About(s[k], p)

(* The processes that the table will have once it has caught up. *)
Expected ==
  {p \in Tids : \/ LastAbout(OnWay, p, "FORK")
                \/ Silent(OnWay, p) /\ p \in PidsOf(procs)}

(* Replaying what is on its way does leave the table with exactly these     *)
(* processes, whichever of the events it has already seen the effect of     *)
(* while it read /proc.                                                     *)
CatchesUp ==
  LET Turn(ps, e) == IF e.what = "EXEC" THEN ps ELSE Replayed(ps, e)
  IN  mpc = "import" => PidsOf(FoldLeft(Turn, procs, OnWay)) = Expected

Bootstrapped == mpc \notin {"boot", "boottask"}

(* The processes with a thread that runs. *)
Alive == {tgid[t] : t \in running}

(* If the socket dropped nothing, no process that runs is ever missing from *)
(* the table for good: the listener is started before /proc is read, so a   *)
(* process is either seen there or announced by an event still on its way.  *)
(* The exception is the process whose leader has exited, by itself or as    *)
(* another thread's exec demands: tasks-netlink.c:238 takes the leader's    *)
(* exit for the end of the process, and only a later clone brings it back.  *)
NoProcessMissed == Bootstrapped /\ ~ lost => Alive \subseteq Expected \cup beheaded

(* And nothing that has exited stays in it, but for the processes whose     *)
(* leader was not the last of their threads to be heard of: a later clone   *)
(* brings the entry back, and a zombie found at the start is never removed. *)
NoGhost == Bootstrapped /\ ~ lost => Expected \subseteq Alive \cup headless

(* A whole pass of next returns every process of the table once, in order. *)
PassExact ==
  mpc = "sleep" => scanned = [i \in 1..Len(procs) |-> procs[i].pid]

(* collector.c:963: a pass outputs data for each pid. *)
EachPidSampled ==
  mpc = "sleep" => \A i \in 1..Len(procs) :
                     \E k \in 1..Len(sampled) : sampled[k].pid = procs[i].pid

(* tasks.c:157: the walk of a process's tasks returns all that are not the  *)
(* process itself.                                                          *)
AllTasksReturned ==
  mpc = "sample" /\ ~ lost /\ chan = <<>> /\ lpc = "recv" /\ buffer = <<>> =>
    \A t \in running :
      tgid[t] = Current.pid /\ t # Current.pid => t \in ToSet(Current.threads)

(* The two threads, their mutex and the two-step take of the buffer         *)
(* implement a reliable first-in first-out hand-over.                       *)
Handover == INSTANCE EventHandover WITH
  Events <- [what : {"FORK", "EXIT"}, pid : Tids, tgid : Tids, ptgid : Tids \cup {0}]
HandoverImplemented == Handover!FairSpec

(* An event the listener has received is replayed, in the end. *)
EventsImported ==
  \A n \in 1..MaxEvents : Len(heard) >= n ~> Len(imported) >= n
=============================================================================
