-------------------------- MODULE CollectorProcesses --------------------------
(***************************************************************************)
(* The processes that run bootchart-collector: collectors, one of them     *)
(* perhaps started in the initrd, dumpers, probes and sleepers.  They meet *)
(* in /proc, where each looks for a running collector (dump.c), and at one *)
(* path, where each mounts a tmpfs and a proc of its own that are the same *)
(* ones for all (collector.c).                                             *)
(*                                                                         *)
(* The kernel is external: mounts, of which there is one of a kind at a    *)
(* place (the code expects EBUSY), ptrace, signals and the entries of      *)
(* /proc.  An unmounted proc takes effect on names looked up afterwards.   *)
(***************************************************************************)
EXTENDS Naturals, FiniteSets

CONSTANTS
  N,            \* processes, numbered by their pids
  Casts,        \* what each process is started to do
  Tries,        \* attempts to read the collector's stack, 8 in the code
  RootWritable, \* directories can be made beneath the tmpfs
  MayFail,      \* reading the stack can fail
  Faults        \* bound on the processes that end on an error

ASSUME CastsAssumption ==
  /\ N \in Nat /\ Tries \in Nat /\ Faults \in Nat
  /\ Casts \subseteq [1..N -> {"initrd", "collect", "dump", "probe", "usleep"}]

VARIABLES
  mode,    \* what a process was started to do
  pc,      \* where it is; "new" before its exec and "gone" after its exit
  at,      \* the pid its scan of /proc is at
  found,   \* pid of bootchart_find_running_pid, 0 for -1
  missed,  \* history: the collectors <<p, q>> of which p passed over q in its
           \* scan, because /proc was not there
  tries,   \* attempts a dumper has left
  tracer,  \* the dumper that has attached to it, or 0
  stopped, \* the traced processes that have stopped
  sigterm, \* a SIGTERM has been sent to it
  handler, \* how far its term_handler is: "off", "tmpfs" or "exit"
  root,    \* where its TMPFS_PATH leads: "system" or, after the move, "dev"
  mounts,  \* the mounts: "tmpfs", "proc on tmpfs", "proc on root", "dev tmpfs"
  devUp,   \* /dev has become a tmpfs
  sampled, \* the collectors that have come as far as sampling
  strays   \* history: the processes that ended without cleaning up, on an
           \* error or killed, or whose handler ran beside their move to /dev

scanVars  == <<at, found, missed>>
traceVars == <<tries, tracer, stopped>>
mountVars == <<root, mounts, devUp>>
termVars  == <<sigterm, handler>>
procVars  == <<mode, sampled, strays>>
vars == <<pc, procVars, termVars, scanVars, traceVars, mountVars>>

Procs == 1..N

Collector(p) == mode[p] \in {"initrd", "collect"}
Alive(p) == pc[p] \notin {"new", "gone"}

(* Past the search: it opens its files and samples, in /dev if it was moved. *)
Collecting(p) == pc[p] \in {"files", "sample", "chroot"}

(* Main goes on: no tracer has stopped it and no SIGTERM interrupted it.    *)
(* The listener of a collector that samples may take the signal beside it.  *)
Runs(p) == p \notin stopped /\ (~ sigterm[p] \/ p \in sampled)

(* The mount that /proc of a process is found in.                           *)
ProcLayer == IF "tmpfs" \in mounts THEN "proc on tmpfs" ELSE "proc on root"
ProcSeen(p) ==
  IF root[p] = "dev" THEN "dev tmpfs" \in mounts ELSE ProcLayer \in mounts

Goto(p, l) == pc' = [pc EXCEPT ![p] = l]

Exec(p) ==
  /\ pc[p] = "new"
  /\ Goto(p, IF mode[p] = "usleep" THEN "asleep" ELSE "mount")
  /\ UNCHANGED <<procVars, termVars, scanVars, traceVars, mountVars>>

Awake(p) ==
  /\ pc[p] = "asleep" /\ Runs(p)
  /\ Goto(p, "gone")
  /\ UNCHANGED <<procVars, termVars, scanVars, traceVars, mountVars>>

(* A dumper that ends lets go of the process it traced.                     *)
LetGo(p) ==
  /\ tracer' = [q \in Procs |-> IF tracer[q] = p THEN 0 ELSE tracer[q]]
  /\ stopped' = {q \in stopped : tracer[q] # p}

(* ------------------------------------------------------------------------ *)
(* enter_environment: the tmpfs, then the nodes in it and proc.  A failure  *)
(* ends main without cleaning up.                                           *)
MountTmpfs(p) ==
  /\ pc[p] = "mount" /\ Runs(p)
  /\ \/ mounts' = mounts \cup {"tmpfs"} /\ Goto(p, "mount proc")
     \/ UNCHANGED mounts /\ Goto(p, "gone")
  /\ UNCHANGED <<procVars, termVars, root, devUp, scanVars, traceVars>>

Mountable == "tmpfs" \in mounts \/ RootWritable

MountProc(p) ==
  /\ pc[p] = "mount proc" /\ Runs(p)
  /\ IF Mountable
       THEN /\ mounts' = mounts \cup {ProcLayer}
            /\ Goto(p, IF mode[p] = "initrd" THEN "sanity" ELSE "opendir")
       ELSE UNCHANGED mounts /\ Goto(p, "gone")
  /\ UNCHANGED <<procVars, termVars, root, devUp, scanVars, traceVars>>

(* The process ends with its mounts left as they are.                       *)
EndsEarly(p) ==
  /\ Runs(p) /\ Cardinality(strays) < Faults
  /\ strays' = strays \cup {p}
  /\ Goto(p, "gone")

SymlinkFails(p) ==
  /\ pc[p] = "mount proc" /\ Mountable
  /\ EndsEarly(p)
  /\ mounts' = mounts \cup {ProcLayer}
  /\ UNCHANGED <<mode, sampled, termVars, root, devUp, scanVars, traceVars>>

(* The other returns, exits and crashes that do not come past the label     *)
(* "exit": of enter_environment, of a collector that opens its files,       *)
(* samples or moves to /dev, and of a dumper that cannot write.             *)
Fails(p) ==
  /\ \/ pc[p] \in {"mount proc", "sanity", "files", "sample", "chroot"}
     \/ pc[p] \in {"opendir", "extract", "clean dev", "clean"} /\ mode[p] = "dump"
  /\ EndsEarly(p)
  /\ LetGo(p)
  /\ UNCHANGED <<mode, sampled, termVars, tries, scanVars, mountVars>>

(* A collector in an initrd whose kernel was not told to go on to           *)
(* bootchartd cleans up; without /proc it takes itself for one outside.     *)
SanityCheck(p) ==
  /\ pc[p] = "sanity" /\ Runs(p)
  /\ \/ Goto(p, "clean") /\ UNCHANGED mode
     \/ ProcSeen(p) /\ Goto(p, "opendir") /\ UNCHANGED mode
     \/ ~ ProcSeen(p) /\ Goto(p, "opendir") /\ mode' = [mode EXCEPT ![p] = "collect"]
  /\ UNCHANGED <<sampled, strays, termVars, scanVars, traceVars, mountVars>>

(* ------------------------------------------------------------------------ *)
(* bootchart_find_running_pid                                               *)

(* A collector does not see the other collectors of Q that are there.       *)
PassOver(p, Q) ==
  missed' = missed \cup
    {<<p, q>> : q \in {o \in Q \ {p} : Alive(o) /\ Collector(o) /\ Collector(p)}}

(* A directory that is missing crashes the scan; one without proc is empty. *)
OpenProc(p) ==
  /\ pc[p] = "opendir" /\ Runs(p)
  /\ \/ ProcSeen(p) /\ Goto(p, "scan") /\ UNCHANGED missed
     \/ ~ ProcSeen(p) /\ (Goto(p, "decide") \/ Goto(p, "gone")) /\ PassOver(p, Procs)
  /\ UNCHANGED <<procVars, termVars, at, found, traceVars, mountVars>>

(* Mutant: the scan ends at the process's own entry. *)
ReadExeBelow(p) ==
  /\ pc[p] = "scan" /\ Runs(p)
  /\ CASE at[p] > N \/ at[p] = p ->
            Goto(p, "decide") /\ UNCHANGED <<at, missed>>
       [] at[p] <= N /\ at[p] # p /\ Alive(at[p]) /\ ProcSeen(p) ->
            Goto(p, "cmdline") /\ UNCHANGED <<at, missed>>
       [] OTHER ->
            /\ at' = [at EXCEPT ![p] = @ + 1]
            /\ PassOver(p, {at[p]}) /\ UNCHANGED pc
  /\ UNCHANGED <<procVars, termVars, found, traceVars, mountVars>>

(* One entry of /proc: the link to the executable, read by its name.        *)
ReadExe(p) ==
  /\ pc[p] = "scan" /\ Runs(p)
  /\ CASE at[p] > N ->
            Goto(p, "decide") /\ UNCHANGED <<at, missed>>
       [] at[p] <= N /\ at[p] # p /\ Alive(at[p]) /\ ProcSeen(p) ->
            Goto(p, "cmdline") /\ UNCHANGED <<at, missed>>
       [] OTHER ->
            /\ at' = [at EXCEPT ![p] = @ + 1]
            /\ PassOver(p, {at[p]}) /\ UNCHANGED pc
  /\ UNCHANGED <<procVars, termVars, found, traceVars, mountVars>>

(* The arguments of a collector process: only one that is seen to be asleep *)
(* is passed over.                                                          *)
ReadCmdline(p) ==
  /\ pc[p] = "cmdline" /\ Runs(p)
  /\ IF mode[at[p]] = "usleep" /\ Alive(at[p]) /\ ProcSeen(p)
       THEN /\ at' = [at EXCEPT ![p] = @ + 1]
            /\ Goto(p, "scan")
            /\ UNCHANGED found
       ELSE /\ found' = [found EXCEPT ![p] = at[p]]
            /\ Goto(p, "decide")
            /\ UNCHANGED at
  /\ UNCHANGED <<procVars, termVars, missed, traceVars, mountVars>>

(* Mutant: no probe cleans up. *)
DecideDirty(p) ==
  /\ pc[p] = "decide" /\ Runs(p)
  /\ Goto(p, CASE mode[p] = "dump"  -> IF found[p] # 0 THEN "attach" ELSE "clean"
               [] mode[p] = "probe" -> "gone"
               [] Collector(p)      -> IF found[p] # 0 THEN "gone" ELSE "files")
  /\ UNCHANGED <<procVars, termVars, scanVars, traceVars, mountVars>>

(* What main does with the pid: a probe that finds one, and a collector,    *)
(* leave the environment as it is; the others clean it up.                  *)
Decide(p) ==
  /\ pc[p] = "decide" /\ Runs(p)
  /\ Goto(p, CASE mode[p] = "dump"  -> IF found[p] # 0 THEN "attach" ELSE "clean"
               [] mode[p] = "probe" -> IF found[p] # 0 THEN "gone" ELSE "clean"
               [] Collector(p)      -> IF found[p] # 0 THEN "gone" ELSE "files")
  /\ UNCHANGED <<procVars, termVars, scanVars, traceVars, mountVars>>

OpenFiles(p) ==
  /\ pc[p] = "files" /\ Runs(p)
  /\ IF ProcSeen(p)
       THEN Goto(p, "sample") /\ sampled' = sampled \cup {p}
       ELSE Goto(p, "gone") /\ UNCHANGED sampled
  /\ UNCHANGED <<mode, strays, termVars, scanVars, traceVars, mountVars>>

(* ------------------------------------------------------------------------ *)
(* The initrd's collector                                                   *)

(* The system's /dev comes up, if a collector of the initrd waits for it.   *)
DevTmpfs ==
  /\ ~ devUp /\ \E p \in Procs : mode[p] = "initrd"
  /\ devUp' = TRUE
  /\ UNCHANGED <<pc, procVars, termVars, root, mounts, scanVars, traceVars>>

(* chroot_into_dev: the mount is moved with all that is on it; without one  *)
(* to move the collector ends.  Its handler, once it runs, may not find     *)
(* what was moved.                                                          *)
MoveMount(p) ==
  /\ pc[p] = "sample" /\ mode[p] = "initrd" /\ root[p] = "system" /\ Runs(p)
  /\ devUp /\ ProcSeen(p)
  /\ IF "tmpfs" \in mounts
       THEN /\ mounts' = (mounts \ {"tmpfs", "proc on tmpfs"}) \cup {"dev tmpfs"}
            /\ Goto(p, "chroot")
            /\ strays' = IF handler[p] # "off" THEN strays \cup {p} ELSE strays
       ELSE UNCHANGED <<mounts, strays>> /\ Goto(p, "gone")
  /\ UNCHANGED <<mode, sampled, termVars, root, devUp, scanVars, traceVars>>

Chroot(p) ==
  /\ pc[p] = "chroot" /\ Runs(p)
  /\ root' = [root EXCEPT ![p] = "dev"]
  /\ Goto(p, "sample")
  /\ UNCHANGED <<procVars, termVars, mounts, devUp, scanVars, traceVars>>

(* ------------------------------------------------------------------------ *)
(* A dumper and its target                                                  *)

Target(p) == found[p]

(* open_pid: ptrace refuses a process that has gone or has a tracer.  The   *)
(* target goes on until it takes the signal that stops it, and may exit.    *)
Attach(p) ==
  /\ pc[p] = "attach" /\ Runs(p)
  /\ IF Alive(Target(p)) /\ tracer[Target(p)] = 0 /\ tries[p] > 0
       THEN /\ tracer' = [tracer EXCEPT ![Target(p)] = p]
            /\ Goto(p, "waitpid")
       ELSE /\ Goto(p, "clean")
            /\ UNCHANGED tracer
  /\ UNCHANGED <<procVars, termVars, tries, stopped, scanVars, mountVars>>

Stop(q) ==
  /\ tracer[q] # 0 /\ q \notin stopped /\ Alive(q)
  /\ stopped' = stopped \cup {q}
  /\ UNCHANGED <<pc, procVars, termVars, tries, tracer, scanVars, mountVars>>

(* Mutant: the process is let go and stays stopped. *)
DetachStopped(p) ==
  /\ tracer' = [tracer EXCEPT ![Target(p)] = 0]
  /\ UNCHANGED stopped

Detach(p) ==
  /\ tracer' = [tracer EXCEPT ![Target(p)] = 0]
  /\ stopped' = stopped \ {Target(p)}

Waitpid(p) ==
  /\ pc[p] = "waitpid" /\ Runs(p)
  /\ Target(p) \in stopped \/ ~ Alive(Target(p))
  /\ \/ Target(p) \in stopped /\ Goto(p, "extract") /\ UNCHANGED <<tracer, stopped>>
     \/ Goto(p, "clean") /\ Detach(p)
  /\ UNCHANGED <<procVars, termVars, tries, scanVars, mountVars>>

(* Mutant: attempts are not counted. *)
RetryForever(p) ==
  /\ MayFail
  /\ pc[p] = "extract" /\ Runs(p)
  /\ Detach(p)
  /\ Goto(p, "attach")
  /\ UNCHANGED <<procVars, termVars, tries, scanVars, mountVars>>

(* close_pid without a signal, for another attempt.                         *)
ExtractFails(p) ==
  /\ MayFail
  /\ pc[p] = "extract" /\ Runs(p)
  /\ Detach(p)
  /\ tries' = [tries EXCEPT ![p] = @ - 1]
  /\ Goto(p, "attach")
  /\ UNCHANGED <<procVars, termVars, scanVars, mountVars>>

(* The buffers are read and the process is killed and let go.  The dumper   *)
(* waits for it to end, but no longer than a second.                        *)
Extract(p) ==
  /\ pc[p] = "extract" /\ Runs(p)
  /\ Detach(p)
  /\ sigterm' = [sigterm EXCEPT ![Target(p)] = TRUE]
  /\ Goto(p, "clean dev")
  /\ UNCHANGED <<procVars, handler, tries, scanVars, mountVars>>

(* Not done when the header or the dmesg could not be written.              *)
CleanupDev(p) ==
  /\ pc[p] = "clean dev" /\ Runs(p)
  /\ mounts' \in {mounts, mounts \ {"dev tmpfs"}}
  /\ Goto(p, "clean")
  /\ UNCHANGED <<procVars, termVars, root, devUp, scanVars, traceVars>>

(* ------------------------------------------------------------------------ *)
(* clean_enviroment and term_handler: proc, then the tmpfs and what is on it *)

WithoutProc(p) == IF root[p] = "dev" THEN mounts ELSE mounts \ {ProcLayer}
WithoutTmpfs(p) ==
  mounts \ (IF root[p] = "dev" THEN {"dev tmpfs"} ELSE {"tmpfs", "proc on tmpfs"})

UmountProc(p) ==
  /\ pc[p] = "clean" /\ Runs(p)
  /\ mounts' = WithoutProc(p)
  /\ Goto(p, "umount")
  /\ UNCHANGED <<procVars, termVars, root, devUp, scanVars, traceVars>>

UmountTmpfs(p) ==
  /\ pc[p] = "umount" /\ Runs(p)
  /\ mounts' = WithoutTmpfs(p)
  /\ Goto(p, "exit")
  /\ UNCHANGED <<procVars, termVars, root, devUp, scanVars, traceVars>>

Exit(p) ==
  /\ pc[p] = "exit" /\ Runs(p)
  /\ Goto(p, "gone")
  /\ UNCHANGED <<procVars, termVars, scanVars, traceVars, mountVars>>

(* SIGTERM is taken by main unless that is stopped, or by a listener.       *)
Terminated(p) == sigterm[p] /\ Alive(p) /\ (p \notin stopped \/ p \in sampled)
HandlerSet(p) == pc[p] \notin {"asleep", "mount", "mount proc"}

Killed(p) ==
  /\ Terminated(p) /\ ~ HandlerSet(p)
  /\ Goto(p, "gone")
  /\ strays' = strays \cup {p}
  /\ UNCHANGED <<mode, sampled, termVars, scanVars, traceVars, mountVars>>

HandlerProc(p) ==
  /\ Terminated(p) /\ HandlerSet(p) /\ handler[p] = "off"
  /\ mounts' = WithoutProc(p)
  /\ handler' = [handler EXCEPT ![p] = "tmpfs"]
  /\ strays' = IF pc[p] = "chroot" THEN strays \cup {p} ELSE strays
  /\ UNCHANGED <<pc, mode, sampled, sigterm, root, devUp, scanVars, traceVars>>

HandlerTmpfs(p) ==
  /\ Terminated(p) /\ handler[p] = "tmpfs"
  /\ mounts' = WithoutTmpfs(p)
  /\ handler' = [handler EXCEPT ![p] = "exit"]
  /\ UNCHANGED <<pc, procVars, sigterm, root, devUp, scanVars, traceVars>>

HandlerExit(p) ==
  /\ Terminated(p) /\ handler[p] = "exit"
  /\ Goto(p, "gone")
  /\ LetGo(p)
  /\ UNCHANGED <<procVars, termVars, tries, scanVars, mountVars>>

Init ==
  /\ mode \in Casts
  /\ pc = [p \in Procs |-> "new"]
  /\ at = [p \in Procs |-> 1]
  /\ found = [p \in Procs |-> 0] /\ missed = {}
  /\ tries = [p \in Procs |-> Tries]
  /\ tracer = [p \in Procs |-> 0]
  /\ stopped = {}
  /\ sigterm = [p \in Procs |-> FALSE]
  /\ handler = [p \in Procs |-> "off"]
  /\ root = [p \in Procs |-> "system"]
  /\ mounts = {}
  /\ devUp = FALSE
  /\ sampled = {} /\ strays = {}

Step(p) ==
  \/ Exec(p) \/ Awake(p) \/ MountTmpfs(p) \/ MountProc(p) \/ SymlinkFails(p)
  \/ Fails(p) \/ SanityCheck(p)
  \/ OpenProc(p) \/ ReadExe(p) \/ ReadCmdline(p) \/ Decide(p) \/ OpenFiles(p)
  \/ MoveMount(p) \/ Chroot(p)
  \/ Attach(p) \/ Waitpid(p) \/ ExtractFails(p) \/ Extract(p) \/ CleanupDev(p)
  \/ UmountProc(p) \/ UmountTmpfs(p)
  \/ Exit(p) \/ Killed(p) \/ HandlerProc(p) \/ HandlerTmpfs(p) \/ HandlerExit(p)

Next == DevTmpfs \/ \E p \in Procs : Step(p) \/ Stop(p)

Spec == Init /\ [][Next]_vars

(* A process that has started, and the kernel's signals, go on as long as   *)
(* they can; nobody has to start another one.                               *)
Onwards == \E p \in Procs : (pc[p] # "new" /\ Step(p)) \/ Stop(p)
FairSpec == Spec /\ WF_vars(Onwards)

(* ------------------------------------------------------------------------ *)
(* Properties                                                               *)

PCs == {"new", "asleep", "mount", "mount proc", "sanity", "opendir", "scan",
        "cmdline", "decide", "files", "sample", "chroot", "attach", "waitpid",
        "extract", "clean dev", "clean", "umount", "exit", "gone"}

(* A process that has stopped has a live tracer that is looking at it, and  *)
(* what is mounted in a tmpfs goes with it (dump.c, 102-137).               *)
TypeOK ==
  /\ pc \in [Procs -> PCs] /\ at \in [Procs -> 1..N + 1] /\ found \in [Procs -> 0..N]
  /\ tries \in [Procs -> 0..Tries]
  /\ \A q \in Procs : tracer[q] # 0 =>
       /\ Target(tracer[q]) = q
       /\ pc[tracer[q]] \in {"waitpid", "extract"}
  /\ \A q \in stopped : tracer[q] # 0
  /\ "proc on tmpfs" \in mounts => "tmpfs" \in mounts

(* Of two collectors one has found the other and left, whichever of them    *)
(* was started first and however their searches interleave, unless /proc    *)
(* was unmounted under the search of one that then passed over the other:   *)
(* no lock keeps a dumper or a probe from cleaning up while a collector     *)
(* starts (dump.c, 250-333; collector.c, 874-885).                          *)
OneCollector ==
  \A p, q \in Procs : Collecting(p) /\ Collecting(q) /\ p # q =>
    <<p, q>> \in missed \/ <<q, p>> \in missed

(* Once all have gone the private mounts have gone, unless a collector or a *)
(* probe left them to another it had found, a process ended on an error or  *)
(* a signal before it could clean up, or the handler of a collector ran     *)
(* beside its move to /dev (collector.c, 586-607, 694-732 and 874-885).     *)
LeftMounts(p) == (mode[p] # "dump" /\ found[p] # 0) \/ p \in strays
NothingLeft ==
  (\A p \in Procs : pc[p] = "gone") /\ mounts \ {"proc on root"} # {} =>
    \E p \in Procs : LeftMounts(p)

(* What is found is not a process that only sleeps: the search "ignores the *)
(* --usleep mode we use to simplify our scripts" (dump.c, 245-249).         *)
SleepersIgnored == \A p \in Procs : found[p] # 0 => mode[found[p]] # "usleep"

(* A dump comes to its end, and so does the collector it terminates, though *)
(* each waits for the other to stop, to be let go and to exit               *)
(* (dump.c, 102-175 and 222-242).                                           *)
StopEnds == \A p \in Procs : (pc[p] = "attach" \/ sigterm[p]) ~> (pc[p] = "gone")
==============================================================================
