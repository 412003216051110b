----------------------- MODULE CollectorProcessesProofs -----------------------
(***************************************************************************)
(* The processes of bootchart-collector for any number of them, whatever   *)
(* each was started to do: ptrace's bookkeeping, one collector at a time   *)
(* but for searches that /proc was unmounted under, and private mounts     *)
(* that somebody is always left to clean up.                               *)
(***************************************************************************)
EXTENDS CollectorProcesses, TLAPS

Modes == {"initrd", "collect", "dump", "probe", "usleep"}
Mounts == {"tmpfs", "proc on tmpfs", "proc on root", "dev tmpfs"}
Handlers == {"off", "tmpfs", "exit"}

TypeInv ==
  /\ mode \in [Procs -> Modes]
  /\ pc \in [Procs -> PCs]
  /\ at \in [Procs -> 1..N + 1] /\ found \in [Procs -> 0..N]
  /\ missed \subseteq Procs \X Procs
  /\ tries \in [Procs -> 0..Tries] /\ tracer \in [Procs -> 0..N]
  /\ stopped \subseteq Procs /\ sampled \subseteq Procs /\ strays \subseteq Procs
  /\ sigterm \in [Procs -> BOOLEAN] /\ handler \in [Procs -> Handlers]
  /\ root \in [Procs -> {"system", "dev"}]
  /\ mounts \subseteq Mounts
  /\ "proc on tmpfs" \in mounts => "tmpfs" \in mounts

(* How far a process has come says what it is, what it has found, where it  *)
(* has its root and how far its handler may be.                             *)
Beginning == {"new", "asleep", "mount", "mount proc", "sanity", "opendir"}
Place(p) ==
  /\ mode[p] = "usleep" => pc[p] \in {"new", "asleep", "gone"}
  /\ Collecting(p) => Collector(p) /\ found[p] = 0
  /\ pc[p] \in {"attach", "waitpid", "extract", "clean dev"} =>
       mode[p] = "dump" /\ found[p] # 0
  /\ pc[p] \in Beginning => at[p] = 1 /\ found[p] = 0
  /\ pc[p] \in {"scan", "cmdline"} => found[p] = 0
  /\ pc[p] = "cmdline" => at[p] <= N
  /\ pc[p] \in {"waitpid", "extract"} => tries[p] > 0
  /\ pc[p] \in {"sample", "chroot"} => p \in sampled
  /\ p \in sampled => Collector(p) /\ pc[p] \in {"sample", "chroot", "gone"}
  /\ root[p] = "dev" => mode[p] = "initrd" /\ pc[p] \in {"sample", "gone"}
  /\ pc[p] \in {"sanity", "chroot"} => mode[p] = "initrd"
  /\ handler[p] # "off" => sigterm[p] /\ HandlerSet(p) /\ pc[p] # "new"
  /\ pc[p] = "chroot" /\ handler[p] # "off" => p \in strays
PlaceInv == \A p \in Procs : Place(p)

(* ptrace: whoever is traced is the target of a dumper that looks at it.    *)
TraceInv ==
  /\ \A q \in Procs : tracer[q] # 0 =>
       /\ Target(tracer[q]) = q
       /\ pc[tracer[q]] \in {"waitpid", "extract"}
  /\ \A q \in stopped : tracer[q] # 0

(* Of two collectors that are there, each past the other in its search,     *)
(* one has passed over the other: the later of the two found an entry in    *)
(* /proc for the earlier, or had no /proc to look at.                       *)
Passed(p, q) ==
  at[p] > q \/ (pc[p] = "decide" /\ found[p] = 0) \/ Collecting(p)
SearchInv ==
  \A p, q \in Procs :
    /\ p # q /\ Collector(p) /\ Collector(q) /\ Alive(p) /\ Alive(q)
    /\ Passed(p, q) /\ Passed(q, p)
    => <<p, q>> \in missed \/ <<q, p>> \in missed

(* Somebody is left to unmount what is mounted, or has gone and left it to  *)
(* others: a tmpfs without proc, a tmpfs with proc, one moved to /dev.      *)
Leaves(p) == p \in strays \/ (pc[p] = "gone" /\ LeftMounts(p))
BareCleaner(p) ==
  \/ pc[p] = "mount proc"
  \/ pc[p] = "umount" /\ handler[p] # "exit"
  \/ handler[p] = "tmpfs" /\ root[p] = "system" /\ Alive(p)
  \/ Leaves(p)
FullCleaner(p) ==
  \/ /\ \/ pc[p] \in {"sanity", "opendir", "scan", "cmdline", "decide", "files"}
        \/ pc[p] \in {"attach", "waitpid", "extract", "clean dev", "clean", "umount"}
        \/ pc[p] = "sample" /\ root[p] = "system"
     /\ handler[p] # "exit"
  \/ Leaves(p)
DevCleaner(p) ==
  \/ pc[p] = "chroot" /\ handler[p] = "off"
  \/ pc[p] = "sample" /\ root[p] = "dev" /\ handler[p] # "exit"
  \/ p \in strays

Bare == "tmpfs" \in mounts /\ "proc on tmpfs" \notin mounts
Full == "proc on tmpfs" \in mounts
MountInv ==
  /\ Bare => \E p \in Procs : BareCleaner(p)
  /\ Full => \E p \in Procs : FullCleaner(p)
  /\ "dev tmpfs" \in mounts => \E p \in Procs : DevCleaner(p)

IInv == TypeInv /\ PlaceInv /\ TraceInv /\ SearchInv /\ MountInv

-----------------------------------------------------------------------------

(* What the proofs use of the constants.                                    *)
LEMMA Bounds == N \in Nat /\ Tries \in Nat /\ 0 \in 0..N
BY CastsAssumption

(* A pid that a search has come to, and a count that is not yet zero.       *)
LEMMA Entry ==
  ASSUME NEW i \in 1..N + 1, i <= N \/ ~ (i > N)
  PROVE  i \in Procs /\ i + 1 \in 1..N + 1 /\ i \in 0..N
BY Bounds DEF Procs

(* A pid can stand in a variable that may hold none.                        *)
LEMMA Pids == Procs \subseteq 0..N
BY Bounds DEF Procs

(* ExtractFails takes one from the tries that are left.                     *)
LEMMA Fewer ==
  ASSUME NEW i \in 0..Tries, i > 0
  PROVE  i - 1 \in 0..Tries
BY Bounds

(* What a search passes over are pairs of processes.                        *)
LEMMA PassOverPairs ==
  ASSUME missed \subseteq Procs \X Procs, NEW p \in Procs, NEW Q \in SUBSET Procs,
         PassOver(p, Q)
  PROVE  missed' \subseteq Procs \X Procs
BY DEF PassOver

(* The types of the variables, and that what is mounted in a tmpfs goes     *)
(* with it, are kept by every step.                                         *)
LEMMA TypeStep ==
  ASSUME TypeInv, PlaceInv, [Next]_vars
  PROVE  TypeInv'
<1> USE DEF TypeInv
<1>1. CASE UNCHANGED vars
  BY <1>1 DEF vars, procVars, termVars, scanVars, traceVars, mountVars
<1>2. CASE DevTmpfs
  BY <1>2 DEF DevTmpfs, procVars, termVars, scanVars, traceVars
<1>3. ASSUME NEW p \in Procs, Stop(p) PROVE TypeInv'
  BY <1>3 DEF Stop, procVars, termVars, scanVars, mountVars
<1>4. ASSUME NEW p \in Procs, Step(p) PROVE TypeInv'
  <2>1. CASE Exec(p) \/ Awake(p) \/ OpenFiles(p) \/ Exit(p) \/ Killed(p)
    BY <2>1 DEF Exec, Awake, OpenFiles, Exit, Killed, Goto, PCs, procVars, termVars, scanVars,
                traceVars, mountVars
  <2>2. CASE Decide(p)
    <3>1. pc[p] = "decide" /\ mode[p] \in Modes /\ pc \in [Procs -> PCs]
      BY <2>2 DEF Decide
    <3>2. mode[p] # "usleep"
      BY <3>1 DEF PlaceInv, Place
    <3>3. \E l \in PCs : Goto(p, l)
      BY <2>2, <3>1, <3>2 DEF Decide, Collector, Modes, PCs
    <3>4. pc' \in [Procs -> PCs]
      BY <3>1, <3>3 DEF Goto
    <3> QED BY <2>2, <3>4 DEF Decide, procVars, termVars, scanVars, traceVars, mountVars
  <2>3. CASE OpenProc(p)
    <3>1. missed' \subseteq Procs \X Procs
      BY <2>3, PassOverPairs DEF OpenProc
    <3> QED BY <3>1, <2>3 DEF OpenProc, Goto, PCs, procVars, termVars, traceVars, mountVars
  <2>4. CASE ReadExe(p)
    <3>1. CASE at[p] > N \/ pc' # pc
      <4>1. UNCHANGED <<at, missed>> /\ (Goto(p, "decide") \/ Goto(p, "cmdline"))
        BY <2>4, <3>1 DEF ReadExe
      <4>2. pc' \in [Procs -> PCs]
        BY <4>1 DEF Goto, PCs
      <4> QED BY <2>4, <4>1, <4>2 DEF ReadExe, procVars, termVars, traceVars, mountVars
    <3>2. CASE ~ (at[p] > N) /\ pc' = pc
      <4>2. at[p] \in Procs /\ at[p] + 1 \in 1..N + 1
        BY <3>2, Entry
      <4>3. \/ at' = [at EXCEPT ![p] = @ + 1] /\ PassOver(p, {at[p]})
            \/ UNCHANGED <<at, missed>>
        BY <2>4 DEF ReadExe
      <4>4. at' \in [Procs -> 1..N + 1]
        BY <4>2, <4>3
      <4>5. missed' \subseteq Procs \X Procs
        <5>1. missed \subseteq Procs \X Procs /\ {at[p]} \in SUBSET Procs
          BY <4>2
        <5> HIDE DEF TypeInv
        <5> QED BY <4>3, <5>1, PassOverPairs
      <4> QED BY <2>4, <3>2, <4>4, <4>5 DEF ReadExe, procVars, termVars, traceVars, mountVars
    <3> QED BY <3>1, <3>2
  <2>5. CASE ReadCmdline(p)
    <3>1. pc[p] = "cmdline"
      BY <2>5 DEF ReadCmdline
    <3>2. at[p] <= N
      BY <3>1 DEF PlaceInv, Place
    <3>3. at[p] + 1 \in 1..N + 1 /\ at[p] \in 0..N
      BY <3>2, Entry
    <3>4. pc' \in [Procs -> PCs]
      <4>1. Goto(p, "scan") \/ Goto(p, "decide")
        BY <2>5 DEF ReadCmdline
      <4> QED BY <4>1 DEF Goto, PCs
    <3>5. at' \in [Procs -> 1..N + 1] /\ found' \in [Procs -> 0..N]
      BY <2>5, <3>3 DEF ReadCmdline
    <3> QED BY <3>4, <3>5, <2>5 DEF ReadCmdline, procVars, termVars, traceVars, mountVars
  <2>6. CASE Attach(p)
    <3>1. p \in 0..N
      BY Pids
    <3> QED BY <3>1, <2>6 DEF Attach, Goto, PCs, procVars, termVars, scanVars, mountVars
  <2>7. CASE Waitpid(p) \/ Extract(p) \/ ExtractFails(p)
    <3>1. pc' \in [Procs -> PCs]
      BY <2>7 DEF Waitpid, Extract, ExtractFails, Goto, PCs
    <3>2. (tracer' = [tracer EXCEPT ![Target(p)] = 0] /\ stopped' = stopped \ {Target(p)})
          \/ UNCHANGED <<tracer, stopped>>
      BY <2>7 DEF Waitpid, Extract, ExtractFails, Detach
    <3>3. tracer' \in [Procs -> 0..N] /\ stopped' \subseteq Procs
      BY <3>2, Bounds
    <3>4. tries' \in [Procs -> 0..Tries]
      <4>1. CASE UNCHANGED tries
        BY <4>1
      <4>2. CASE ExtractFails(p)
        <5>1. tries[p] > 0 /\ tries[p] \in 0..Tries
          BY <4>2 DEF ExtractFails, PlaceInv, Place
        <5>2. tries[p] - 1 \in 0..Tries
          BY <5>1, Fewer
        <5> QED BY <4>2, <5>2 DEF ExtractFails
      <4> QED BY <2>7, <4>1, <4>2 DEF Waitpid, Extract
    <3>5. sigterm' \in [Procs -> BOOLEAN]
      <4>1. sigterm' = sigterm \/ sigterm' = [sigterm EXCEPT ![Target(p)] = TRUE]
        BY <2>7 DEF Waitpid, Extract, ExtractFails, termVars
      <4>2. sigterm \in [Procs -> BOOLEAN]
        OBVIOUS
      <4> HIDE DEF TypeInv
      <4> QED BY <4>1, <4>2
    <3> QED BY <3>1, <3>3, <3>4, <3>5, <2>7
            DEF Waitpid, Extract, ExtractFails, procVars, termVars, scanVars, mountVars
  <2>8. CASE Fails(p) \/ HandlerExit(p)
    <3>1. tracer' \in [Procs -> 0..N] /\ stopped' \subseteq Procs
      BY <2>8, Bounds DEF Fails, HandlerExit, LetGo
    <3>2. pc' \in [Procs -> PCs] /\ strays' \subseteq Procs
      BY <2>8 DEF Fails, EndsEarly, HandlerExit, Goto, PCs, procVars
    <3>3. UNCHANGED <<mode, sampled, termVars, tries, scanVars, mountVars>>
      BY <2>8 DEF Fails, HandlerExit, procVars
    <3> QED BY <3>1, <3>2, <3>3 DEF termVars, scanVars, mountVars
  <2>9. CASE MountTmpfs(p) \/ CleanupDev(p)
    BY <2>9 DEF MountTmpfs, CleanupDev, Mounts, Goto, PCs, procVars, termVars, scanVars,
                traceVars
  <2>10. CASE MountProc(p) \/ SymlinkFails(p)
    BY <2>10 DEF MountProc, SymlinkFails, EndsEarly, ProcLayer, Mounts, Goto, PCs, procVars,
                 termVars, scanVars, traceVars
  <2>11. CASE MoveMount(p)
    <3>1. \/ mounts' = mounts
          \/ mounts' = (mounts \ {"tmpfs", "proc on tmpfs"}) \cup {"dev tmpfs"}
      BY <2>11 DEF MoveMount
    <3>2. mounts' \subseteq Mounts /\ ("proc on tmpfs" \in mounts' => "tmpfs" \in mounts')
      BY <3>1 DEF Mounts
    <3>3. Goto(p, "chroot") \/ Goto(p, "gone")
      BY <2>11 DEF MoveMount
    <3>4. pc' \in [Procs -> PCs]
      BY <3>3 DEF Goto, PCs
    <3> QED BY <2>11, <3>2, <3>4 DEF MoveMount, procVars, termVars, scanVars, traceVars
  <2>12. CASE Chroot(p)
    BY <2>12 DEF Chroot, Goto, PCs, procVars, termVars, scanVars, traceVars
  <2>13. CASE UmountProc(p) \/ UmountTmpfs(p)
    BY <2>13 DEF UmountProc, UmountTmpfs, WithoutProc, Goto, WithoutTmpfs, ProcLayer, Mounts,
                 PCs, procVars, termVars, scanVars, traceVars
  <2>14. CASE HandlerProc(p) \/ HandlerTmpfs(p)
    BY <2>14 DEF HandlerProc, HandlerTmpfs, WithoutProc, WithoutTmpfs, ProcLayer, Mounts,
                 Handlers, procVars, termVars, scanVars, traceVars
  <2>15. CASE SanityCheck(p)
    BY <2>15 DEF SanityCheck, Goto, PCs, Modes, procVars, termVars, scanVars, traceVars,
                 mountVars
  <2> QED BY <1>4, <2>1, <2>2, <2>3, <2>4, <2>5, <2>6, <2>7, <2>8, <2>9, <2>10, <2>11,
             <2>12, <2>13, <2>14, <2>15
          DEF Step
<1> QED BY <1>1, <1>2, <1>3, <1>4 DEF Next

(* What a process is, and how far it has come, stays.                       *)
Same(r) ==
  /\ mode'[r] = mode[r] /\ pc'[r] = pc[r] /\ at'[r] = at[r] /\ found'[r] = found[r]
  /\ tries'[r] = tries[r] /\ root'[r] = root[r] /\ (r \in sampled' <=> r \in sampled)
  /\ handler'[r] = handler[r] /\ (r \in strays' <=> r \in strays)
  /\ sigterm[r] => sigterm'[r]

(* A step of one process leaves the others where they are.                  *)
LEMMA OthersSame ==
  ASSUME TypeInv, NEW p \in Procs, NEW r \in Procs, r # p, Step(p)
  PROVE  Same(r)
<1> USE DEF TypeInv, Same, Goto
<1>1. CASE Exec(p) \/ Awake(p) \/ Exit(p)
  <2>1. UNCHANGED <<procVars, termVars, scanVars, traceVars, mountVars>>
    BY <1>1 DEF Exec, Awake, Exit
  <2>2. pc'[r] = pc[r]
    BY <1>1 DEF Exec, Awake, Exit
  <2> QED BY <2>1, <2>2 DEF procVars, termVars, scanVars, traceVars, mountVars
<1>2. CASE Decide(p)
  BY <1>2 DEF Decide, procVars, termVars, scanVars, traceVars, mountVars
<1>3. CASE OpenProc(p) \/ ReadExe(p) \/ ReadCmdline(p)
  BY <1>3 DEF OpenProc, ReadExe, ReadCmdline, procVars, termVars, traceVars, mountVars
<1>4. CASE Attach(p) \/ Waitpid(p) \/ Extract(p) \/ ExtractFails(p) \/ HandlerExit(p)
  BY <1>4 DEF Attach, Waitpid, Extract, ExtractFails, HandlerExit, procVars, termVars,
              scanVars, mountVars
<1>5. CASE MountTmpfs(p) \/ MountProc(p) \/ CleanupDev(p) \/ Chroot(p)
  BY <1>5 DEF MountTmpfs, MountProc, CleanupDev, Chroot, procVars, termVars, scanVars,
              traceVars
<1>6. CASE UmountProc(p) \/ UmountTmpfs(p) \/ HandlerProc(p) \/ HandlerTmpfs(p)
  BY <1>6 DEF UmountProc, UmountTmpfs, HandlerProc, HandlerTmpfs, procVars, termVars,
              scanVars, traceVars
<1>7. CASE OpenFiles(p) \/ SanityCheck(p)
  BY <1>7 DEF OpenFiles, SanityCheck, procVars, termVars, scanVars, traceVars, mountVars
<1>8. CASE SymlinkFails(p) \/ Fails(p) \/ Killed(p)
  BY <1>8 DEF SymlinkFails, Fails, Killed, EndsEarly, procVars, termVars, scanVars,
              traceVars, mountVars
<1>9. CASE MoveMount(p)
  <2>1. UNCHANGED <<mode, sampled, termVars, root, scanVars, traceVars>>
    BY <1>9 DEF MoveMount
  <2>2. pc' = [pc EXCEPT ![p] = "chroot"] \/ pc' = [pc EXCEPT ![p] = "gone"]
    BY <1>9 DEF MoveMount
  <2>3. strays' = strays \/ strays' = strays \cup {p}
    BY <1>9 DEF MoveMount
  <2> QED BY <2>1, <2>2, <2>3 DEF termVars, scanVars, traceVars
<1> QED BY <1>1, <1>2, <1>3, <1>4, <1>5, <1>6, <1>7, <1>8, <1>9 DEF Step

(* Where a process is agrees with what it is, whatever it does.             *)
LEMMA OwnPlace ==
  ASSUME TypeInv, TypeInv', NEW p \in Procs, Place(p), Step(p)
  PROVE  Place(p)'
<1>0. /\ pc \in [Procs -> PCs] /\ found \in [Procs -> 0..N]
      /\ sigterm \in [Procs -> BOOLEAN] /\ mode \in [Procs -> Modes]
  BY DEF TypeInv
<1> USE DEF Place, Goto, Collecting, Collector, Beginning, HandlerSet
<1>1. CASE Exec(p) \/ Awake(p) \/ Killed(p) \/ MountTmpfs(p) \/ MountProc(p) \/ SymlinkFails(p)
  <2>1. UNCHANGED <<mode, at, found, tries, sampled, root, sigterm, handler>>
    BY <1>1 DEF Exec, Awake, Killed, MountTmpfs, MountProc, SymlinkFails, procVars, termVars,
                scanVars, traceVars, mountVars
  <2>2. pc \in [Procs -> PCs]
    BY DEF TypeInv
  <2>3. /\ pc[p] \in {"new", "asleep", "mount", "mount proc"}
        /\ \/ pc'[p] \in {"gone", "asleep"}
           \/ pc'[p] \in {"mount", "mount proc", "opendir"} /\ mode[p] # "usleep"
           \/ pc'[p] = "sanity" /\ mode[p] = "initrd"
    <3>1. CASE Exec(p) \/ Awake(p)
      BY <1>1, <2>2, <3>1 DEF Exec, Awake
    <3>2. CASE MountTmpfs(p)
      BY <2>2, <3>2 DEF MountTmpfs
    <3>3. CASE MountProc(p)
      <4>1. /\ pc[p] = "mount proc"
            /\ pc'[p] = "gone" \/ pc'[p] = IF mode[p] = "initrd" THEN "sanity" ELSE "opendir"
        BY <2>2, <3>3 DEF MountProc
      <4> QED BY <4>1
    <3>4. CASE SymlinkFails(p)
      BY <2>2, <3>4 DEF SymlinkFails, EndsEarly
    <3>5. CASE Killed(p)
      <4>1. pc[p] \in {"new", "asleep", "mount", "mount proc"} /\ pc'[p] = "gone"
        BY <2>2, <3>5 DEF Killed, Terminated, Alive, PCs
      <4> QED BY <4>1
    <3> QED BY <1>1, <3>1, <3>2, <3>3, <3>4, <3>5
  <2>4. handler[p] = "off"
    BY <2>3
  <2> QED BY <2>1, <2>3, <2>4
<1>2. CASE OpenProc(p)
  <2>1. /\ pc[p] = "opendir" /\ pc'[p] \in {"scan", "decide", "gone"}
        /\ UNCHANGED <<mode, at, found, tries, sampled, strays, root, sigterm, handler>>
    BY <1>0, <1>2 DEF OpenProc, procVars, termVars, traceVars, mountVars
  <2> QED BY <2>1
<1>3. CASE ReadExe(p)
  <2>1. /\ pc[p] = "scan"
        /\ UNCHANGED <<mode, found, tries, sampled, strays, root, sigterm, handler>>
    BY <1>3 DEF ReadExe, procVars, termVars, traceVars, mountVars
  <2>2. \/ pc'[p] \in {"scan", "decide"}
        \/ pc'[p] = "cmdline" /\ at'[p] <= N
    BY <1>0, <1>3 DEF ReadExe
  <2> QED BY <2>1, <2>2
<1>4. CASE ReadCmdline(p)
  <2>1. pc[p] = "cmdline" /\ UNCHANGED <<mode, sampled, root, sigterm, handler>>
    BY <1>4 DEF ReadCmdline, procVars, termVars, mountVars
  <2>2. (pc'[p] = "scan" /\ found' = found) \/ pc'[p] = "decide"
    <3>1. (Goto(p, "scan") /\ UNCHANGED found) \/ Goto(p, "decide")
      BY <1>4 DEF ReadCmdline
    <3> QED BY <1>0, <3>1
  <2> QED BY <2>1, <2>2
<1>5. CASE Decide(p)
  <2>1. /\ pc[p] = "decide"
        /\ UNCHANGED <<mode, at, found, tries, sampled, root, sigterm, handler>>
    BY <1>5 DEF Decide, procVars, termVars, scanVars, traceVars, mountVars
  <2>2. mode[p] \in {"initrd", "collect", "dump", "probe"}
    BY <2>1 DEF TypeInv, Modes
  <2>3. \/ mode[p] = "dump" /\ found[p] # 0 /\ pc'[p] = "attach"
        \/ pc'[p] = "clean" /\ mode[p] # "usleep"
        \/ mode[p] \in {"initrd", "collect"} /\ found[p] = 0 /\ pc'[p] = "files"
        \/ pc'[p] = "gone"
    BY <1>5, <2>2 DEF TypeInv, Decide
  <2> QED BY <2>1, <2>3
<1>6. CASE OpenFiles(p)
  <2>1. pc[p] = "files" /\ UNCHANGED <<mode, at, found, tries, root, sigterm, handler>>
    BY <1>6 DEF OpenFiles, termVars, scanVars, traceVars, mountVars
  <2>2. pc \in [Procs -> PCs]
    BY DEF TypeInv
  <2>3. \/ pc'[p] = "sample" /\ p \in sampled'
        \/ pc'[p] = "gone" /\ sampled' = sampled
    BY <1>6, <2>2 DEF OpenFiles
  <2> QED BY <2>1, <2>3
<1>7. CASE MoveMount(p)
  <2>1. /\ pc[p] = "sample" /\ mode[p] = "initrd"
        /\ UNCHANGED <<mode, at, found, tries, sampled, root, sigterm, handler>>
        /\ root[p] = "system"
    BY <1>7 DEF MoveMount, procVars, termVars, scanVars, traceVars
  <2>2. \/ pc'[p] = "chroot" /\ (handler[p] # "off" => p \in strays')
        \/ pc'[p] = "gone"
    <3>1. \/ Goto(p, "chroot") /\ strays' = IF handler[p] # "off" THEN strays \cup {p}
                                             ELSE strays
          \/ Goto(p, "gone")
      BY <1>7 DEF MoveMount
    <3> QED BY <1>0, <3>1
  <2> QED BY <2>1, <2>2
<1>8. CASE Chroot(p)
  BY <1>8 DEF TypeInv, Chroot, procVars, termVars, scanVars, traceVars, mountVars
<1>9. CASE Attach(p) \/ Waitpid(p) \/ Extract(p) \/ CleanupDev(p)
  <2>1. UNCHANGED <<mode, at, found, tries, sampled, strays, root, handler>>
    BY <1>9 DEF Attach, Waitpid, Extract, CleanupDev, procVars, termVars, scanVars, traceVars,
                mountVars
  <2>2. sigterm[p] => sigterm'[p]
    BY <1>0, <1>9 DEF Attach, Waitpid, Extract, CleanupDev, termVars
  <2>3. /\ pc[p] \in {"attach", "waitpid", "extract", "clean dev"}
        /\ \/ pc'[p] \in {"clean", "clean dev"}
           \/ pc'[p] = "waitpid" /\ tries[p] > 0
           \/ pc'[p] = "extract" /\ pc[p] = "waitpid"
    <3>1. CASE Attach(p)
      BY <1>0, <3>1 DEF Attach
    <3>2. CASE Waitpid(p)
      BY <1>0, <3>2 DEF Waitpid
    <3>3. CASE Extract(p) \/ CleanupDev(p)
      BY <1>0, <3>3 DEF Extract, CleanupDev
    <3> QED BY <1>9, <3>1, <3>2, <3>3
  <2> QED BY <2>1, <2>2, <2>3
<1>10. CASE ExtractFails(p)
  BY <1>10 DEF TypeInv, ExtractFails, procVars, termVars, scanVars, traceVars, mountVars
<1>11. CASE UmountProc(p) \/ UmountTmpfs(p) \/ Exit(p)
  <2>1. UNCHANGED <<mode, at, found, tries, sampled, strays, root, sigterm, handler>>
    BY <1>11 DEF UmountProc, UmountTmpfs, Exit, procVars, termVars, scanVars, traceVars,
                 mountVars
  <2>2. pc[p] \in {"clean", "umount", "exit"} /\ pc'[p] \in {"umount", "exit", "gone"}
    BY <1>0, <1>11 DEF UmountProc, UmountTmpfs, Exit
  <2> QED BY <2>1, <2>2
<1>12. CASE HandlerProc(p) \/ HandlerTmpfs(p)
  <2>1. /\ UNCHANGED <<mode, pc, at, found, tries, sampled, root, sigterm>>
        /\ sigterm[p] /\ pc[p] # "new" /\ (handler[p] = "off" => HandlerSet(p))
    BY <1>12 DEF HandlerProc, HandlerTmpfs, Terminated, Alive, procVars, scanVars, traceVars,
                 mountVars
  <2>2. pc[p] = "chroot" => p \in strays'
    BY <1>12 DEF HandlerProc, HandlerTmpfs, procVars
  <2> QED BY <2>1, <2>2
<1>13. CASE HandlerExit(p)
  BY <1>13 DEF TypeInv, HandlerExit, procVars, termVars, scanVars, mountVars
<1>14. CASE Fails(p)
  <2>1. UNCHANGED <<mode, at, found, sampled, root, sigterm, handler>> /\ pc'[p] = "gone"
    BY <1>14 DEF TypeInv, Fails, EndsEarly, termVars, scanVars, mountVars
  <2> QED BY <2>1
<1>15. CASE SanityCheck(p)
  <2>1. /\ pc[p] = "sanity" /\ pc'[p] \in {"clean", "opendir"}
        /\ UNCHANGED <<at, found, sampled, root, sigterm, handler>>
    BY <1>0, <1>15 DEF SanityCheck, termVars, scanVars, mountVars
  <2>2. mode'[p] \in {"initrd", "collect"}
    <3>1. mode[p] = "initrd" /\ (mode' = mode \/ mode' = [mode EXCEPT ![p] = "collect"])
      BY <1>15, <2>1 DEF SanityCheck
    <3> QED BY <1>0, <3>1
  <2> QED BY <2>1, <2>2
<1> QED BY <1>1, <1>2, <1>3, <1>4, <1>5, <1>6, <1>7, <1>8, <1>9, <1>10, <1>11, <1>12,
           <1>13, <1>14, <1>15
        DEF Step

(* So every step keeps the places of all processes.                         *)
LEMMA PlaceStep ==
  ASSUME TypeInv, TypeInv', PlaceInv, [Next]_vars
  PROVE  PlaceInv'
<1> SUFFICES ASSUME NEW r \in Procs PROVE Place(r)'
  BY DEF PlaceInv
<1>1. Place(r)
  BY DEF PlaceInv
<1>2. ASSUME Same(r) PROVE Place(r)'
  BY <1>1, <1>2 DEF Same, Place, Collecting, Collector, HandlerSet, TypeInv
<1>3. CASE DevTmpfs \/ UNCHANGED vars
  BY <1>3, <1>2 DEF DevTmpfs, vars, Same, procVars, termVars, scanVars, traceVars, mountVars
<1>4. ASSUME NEW p \in Procs, Stop(p) PROVE Place(r)'
  BY <1>4, <1>2 DEF Stop, Same, procVars, termVars, scanVars, mountVars
<1>5. ASSUME NEW p \in Procs, Step(p) PROVE Place(r)'
  <2>1. CASE r = p
    BY <1>1, <1>5, <2>1, OwnPlace
  <2>2. CASE r # p
    BY <1>2, <1>5, <2>2, OthersSame
  <2> QED BY <2>1, <2>2
<1> QED BY <1>3, <1>4, <1>5 DEF Next

(* The steps of a process that has attached to another.                     *)
Tracing == {"waitpid", "extract"}

(* A tracer that keeps to those steps, and to its target, keeps its entry.  *)
LEMMA TraceFrame ==
  ASSUME TypeInv, TraceInv, NEW p \in Procs, UNCHANGED <<tracer, stopped>>,
         \A t \in Procs : t # p => pc'[t] = pc[t] /\ found'[t] = found[t],
         pc[p] \in Tracing => pc'[p] \in Tracing /\ found'[p] = found[p]
  PROVE  TraceInv'
<1> SUFFICES ASSUME NEW q \in Procs, tracer[q] # 0
             PROVE  found'[tracer[q]] = q /\ pc'[tracer[q]] \in Tracing
  BY DEF TraceInv, Tracing, Target
<1>1. tracer[q] \in Procs
  <2>1. tracer[q] \in 0..N /\ tracer[q] # 0
    BY DEF TypeInv
  <2> QED BY <2>1, Bounds DEF Procs
<1>2. Target(tracer[q]) = q /\ pc[tracer[q]] \in Tracing
  BY DEF TraceInv, Tracing
<1> QED BY <1>1, <1>2 DEF Target

(* Attach enters a tracer, Detach and LetGo take it out again, and nothing  *)
(* else touches the entries.                                                *)
LEMMA TraceStep ==
  ASSUME TypeInv, PlaceInv, TraceInv, [Next]_vars
  PROVE  TraceInv'
<1>1. CASE DevTmpfs \/ UNCHANGED vars
  BY <1>1 DEF DevTmpfs, vars, scanVars, traceVars, TraceInv, Target
<1>2. ASSUME NEW p \in Procs, Stop(p) PROVE TraceInv'
  BY <1>2 DEF Stop, procVars, termVars, scanVars, mountVars, TraceInv, Target
<1>3. ASSUME NEW p \in Procs, Step(p) PROVE TraceInv'
  <2> DEFINE Apart == \A t \in Procs : t # p => pc'[t] = pc[t] /\ found'[t] = found[t]
  <2>1. Apart
    BY <1>3, OthersSame DEF Same
  <2>2. ASSUME UNCHANGED <<tracer, stopped>>,
               pc[p] \in Tracing => pc'[p] \in Tracing /\ found'[p] = found[p]
        PROVE  TraceInv'
    BY <2>1, <2>2, TraceFrame
  <2>3. pc \in [Procs -> PCs] /\ found \in [Procs -> 0..N] /\ tracer \in [Procs -> 0..N]
    BY DEF TypeInv
  <2>4. Place(p)
    BY DEF PlaceInv
  <2>5. CASE \/ Exec(p) \/ Awake(p) \/ MountTmpfs(p) \/ MountProc(p) \/ SymlinkFails(p)
             \/ SanityCheck(p) \/ OpenProc(p) \/ ReadExe(p) \/ ReadCmdline(p)
             \/ Decide(p) \/ OpenFiles(p) \/ MoveMount(p) \/ Chroot(p) \/ CleanupDev(p)
             \/ UmountProc(p) \/ UmountTmpfs(p) \/ Exit(p) \/ Killed(p)
    <3>1. UNCHANGED <<tracer, stopped>>
      BY <2>5 DEF Exec, Awake, MountTmpfs, MountProc, SymlinkFails, SanityCheck, OpenProc,
                  ReadExe, ReadCmdline, Decide, OpenFiles, MoveMount, Chroot, CleanupDev,
                  UmountProc, UmountTmpfs, Exit, Killed, traceVars
    <3>2. pc[p] \notin Tracing
      BY <2>5 DEF Exec, Awake, MountTmpfs, MountProc, SymlinkFails, SanityCheck, OpenProc,
                  ReadExe, ReadCmdline, Decide, OpenFiles, MoveMount, Chroot, CleanupDev,
                  UmountProc, UmountTmpfs, Exit, Killed, HandlerSet, Tracing
    <3> QED BY <3>1, <3>2, <2>2
  <2>6. CASE HandlerProc(p) \/ HandlerTmpfs(p)
    <3>1. UNCHANGED <<tracer, stopped, found, pc>>
      BY <2>6 DEF HandlerProc, HandlerTmpfs, scanVars, traceVars
    <3> QED BY <3>1, <2>2
  <2>7. CASE Attach(p)
    <3>1. CASE UNCHANGED tracer
      BY <2>7, <3>1, <2>2 DEF Attach, Tracing
    <3>2. CASE tracer' # tracer
      <4>1. /\ tracer' = [tracer EXCEPT ![Target(p)] = p]
            /\ pc' = [pc EXCEPT ![p] = "waitpid"]
            /\ UNCHANGED <<found, stopped>> /\ pc[p] = "attach"
        BY <2>7, <3>2 DEF Attach, Goto, scanVars
      <4>2. ASSUME NEW q \in Procs, tracer'[q] # 0
            PROVE  found'[tracer'[q]] = q /\ pc'[tracer'[q]] \in Tracing
        <5>1. CASE q = Target(p)
          <6>1. tracer'[q] = p /\ pc'[p] = "waitpid" /\ found'[p] = q
            BY <2>3, <4>1, <5>1 DEF Target
          <6> QED BY <6>1 DEF Tracing
        <5>2. CASE q # Target(p)
          <6>1. tracer'[q] = tracer[q] /\ tracer[q] # 0
            BY <2>3, <4>1, <4>2, <5>2
          <6>2. Target(tracer[q]) = q /\ pc[tracer[q]] \in Tracing
            BY <6>1 DEF TraceInv, Tracing
          <6>3. tracer[q] \in Procs
            BY <2>3, <6>1, Bounds DEF Procs
          <6> QED BY <2>1, <4>1, <6>1, <6>2, <6>3 DEF Target, Tracing
        <5> QED BY <5>1, <5>2
      <4>3. ASSUME NEW q \in stopped' PROVE tracer'[q] # 0
        <5>1. q \in Procs /\ tracer[q] # 0
          BY <4>1, <4>3 DEF TypeInv, TraceInv
        <5>2. p # 0
          BY DEF Procs
        <5> QED BY <2>3, <4>1, <5>1, <5>2
      <4> QED BY <4>2, <4>3 DEF TraceInv, Tracing, Target
    <3> QED BY <3>1, <3>2
  <2>8. CASE Waitpid(p) \/ ExtractFails(p) \/ Extract(p)
    <3>1. CASE Goto(p, "extract") /\ UNCHANGED <<tracer, stopped>>
      BY <3>1, <2>8, <2>3, <2>2 DEF Waitpid, ExtractFails, Extract, Goto, Tracing, scanVars
    <3>2. CASE Detach(p)
      <4>1. UNCHANGED found /\ pc[p] \in Tracing
        BY <2>8 DEF Waitpid, ExtractFails, Extract, Tracing, scanVars
      <4>2. ASSUME NEW q \in Procs, tracer'[q] # 0
            PROVE  found'[tracer'[q]] = q /\ pc'[tracer'[q]] \in Tracing
        <5>1. tracer'[q] = tracer[q] /\ q # Target(p)
          BY <2>3, <3>2, <4>2 DEF Detach
        <5>2. Target(tracer[q]) = q /\ pc[tracer[q]] \in Tracing
          BY <4>2, <5>1 DEF TraceInv, Tracing
        <5>3. tracer[q] \in Procs
          BY <2>3, <4>2, <5>1, Bounds DEF Procs
        <5> QED BY <2>1, <4>1, <5>1, <5>2, <5>3 DEF Target
      <4>3. ASSUME NEW q \in stopped' PROVE tracer'[q] # 0
        BY <2>3, <3>2, <4>3 DEF Detach, TraceInv, TypeInv
      <4> QED BY <4>2, <4>3 DEF TraceInv, Tracing, Target
    <3> QED BY <2>8, <3>1, <3>2 DEF Waitpid, ExtractFails, Extract
  <2>9. CASE Fails(p) \/ HandlerExit(p)
    <3>1. /\ tracer' = [q \in Procs |-> IF tracer[q] = p THEN 0 ELSE tracer[q]]
          /\ stopped' = {q \in stopped : tracer[q] # p} /\ UNCHANGED found
      BY <2>9 DEF Fails, HandlerExit, LetGo, scanVars
    <3>2. ASSUME NEW q \in Procs, tracer'[q] # 0
          PROVE  found'[tracer'[q]] = q /\ pc'[tracer'[q]] \in Tracing
      <4>1. tracer'[q] = tracer[q] /\ tracer[q] # p /\ tracer[q] # 0
        BY <3>1, <3>2
      <4>2. Target(tracer[q]) = q /\ pc[tracer[q]] \in Tracing
        BY <4>1 DEF TraceInv, Tracing
      <4>3. tracer[q] \in Procs
        BY <2>3, <4>1, Bounds DEF Procs
      <4> QED BY <2>1, <3>1, <4>1, <4>2, <4>3 DEF Target
    <3>3. ASSUME NEW q \in stopped' PROVE tracer'[q] # 0
      <4>1. q \in Procs /\ q \in stopped /\ tracer[q] # p
        BY <3>1, <3>3 DEF TypeInv
      <4> QED BY <3>1, <4>1 DEF TraceInv
    <3> QED BY <3>2, <3>3 DEF TraceInv, Tracing, Target
  <2> QED BY <1>3, <2>5, <2>6, <2>7, <2>8, <2>9 DEF Step
<1> QED BY <1>1, <1>2, <1>3 DEF Next

(* A collector comes past another that is there only by passing over it.    *)
LEMMA ComesPast ==
  ASSUME TypeInv, NEW p \in Procs, Place(p), Step(p), NEW q \in Procs, q # p,
         Collector(p), Collector(q), Alive(q), Alive(p)', Passed(p, q)'
  PROVE  (Alive(p) /\ Passed(p, q)) \/ <<p, q>> \in missed'
<1>0. q \in Nat /\ q >= 1 /\ q <= N /\ N \in Nat
  BY Bounds DEF Procs
<1>1. /\ pc \in [Procs -> PCs] /\ at \in [Procs -> 1..N + 1] /\ found \in [Procs -> 0..N]
      /\ q \in Nat /\ q >= 1 /\ q <= N /\ N \in Nat
  BY <1>0 DEF TypeInv
<1> USE DEF Passed, Goto, Collecting, Alive
<1>2. CASE Exec(p)
  BY <1>1, <1>2 DEF Exec, Place, Beginning, scanVars
<1>3. CASE OpenProc(p)
  <2>1. CASE Goto(p, "scan") /\ UNCHANGED at
    BY <1>1, <1>3, <2>1 DEF OpenProc
  <2>2. CASE PassOver(p, Procs)
    BY <2>2 DEF PassOver
  <2> QED BY <1>3, <2>1, <2>2 DEF OpenProc
<1>4. CASE ReadExe(p)
  <2>1. pc[p] = "scan"
    BY <1>4 DEF ReadExe
  <2>2. CASE at[p] > N
    BY <1>1, <2>1, <2>2
  <2>3. CASE ~ (at[p] > N) /\ UNCHANGED at
    <3>1. pc'[p] \in {"scan", "cmdline"}
      BY <1>1, <1>4, <2>1, <2>3 DEF ReadExe
    <3> QED BY <2>1, <2>3, <3>1
  <2>4. CASE ~ (at[p] > N) /\ at' # at
    <3>1. at' = [at EXCEPT ![p] = @ + 1] /\ PassOver(p, {at[p]}) /\ UNCHANGED pc
      BY <1>4, <2>4 DEF ReadExe
    <3>2. at[p] + 1 > q
      BY <1>1, <2>1, <3>1
    <3>3. CASE at[p] = q
      BY <3>1, <3>3 DEF PassOver
    <3>4. CASE at[p] # q
      BY <1>1, <2>1, <3>2, <3>4
    <3> QED BY <3>3, <3>4
  <2> QED BY <2>2, <2>3, <2>4
<1>5. CASE ReadCmdline(p)
  <2>1. pc[p] = "cmdline"
    BY <1>5 DEF ReadCmdline
  <2>2. CASE UNCHANGED found
    <3>1. CASE at' # at
      <4>1. /\ mode[at[p]] = "usleep" /\ at' = [at EXCEPT ![p] = @ + 1]
            /\ pc' = [pc EXCEPT ![p] = "scan"]
        BY <1>5, <3>1 DEF ReadCmdline
      <4>2. at[p] # q
        BY <4>1 DEF Collector
      <4> QED BY <1>1, <2>1, <4>1, <4>2
    <3>2. CASE at' = at
      BY <1>1, <1>5, <2>1, <2>2, <3>2 DEF ReadCmdline
    <3> QED BY <3>1, <3>2
  <2>3. CASE found' # found
    <3>1. /\ UNCHANGED at /\ found' = [found EXCEPT ![p] = at[p]]
          /\ pc' = [pc EXCEPT ![p] = "decide"]
      BY <1>5, <2>3 DEF ReadCmdline
    <3> QED BY <1>1, <2>1, <3>1
  <2> QED BY <2>2, <2>3
<1>6. CASE Decide(p)
  <2>1. pc[p] = "decide" /\ UNCHANGED <<at, found>>
    BY <1>6 DEF Decide, scanVars
  <2>2. pc'[p] = IF found[p] # 0 THEN "gone" ELSE "files"
    BY <1>1, <1>6 DEF Decide, Collector
  <2> QED BY <2>1, <2>2
<1>7. CASE OpenFiles(p) \/ MoveMount(p) \/ Chroot(p)
  BY <1>7 DEF OpenFiles, MoveMount, Chroot
<1>8. CASE \/ Awake(p) \/ MountTmpfs(p) \/ MountProc(p) \/ Attach(p) \/ Waitpid(p)
           \/ ExtractFails(p) \/ Extract(p) \/ CleanupDev(p) \/ UmountProc(p)
           \/ UmountTmpfs(p) \/ SanityCheck(p)
  <2>1. UNCHANGED at
    BY <1>8 DEF Awake, MountTmpfs, MountProc, Attach, Waitpid, ExtractFails, Extract,
                CleanupDev, UmountProc, UmountTmpfs, SanityCheck, scanVars
  <2>2. pc[p] # "gone" /\ pc[p] # "new"
    BY <1>8 DEF Awake, MountTmpfs, MountProc, Attach, Waitpid, ExtractFails, Extract,
                CleanupDev, UmountProc, UmountTmpfs, SanityCheck
  <2>3. pc'[p] \notin {"decide", "files", "sample", "chroot"}
    BY <1>1, <1>8 DEF Awake, MountTmpfs, MountProc, Attach, Waitpid, ExtractFails, Extract,
                      CleanupDev, UmountProc, UmountTmpfs, SanityCheck
  <2> QED BY <1>1, <2>1, <2>2, <2>3
<1>9. CASE Exit(p) \/ Killed(p) \/ SymlinkFails(p) \/ Fails(p) \/ HandlerExit(p)
  BY <1>1, <1>9 DEF Exit, Killed, SymlinkFails, Fails, EndsEarly, HandlerExit
<1>10. CASE HandlerProc(p) \/ HandlerTmpfs(p)
  BY <1>10 DEF HandlerProc, HandlerTmpfs, Terminated, scanVars
<1> QED BY <1>2, <1>3, <1>4, <1>5, <1>6, <1>7, <1>8, <1>9, <1>10 DEF Step

(* What a search has passed over stays passed over.                         *)
LEMMA MissedGrows == ASSUME [Next]_vars PROVE missed \subseteq missed'
<1>1. CASE DevTmpfs \/ UNCHANGED vars
  BY <1>1 DEF DevTmpfs, vars, scanVars
<1>2. ASSUME NEW p \in Procs, Stop(p) PROVE missed \subseteq missed'
  BY <1>2 DEF Stop, scanVars
<1>3. ASSUME NEW p \in Procs, Step(p) PROVE missed \subseteq missed'
  <2>1. CASE OpenProc(p) \/ ReadExe(p) \/ ReadCmdline(p)
    BY <2>1 DEF OpenProc, ReadExe, ReadCmdline, PassOver
  <2>2. CASE ~ (OpenProc(p) \/ ReadExe(p) \/ ReadCmdline(p))
    BY <1>3, <2>2
       DEF Step, Exec, Awake, MountTmpfs, MountProc, SymlinkFails, Fails, SanityCheck,
           Decide, OpenFiles, MoveMount, Chroot, Attach, Waitpid, ExtractFails, Extract,
           CleanupDev, UmountProc, UmountTmpfs, Exit, Killed, HandlerProc, HandlerTmpfs,
           HandlerExit, scanVars
  <2> QED BY <2>1, <2>2
<1> QED BY <1>1, <1>2, <1>3 DEF Next

(* When two collectors that are there have come past each other, the one    *)
(* that did so last has passed over the first.                              *)
LEMMA SearchStep ==
  ASSUME TypeInv, PlaceInv, SearchInv, [Next]_vars
  PROVE  SearchInv'
<1> DEFINE Side(p, q) == Collector(p) /\ Alive(p) /\ Passed(p, q)
<1> SUFFICES ASSUME NEW p \in Procs, NEW q \in Procs, p # q, Side(p, q)', Side(q, p)'
             PROVE  <<p, q>> \in missed' \/ <<q, p>> \in missed'
  BY DEF SearchInv
<1>1. ASSUME Side(p, q), Side(q, p) PROVE <<p, q>> \in missed' \/ <<q, p>> \in missed'
  BY <1>1, MissedGrows DEF SearchInv
<1>2. ASSUME NEW r \in Procs, NEW o \in Procs, Same(r), Side(r, o)' PROVE Side(r, o)
  BY <1>2 DEF Same, Collector, Alive, Passed, Collecting
<1>3. ASSUME NEW r \in Procs, NEW o \in Procs, r # o, Step(r), Side(r, o)', Side(o, r)
      PROVE  Side(r, o) \/ <<r, o>> \in missed'
  <2>1. Collector(r)
    <3>1. CASE SanityCheck(r)
      BY <1>3, <3>1 DEF SanityCheck, PlaceInv, Place, Collector
    <3>2. CASE ~ SanityCheck(r)
      <4>1. mode' = mode
        BY <1>3, <3>2
           DEF Step, Exec, Awake, MountTmpfs, MountProc, SymlinkFails, Fails, OpenProc,
               ReadExe, ReadCmdline, Decide, OpenFiles, MoveMount, Chroot, Attach, Waitpid,
               ExtractFails, Extract, CleanupDev, UmountProc, UmountTmpfs, Exit, Killed,
               HandlerProc, HandlerTmpfs, HandlerExit, procVars
      <4> QED BY <1>3, <4>1 DEF Collector
    <3> QED BY <3>1, <3>2
  <2>2. Place(r)
    BY DEF PlaceInv
  <2> QED BY <1>3, <2>1, <2>2, ComesPast
<1>4. CASE DevTmpfs \/ UNCHANGED vars
  <2>1. Same(p) /\ Same(q)
    BY <1>4 DEF DevTmpfs, vars, Same, procVars, termVars, scanVars, traceVars, mountVars
  <2> QED BY <1>1, <1>2, <2>1
<1>5. ASSUME NEW s \in Procs, Stop(s) PROVE <<p, q>> \in missed' \/ <<q, p>> \in missed'
  <2>1. Same(p) /\ Same(q)
    BY <1>5 DEF Stop, Same, procVars, termVars, scanVars, mountVars
  <2> QED BY <1>1, <1>2, <2>1
<1>6. ASSUME NEW s \in Procs, Step(s) PROVE <<p, q>> \in missed' \/ <<q, p>> \in missed'
  <2>1. CASE s # p /\ s # q
    BY <1>1, <1>2, <1>6, <2>1, OthersSame
  <2>2. CASE s = p
    <3>1. Side(q, p)
      BY <1>2, <1>6, <2>2, OthersSame
    <3> HIDE DEF Side
    <3> QED BY <1>1, <1>3, <1>6, <2>2, <3>1
  <2>3. CASE s = q
    <3>1. Side(p, q)
      BY <1>2, <1>6, <2>3, OthersSame
    <3> HIDE DEF Side
    <3> QED BY <1>1, <1>3, <1>6, <2>3, <3>1
  <2> QED BY <2>1, <2>2, <2>3
<1> QED BY <1>4, <1>5, <1>6 DEF Next

-----------------------------------------------------------------------------

(* A step that leaves a bare tmpfs is by its cleaner, or finds it so while  *)
(* another is its cleaner.                                                  *)
LEMMA BareStep ==
  ASSUME TypeInv, NEW s \in Procs, Place(s), Step(s), Bare'
  PROVE  BareCleaner(s)' \/ (Bare /\ ~ BareCleaner(s))
<1>1. /\ pc \in [Procs -> PCs] /\ root[s] \in {"system", "dev"}
      /\ handler \in [Procs -> Handlers]
      /\ "proc on tmpfs" \in mounts => "tmpfs" \in mounts
  BY DEF TypeInv
<1> USE DEF Bare, BareCleaner, Goto, Leaves
<1>2. CASE MountTmpfs(s)
  <2>1. CASE Goto(s, "mount proc")
    BY <1>1, <2>1
  <2>2. CASE UNCHANGED mounts /\ Goto(s, "gone")
    <3>1. pc[s] = "mount" /\ handler[s] = "off" /\ UNCHANGED strays
      BY <1>2 DEF MountTmpfs, Place, HandlerSet, procVars
    <3> QED BY <2>2, <3>1
  <2> QED BY <1>2, <2>1, <2>2 DEF MountTmpfs
<1>3. CASE MountProc(s)
  <2>1. \/ mounts' = mounts \cup {ProcLayer}
        \/ "tmpfs" \notin mounts /\ mounts' = mounts
    BY <1>3 DEF MountProc, Mountable
  <2>2. ProcLayer # "tmpfs" /\ ("tmpfs" \in mounts => ProcLayer = "proc on tmpfs")
    BY DEF ProcLayer
  <2> QED BY <2>1, <2>2
<1>4. CASE SymlinkFails(s) \/ Fails(s) \/ Killed(s)
  BY <1>4 DEF SymlinkFails, Fails, EndsEarly, Killed
<1>5. CASE MoveMount(s)
  <2>1. \/ mounts' = (mounts \ {"tmpfs", "proc on tmpfs"}) \cup {"dev tmpfs"}
        \/ mounts' = mounts /\ "tmpfs" \notin mounts
    BY <1>5 DEF MoveMount
  <2> QED BY <2>1
<1>6. CASE CleanupDev(s)
  <2>1. /\ pc[s] = "clean dev" /\ pc'[s] = "clean"
        /\ UNCHANGED <<mode, found, strays, handler, root>>
        /\ mounts \cap {"tmpfs", "proc on tmpfs"} = mounts' \cap {"tmpfs", "proc on tmpfs"}
    BY <1>1, <1>6 DEF CleanupDev, procVars, termVars, scanVars
  <2> QED BY <2>1 DEF Alive
<1>7. CASE UmountProc(s)
  <2>1. pc'[s] = "umount" /\ UNCHANGED handler /\ s \notin sampled /\ ~ sigterm[s]
    BY <1>1, <1>7 DEF UmountProc, Place, Runs, termVars
  <2>2. handler'[s] # "exit"
    BY <2>1 DEF Place
  <2> QED BY <2>1, <2>2
<1>8. CASE UmountTmpfs(s)
  BY <1>1, <1>8 DEF UmountTmpfs, WithoutTmpfs, Place
<1>9. CASE HandlerProc(s)
  <2>1. /\ pc[s] \notin {"mount proc", "new", "gone"} /\ handler[s] = "off"
        /\ handler'[s] = "tmpfs" /\ UNCHANGED <<pc, root>>
    BY <1>1, <1>9 DEF HandlerProc, HandlerSet, Terminated, Alive
  <2>2. CASE root[s] = "system"
    BY <2>1, <2>2 DEF Alive
  <2>3. CASE root[s] = "dev"
    <3>1. mounts' = mounts /\ pc[s] = "sample"
      BY <1>9, <2>1, <2>3 DEF HandlerProc, WithoutProc, Place
    <3>2. s \in strays => s \in strays'
      BY <1>9 DEF HandlerProc
    <3> QED BY <2>1, <2>3, <3>1, <3>2
  <2> QED BY <1>1, <2>2, <2>3
<1>10. CASE HandlerTmpfs(s)
  <2>1. root[s] = "dev" /\ mounts' = mounts \ {"dev tmpfs"}
    BY <1>1, <1>10 DEF HandlerTmpfs, WithoutTmpfs
  <2>2. /\ pc[s] \notin {"mount proc", "umount", "new", "gone"}
        /\ UNCHANGED <<pc, strays>>
    BY <1>10, <2>1 DEF HandlerTmpfs, Terminated, Alive, Place, procVars
  <2> QED BY <2>1, <2>2
<1>11. CASE HandlerExit(s)
  <2>1. /\ handler[s] = "exit" /\ pc[s] \notin {"mount proc", "gone"}
        /\ UNCHANGED <<mounts, strays>>
    BY <1>11 DEF HandlerExit, Terminated, Alive, Place, HandlerSet, mountVars, procVars
  <2> QED BY <2>1
<1>12. CASE Exit(s)
  <2>1. pc[s] = "exit" /\ ~ sigterm[s] /\ UNCHANGED <<mounts, strays>>
    BY <1>12 DEF Exit, Runs, Place, mountVars, procVars
  <2>2. handler[s] = "off"
    BY <2>1 DEF Place
  <2> QED BY <2>1, <2>2
<1>13. CASE Chroot(s)
  <2>1. pc[s] = "chroot" /\ UNCHANGED <<mounts, strays>>
    BY <1>13 DEF Chroot, procVars
  <2>2. handler[s] = "off" \/ s \in strays
    BY <2>1 DEF Place
  <2> QED BY <2>1, <2>2
<1>14. CASE \/ Exec(s) \/ Awake(s) \/ SanityCheck(s) \/ OpenProc(s) \/ ReadExe(s)
            \/ ReadCmdline(s) \/ Decide(s) \/ OpenFiles(s) \/ Attach(s) \/ Waitpid(s)
            \/ ExtractFails(s) \/ Extract(s)
  <2>1. UNCHANGED <<mounts, strays>>
    BY <1>14 DEF Exec, Awake, SanityCheck, OpenProc, ReadExe, ReadCmdline, Decide, OpenFiles,
                 Attach, Waitpid, ExtractFails, Extract, mountVars, procVars
  <2>2. pc[s] \notin {"mount proc", "umount", "gone"}
    BY <1>14 DEF Exec, Awake, SanityCheck, OpenProc, ReadExe, ReadCmdline, Decide, OpenFiles,
                 Attach, Waitpid, ExtractFails, Extract
  <2>3. (Runs(s) /\ s \notin sampled) \/ pc[s] = "new"
    BY <1>14 DEF Exec, Awake, SanityCheck, OpenProc, ReadExe, ReadCmdline, Decide, OpenFiles,
                 Attach, Waitpid, ExtractFails, Extract, Place
  <2>4. handler[s] = "off"
    BY <2>3 DEF Runs, Place
  <2> QED BY <2>1, <2>2, <2>4
<1> QED BY <1>2, <1>3, <1>4, <1>5, <1>6, <1>7, <1>8, <1>9, <1>10, <1>11, <1>12, <1>13, <1>14
        DEF Step

(* The same of a tmpfs with proc in it.                                     *)
LEMMA FullStep ==
  ASSUME TypeInv, NEW s \in Procs, Place(s), Step(s), Full'
  PROVE  FullCleaner(s)' \/ (Full /\ ~ FullCleaner(s))
<1>1. /\ pc \in [Procs -> PCs] /\ root[s] \in {"system", "dev"}
      /\ handler \in [Procs -> Handlers]
      /\ "proc on tmpfs" \in mounts => "tmpfs" \in mounts
  BY DEF TypeInv
<1> USE DEF Full, FullCleaner, Goto, Leaves
<1>2. CASE Full
  <2>1. ProcLayer = "proc on tmpfs"
    BY <1>1, <1>2 DEF ProcLayer
  <2>2. CASE OpenProc(s)
    <3>1. root[s] # "dev"
      BY <2>2 DEF OpenProc, Place
    <3>2. ProcSeen(s)
      BY <1>2, <2>1, <3>1 DEF ProcSeen
    <3>3. UNCHANGED handler /\ strays' = strays /\ pc[s] = "opendir" /\ pc'[s] = "scan"
      BY <1>1, <2>2, <3>2 DEF OpenProc, procVars, termVars
    <3> QED BY <1>2, <3>3
  <2>3. CASE ReadExe(s) \/ ReadCmdline(s) \/ SanityCheck(s)
    <3>1. /\ pc[s] \in {"scan", "cmdline", "sanity"} /\ UNCHANGED <<handler, strays>>
          /\ pc'[s] \in {"scan", "cmdline", "decide", "clean", "opendir"}
      BY <1>1, <2>3 DEF ReadExe, ReadCmdline, SanityCheck, termVars, procVars
    <3> QED BY <1>2, <3>1
  <2>4. CASE Decide(s)
    <3>1. pc[s] = "decide" /\ UNCHANGED <<mode, found, handler, strays>>
      BY <2>4 DEF Decide, scanVars, procVars, termVars
    <3>2. mode[s] \in {"initrd", "collect", "dump", "probe"}
      BY <3>1 DEF TypeInv, Modes, Place
    <3>3. \/ pc'[s] \in {"attach", "clean", "files"}
          \/ pc'[s] = "gone" /\ mode[s] # "dump" /\ found[s] # 0
      BY <1>1, <2>4, <3>2 DEF Decide, Collector
    <3> QED BY <1>2, <3>1, <3>3 DEF LeftMounts
  <2>5. CASE OpenFiles(s)
    <3>1. root[s] = "system" /\ UNCHANGED <<root, handler, strays>>
      BY <1>1, <2>5 DEF OpenFiles, Place, mountVars, termVars
    <3>2. ProcSeen(s)
      BY <1>2, <2>1, <3>1 DEF ProcSeen
    <3>3. pc[s] = "files" /\ pc'[s] = "sample"
      BY <1>1, <2>5, <3>2 DEF OpenFiles
    <3> QED BY <1>2, <3>1, <3>3
  <2>6. CASE MoveMount(s)
    <3>1. mounts' = (mounts \ {"tmpfs", "proc on tmpfs"}) \cup {"dev tmpfs"}
      BY <1>1, <1>2, <2>6 DEF MoveMount
    <3> QED BY <3>1
  <2>7. CASE \/ Attach(s) \/ Waitpid(s) \/ ExtractFails(s) \/ Extract(s)
             \/ CleanupDev(s) \/ UmountProc(s)
    <3>1. UNCHANGED <<handler, strays>>
      BY <2>7 DEF Attach, Waitpid, ExtractFails, Extract, CleanupDev, UmountProc, termVars,
                  procVars
    <3>2. /\ pc[s] \in {"attach", "waitpid", "extract", "clean dev", "clean"}
          /\ pc'[s] \in {"attach", "waitpid", "extract", "clean dev", "clean", "umount"}
      BY <1>1, <2>7 DEF Attach, Waitpid, ExtractFails, Extract, CleanupDev, UmountProc
    <3> QED BY <1>2, <3>1, <3>2
  <2>8. CASE UmountTmpfs(s)
    BY <2>8 DEF UmountTmpfs, WithoutTmpfs, Place
  <2>9. CASE HandlerProc(s)
    <3>1. root[s] = "dev"
      BY <1>1, <2>1, <2>9 DEF HandlerProc, WithoutProc
    <3>2. pc[s] = "sample" /\ UNCHANGED <<pc, root, strays>>
      BY <2>9, <3>1 DEF HandlerProc, Place, Terminated, Alive
    <3> QED BY <1>2, <3>1, <3>2
  <2>10. CASE HandlerTmpfs(s)
    <3>1. root[s] = "dev"
      BY <1>1, <2>10 DEF HandlerTmpfs, WithoutTmpfs
    <3>2. pc[s] = "sample" /\ UNCHANGED <<pc, root, strays>>
      BY <2>10, <3>1 DEF HandlerTmpfs, Place, Terminated, Alive, procVars
    <3> QED BY <1>2, <3>1, <3>2
  <2>11. CASE Killed(s) \/ Fails(s) \/ SymlinkFails(s)
    BY <2>11 DEF Killed, Fails, SymlinkFails, EndsEarly
  <2>12. CASE HandlerExit(s)
    <3>1. handler[s] = "exit" /\ pc[s] # "gone" /\ UNCHANGED strays
      BY <2>12 DEF HandlerExit, Terminated, Alive, procVars
    <3> QED BY <1>2, <3>1
  <2>13. CASE MountProc(s)
    <3>1. /\ pc[s] = "mount proc" /\ UNCHANGED strays
      BY <2>13 DEF MountProc, procVars
    <3> QED BY <1>2, <3>1
  <2>14. CASE \/ Exec(s) \/ Awake(s) \/ MountTmpfs(s) \/ Chroot(s) \/ Exit(s)
    <3>1. pc[s] \in {"new", "asleep", "mount", "chroot", "exit"} /\ UNCHANGED strays
      BY <2>14 DEF Exec, Awake, MountTmpfs, Chroot, Exit, procVars
    <3> QED BY <1>2, <3>1
  <2> QED BY <2>2, <2>3, <2>4, <2>5, <2>6, <2>7, <2>8, <2>9, <2>10, <2>11, <2>12, <2>13, <2>14
          DEF Step
<1>3. CASE ~ Full
  <2>1. CASE MountProc(s)
    <3>1. handler[s] = "off" /\ UNCHANGED handler
      BY <2>1 DEF MountProc, Place, HandlerSet, termVars
    <3>2. pc'[s] \in {"sanity", "opendir"} \/ mounts' = mounts
      BY <1>1, <2>1 DEF MountProc
    <3> QED BY <1>3, <3>1, <3>2
  <2>2. CASE SymlinkFails(s)
    BY <2>2 DEF SymlinkFails, EndsEarly
  <2>3. CASE MoveMount(s)
    <3>1. mounts' \subseteq mounts \cup {"dev tmpfs"}
      BY <2>3 DEF MoveMount
    <3> QED BY <1>3, <3>1
  <2>4. CASE \/ MountTmpfs(s) \/ CleanupDev(s) \/ UmountProc(s) \/ UmountTmpfs(s)
             \/ HandlerProc(s) \/ HandlerTmpfs(s)
    <3>1. mounts' \subseteq mounts \cup {"tmpfs"}
      BY <2>4 DEF MountTmpfs, CleanupDev, UmountProc, UmountTmpfs, HandlerProc,
                  HandlerTmpfs, WithoutProc, WithoutTmpfs
    <3> QED BY <1>3, <3>1
  <2>5. CASE \/ Exec(s) \/ Awake(s) \/ SanityCheck(s) \/ OpenProc(s) \/ ReadExe(s)
             \/ ReadCmdline(s) \/ Decide(s) \/ OpenFiles(s) \/ Chroot(s) \/ Attach(s)
             \/ Waitpid(s) \/ ExtractFails(s) \/ Extract(s) \/ Exit(s) \/ Killed(s)
             \/ Fails(s) \/ HandlerExit(s)
    <3>1. UNCHANGED mounts
      BY <2>5
         DEF Exec, Awake, SanityCheck, OpenProc, ReadExe, ReadCmdline, Decide, OpenFiles,
             Chroot, Attach, Waitpid, ExtractFails, Extract, Exit, Killed, Fails, HandlerExit,
             mountVars
    <3> QED BY <1>3, <3>1
  <2> QED BY <2>1, <2>2, <2>3, <2>4, <2>5 DEF Step
<1> QED BY <1>2, <1>3

(* And of one that has been moved to /dev.                                  *)
LEMMA DevStep ==
  ASSUME TypeInv, NEW s \in Procs, Place(s), Step(s), "dev tmpfs" \in mounts'
  PROVE  DevCleaner(s)' \/ ("dev tmpfs" \in mounts /\ ~ DevCleaner(s))
<1>1. /\ pc \in [Procs -> PCs] /\ root \in [Procs -> {"system", "dev"}]
      /\ handler \in [Procs -> Handlers]
  BY DEF TypeInv
<1> USE DEF DevCleaner, Goto
<1>2. CASE MoveMount(s)
  <2>1. pc[s] = "sample" /\ root[s] = "system" /\ UNCHANGED <<root, handler>>
    BY <1>2 DEF MoveMount, termVars
  <2>2. \/ pc'[s] = "chroot" /\ (handler[s] # "off" => s \in strays')
        \/ mounts' = mounts /\ strays' = strays
    BY <1>1, <1>2 DEF MoveMount
  <2> QED BY <2>1, <2>2
<1>3. CASE Chroot(s)
  <2>1. /\ pc[s] = "chroot" /\ pc'[s] = "sample" /\ root'[s] = "dev"
        /\ UNCHANGED <<handler, strays>>
    BY <1>1, <1>3 DEF Chroot, procVars, termVars
  <2>2. handler[s] = "off" \/ s \in strays
    BY <2>1 DEF Place
  <2> QED BY <2>1, <2>2
<1>4. CASE HandlerProc(s)
  <2>1. /\ handler[s] = "off" /\ handler'[s] = "tmpfs" /\ UNCHANGED <<pc, root>>
        /\ mounts' \subseteq mounts /\ strays \subseteq strays'
        /\ pc[s] = "chroot" => s \in strays'
    BY <1>1, <1>4 DEF HandlerProc, WithoutProc
  <2> QED BY <2>1
<1>5. CASE HandlerTmpfs(s)
  <2>1. handler[s] = "tmpfs" /\ UNCHANGED <<pc, root, strays>> /\ root[s] # "dev"
    BY <1>5 DEF HandlerTmpfs, WithoutTmpfs, procVars
  <2>2. mounts' \subseteq mounts
    BY <1>5 DEF HandlerTmpfs, WithoutTmpfs
  <2> QED BY <2>1, <2>2
<1>6. CASE HandlerExit(s)
  <2>1. handler[s] = "exit" /\ UNCHANGED <<mounts, strays>>
    BY <1>6 DEF HandlerExit, mountVars, procVars
  <2> QED BY <2>1
<1>7. CASE Killed(s) \/ Fails(s) \/ SymlinkFails(s)
  BY <1>7 DEF Killed, Fails, SymlinkFails, EndsEarly
<1>8. CASE \/ MountTmpfs(s) \/ MountProc(s) \/ CleanupDev(s) \/ UmountProc(s)
           \/ UmountTmpfs(s)
  <2>1. pc[s] \in {"mount", "mount proc", "clean dev", "clean", "umount"}
    BY <1>8 DEF MountTmpfs, MountProc, CleanupDev, UmountProc, UmountTmpfs
  <2>2. mounts' \subseteq mounts \cup {"tmpfs", "proc on tmpfs", "proc on root"}
    BY <1>8 DEF MountTmpfs, MountProc, CleanupDev, UmountProc, UmountTmpfs, ProcLayer,
                WithoutProc, WithoutTmpfs
  <2>3. UNCHANGED strays
    BY <1>8 DEF MountTmpfs, MountProc, CleanupDev, UmountProc, UmountTmpfs, procVars
  <2> QED BY <2>1, <2>2, <2>3
<1>9. CASE \/ Exec(s) \/ Awake(s) \/ SanityCheck(s) \/ OpenProc(s) \/ ReadExe(s)
           \/ ReadCmdline(s) \/ Decide(s) \/ OpenFiles(s) \/ Attach(s) \/ Waitpid(s)
           \/ ExtractFails(s) \/ Extract(s) \/ Exit(s)
  <2>1. pc[s] \notin {"chroot", "sample"}
    BY <1>9 DEF Exec, Awake, SanityCheck, OpenProc, ReadExe, ReadCmdline, Decide, OpenFiles,
                Attach, Waitpid, ExtractFails, Extract, Exit
  <2>2. UNCHANGED <<mounts, strays>>
    BY <1>9 DEF Exec, Awake, SanityCheck, OpenProc, ReadExe, ReadCmdline, Decide, OpenFiles,
                Attach, Waitpid, ExtractFails, Extract, Exit, mountVars, procVars
  <2> QED BY <2>1, <2>2
<1> QED BY <1>2, <1>3, <1>4, <1>5, <1>6, <1>7, <1>8, <1>9 DEF Step

(* A process that a step leaves alone goes on cleaning up.                  *)
LEMMA CleanersStay ==
  ASSUME TypeInv, NEW p \in Procs, Same(p)
  PROVE  /\ BareCleaner(p) => BareCleaner(p)'
         /\ FullCleaner(p) => FullCleaner(p)'
         /\ DevCleaner(p) => DevCleaner(p)'
BY DEF Same, BareCleaner, FullCleaner, DevCleaner, Leaves, LeftMounts, Alive

(* Whatever a step mounts, moves or unmounts, a cleaner is there for it.    *)
LEMMA MountStep ==
  ASSUME TypeInv, PlaceInv, MountInv, [Next]_vars
  PROVE  MountInv'
<1>1. ASSUME UNCHANGED mounts, \A p \in Procs : Same(p)
      PROVE  MountInv'
  BY <1>1, CleanersStay DEF MountInv, Bare, Full
<1>2. CASE DevTmpfs \/ UNCHANGED vars
  BY <1>1, <1>2 DEF DevTmpfs, vars, Same, procVars, termVars, scanVars, traceVars, mountVars
<1>3. ASSUME NEW p \in Procs, Stop(p) PROVE MountInv'
  BY <1>1, <1>3 DEF Stop, Same, procVars, termVars, scanVars, mountVars
<1>4. ASSUME NEW s \in Procs, Step(s) PROVE MountInv'
  <2>1. Place(s)
    BY DEF PlaceInv
  <2>2. ASSUME NEW p \in Procs, p # s
        PROVE  /\ BareCleaner(p) => BareCleaner(p)'
               /\ FullCleaner(p) => FullCleaner(p)'
               /\ DevCleaner(p) => DevCleaner(p)'
    BY <1>4, <2>2, OthersSame, CleanersStay
  <2>3. ASSUME Bare' PROVE \E p \in Procs : BareCleaner(p)'
    BY <1>4, <2>1, <2>2, <2>3, BareStep DEF MountInv
  <2>4. ASSUME Full' PROVE \E p \in Procs : FullCleaner(p)'
    BY <1>4, <2>1, <2>2, <2>4, FullStep DEF MountInv
  <2>5. ASSUME "dev tmpfs" \in mounts' PROVE \E p \in Procs : DevCleaner(p)'
    BY <1>4, <2>1, <2>2, <2>5, DevStep DEF MountInv
  <2> QED BY <2>3, <2>4, <2>5 DEF MountInv
<1> QED BY <1>2, <1>3, <1>4 DEF Next

-----------------------------------------------------------------------------

(* The five parts together are an invariant of the specification.           *)
LEMMA Invariance == Spec => []IInv
<1>1. Init => IInv
  <2> SUFFICES ASSUME Init PROVE IInv
    OBVIOUS
  <2>1. mode \in [Procs -> Modes]
    BY CastsAssumption DEF Init, Procs, Modes
  <2>2. TypeInv
    <3>1. 1 \in 1..N + 1 /\ 0 \in 0..N /\ Tries \in 0..Tries
      BY Bounds
    <3> QED BY <2>1, <3>1 DEF Init, TypeInv, PCs, Handlers
  <2>3. PlaceInv
    BY DEF Init, PlaceInv, Place, Collecting, Beginning
  <2>4. TraceInv /\ SearchInv /\ MountInv
    BY DEF Init, TraceInv, SearchInv, MountInv, Bare, Full, Alive
  <2> QED BY <2>2, <2>3, <2>4 DEF IInv
<1>2. IInv /\ [Next]_vars => IInv'
  BY TypeStep, PlaceStep, TraceStep, SearchStep, MountStep DEF IInv
<1> QED BY <1>1, <1>2, PTL DEF Spec

(* A process that has stopped has a live tracer that looks at it, whatever  *)
(* is killed, retried or exits meanwhile, and nothing is mounted in a tmpfs *)
(* that has gone.                                                           *)
THEOREM ProcessesTyped == Spec => []TypeOK
<1>1. IInv => TypeOK
  BY DEF IInv, TypeInv, TraceInv, TypeOK
<1> QED BY <1>1, Invariance, PTL

(* Whatever the number of processes that mount, search, dump, clean up and  *)
(* are killed at the same time, two collectors get past their searches only *)
(* when one had no /proc to find the other in.                              *)
THEOREM CollectorsExclude == Spec => []OneCollector
<1>1. IInv => OneCollector
  <2> SUFFICES ASSUME IInv, NEW p \in Procs, NEW q \in Procs,
                      Collecting(p), Collecting(q), p # q
               PROVE  <<p, q>> \in missed \/ <<q, p>> \in missed
    BY DEF OneCollector
  <2>1. Collector(p) /\ Collector(q)
    BY DEF IInv, PlaceInv, Place
  <2>2. Alive(p) /\ Alive(q)
    BY DEF Alive, Collecting
  <2>3. Passed(p, q) /\ Passed(q, p)
    BY DEF Passed
  <2> QED BY <2>1, <2>2, <2>3 DEF IInv, SearchInv
<1> QED BY <1>1, Invariance, PTL

(* And whatever order they end in, the mounts end with the last of them,    *)
(* but for the cases that LeftMounts names.                                 *)
THEOREM MountsCleaned == Spec => []NothingLeft
<1>1. IInv => NothingLeft
  <2> SUFFICES ASSUME IInv, \A p \in Procs : pc[p] = "gone",
                      mounts \ {"proc on root"} # {}
               PROVE  \E p \in Procs : LeftMounts(p)
    BY DEF NothingLeft
  <2>1. Bare \/ Full \/ "dev tmpfs" \in mounts
    BY DEF IInv, TypeInv, Mounts, Bare, Full
  <2>2. CASE Bare
    BY <2>2 DEF IInv, MountInv, BareCleaner, Leaves, LeftMounts, Alive
  <2>3. CASE Full
    BY <2>3 DEF IInv, MountInv, FullCleaner, Leaves, LeftMounts
  <2>4. CASE "dev tmpfs" \in mounts
    <3>1. PICK p \in Procs : DevCleaner(p)
      BY <2>4 DEF IInv, MountInv
    <3> QED BY <3>1 DEF DevCleaner, LeftMounts
  <2> QED BY <2>1, <2>2, <2>3, <2>4
<1> QED BY <1>1, Invariance, PTL
===============================================================================
