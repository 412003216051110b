------------------------------ MODULE ProcTable ------------------------------
(***************************************************************************)
(* The table of processes kept by the netlink pid scanner: an array of     *)
(* Process records sorted by pid (collector/tasks-netlink.c, lines 60-193) *)
(* and the replay of queued kernel events over it (lines 210-248).         *)
(*                                                                         *)
(* The table is a sequence; threads is the zero-terminated array of a      *)
(* Process, without its terminator.  Positions count from 1 here and from  *)
(* 0 in the code.                                                          *)
(***************************************************************************)
EXTENDS SequencesExt

Process(pid, parent) == [pid |-> pid, parent |-> parent, threads |-> <<>>]

(* Mutant: the search stops at the pid itself. *)
SlotAtEqual(ps, pid) ==
  CHOOSE i \in 1..Len(ps) + 1 :
    /\ i <= Len(ps) => ps[i].pid >= pid
    /\ \A k \in 1..i - 1 : ps[k].pid < pid

(* Where the search for a pid stops: past the end when the pid is above the *)
(* last one (the append shortcut), else at the first higher pid.            *)
Slot(ps, pid) ==
  IF Len(ps) > 0 /\ pid > ps[Len(ps)].pid
    THEN Len(ps) + 1
    ELSE CHOOSE i \in 1..Len(ps) + 1 :
           /\ i <= Len(ps) => ps[i].pid > pid
           /\ \A k \in 1..i - 1 : ps[k].pid <= pid

Known(ps, pid) == Slot(ps, pid) > 1 /\ ps[Slot(ps, pid) - 1].pid = pid

(* Mutant: the new entry is left zeroed. *)
CreatedBlank(ps, pid) ==
  IF Known(ps, pid) THEN ps ELSE InsertAt(ps, Slot(ps, pid), Process(0, 0))

(* find_pid_an_idx with create set: the table afterwards, then the index. *)
Created(ps, pid) ==
  IF Known(ps, pid) THEN ps ELSE InsertAt(ps, Slot(ps, pid), Process(pid, 0))

IndexOf(ps, pid) ==
  IF Known(ps, pid) THEN Slot(ps, pid) - 1 ELSE Slot(ps, pid)

InsertPid(ps, pid, parent) ==
  [Created(ps, pid) EXCEPT ![IndexOf(ps, pid)].parent = parent]

InsertPidThread(ps, pid, thread) ==
  LET i == IndexOf(ps, pid)
      old == Created(ps, pid)
  IN  IF Contains(old[i].threads, thread)
        THEN old
        ELSE [old EXCEPT ![i].threads = Append(@, thread)]

RemovePid(ps, pid) ==
  IF Known(ps, pid) THEN RemoveAt(ps, Slot(ps, pid) - 1) ELSE ps

(* The compaction loop of remove_pid_thread: j moves on only where an entry *)
(* equals the thread, so entry i is overwritten by the entry numbered by    *)
(* the matches so far, itself perhaps overwritten already.                  *)
Compacted(t, thread) ==
  LET j(i) == 1 + Cardinality({k \in 1..i : t[k] = thread})
      new[i \in 1..Len(t)] == IF j(i) < i THEN new[j(i)] ELSE t[j(i)]
      kept == IF ToSet(t) \subseteq {thread} THEN Len(t) - 1 ELSE Len(t)
  IN  [i \in 1..kept |-> new[i]]

RemovePidThread(ps, pid, thread) ==
  IF ~ Known(ps, pid) \/ ps[Slot(ps, pid) - 1].threads = <<>>
    THEN ps
    ELSE [ps EXCEPT ![Slot(ps, pid) - 1].threads = Compacted(@, thread)]

-----------------------------------------------------------------------------

(* A proc_event of the kernel's connector.  For a fork, pid and tgid are    *)
(* the child's and ptgid is the parent's process.                           *)
Event(what, pid, tgid, ptgid) ==
  [what |-> what, pid |-> pid, tgid |-> tgid, ptgid |-> ptgid]

(* Mutant: the exit of a process is taken for that of a thread. *)
ReplayedNoExit(ps, ev) ==
  CASE ev.what = "FORK" /\ ev.pid = ev.tgid -> InsertPid(ps, ev.tgid, ev.ptgid)
    [] ev.what = "FORK" /\ ev.pid # ev.tgid -> InsertPidThread(ps, ev.tgid, ev.pid)
    [] ev.what = "EXIT" -> RemovePidThread(ps, ev.tgid, ev.pid)

(* One turn of the switch in netlink_pid_scanner_restart. *)
Replayed(ps, ev) ==
  CASE ev.what = "FORK" /\ ev.pid = ev.tgid -> InsertPid(ps, ev.tgid, ev.ptgid)
    [] ev.what = "FORK" /\ ev.pid # ev.tgid -> InsertPidThread(ps, ev.tgid, ev.pid)
    [] ev.what = "EXIT" /\ ev.pid = ev.tgid -> RemovePid(ps, ev.pid)
    [] ev.what = "EXIT" /\ ev.pid # ev.tgid -> RemovePidThread(ps, ev.tgid, ev.pid)

(* Strictly ascending pids: what the append shortcut, the search and the    *)
(* shifts rely on, and what they must preserve.                             *)
SortedByPid(ps) == \A i, k \in 1..Len(ps) : i < k => ps[i].pid < ps[k].pid

PidsOf(ps) == {ps[i].pid : i \in 1..Len(ps)}
=============================================================================
