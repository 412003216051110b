------------------------- MODULE NetlinkScannerProofs -------------------------
(***************************************************************************)
(* The netlink pid scanner for any task ids, socket queue and number of    *)
(* events: its table stays sorted and well formed, its two threads hand    *)
(* every event over exactly once and in order, which is the safety of      *)
(* EventHandover, a parent is logged before the table knows it, a pass     *)
(* returns the table, and as long as the socket drops nothing the table    *)
(* catches up with /proc.                                                  *)
(*                                                                         *)
(* The inductive invariant has a part for each of these.  They rest on     *)
(* what the events look like and who holds the mutex (the buffer may be    *)
(* taken and cleared in two steps only because no event can be stored      *)
(* between them), and the last one on a relation between a process, the    *)
(* last event about it that the main thread has not replayed, and how far  *)
(* the bootstrap has come.                                                 *)
(*                                                                         *)
(* First, the operations of the process table keep it sorted by pid, for   *)
(* every table and every event: the search finds its place, and the two    *)
(* shifts make and close one gap.  The lemmas say which processes and      *)
(* parents the table has after each event, and that the thread lists hold  *)
(* threads and nothing else, which for the loop of remove_pid_thread takes *)
(* a look at its two indices.                                              *)
(***************************************************************************)
EXTENDS NetlinkScanner, SequenceFacts, FiniteSetTheorems

(* ------------------------------------------------------------------------ *)
(* The process table                                                        *)

(* A Process whose thread list is any of lists. *)
Entry(lists) == [pid : Nat, parent : Nat, threads : lists]

(* A table: a sequence of entries, sorted. *)
Table(ps) == (\E lists : ps \in Seq(Entry(lists))) /\ SortedByPid(ps)

(* The entries of a table, and the pids in them. *)
LEMMA EntriesOfTable ==
  ASSUME NEW lists, NEW ps \in Seq(Entry(lists))
  PROVE  /\ Len(ps) \in Nat
         /\ \A k \in 1..Len(ps) : ps[k] \in Entry(lists) /\ ps[k].pid \in Nat
<1>1. Len(ps) \in Nat
  BY LenProperties
<1>2. \A k \in 1..Len(ps) : ps[k] \in Entry(lists)
  BY ElementOfSeq
<1> QED BY <1>1, <1>2 DEF Entry

(* The search stops inside the table or one past its end, and on a sorted   *)
(* table it separates the lower and equal pids from the higher ones.        *)
LEMMA SlotSeparates ==
  ASSUME NEW lists, NEW ps \in Seq(Entry(lists)), NEW pid \in Nat,
         SortedByPid(ps)
  PROVE  /\ Slot(ps, pid) \in 1..Len(ps) + 1
         /\ \A k \in 1..Slot(ps, pid) - 1 : ps[k].pid <= pid
         /\ \A k \in Slot(ps, pid)..Len(ps) : ps[k].pid > pid
<1> DEFINE Above == {i \in 1..Len(ps) + 1 : i <= Len(ps) => ps[i].pid > pid}
           Stop(i) == /\ i <= Len(ps) => ps[i].pid > pid
                      /\ \A k \in 1..i - 1 : ps[k].pid <= pid
<1>1. Len(ps) \in Nat /\ \A k \in 1..Len(ps) : ps[k].pid \in Nat
  BY EntriesOfTable
<1>2. CASE Len(ps) > 0 /\ pid > ps[Len(ps)].pid
  <2>1. Slot(ps, pid) = Len(ps) + 1
    BY <1>2 DEF Slot
  <2>2. ASSUME NEW k \in 1..Len(ps) PROVE ps[k].pid <= pid
    <3>1. k < Len(ps) => ps[k].pid < ps[Len(ps)].pid
      BY <1>1 DEF SortedByPid
    <3> QED BY <3>1, <1>1, <1>2
  <2> QED BY <2>1, <2>2, <1>1
<1>3. CASE ~ (Len(ps) > 0 /\ pid > ps[Len(ps)].pid)
  <2>1. PICK m \in Above : \A k \in Above : m <= k
    <3>1. Len(ps) + 1 \in Above /\ Above \subseteq Nat
      BY <1>1
    <3> QED BY <3>1, LeastNatural
  <2>2. ASSUME NEW k \in 1..m - 1 PROVE ps[k].pid <= pid
    <3>1. k \in 1..Len(ps) /\ k < m
      BY <1>1
    <3>2. k \notin Above
      BY <3>1, <2>1, <1>1
    <3> QED BY <3>1, <3>2, <1>1
  <2>3. m \in 1..Len(ps) + 1 /\ Stop(m)
    BY <2>2
  <2>4. Slot(ps, pid) = CHOOSE j \in 1..Len(ps) + 1 : Stop(j)
    BY <1>3 DEF Slot
  <2>5. Slot(ps, pid) \in 1..Len(ps) + 1 /\ Stop(Slot(ps, pid))
    <3> HIDE DEF Stop
    <3> QED BY <2>3, <2>4
  <2>6. ASSUME NEW k \in Slot(ps, pid)..Len(ps) PROVE ps[k].pid > pid
    <3>1. Slot(ps, pid) < k => ps[Slot(ps, pid)].pid < ps[k].pid
      BY <2>5, <1>1 DEF SortedByPid
    <3>2. Slot(ps, pid) \in 1..Len(ps)
      BY <2>5, <1>1
    <3> QED BY <3>1, <3>2, <2>5, <1>1
  <2> QED BY <2>5, <2>6
<1> QED BY <1>2, <1>3

(* find_pid_an_idx with create set returns the index of the pid in a table  *)
(* that has it.                                                             *)
LEMMA CreatedIsTable ==
  ASSUME NEW ps, Table(ps), NEW pid \in Nat
  PROVE  \E lists :
           /\ Created(ps, pid) \in Seq(Entry(lists))
           /\ SortedByPid(Created(ps, pid))
           /\ IndexOf(ps, pid) \in 1..Len(Created(ps, pid))
           /\ Created(ps, pid)[IndexOf(ps, pid)].pid = pid
<1>1. PICK old : ps \in Seq(Entry(old))
  BY DEF Table
<1> DEFINE lists == old \cup {<<>>}
           at == Slot(ps, pid)
           new == Process(pid, 0)
<1>2. ps \in Seq(Entry(lists))
  <2>1. Entry(old) \subseteq Entry(lists)
    BY DEF Entry
  <2> QED BY <1>1, <2>1, SeqMonotonic
<1>3. new \in Entry(lists) /\ new.pid = pid
  BY DEF Process, Entry
<1>4. SortedByPid(ps)
  BY DEF Table
<1>5. /\ Len(ps) \in Nat
      /\ \A k \in 1..Len(ps) : ps[k] \in Entry(lists) /\ ps[k].pid \in Nat
  BY <1>2, EntriesOfTable
<1>6. /\ at \in 1..Len(ps) + 1
      /\ \A k \in 1..at - 1 : ps[k].pid <= pid
      /\ \A k \in at..Len(ps) : ps[k].pid > pid
  BY <1>2, <1>4, SlotSeparates
<1> HIDE DEF lists, new
<1>7. CASE Known(ps, pid)
  <2>1. Created(ps, pid) = ps /\ IndexOf(ps, pid) = at - 1
    BY <1>7 DEF Created, IndexOf
  <2>2. at > 1 /\ ps[at - 1].pid = pid
    BY <1>7 DEF Known
  <2> QED BY <2>1, <2>2, <1>2, <1>4, <1>5, <1>6
<1>8. CASE ~ Known(ps, pid)
  <2> DEFINE made == InsertAt(ps, at, new)
  <2>1. Created(ps, pid) = made /\ IndexOf(ps, pid) = at
    BY <1>8 DEF Created, IndexOf, new
  <2>2. /\ made \in Seq(Entry(lists)) /\ Len(made) = Len(ps) + 1
        /\ \A k \in 1..Len(ps) + 1 :
             made[k] = IF k < at THEN ps[k] ELSE IF k = at THEN new ELSE ps[k - 1]
    <3> HIDE DEF at
    <3>1. /\ InsertAt(ps, at, new) \in Seq(Entry(lists))
          /\ Len(InsertAt(ps, at, new)) = Len(ps) + 1
      BY <1>2, <1>3, <1>6, InsertAtShifts
    <3>2. \A k \in 1..Len(ps) + 1 : InsertAt(ps, at, new)[k] =
            IF k < at THEN ps[k] ELSE IF k = at THEN new ELSE ps[k - 1]
      BY <1>2, <1>3, <1>6, InsertAtShifts
    <3> QED BY <3>1, <3>2
  <2> HIDE DEF made
  <2>3. \A k \in 1..at - 1 : ps[k].pid < pid
    <3>1. \A k \in 1..at - 1 : k # at - 1 => ps[k].pid < ps[at - 1].pid
      BY <1>4, <1>5, <1>6 DEF SortedByPid
    <3>2. at > 1 => ps[at - 1].pid # pid
      BY <1>8 DEF Known
    <3> QED BY <3>1, <3>2, <1>5, <1>6
  <2>4. SortedByPid(made)
    <3> SUFFICES ASSUME NEW i \in 1..Len(ps) + 1, NEW k \in 1..Len(ps) + 1, i < k
                 PROVE  made[i].pid < made[k].pid
      BY <2>2 DEF SortedByPid
    <3>1. CASE k < at
      <4>1. made[k] = ps[k] /\ made[i] = ps[i]
        BY <3>1, <2>2, <1>5, <1>6
      <4>2. i \in 1..Len(ps) /\ k \in 1..Len(ps)
        BY <3>1, <1>5, <1>6
      <4> QED BY <4>1, <4>2, <1>4 DEF SortedByPid
    <3>2. CASE k = at
      BY <3>2, <2>2, <2>3, <1>3, <1>5, <1>6
    <3>3. CASE k > at /\ i < at
      <4>1. made[k] = ps[k - 1] /\ made[i] = ps[i] /\ i < k - 1
        BY <3>3, <2>2, <1>5, <1>6
      <4>2. i \in 1..Len(ps) /\ k - 1 \in 1..Len(ps)
        BY <3>3, <1>5, <1>6
      <4> QED BY <4>1, <4>2, <1>4 DEF SortedByPid
    <3>4. CASE k > at /\ i = at
      <4>1. made[k] = ps[k - 1] /\ made[i] = new /\ k - 1 \in at..Len(ps)
        BY <3>4, <2>2, <1>5, <1>6
      <4> QED BY <4>1, <1>3, <1>5, <1>6
    <3>5. CASE i > at
      <4>1. made[k] = ps[k - 1] /\ made[i] = ps[i - 1]
        BY <3>5, <2>2, <1>5, <1>6
      <4>2. i - 1 \in 1..Len(ps) /\ k - 1 \in 1..Len(ps) /\ i - 1 < k - 1
        BY <3>5, <1>5, <1>6
      <4> QED BY <4>1, <4>2, <1>4 DEF SortedByPid
    <3> QED BY <3>1, <3>2, <3>3, <3>4, <3>5, <1>5, <1>6
  <2>5. at \in 1..Len(made) /\ made[at].pid = pid
    BY <2>2, <1>3, <1>5, <1>6
  <2> QED BY <2>1, <2>2, <2>4, <2>5
<1> QED BY <1>7, <1>8

(* Changing another field of an entry than its pid keeps a table a table. *)
LEMMA ReplacedIsTable ==
  ASSUME NEW lists, NEW ps \in Seq(Entry(lists)), SortedByPid(ps),
         NEW i \in 1..Len(ps), NEW e \in Entry(lists), e.pid = ps[i].pid
  PROVE  Table([ps EXCEPT ![i] = e])
<1>1. /\ [ps EXCEPT ![i] = e] \in Seq(Entry(lists))
      /\ Len([ps EXCEPT ![i] = e]) = Len(ps)
      /\ \A k \in 1..Len(ps) : [ps EXCEPT ![i] = e][k] = IF k = i THEN e ELSE ps[k]
  BY ExceptSeq
<1>2. SortedByPid([ps EXCEPT ![i] = e])
  BY <1>1 DEF SortedByPid
<1> QED BY <1>1, <1>2 DEF Table

(* insert_pid keeps the table sorted. *)
LEMMA InsertPidKeepsTable ==
  ASSUME NEW ps, Table(ps), NEW pid \in Nat, NEW parent \in Nat
  PROVE  Table(InsertPid(ps, pid, parent))
<1> DEFINE new == Created(ps, pid)
           i == IndexOf(ps, pid)
<1>1. PICK lists : /\ new \in Seq(Entry(lists)) /\ SortedByPid(new)
                   /\ i \in 1..Len(new)
  BY CreatedIsTable
<1>2. InsertPid(ps, pid, parent) = [new EXCEPT ![i] = [new[i] EXCEPT !.parent = parent]]
  BY DEF InsertPid
<1> HIDE DEF new, i
<1>3. new[i] \in Entry(lists)
  BY <1>1, ElementOfSeq
<1> DEFINE e == [new[i] EXCEPT !.parent = parent]
<1>4. e \in Entry(lists) /\ e.pid = new[i].pid
  BY <1>3 DEF Entry
<1>5. InsertPid(ps, pid, parent) = [new EXCEPT ![i] = e]
  BY <1>2
<1> HIDE DEF e
<1>6. Table([new EXCEPT ![i] = e])
  BY <1>1, <1>4, ReplacedIsTable
<1> QED BY <1>5, <1>6

(* Giving an entry any other thread list keeps a table a table. *)
LEMMA ThreadsReplaced ==
  ASSUME NEW lists, NEW ps \in Seq(Entry(lists)), SortedByPid(ps),
         NEW i \in 1..Len(ps), NEW threads
  PROVE  Table([ps EXCEPT ![i] = [ps[i] EXCEPT !.threads = threads]])
<1> DEFINE more == lists \cup {threads}
<1>1. Entry(lists) \subseteq Entry(more)
  BY DEF Entry
<1>2. ps \in Seq(Entry(more))
  BY <1>1, SeqMonotonic
<1>3. ps[i] \in Entry(lists)
  BY ElementOfSeq
<1>4. /\ [ps[i] EXCEPT !.threads = threads] \in Entry(more)
      /\ [ps[i] EXCEPT !.threads = threads].pid = ps[i].pid
  BY <1>3 DEF Entry
<1> HIDE DEF more
<1> QED BY <1>2, <1>4, ReplacedIsTable

(* insert_pid_thread keeps the table sorted, whatever it does to the thread *)
(* list of its entry.                                                       *)
LEMMA InsertPidThreadKeepsTable ==
  ASSUME NEW ps, Table(ps), NEW pid \in Nat, NEW thread
  PROVE  Table(InsertPidThread(ps, pid, thread))
<1> DEFINE old == Created(ps, pid)
           i == IndexOf(ps, pid)
           longer == Append(old[i].threads, thread)
<1>1. PICK lists : /\ old \in Seq(Entry(lists)) /\ SortedByPid(old)
                   /\ i \in 1..Len(old)
  BY CreatedIsTable
<1>2. \/ InsertPidThread(ps, pid, thread) = old
      \/ InsertPidThread(ps, pid, thread) =
           [old EXCEPT ![i] = [old[i] EXCEPT !.threads = longer]]
  BY DEF InsertPidThread
<1> HIDE DEF old, i, longer
<1>3. Table(old)
  BY <1>1 DEF Table
<1>4. Table([old EXCEPT ![i] = [old[i] EXCEPT !.threads = longer]])
  BY <1>1, ThreadsReplaced
<1> QED BY <1>2, <1>3, <1>4

(* find_pid_an_idx without create finds the index of a pid that is there. *)
LEMMA KnownIndex ==
  ASSUME NEW lists, NEW ps \in Seq(Entry(lists)), NEW pid \in Nat,
         SortedByPid(ps), Known(ps, pid)
  PROVE  Slot(ps, pid) - 1 \in 1..Len(ps) /\ Len(ps) \in Nat
<1>1. Len(ps) \in Nat
  BY LenProperties
<1>2. Slot(ps, pid) \in 1..Len(ps) + 1
  BY SlotSeparates
<1>3. Slot(ps, pid) > 1
  BY DEF Known
<1> QED BY <1>1, <1>2, <1>3

(* remove_pid keeps the table sorted. *)
LEMMA RemovePidKeepsTable ==
  ASSUME NEW ps, Table(ps), NEW pid \in Nat
  PROVE  Table(RemovePid(ps, pid))
<1>1. PICK lists : ps \in Seq(Entry(lists)) /\ SortedByPid(ps)
  BY DEF Table
<1> DEFINE i == Slot(ps, pid) - 1
<1>2. CASE ~ Known(ps, pid)
  BY <1>2 DEF RemovePid
<1>3. CASE Known(ps, pid)
  <2>1. i \in 1..Len(ps) /\ Len(ps) \in Nat
    BY <1>1, <1>3, KnownIndex
  <2>2. RemovePid(ps, pid) = RemoveAt(ps, i)
    BY <1>3 DEF RemovePid
  <2> HIDE DEF i
  <2>3. /\ RemoveAt(ps, i) \in Seq(Entry(lists))
        /\ Len(RemoveAt(ps, i)) = Len(ps) - 1
        /\ \A k \in 1..Len(ps) - 1 :
             RemoveAt(ps, i)[k] = IF k < i THEN ps[k] ELSE ps[k + 1]
    BY <1>1, <2>1, RemoveAtShifts
  <2>4. ASSUME NEW j \in 1..Len(ps) - 1, NEW k \in 1..Len(ps) - 1, j < k
        PROVE  RemoveAt(ps, i)[j].pid < RemoveAt(ps, i)[k].pid
    <3> DEFINE from(m) == IF m < i THEN m ELSE m + 1
    <3>1. from(j) \in 1..Len(ps) /\ from(k) \in 1..Len(ps) /\ from(j) < from(k)
      BY <2>1, <2>4
    <3>2. RemoveAt(ps, i)[j] = ps[from(j)] /\ RemoveAt(ps, i)[k] = ps[from(k)]
      BY <2>3
    <3> HIDE DEF from
    <3> QED BY <3>1, <3>2, <1>1 DEF SortedByPid
  <2>5. SortedByPid(RemoveAt(ps, i))
    BY <2>3, <2>4 DEF SortedByPid
  <2> QED BY <2>2, <2>3, <2>5 DEF Table
<1> QED BY <1>2, <1>3

(* remove_pid_thread keeps the table sorted, although its compaction loop   *)
(* may leave any thread list behind.                                        *)
LEMMA RemovePidThreadKeepsTable ==
  ASSUME NEW ps, Table(ps), NEW pid \in Nat, NEW thread
  PROVE  Table(RemovePidThread(ps, pid, thread))
<1>1. PICK lists : ps \in Seq(Entry(lists)) /\ SortedByPid(ps)
  BY DEF Table
<1> DEFINE i == Slot(ps, pid) - 1
           fewer == Compacted(ps[i].threads, thread)
<1>2. CASE ~ Known(ps, pid) \/ ps[i].threads = <<>>
  BY <1>2 DEF RemovePidThread
<1>3. CASE ~ (~ Known(ps, pid) \/ ps[i].threads = <<>>)
  <2>1. i \in 1..Len(ps)
    BY <1>1, <1>3, KnownIndex
  <2>2. RemovePidThread(ps, pid, thread) =
          [ps EXCEPT ![i] = [ps[i] EXCEPT !.threads = fewer]]
    BY <1>3 DEF RemovePidThread
  <2> HIDE DEF i, fewer
  <2>3. Table([ps EXCEPT ![i] = [ps[i] EXCEPT !.threads = fewer]])
    BY <1>1, <2>1, ThreadsReplaced
  <2> QED BY <2>2, <2>3
<1> QED BY <1>2, <1>3

(* The events the replay meets. *)
ReplayEvents(Ids) ==
  [what : {"FORK", "EXIT"}, pid : Ids, tgid : Ids, ptgid : Ids \cup {0}]

(* Whatever event is replayed, whether or not the table agrees with it, the *)
(* table stays sorted: insert_pid, insert_pid_thread, remove_pid and        *)
(* remove_pid_thread all preserve it.                                       *)
THEOREM ReplayKeepsTable ==
  ASSUME NEW Ids, Ids \subseteq Nat, NEW ps, Table(ps), NEW e \in ReplayEvents(Ids)
  PROVE  Table(Replayed(ps, e))
<1>1. /\ e.what \in {"FORK", "EXIT"} /\ e.pid \in Nat /\ e.tgid \in Nat
      /\ e.ptgid \in Nat
  <2>1. /\ e.what \in {"FORK", "EXIT"} /\ e.pid \in Ids /\ e.tgid \in Ids
        /\ e.ptgid \in Ids \/ e.ptgid = 0
    BY DEF ReplayEvents
  <2>2. 0 \in Nat /\ \A x \in Ids : x \in Nat
    OBVIOUS
  <2> QED BY <2>1, <2>2
<1>2. CASE e.what = "FORK" /\ e.pid = e.tgid
  BY <1>1, <1>2, InsertPidKeepsTable DEF Replayed
<1>3. CASE e.what = "FORK" /\ e.pid # e.tgid
  BY <1>1, <1>3, InsertPidThreadKeepsTable DEF Replayed
<1>4. CASE e.what = "EXIT" /\ e.pid = e.tgid
  BY <1>1, <1>4, RemovePidKeepsTable DEF Replayed
<1>5. CASE e.what = "EXIT" /\ e.pid # e.tgid
  BY <1>1, <1>5, RemovePidThreadKeepsTable DEF Replayed
<1> QED BY <1>1, <1>2, <1>3, <1>4, <1>5
-----------------------------------------------------------------------------

(* What a table says: its pids, and the parent of each. *)
ParentPairs(ps) == {<<ps[i].pid, ps[i].parent>> : i \in 1..Len(ps)}

(* On a sorted table the search finds a pid exactly when it is there. *)
LEMMA KnownIsThere ==
  ASSUME NEW ps, Table(ps), NEW pid \in Nat
  PROVE  Known(ps, pid) <=> pid \in PidsOf(ps)
<1>1. PICK lists : ps \in Seq(Entry(lists)) /\ SortedByPid(ps)
  BY DEF Table
<1>2. Len(ps) \in Nat /\ \A k \in 1..Len(ps) : ps[k].pid \in Nat
  BY <1>1, EntriesOfTable
<1>3. /\ Slot(ps, pid) \in 1..Len(ps) + 1
      /\ \A k \in 1..Slot(ps, pid) - 1 : ps[k].pid <= pid
      /\ \A k \in Slot(ps, pid)..Len(ps) : ps[k].pid > pid
  BY <1>1, SlotSeparates
<1> DEFINE at == Slot(ps, pid)
<1>4. ASSUME NEW k \in 1..Len(ps), ps[k].pid = pid
      PROVE  at > 1 /\ ps[at - 1].pid = pid
  <2>1. k \in 1..at - 1 /\ at - 1 \in 1..Len(ps)
    BY <1>2, <1>3, <1>4
  <2>2. k # at - 1 => ps[k].pid < ps[at - 1].pid
    BY <1>1, <1>2, <2>1 DEF SortedByPid
  <2>3. ps[at - 1].pid <= pid
    BY <1>2, <1>3, <2>1
  <2>4. ps[at - 1].pid \in Nat
    BY <1>2, <2>1
  <2>5. k = at - 1
    BY <1>4, <2>2, <2>3, <2>4
  <2>6. at > 1
    BY <1>2, <1>3, <2>1
  <2> QED BY <1>4, <2>5, <2>6
<1>5. ASSUME Known(ps, pid) PROVE pid \in PidsOf(ps)
  <2>1. at - 1 \in 1..Len(ps) /\ ps[at - 1].pid = pid
    BY <1>2, <1>3, <1>5 DEF Known
  <2> QED BY <2>1 DEF PidsOf
<1> QED BY <1>4, <1>5 DEF Known, PidsOf

(* find_pid_an_idx with create set adds the pid, with parent 0, and nothing *)
(* else.                                                                    *)
LEMMA CreatedContents ==
  ASSUME NEW ps, Table(ps), NEW pid \in Nat
  PROVE  /\ PidsOf(Created(ps, pid)) = PidsOf(ps) \cup {pid}
         /\ ParentPairs(Created(ps, pid)) \subseteq ParentPairs(ps) \cup {<<pid, 0>>}
<1>1. PICK old : ps \in Seq(Entry(old)) /\ SortedByPid(ps)
  BY DEF Table
<1>2. CASE Known(ps, pid)
  BY <1>2, KnownIsThere DEF Created
<1>3. CASE ~ Known(ps, pid)
  <2> DEFINE lists == old \cup {<<>>}
             at == Slot(ps, pid)
             new == Process(pid, 0)
             made == InsertAt(ps, at, new)
  <2>1. ps \in Seq(Entry(lists))
    <3>1. Entry(old) \subseteq Entry(lists)
      BY DEF Entry
    <3> QED BY <1>1, <3>1, SeqMonotonic
  <2>2. new \in Entry(lists) /\ new.pid = pid /\ new.parent = 0
    BY DEF Process, Entry
  <2>3. Len(ps) \in Nat /\ at \in 1..Len(ps) + 1
    BY <1>1, EntriesOfTable, SlotSeparates
  <2>4. Created(ps, pid) = made
    BY <1>3 DEF Created
  <2> HIDE DEF lists, new, at
  <2>5. /\ Len(made) = Len(ps) + 1
        /\ \A k \in 1..Len(ps) + 1 :
             made[k] = IF k < at THEN ps[k] ELSE IF k = at THEN new ELSE ps[k - 1]
    <3>1. Len(InsertAt(ps, at, new)) = Len(ps) + 1
      BY <2>1, <2>2, <2>3, InsertAtShifts
    <3>2. \A k \in 1..Len(ps) + 1 : InsertAt(ps, at, new)[k] =
            IF k < at THEN ps[k] ELSE IF k = at THEN new ELSE ps[k - 1]
      BY <2>1, <2>2, <2>3, InsertAtShifts
    <3> QED BY <3>1, <3>2
  <2> HIDE DEF made
  <2>6. ASSUME NEW k \in 1..Len(made)
        PROVE  made[k] = new \/ \E j \in 1..Len(ps) : made[k] = ps[j]
    <3>1. CASE k < at
      BY <2>3, <2>5, <3>1
    <3>2. CASE k > at
      <4>1. made[k] = ps[k - 1] /\ k - 1 \in 1..Len(ps)
        BY <2>3, <2>5, <3>2
      <4> QED BY <4>1
    <3> QED BY <2>3, <2>5, <3>1, <3>2
  <2>7. ASSUME NEW j \in 1..Len(ps)
        PROVE  \E k \in 1..Len(made) : made[k] = ps[j]
    <3>1. CASE j < at
      BY <2>3, <2>5, <3>1
    <3>2. CASE j >= at
      <4>1. made[j + 1] = ps[j] /\ j + 1 \in 1..Len(made)
        BY <2>3, <2>5, <3>2
      <4> QED BY <4>1
    <3> QED BY <2>3, <3>1, <3>2
  <2>8. at \in 1..Len(made) /\ made[at] = new
    BY <2>3, <2>5
  <2>9. PidsOf(made) = PidsOf(ps) \cup {pid}
    <3>1. ASSUME NEW k \in 1..Len(made) PROVE made[k].pid \in PidsOf(ps) \cup {pid}
      BY <2>2, <2>6 DEF PidsOf
    <3>2. ASSUME NEW j \in 1..Len(ps) PROVE ps[j].pid \in PidsOf(made)
      BY <2>7 DEF PidsOf
    <3>3. pid \in PidsOf(made)
      BY <2>2, <2>8 DEF PidsOf
    <3> QED BY <3>1, <3>2, <3>3 DEF PidsOf
  <2>10. ParentPairs(made) \subseteq ParentPairs(ps) \cup {<<pid, 0>>}
    BY <2>2, <2>6 DEF ParentPairs
  <2> QED BY <2>4, <2>9, <2>10
<1> QED BY <1>2, <1>3

(* Changing another field of an entry than its pid keeps the pids. *)
LEMMA ReplacedContents ==
  ASSUME NEW lists, NEW ps \in Seq(Entry(lists)), NEW i \in 1..Len(ps),
         NEW e, e.pid = ps[i].pid
  PROVE  /\ PidsOf([ps EXCEPT ![i] = e]) = PidsOf(ps)
         /\ ParentPairs([ps EXCEPT ![i] = e])
              \subseteq ParentPairs(ps) \cup {<<e.pid, e.parent>>}
<1>1. Len(ps) \in Nat /\ DOMAIN ps = 1..Len(ps) /\ ps = [k \in 1..Len(ps) |-> ps[k]]
  BY LenProperties
<1> DEFINE new == [ps EXCEPT ![i] = e]
<1>2. /\ Len(new) = Len(ps)
      /\ \A k \in 1..Len(ps) : new[k] = IF k = i THEN e ELSE ps[k]
  BY <1>1
<1> HIDE DEF new
<1>3. PidsOf(new) = PidsOf(ps)
  BY <1>2 DEF PidsOf
<1>4. ParentPairs(new) \subseteq ParentPairs(ps) \cup {<<e.pid, e.parent>>}
  BY <1>2 DEF ParentPairs
<1> QED BY <1>3, <1>4 DEF new

(* insert_pid adds the pid with its parent. *)
LEMMA InsertPidContents ==
  ASSUME NEW ps, Table(ps), NEW pid \in Nat, NEW parent
  PROVE  /\ PidsOf(InsertPid(ps, pid, parent)) = PidsOf(ps) \cup {pid}
         /\ ParentPairs(InsertPid(ps, pid, parent))
              \subseteq ParentPairs(ps) \cup {<<pid, 0>>, <<pid, parent>>}
<1> DEFINE new == Created(ps, pid)
           i == IndexOf(ps, pid)
           e == [new[i] EXCEPT !.parent = parent]
<1>1. PICK lists : new \in Seq(Entry(lists)) /\ i \in 1..Len(new) /\ new[i].pid = pid
  BY CreatedIsTable
<1>2. /\ PidsOf(new) = PidsOf(ps) \cup {pid}
      /\ ParentPairs(new) \subseteq ParentPairs(ps) \cup {<<pid, 0>>}
  BY CreatedContents
<1>3. InsertPid(ps, pid, parent) = [new EXCEPT ![i] = e]
  BY DEF InsertPid
<1>4. new[i] \in Entry(lists)
  BY <1>1, EntriesOfTable
<1>5. e.pid = new[i].pid /\ e.parent = parent
  BY <1>4 DEF Entry
<1> HIDE DEF new, i, e
<1>6. /\ PidsOf([new EXCEPT ![i] = e]) = PidsOf(new)
      /\ ParentPairs([new EXCEPT ![i] = e]) \subseteq ParentPairs(new) \cup {<<e.pid, e.parent>>}
  BY <1>1, <1>5, ReplacedContents
<1> QED BY <1>1, <1>2, <1>3, <1>5, <1>6

(* A change of a thread list changes neither pids nor parents. *)
LEMMA ThreadsContents ==
  ASSUME NEW lists, NEW ps \in Seq(Entry(lists)), NEW i \in 1..Len(ps), NEW threads
  PROVE  /\ PidsOf([ps EXCEPT ![i] = [ps[i] EXCEPT !.threads = threads]]) = PidsOf(ps)
         /\ ParentPairs([ps EXCEPT ![i] = [ps[i] EXCEPT !.threads = threads]])
              \subseteq ParentPairs(ps)
<1> DEFINE e == [ps[i] EXCEPT !.threads = threads]
<1>1. ps[i] \in Entry(lists)
  BY EntriesOfTable
<1>2. e.pid = ps[i].pid /\ e.parent = ps[i].parent
  BY <1>1 DEF Entry
<1>3. <<e.pid, e.parent>> \in ParentPairs(ps)
  BY <1>2 DEF ParentPairs
<1> HIDE DEF e
<1>4. /\ PidsOf([ps EXCEPT ![i] = e]) = PidsOf(ps)
      /\ ParentPairs([ps EXCEPT ![i] = e]) \subseteq ParentPairs(ps) \cup {<<e.pid, e.parent>>}
  BY <1>2, ReplacedContents
<1>5. /\ PidsOf([ps EXCEPT ![i] = e]) = PidsOf(ps)
      /\ ParentPairs([ps EXCEPT ![i] = e]) \subseteq ParentPairs(ps)
  BY <1>3, <1>4
<1> QED BY <1>5 DEF e

(* insert_pid_thread adds the process of the thread, without a parent. *)
LEMMA InsertPidThreadContents ==
  ASSUME NEW ps, Table(ps), NEW pid \in Nat, NEW thread
  PROVE  /\ PidsOf(InsertPidThread(ps, pid, thread)) = PidsOf(ps) \cup {pid}
         /\ ParentPairs(InsertPidThread(ps, pid, thread))
              \subseteq ParentPairs(ps) \cup {<<pid, 0>>}
<1> DEFINE old == Created(ps, pid)
           i == IndexOf(ps, pid)
           longer == Append(old[i].threads, thread)
<1>1. PICK lists : old \in Seq(Entry(lists)) /\ i \in 1..Len(old)
  BY CreatedIsTable
<1>2. /\ PidsOf(old) = PidsOf(ps) \cup {pid}
      /\ ParentPairs(old) \subseteq ParentPairs(ps) \cup {<<pid, 0>>}
  BY CreatedContents
<1>3. \/ InsertPidThread(ps, pid, thread) = old
      \/ InsertPidThread(ps, pid, thread) =
           [old EXCEPT ![i] = [old[i] EXCEPT !.threads = longer]]
  BY DEF InsertPidThread
<1> HIDE DEF old, i, longer
<1>4. /\ PidsOf([old EXCEPT ![i] = [old[i] EXCEPT !.threads = longer]]) = PidsOf(old)
      /\ ParentPairs([old EXCEPT ![i] = [old[i] EXCEPT !.threads = longer]])
           \subseteq ParentPairs(old)
  BY <1>1, ThreadsContents
<1> QED BY <1>2, <1>3, <1>4

(* remove_pid takes the pid out and nothing else. *)
LEMMA RemovePidContents ==
  ASSUME NEW ps, Table(ps), NEW pid \in Nat
  PROVE  /\ PidsOf(RemovePid(ps, pid)) = PidsOf(ps) \ {pid}
         /\ ParentPairs(RemovePid(ps, pid)) \subseteq ParentPairs(ps)
<1>1. PICK lists : ps \in Seq(Entry(lists)) /\ SortedByPid(ps)
  BY DEF Table
<1>2. CASE ~ Known(ps, pid)
  BY <1>2, KnownIsThere DEF RemovePid
<1>3. CASE Known(ps, pid)
  <2> DEFINE i == Slot(ps, pid) - 1
             left == RemoveAt(ps, i)
  <2>1. i \in 1..Len(ps) /\ Len(ps) \in Nat /\ ps[i].pid = pid
    BY <1>1, <1>3, KnownIndex DEF Known
  <2>2. RemovePid(ps, pid) = left
    BY <1>3 DEF RemovePid
  <2> HIDE DEF i
  <2>3. /\ Len(left) = Len(ps) - 1
        /\ \A k \in 1..Len(ps) - 1 : left[k] = IF k < i THEN ps[k] ELSE ps[k + 1]
    BY <1>1, <2>1, RemoveAtShifts
  <2> HIDE DEF left
  <2>4. \A k \in 1..Len(ps) : ps[k].pid \in Nat
    BY <1>1, EntriesOfTable
  <2>5. ASSUME NEW k \in 1..Len(left)
        PROVE  \E j \in 1..Len(ps) : left[k] = ps[j] /\ ps[j].pid # pid
    <3>1. PICK j \in 1..Len(ps) : left[k] = ps[j] /\ j # i
      <4>1. CASE k < i
        BY <2>1, <2>3, <4>1
      <4>2. CASE k >= i
        <5>1. left[k] = ps[k + 1] /\ k + 1 \in 1..Len(ps) /\ k + 1 # i
          BY <2>1, <2>3, <4>2
        <5> QED BY <5>1
      <4> QED BY <2>1, <4>1, <4>2
    <3>2. ps[j].pid # ps[i].pid
      <4>1. j < i \/ i < j
        BY <2>1, <3>1
      <4>2. ps[j].pid < ps[i].pid \/ ps[i].pid < ps[j].pid
        BY <1>1, <2>1, <4>1 DEF SortedByPid
      <4> QED BY <2>1, <2>4, <4>2
    <3> QED BY <2>1, <3>1, <3>2
  <2>6. ASSUME NEW j \in 1..Len(ps), ps[j].pid # pid
        PROVE  \E k \in 1..Len(left) : left[k] = ps[j]
    <3>1. CASE j < i
      BY <2>1, <2>3, <3>1
    <3>2. CASE j > i
      <4>1. left[j - 1] = ps[j] /\ j - 1 \in 1..Len(left)
        BY <2>1, <2>3, <3>2
      <4> QED BY <4>1
    <3> QED BY <2>1, <2>6, <3>1, <3>2
  <2>7. PidsOf(left) = PidsOf(ps) \ {pid}
    <3>1. ASSUME NEW k \in 1..Len(left) PROVE left[k].pid \in PidsOf(ps) \ {pid}
      BY <2>5 DEF PidsOf
    <3>2. ASSUME NEW j \in 1..Len(ps), ps[j].pid # pid PROVE ps[j].pid \in PidsOf(left)
      BY <2>6, <3>2 DEF PidsOf
    <3> QED BY <3>1, <3>2 DEF PidsOf
  <2>8. ParentPairs(left) \subseteq ParentPairs(ps)
    BY <2>5 DEF ParentPairs
  <2> QED BY <2>2, <2>7, <2>8
<1> QED BY <1>2, <1>3

(* remove_pid_thread takes no process out. *)
LEMMA RemovePidThreadContents ==
  ASSUME NEW ps, Table(ps), NEW pid \in Nat, NEW thread
  PROVE  /\ PidsOf(RemovePidThread(ps, pid, thread)) = PidsOf(ps)
         /\ ParentPairs(RemovePidThread(ps, pid, thread)) \subseteq ParentPairs(ps)
<1>1. PICK lists : ps \in Seq(Entry(lists)) /\ SortedByPid(ps)
  BY DEF Table
<1> DEFINE i == Slot(ps, pid) - 1
           fewer == Compacted(ps[i].threads, thread)
<1>2. CASE ~ Known(ps, pid) \/ ps[i].threads = <<>>
  BY <1>2 DEF RemovePidThread
<1>3. CASE ~ (~ Known(ps, pid) \/ ps[i].threads = <<>>)
  <2>1. i \in 1..Len(ps)
    BY <1>1, <1>3, KnownIndex
  <2>2. RemovePidThread(ps, pid, thread) =
          [ps EXCEPT ![i] = [ps[i] EXCEPT !.threads = fewer]]
    BY <1>3 DEF RemovePidThread
  <2> HIDE DEF i, fewer
  <2>3. /\ PidsOf([ps EXCEPT ![i] = [ps[i] EXCEPT !.threads = fewer]]) = PidsOf(ps)
        /\ ParentPairs([ps EXCEPT ![i] = [ps[i] EXCEPT !.threads = fewer]])
             \subseteq ParentPairs(ps)
    BY <1>1, <2>1, ThreadsContents
  <2> QED BY <2>2, <2>3
<1> QED BY <1>2, <1>3

(* What one turn of the replay does to the pids and the parents of any      *)
(* table: a fork brings its process in, whether by its leader or by a       *)
(* thread, the exit of the leader takes it out, and only the fork of the    *)
(* leader gives it a parent.                                                *)
THEOREM ReplayContents ==
  ASSUME NEW Ids, Ids \subseteq Nat, NEW ps, Table(ps), NEW e \in ReplayEvents(Ids)
  PROVE  /\ e.what = "FORK" => PidsOf(Replayed(ps, e)) = PidsOf(ps) \cup {e.tgid}
         /\ e.what = "EXIT" /\ e.pid = e.tgid =>
              PidsOf(Replayed(ps, e)) = PidsOf(ps) \ {e.tgid}
         /\ e.what = "EXIT" /\ e.pid # e.tgid => PidsOf(Replayed(ps, e)) = PidsOf(ps)
         /\ ParentPairs(Replayed(ps, e))
              \subseteq ParentPairs(ps) \cup {<<e.tgid, 0>>} \cup
                        (IF e.what = "FORK" /\ e.pid = e.tgid
                           THEN {<<e.tgid, e.ptgid>>} ELSE {})
<1>1. e.what \in {"FORK", "EXIT"} /\ e.pid \in Nat /\ e.tgid \in Nat
  BY DEF ReplayEvents
<1>2. CASE e.what = "FORK" /\ e.pid = e.tgid
  <2>1. Replayed(ps, e) = InsertPid(ps, e.tgid, e.ptgid)
    BY <1>2 DEF Replayed
  <2>2. /\ PidsOf(InsertPid(ps, e.tgid, e.ptgid)) = PidsOf(ps) \cup {e.tgid}
        /\ ParentPairs(InsertPid(ps, e.tgid, e.ptgid))
             \subseteq ParentPairs(ps) \cup {<<e.tgid, 0>>, <<e.tgid, e.ptgid>>}
    BY <1>1, InsertPidContents
  <2> QED BY <1>2, <2>1, <2>2
<1>3. CASE e.what = "FORK" /\ e.pid # e.tgid
  BY <1>1, <1>3, InsertPidThreadContents DEF Replayed
<1>4. CASE e.what = "EXIT" /\ e.pid = e.tgid
  BY <1>1, <1>4, RemovePidContents DEF Replayed
<1>5. CASE e.what = "EXIT" /\ e.pid # e.tgid
  BY <1>1, <1>5, RemovePidThreadContents DEF Replayed
<1> QED BY <1>1, <1>2, <1>3, <1>4, <1>5
-----------------------------------------------------------------------------

(* The compaction of a thread list, as a function defined by its equation:  *)
(* where each entry is taken from, and what stands there in the end.        *)
Matches(t, thread, i) == {k \in 1..i : t[k] = thread}
Source(t, thread, i) == 1 + Cardinality(Matches(t, thread, i))
Moving(t, thread, new) ==
  new = [i \in 1..Len(t) |->
           IF Source(t, thread, i) < i THEN new[Source(t, thread, i)]
                                       ELSE t[Source(t, thread, i)]]
Moved(t, thread) == CHOOSE new : Moving(t, thread, new)
LenLeft(t, thread) == IF ToSet(t) \subseteq {thread} THEN Len(t) - 1 ELSE Len(t)

(* remove_pid_thread leaves the first entries of what its loop moves.       *)
LEMMA CompactedIsMoved ==
  ASSUME NEW t, NEW thread
  PROVE  Compacted(t, thread) = [i \in 1..LenLeft(t, thread) |-> Moved(t, thread)[i]]
BY DEF Compacted, LenLeft, Moved, Moving, Source, Matches

(* j advances by at most one with i, and never goes back.                   *)
LEMMA SourceSteps ==
  ASSUME NEW t, NEW thread, NEW i \in Nat, NEW k \in Nat, i <= k
  PROVE  /\ Source(t, thread, i) \in Nat /\ 1 <= Source(t, thread, i)
         /\ Source(t, thread, i) <= i + 1
         /\ Source(t, thread, k) \in Nat
         /\ Source(t, thread, i) <= Source(t, thread, k)
         /\ Source(t, thread, k) <= Source(t, thread, i) + (k - i)
<1> DEFINE low == Matches(t, thread, i)
           high == Matches(t, thread, k)
           new == {x \in i + 1..k : t[x] = thread}
<1>1. /\ IsFiniteSet(1..i) /\ Cardinality(1..i) = i
      /\ IsFiniteSet(1..k) /\ Cardinality(1..k) = k
      /\ IsFiniteSet(i + 1..k) /\ Cardinality(i + 1..k) = k - i
  <2>1. /\ IsFiniteSet(1..i) /\ Cardinality(1..i) = IF 1 > i THEN 0 ELSE i - 1 + 1
    BY FS_Interval
  <2>2. /\ IsFiniteSet(1..k) /\ Cardinality(1..k) = IF 1 > k THEN 0 ELSE k - 1 + 1
    BY FS_Interval
  <2>3. /\ IsFiniteSet(i + 1..k)
        /\ Cardinality(i + 1..k) = IF i + 1 > k THEN 0 ELSE k - (i + 1) + 1
    BY FS_Interval
  <2> QED BY <2>1, <2>2, <2>3
<1>2. low \in SUBSET (1..i) /\ high \in SUBSET (1..k) /\ new \in SUBSET (i + 1..k)
  BY DEF Matches
<1>3. high = low \cup new /\ low \cap new = {}
  BY DEF Matches
<1> HIDE DEF low, high, new
<1>4. /\ IsFiniteSet(low) /\ Cardinality(low) \in Nat /\ Cardinality(low) <= i
      /\ IsFiniteSet(new) /\ Cardinality(new) \in Nat /\ Cardinality(new) <= k - i
      /\ Cardinality(high) \in Nat
  <2>1. IsFiniteSet(low) /\ Cardinality(low) <= i
    <3>1. Cardinality(low) <= Cardinality(1..i)
      BY <1>1, <1>2, FS_Subset
    <3>2. IsFiniteSet(low)
      BY <1>1, <1>2, FS_Subset
    <3> QED BY <1>1, <3>1, <3>2, Zenon
  <2>2. IsFiniteSet(new) /\ Cardinality(new) <= k - i
    <3>1. Cardinality(new) <= Cardinality(i + 1..k)
      BY <1>1, <1>2, FS_Subset
    <3>2. IsFiniteSet(new)
      BY <1>1, <1>2, FS_Subset
    <3> QED BY <1>1, <3>1, <3>2, Zenon
  <2>3. IsFiniteSet(high)
    BY <1>1, <1>2, FS_Subset
  <2> QED BY <2>1, <2>2, <2>3, FS_CardinalityType
<1>5. Cardinality(high) = Cardinality(low) + Cardinality(new)
  <2>1. Cardinality(low \cup new) =
          Cardinality(low) + Cardinality(new) - Cardinality(low \cap new)
    BY <1>4, FS_Union
  <2>2. Cardinality(low \cap new) = 0
    BY <1>3, FS_EmptySet
  <2> QED BY <1>3, <1>4, <2>1, <2>2
<1>6. Source(t, thread, i) = 1 + Cardinality(low) /\ Source(t, thread, k) = 1 + Cardinality(high)
  BY DEF Source, low, high
<1> QED BY <1>4, <1>5, <1>6

(* There is a function with these entries: up to the second entry that      *)
(* differs from the thread each is still the one that was there, and from   *)
(* then on the entry before that one is moved again and again.              *)
LEMMA MovedExists ==
  ASSUME NEW t, NEW thread, Len(t) \in Nat
  PROVE  Moving(t, thread, Moved(t, thread))
<1> DEFINE n == Len(t)
           j(i) == Source(t, thread, i)
           Turns == {i \in 1..n + 1 : i = n + 1 \/ j(i) < i}
<1>1. \A i, k \in Nat : i <= k =>
        /\ j(i) \in Nat /\ 1 <= j(i) /\ j(i) <= i + 1 /\ j(k) \in Nat
        /\ j(i) <= j(k) /\ j(k) <= j(i) + (k - i)
  BY SourceSteps
<1>2. PICK b \in Turns : \A k \in Turns : b <= k
  <2>1. n + 1 \in Turns /\ Turns \subseteq Nat
    OBVIOUS
  <2> HIDE DEF Turns
  <2> QED BY <2>1, LeastNatural
<1> DEFINE w == [i \in 1..n |-> IF i < b THEN t[j(i)] ELSE t[j(b - 1)]]
<1> HIDE DEF j
<1>3. ASSUME NEW i \in 1..n, i < b PROVE ~ (j(i) < i)
  <2>1. i \notin Turns
    BY <1>2, <1>3
  <2> QED BY <2>1
<1>4. ASSUME NEW i \in 1..n, ~ (i < b) PROVE j(i) \in 1..n /\ j(i) < i /\ b - 1 <= j(i)
  <2>1. b \in 1..n /\ j(b) < b
    BY <1>4
  <2>2. j(b) \in Nat /\ 1 <= j(b)
    BY <1>1, <2>1
  <2>3. b - 1 \in 1..n /\ b - 1 < b
    BY <2>1, <2>2
  <2>4. ~ (j(b - 1) < b - 1)
    BY <1>3, <2>3
  <2>5. j(b - 1) \in Nat /\ j(b - 1) <= j(b)
    <3>1. b - 1 \in Nat /\ b \in Nat /\ b - 1 <= b
      BY <2>1, <2>3
    <3> QED BY <1>1, <3>1
  <2>6. j(b) = b - 1
    BY <2>1, <2>2, <2>4, <2>5
  <2>7. j(i) \in Nat /\ j(b) <= j(i) /\ j(i) <= j(b) + (i - b)
    BY <1>1, <1>4, <2>1
  <2> QED BY <1>4, <2>1, <2>2, <2>6, <2>7
<1>5. ASSUME NEW i \in 1..n PROVE w[i] = IF j(i) < i THEN w[j(i)] ELSE t[j(i)]
  <2>1. CASE i < b
    BY <2>1, <1>3
  <2>2. CASE ~ (i < b)
    <3>1. j(i) \in 1..n /\ j(i) < i /\ b - 1 <= j(i)
      BY <1>4, <2>2
    <3>2. w[j(i)] = t[j(b - 1)]
      <4>1. CASE j(i) < b
        <5>1. j(i) = b - 1
          BY <3>1, <4>1
        <5> QED BY <3>1, <4>1, <5>1
      <4>2. CASE ~ (j(i) < b)
        BY <3>1, <4>2
      <4> QED BY <4>1, <4>2
    <3> QED BY <2>2, <3>1, <3>2
  <2> QED BY <2>1, <2>2
<1>6. Moving(t, thread, w)
  <2>1. w = [i \in 1..n |-> IF j(i) < i THEN w[j(i)] ELSE t[j(i)]]
    BY <1>5
  <2> HIDE DEF w
  <2> QED BY <2>1 DEF Moving, j
<1> HIDE DEF w
<1> QED BY <1>6 DEF Moved

(* The compaction reads no entry past the end of the list and leaves none   *)
(* that was not in it: the terminator is never taken for a thread, nor one  *)
(* thread missing in front of it.                                           *)
LEMMA CompactedTyped ==
  ASSUME NEW S, NEW t \in Seq(S), t # <<>>, NEW thread
  PROVE  Compacted(t, thread) \in Seq(S)
<1> DEFINE n == Len(t)
           j(i) == Source(t, thread, i)
           new == Moved(t, thread)
           kept == LenLeft(t, thread)
<1>1. n \in Nat /\ n # 0 /\ DOMAIN t = 1..n /\ \A i \in 1..n : t[i] \in S
  BY LenProperties, ElementOfSeq, EmptySeq
<1>2. \A i \in 1..n : new[i] = IF j(i) < i THEN new[j(i)] ELSE t[j(i)]
  <2>1. Moving(t, thread, new)
    BY <1>1, MovedExists
  <2> HIDE DEF new
  <2> QED BY <2>1 DEF Moving
<1> HIDE DEF new
<1>3. kept \in Nat /\ kept <= n
  BY <1>1 DEF LenLeft
<1> HIDE DEF kept
<1>4. ASSUME NEW i \in 1..kept PROVE j(i) \in 1..n /\ i \in 1..n
  <2>0. i \in 1..n
    BY <1>1, <1>3
  <2>1. j(i) \in Nat /\ 1 <= j(i) /\ j(i) <= i + 1
    BY <2>0, SourceSteps
  <2>2. CASE i < n
    BY <1>1, <2>1, <2>2
  <2>3. CASE i = n
    <3>1. ~ (ToSet(t) \subseteq {thread})
      BY <1>1, <1>3, <2>3 DEF LenLeft, kept
    <3>2. PICK k \in 1..n : t[k] # thread
      BY <1>1, <3>1 DEF ToSet
    <3>3. /\ Matches(t, thread, n) \in SUBSET (1..n)
          /\ Matches(t, thread, n) # 1..n
      BY <3>2 DEF Matches
    <3>4. IsFiniteSet(1..n) /\ Cardinality(1..n) = n
      <4>1. IsFiniteSet(1..n) /\ Cardinality(1..n) = IF 1 > n THEN 0 ELSE n - 1 + 1
        BY <1>1, FS_Interval
      <4> QED BY <1>1, <4>1
    <3>5. Cardinality(Matches(t, thread, n)) # n
      BY <3>3, <3>4, FS_Subset
    <3>6. j(n) # 1 + n
      <4>1. Cardinality(Matches(t, thread, n)) \in Nat
        BY <3>3, <3>4, FS_Subset, FS_CardinalityType
      <4> QED BY <1>1, <3>5, <4>1 DEF Source
    <3> QED BY <1>1, <2>1, <2>3, <3>6
  <2>4. i < n \/ i = n
    <3>1. i \in 1..n /\ n \in Nat
      BY <1>1, <2>0
    <3> HIDE DEF n
    <3> QED BY <3>1
  <2> QED BY <2>0, <2>2, <2>3, <2>4
<1> HIDE DEF j
<1>5. ASSUME NEW i \in 1..kept PROVE new[i] \in S
  <2> DEFINE Bad == {k \in 1..kept : new[k] \notin S}
  <2> SUFFICES ASSUME Bad # {} PROVE FALSE
    OBVIOUS
  <2>1. PICK b \in Bad : \A k \in Bad : b <= k
    <3>1. Bad \subseteq Nat
      OBVIOUS
    <3> HIDE DEF Bad
    <3> QED BY <3>1, LeastNatural
  <2>2. b \in 1..kept /\ b \in 1..n /\ new[b] \notin S /\ j(b) \in 1..n
    BY <1>4, <2>1
  <2>3. CASE j(b) < b
    <3>1. j(b) \in 1..kept /\ j(b) \notin Bad
      BY <1>3, <2>1, <2>2, <2>3
    <3> QED BY <1>2, <2>2, <2>3, <3>1
  <2>4. CASE ~ (j(b) < b)
    BY <1>1, <1>2, <2>2, <2>4
  <2> QED BY <2>3, <2>4
<1>6. [i \in 1..kept |-> new[i]] \in Seq(S)
  BY <1>3, <1>5
<1> QED BY <1>6, CompactedIsMoved DEF kept, new

(* A change of a thread list to another of the same type. *)
LEMMA ThreadsTyped ==
  ASSUME NEW lists, NEW ps \in Seq(Entry(lists)), NEW i \in 1..Len(ps),
         NEW threads \in lists
  PROVE  [ps EXCEPT ![i] = [ps[i] EXCEPT !.threads = threads]] \in Seq(Entry(lists))
<1>1. ps[i] \in Entry(lists)
  BY ElementOfSeq
<1>2. [ps[i] EXCEPT !.threads = threads] \in Entry(lists)
  BY <1>1 DEF Entry
<1> QED BY <1>2, ExceptSeq

(* A new entry has no threads. *)
LEMMA CreatedTyped ==
  ASSUME NEW lists, <<>> \in lists, NEW ps \in Seq(Entry(lists)), SortedByPid(ps),
         NEW pid \in Nat
  PROVE  /\ Created(ps, pid) \in Seq(Entry(lists))
         /\ IndexOf(ps, pid) \in 1..Len(Created(ps, pid))
<1>1. /\ Process(pid, 0) \in Entry(lists)
      /\ Slot(ps, pid) \in 1..Len(ps) + 1
  BY SlotSeparates DEF Process, Entry
<1>2. InsertAt(ps, Slot(ps, pid), Process(pid, 0)) \in Seq(Entry(lists))
  BY <1>1, InsertAtShifts
<1>3. IndexOf(ps, pid) \in 1..Len(Created(ps, pid))
  BY CreatedIsTable DEF Table
<1> QED BY <1>2, <1>3 DEF Created

(* insert_pid_thread appends the thread, unless it is there. *)
LEMMA InsertPidThreadTyped ==
  ASSUME NEW Ids, NEW ps \in Seq(Entry(Seq(Ids))), SortedByPid(ps), NEW pid \in Nat,
         NEW thread \in Ids
  PROVE  InsertPidThread(ps, pid, thread) \in Seq(Entry(Seq(Ids)))
<1> DEFINE old == Created(ps, pid)
           i == IndexOf(ps, pid)
           longer == Append(old[i].threads, thread)
<1>1. <<>> \in Seq(Ids)
  OBVIOUS
<1>2. old \in Seq(Entry(Seq(Ids))) /\ i \in 1..Len(old)
  BY <1>1, CreatedTyped
<1>3. \/ InsertPidThread(ps, pid, thread) = old
      \/ InsertPidThread(ps, pid, thread) =
           [old EXCEPT ![i] = [old[i] EXCEPT !.threads = longer]]
  BY DEF InsertPidThread
<1>4. longer \in Seq(Ids)
  <2>1. old[i] \in Entry(Seq(Ids))
    BY <1>2, ElementOfSeq
  <2>2. old[i].threads \in Seq(Ids)
    BY <2>1 DEF Entry
  <2> QED BY <2>2, AppendProperties
<1> HIDE DEF old, i, longer
<1>5. [old EXCEPT ![i] = [old[i] EXCEPT !.threads = longer]] \in Seq(Entry(Seq(Ids)))
  BY <1>2, <1>4, ThreadsTyped
<1> QED BY <1>2, <1>3, <1>5

(* remove_pid_thread leaves a list of threads, if not the right ones. *)
LEMMA RemovePidThreadTyped ==
  ASSUME NEW Ids, NEW ps \in Seq(Entry(Seq(Ids))), SortedByPid(ps), NEW pid \in Nat,
         NEW thread
  PROVE  RemovePidThread(ps, pid, thread) \in Seq(Entry(Seq(Ids)))
<1> DEFINE i == Slot(ps, pid) - 1
           fewer == Compacted(ps[i].threads, thread)
<1>1. CASE ~ Known(ps, pid) \/ ps[i].threads = <<>>
  BY <1>1 DEF RemovePidThread
<1>2. CASE ~ (~ Known(ps, pid) \/ ps[i].threads = <<>>)
  <2>1. i \in 1..Len(ps)
    BY <1>2, KnownIndex
  <2>2. RemovePidThread(ps, pid, thread) =
          [ps EXCEPT ![i] = [ps[i] EXCEPT !.threads = fewer]]
    BY <1>2 DEF RemovePidThread
  <2>3. fewer \in Seq(Ids)
    <3>1. ps[i] \in Entry(Seq(Ids))
      BY <2>1, ElementOfSeq
    <3>2. ps[i].threads \in Seq(Ids)
      BY <3>1 DEF Entry
    <3> QED BY <1>2, <3>2, CompactedTyped
  <2> HIDE DEF i, fewer
  <2> QED BY <2>1, <2>2, <2>3, ThreadsTyped
<1> QED BY <1>1, <1>2

(* insert_pid leaves the thread lists alone. *)
LEMMA InsertPidTyped ==
  ASSUME NEW lists, <<>> \in lists, NEW ps \in Seq(Entry(lists)), SortedByPid(ps),
         NEW pid \in Nat, NEW parent \in Nat
  PROVE  InsertPid(ps, pid, parent) \in Seq(Entry(lists))
<1> DEFINE new == Created(ps, pid)
           i == IndexOf(ps, pid)
<1>1. new \in Seq(Entry(lists)) /\ i \in 1..Len(new)
  BY CreatedTyped
<1>2. new[i] \in Entry(lists)
  BY <1>1, ElementOfSeq
<1>3. InsertPid(ps, pid, parent) = [new EXCEPT ![i] = [new[i] EXCEPT !.parent = parent]]
  BY DEF InsertPid
<1> HIDE DEF new, i
<1>4. [new[i] EXCEPT !.parent = parent] \in Entry(lists)
  BY <1>2 DEF Entry
<1>5. [new EXCEPT ![i] = [new[i] EXCEPT !.parent = parent]] \in Seq(Entry(lists))
  BY <1>1, <1>4, ExceptSeq
<1> QED BY <1>3, <1>5

(* remove_pid takes an entry out and leaves the others as they are. *)
LEMMA RemovePidTyped ==
  ASSUME NEW lists, NEW ps \in Seq(Entry(lists)), SortedByPid(ps), NEW pid \in Nat
  PROVE  RemovePid(ps, pid) \in Seq(Entry(lists))
<1>1. CASE Known(ps, pid)
  <2>1. Slot(ps, pid) - 1 \in 1..Len(ps)
    BY <1>1, KnownIndex
  <2> QED BY <1>1, <2>1, RemoveAtShifts DEF RemovePid
<1>2. CASE ~ Known(ps, pid)
  BY <1>2 DEF RemovePid
<1> QED BY <1>1, <1>2

(* One turn of the replay leaves every process with a list of task ids: the *)
(* compaction loop, whatever else it does, never reads past the terminator  *)
(* of a list and leaves no entry of it unset.                               *)
THEOREM ReplayKeepsThreads ==
  ASSUME NEW Ids, Ids \subseteq Nat, NEW ps \in Seq(Entry(Seq(Ids))), SortedByPid(ps),
         NEW e \in ReplayEvents(Ids)
  PROVE  Replayed(ps, e) \in Seq(Entry(Seq(Ids)))
<1>1. /\ e.what \in {"FORK", "EXIT"} /\ e.pid \in Ids /\ e.pid \in Nat /\ e.tgid \in Nat
      /\ e.ptgid \in Nat
  <2>1. /\ e.what \in {"FORK", "EXIT"} /\ e.pid \in Ids /\ e.tgid \in Ids
        /\ e.ptgid \in Ids \/ e.ptgid = 0
    BY DEF ReplayEvents
  <2>2. 0 \in Nat /\ \A x \in Ids : x \in Nat
    OBVIOUS
  <2> QED BY <2>1, <2>2
<1>2. CASE e.what = "FORK" /\ e.pid = e.tgid
  <2>1. <<>> \in Seq(Ids)
    OBVIOUS
  <2> QED BY <1>1, <1>2, <2>1, InsertPidTyped DEF Replayed
<1>3. CASE e.what = "FORK" /\ e.pid # e.tgid
  BY <1>1, <1>3, InsertPidThreadTyped DEF Replayed
<1>4. CASE e.what = "EXIT" /\ e.pid = e.tgid
  BY <1>1, <1>4, RemovePidTyped DEF Replayed
<1>5. CASE e.what = "EXIT" /\ e.pid # e.tgid
  BY <1>1, <1>5, RemovePidThreadTyped DEF Replayed
<1> QED BY <1>1, <1>2, <1>3, <1>4, <1>5

(* A sorted table has no more entries than there are ids to enter. *)
LEMMA TableFits ==
  ASSUME NEW Ids, IsFiniteSet(Ids), Ids \subseteq Nat, NEW ps, Table(ps),
         PidsOf(ps) \subseteq Ids
  PROVE  Len(ps) \in Nat /\ Len(ps) <= Cardinality(Ids)
<1>1. PICK lists : ps \in Seq(Entry(lists)) /\ SortedByPid(ps)
  BY DEF Table
<1>2. Len(ps) \in Nat /\ \A k \in 1..Len(ps) : ps[k].pid \in Nat
  BY <1>1, EntriesOfTable
<1> DEFINE f == [k \in 1..Len(ps) |-> ps[k].pid]
<1>3. f \in Injection(1..Len(ps), Ids)
  <2>1. f \in [1..Len(ps) -> Ids]
    BY DEF PidsOf
  <2>2. ASSUME NEW i \in 1..Len(ps), NEW k \in 1..Len(ps), f[i] = f[k] PROVE i = k
    <3>1. ~ (i < k) /\ ~ (k < i)
      BY <1>1, <1>2, <2>2 DEF SortedByPid
    <3> QED BY <1>2, <3>1
  <2> HIDE DEF f
  <2> QED BY <2>1, <2>2 DEF Injection, IsInjective
<1>4. Cardinality(1..Len(ps)) <= Cardinality(Ids)
  BY <1>3, FS_Injection
<1>5. Cardinality(1..Len(ps)) = Len(ps)
  <2>1. Cardinality(1..Len(ps)) = IF 1 > Len(ps) THEN 0 ELSE Len(ps) - 1 + 1
    BY <1>2, FS_Interval
  <2> QED BY <1>2, <2>1
<1> QED BY <1>2, <1>4, <1>5, Zenon

(* ------------------------------------------------------------------------ *)
(* The scanner                                                              *)


Queueable == ReplayEvents(Tids)
KernelEvents ==
  [what : {"FORK", "EXIT", "EXEC"}, pid : Tids, tgid : Tids, ptgid : Tids \cup {0}]

(* What the kernel sends and the listener holds. *)
KernelInv ==
  /\ tgid \in [Tids -> Tids \cup {0}]
  /\ running \subseteq Tids /\ \A t \in running : tgid[t] # 0
ChanInv == chan \in Seq(KernelEvents)
ListenerInv ==
  /\ lpc \in {"recv", "news", "lock", "store"}
  /\ lpc # "recv" => ev \in KernelEvents
  /\ lpc \in {"lock", "store"} => ev \in Queueable
EventInv == KernelInv /\ ChanInv /\ ListenerInv

(* Every task belongs to a process that has its leader's entry, and a       *)
(* running one to a process whose leader runs too or left before it.        *)
LeaderInv ==
  /\ \A t \in Tids : tgid[t] # 0 => tgid[tgid[t]] = tgid[t]
  /\ \A t \in running : tgid[t] \in running \cup headless
  /\ headless \subseteq Tids

(* Who holds the mutex, and what that says of the buffer. *)
LockInv ==
  /\ lpc = "store" <=> lock = "listener"
  /\ mpc \in {"take", "clear"} <=> lock = "main"
QueueInv ==
  /\ buffer \in Seq(Queueable) /\ evs \in Seq(Queueable)
  /\ heard \in Seq(Queueable) /\ imported \in Seq(Queueable)
  /\ mpc = "clear" => evs = buffer
  /\ mpc \notin {"clear", "import"} => evs = <<>>
HandInv == LockInv /\ QueueInv /\ HandoverExact

(* The main thread's table. *)
TableInv == Table(procs) /\ bootPid \in Nat

-----------------------------------------------------------------------------

(* Posting a well-formed event keeps the socket's queue well formed. *)
LEMMA PostKeepsChan ==
  ASSUME ChanInv, NEW e \in KernelEvents, Post(e)
  PROVE  ChanInv'
<1>1. Append(chan, e) \in Seq(KernelEvents)
  BY AppendProperties DEF ChanInv
<1> QED BY <1>1 DEF ChanInv, Post

(* A fork or exit event over the kernel's task ids is a well-formed event. *)
LEMMA KernelEvent ==
  ASSUME NEW what \in {"FORK", "EXIT", "EXEC"}, NEW pid \in Tids, NEW p \in Tids,
         NEW parent \in Tids \cup {0}
  PROVE  Event(what, pid, p, parent) \in KernelEvents
BY DEF Event, KernelEvents

(* Whatever the kernel does, its tasks stay typed, a running task belongs   *)
(* to a process, and what it posts is well formed.                          *)
LEMMA KernelKeepsEvents ==
  ASSUME EventInv, LeaderInv, Kernel
  PROVE  EventInv'
<1> USE TidsAssumption
<1>1. ListenerInv'
  BY DEF EventInv, ListenerInv, Kernel, listenerVars, Queueable
<1>2. ASSUME NEW t \in Tids, TaskExit(t) PROVE KernelInv' /\ ChanInv'
  <2>1. t \in running /\ tgid[t] \in Tids
    BY <1>2 DEF EventInv, KernelInv, TaskExit
  <2>2. Event("EXIT", t, tgid[t], 0) \in KernelEvents
    BY <2>1, KernelEvent
  <2>3. ChanInv'
    BY <1>2, <2>2, PostKeepsChan DEF EventInv, TaskExit
  <2>4. KernelInv'
    BY <1>2 DEF EventInv, KernelInv, TaskExit
  <2> QED BY <2>3, <2>4
<1>3. ASSUME NEW t \in Tids, Exec(t) PROVE KernelInv' /\ ChanInv'
  <2>1. /\ tgid \in [Tids -> Tids \cup {0}] /\ running \subseteq Tids
        /\ \A u \in running : tgid[u] # 0
        /\ t \in running /\ tgid[t] \in Tids /\ tgid[tgid[t]] = tgid[t]
    BY <1>3 DEF EventInv, KernelInv, LeaderInv, Exec
  <2>2. Event("EXEC", tgid[t], tgid[t], 0) \in KernelEvents
    BY <2>1, KernelEvent
  <2>3. ChanInv'
    BY <1>3, <2>2, PostKeepsChan DEF EventInv, Exec
  <2>4. KernelInv'
    <3>1. /\ running' = (running \ {t}) \cup {tgid[t]}
          /\ tgid' = IF tgid[t] = t THEN tgid ELSE [tgid EXCEPT ![t] = 0]
      BY <1>3 DEF Exec
    <3> QED BY <2>1, <3>1 DEF KernelInv
  <2> QED BY <2>3, <2>4
<1>4. ASSUME NEW p \in Tids, Reap(p) PROVE KernelInv' /\ ChanInv'
  BY <1>4 DEF EventInv, KernelInv, ChanInv, Reap, InProc
<1>5. ASSUME NEW t \in Tids, NEW c \in Tids, ForkProcess(t, c)
      PROVE  KernelInv' /\ ChanInv'
  <2>1. tgid[t] \in Tids \cup {0}
    BY DEF EventInv, KernelInv
  <2>2. Event("FORK", c, c, tgid[t]) \in KernelEvents
    BY <2>1, KernelEvent
  <2>3. ChanInv'
    BY <1>5, <2>2, PostKeepsChan DEF EventInv, ForkProcess
  <2>4. KernelInv'
    BY <1>5 DEF EventInv, KernelInv, ForkProcess
  <2> QED BY <2>3, <2>4
<1>6. ASSUME NEW t \in Tids, NEW c \in Tids, CloneThread(t, c)
      PROVE  KernelInv' /\ ChanInv'
  <2>1. tgid[t] \in Tids
    BY <1>6 DEF EventInv, KernelInv, CloneThread
  <2>2. Event("FORK", c, tgid[t], tgid[t]) \in KernelEvents
    BY <2>1, KernelEvent
  <2>3. ChanInv'
    BY <1>6, <2>2, PostKeepsChan DEF EventInv, CloneThread
  <2>4. KernelInv'
    BY <1>6, <2>1 DEF EventInv, KernelInv, CloneThread
  <2> QED BY <2>3, <2>4
<1> QED BY <1>1, <1>2, <1>3, <1>4, <1>5, <1>6 DEF EventInv, Kernel

(* Every event on its way through the queues is one the kernel can post. *)
LEMMA EventInvInductive ==
  /\ Init => EventInv
  /\ EventInv /\ LeaderInv /\ [Next]_vars => EventInv'
<1>1. Init => EventInv
  <2> SUFFICES ASSUME Init PROVE EventInv
    OBVIOUS
  <2>1. KernelInv
    <3>1. PICK k \in InitKernels : tgid = k.tgid /\ running = k.running
      BY DEF Init
    <3> QED BY <3>1, InitAssumption DEF KernelInv
  <2>2. ChanInv /\ ListenerInv
    BY DEF Init, ChanInv, ListenerInv
  <2> QED BY <2>1, <2>2 DEF EventInv
<1>2. ASSUME EventInv, LeaderInv, [Next]_vars PROVE EventInv'
  <2>1. CASE Kernel
    BY <1>2, <2>1, KernelKeepsEvents
  <2>2. CASE RecvError
    BY <1>2, <2>2 DEF EventInv, KernelInv, ChanInv, ListenerInv, RecvError,
                      listenerVars, Queueable
  <2>3. CASE Recv
    <3>1. Head(chan) \in KernelEvents /\ Tail(chan) \in Seq(KernelEvents)
      BY <1>2, <2>3, HeadTailProperties DEF EventInv, ChanInv, Recv
    <3> QED BY <1>2, <2>3, <3>1 DEF EventInv, KernelInv, ChanInv, ListenerInv, Recv
  <2>4. CASE HandleExec
    BY <1>2, <2>4 DEF EventInv, KernelInv, ChanInv, ListenerInv, HandleExec, kernelVars
  <2>5. CASE HandleForkOrExit
    <3>1. ev \in Queueable
      BY <1>2, <2>5 DEF EventInv, ListenerInv, HandleForkOrExit, KernelEvents,
                        Queueable, ReplayEvents
    <3> QED BY <1>2, <2>5, <3>1 DEF EventInv, KernelInv, ChanInv, ListenerInv,
                                    HandleForkOrExit, kernelVars, Queueable
  <2>6. CASE ListenerLock
    BY <1>2, <2>6 DEF EventInv, KernelInv, ChanInv, ListenerInv, ListenerLock,
                      kernelVars, Queueable
  <2>7. CASE ListenerStore
    BY <1>2, <2>7 DEF EventInv, KernelInv, ChanInv, ListenerInv, ListenerStore,
                      kernelVars
  <2>8. CASE Main \/ UNCHANGED vars
    <3>1. UNCHANGED <<kernelVars, listenerVars>>
      BY <2>8 DEF Main, BootstrapNext, BootstrapTask, RestartLock, RestartTake,
                  RestartClear, ImportEvent, ImportDone, ScanNext, Sample,
                  ScanEnd, Wake, vars
    <3> QED BY <1>2, <3>1 DEF EventInv, KernelInv, ChanInv, ListenerInv, Queueable,
                              kernelVars, listenerVars
  <2> QED BY <1>2, <2>1, <2>2, <2>3, <2>4, <2>5, <2>6, <2>7, <2>8 DEF Next, Listener
<1> QED BY <1>1, <1>2

-----------------------------------------------------------------------------

(* Whoever does not touch the queues, nor what says where events are, keeps *)
(* the hand-over.                                                           *)
LEMMA HandStutter ==
  ASSUME HandInv, Queued' = Queued, InHand' = InHand, LockInv', QueueInv',
         heard' = heard, imported' = imported
  PROVE  HandInv'
BY DEF HandInv, HandoverExact

(* The hand-over is exact, with the mutex held by whoever is inside its     *)
(* critical section: an inductive invariant.                                *)
LEMMA HandInvInductive ==
  /\ Init => HandInv
  /\ EventInv /\ HandInv /\ [Next]_vars => HandInv'
<1> USE BoundsAssumption
<1>1. Init => HandInv
  <2> SUFFICES ASSUME Init PROVE HandInv
    OBVIOUS
  <2>1. LockInv /\ QueueInv
    BY DEF Init, LockInv, QueueInv
  <2>2. HandoverExact
    BY DEF Init, HandoverExact, Queued, InHand
  <2> QED BY <2>1, <2>2 DEF HandInv
<1>2. ASSUME EventInv, HandInv, [Next]_vars PROVE HandInv'
  <2> USE <1>2 DEF HandInv
  <2> DEFINE handVars == <<lpc, ev, mpc, lock, buffer, evs, heard, imported>>
  <2>1. CASE UNCHANGED handVars
    BY <2>1 DEF LockInv, QueueInv, HandoverExact, Queued, InHand
  <2>2. CASE Kernel \/ RecvError \/ UNCHANGED vars
    <3>1. UNCHANGED handVars
      BY <2>2 DEF Kernel, RecvError, vars, listenerVars, mainVars
    <3> QED BY <2>1, <3>1
  <2>3. CASE Recv \/ HandleExec
    <3>1. LockInv' /\ QueueInv'
      BY <2>3 DEF LockInv, QueueInv, Recv, HandleExec, mainVars
    <3>2. UNCHANGED <<Queued, InHand, heard, imported>>
      BY <2>3 DEF Queued, InHand, Recv, HandleExec, mainVars
    <3> QED BY <3>1, <3>2, HandStutter
  <2>4. CASE HandleForkOrExit
    <3>1. ev \in Queueable
      BY <2>4 DEF EventInv, ListenerInv, HandleForkOrExit, KernelEvents,
                  Queueable, ReplayEvents
    <3>2. LockInv' /\ QueueInv'
      BY <2>4, <3>1, AppendProperties DEF LockInv, QueueInv, HandleForkOrExit, mainVars
    <3>3. heard' = Append(imported \o Queued \o <<>>, ev)
      BY <2>4 DEF HandoverExact, HandleForkOrExit, InHand
    <3>4. imported \o Queued \in Seq(Queueable)
      BY ConcatProperties DEF QueueInv, Queued
    <3>5. heard' = (imported \o Queued) \o <<ev>>
      BY <3>1, <3>3, <3>4, AppendToEnd
    <3>6. Queued' = Queued /\ InHand' = <<ev>> /\ imported' = imported
      BY <2>4 DEF HandleForkOrExit, Queued, InHand, mainVars
    <3> QED BY <3>2, <3>5, <3>6 DEF HandoverExact
  <2>5. CASE ListenerLock
    <3>1. LockInv' /\ QueueInv'
      BY <2>5 DEF LockInv, QueueInv, ListenerLock, mainVars
    <3>2. UNCHANGED <<Queued, InHand, heard, imported>>
      BY <2>5 DEF Queued, InHand, ListenerLock, mainVars
    <3> QED BY <3>1, <3>2, HandStutter
  <2>6. CASE ListenerStore
    <3>1. ev \in Queueable
      BY <2>6 DEF EventInv, ListenerInv, ListenerStore
    <3>2. mpc \notin {"take", "clear"} /\ mpc' = mpc
      BY <2>6 DEF LockInv, ListenerStore, mainVars
    <3>3. LockInv' /\ QueueInv'
      BY <2>6, <3>1, <3>2, AppendProperties DEF LockInv, QueueInv, ListenerStore, mainVars
    <3>4. heard' = (imported \o (evs \o buffer)) \o <<ev>>
      BY <2>6, <3>2 DEF HandoverExact, Queued, InHand, ListenerStore
    <3>5. heard' = (imported \o (evs \o Append(buffer, ev))) \o <<>>
      <4>1. /\ imported \in Seq(Queueable) /\ evs \in Seq(Queueable)
            /\ buffer \in Seq(Queueable)
        BY DEF QueueInv
      <4>2. (imported \o (evs \o Append(buffer, ev))) \o <<>>
              = (imported \o (evs \o buffer)) \o <<ev>>
        BY <4>1, <3>1, MoveToMiddle
      <4> QED BY <3>4, <4>2
    <3>6. /\ Queued' = evs \o Append(buffer, ev) /\ InHand' = <<>>
          /\ imported' = imported
      BY <2>6, <3>2 DEF Queued, InHand, ListenerStore, mainVars
    <3> QED BY <3>3, <3>5, <3>6 DEF HandoverExact
  <2>7. CASE RestartTake
    <3>1. LockInv' /\ QueueInv'
      BY <2>7 DEF LockInv, QueueInv, RestartTake, listenerVars
    <3>2. Queued = Queued'
      <4>1. Queued = <<>> \o buffer /\ Queued' = buffer
        BY <2>7 DEF Queued, QueueInv, RestartTake
      <4> QED BY <4>1, ConcatEmptySeq DEF QueueInv
    <3>3. UNCHANGED <<InHand, heard, imported>>
      BY <2>7 DEF InHand, RestartTake, listenerVars
    <3> QED BY <3>1, <3>2, <3>3, HandStutter
  <2>8. CASE RestartClear
    <3>1. LockInv' /\ QueueInv'
      BY <2>8 DEF LockInv, QueueInv, RestartClear, listenerVars
    <3>2. Queued = Queued'
      <4>1. Queued = evs /\ Queued' = evs \o <<>>
        BY <2>8 DEF Queued, RestartClear
      <4> QED BY <4>1, ConcatEmptySeq DEF QueueInv
    <3>3. UNCHANGED <<InHand, heard, imported>>
      BY <2>8 DEF InHand, RestartClear, listenerVars
    <3> QED BY <3>1, <3>2, <3>3, HandStutter
  <2>9. CASE ImportEvent
    <3>1. Head(evs) \in Queueable /\ Tail(evs) \in Seq(Queueable)
      BY <2>9, HeadTailProperties DEF QueueInv, ImportEvent
    <3>2. LockInv' /\ QueueInv'
      BY <2>9, <3>1, AppendProperties DEF LockInv, QueueInv, ImportEvent, listenerVars
    <3>3. imported \o Queued = imported' \o Queued'
      <4>1. /\ Queued = evs \o buffer /\ Queued' = Tail(evs) \o buffer
            /\ imported' = Append(imported, Head(evs))
        BY <2>9 DEF Queued, ImportEvent
      <4>2. /\ imported \in Seq(Queueable) /\ evs \in Seq(Queueable)
            /\ buffer \in Seq(Queueable) /\ evs # <<>>
        BY <2>9 DEF QueueInv, ImportEvent
      <4>3. Append(imported, Head(evs)) \o (Tail(evs) \o buffer)
              = imported \o (evs \o buffer)
        BY <4>2, MoveHead
      <4> QED BY <4>1, <4>3
    <3>4. UNCHANGED <<InHand, heard>>
      BY <2>9 DEF InHand, ImportEvent, listenerVars
    <3> QED BY <3>2, <3>3, <3>4 DEF HandoverExact
  <2>10. CASE \/ BootstrapNext \/ BootstrapTask \/ RestartLock \/ ImportDone
              \/ ScanNext \/ Sample \/ ScanEnd \/ Wake
    <3>1. LockInv' /\ QueueInv'
      BY <2>10 DEF LockInv, QueueInv, BootstrapNext, BootstrapTask, RestartLock,
                   ImportDone, ScanNext, Sample, ScanEnd, Wake, listenerVars
    <3>2. UNCHANGED <<Queued, InHand, heard, imported>>
      BY <2>10 DEF Queued, InHand, BootstrapNext, BootstrapTask, RestartLock,
                   ImportDone, ScanNext, Sample, ScanEnd, Wake, listenerVars
    <3> QED BY <3>1, <3>2, HandStutter
  <2> QED BY <2>2, <2>3, <2>4, <2>5, <2>6, <2>7, <2>8, <2>9, <2>10
          DEF Next, Listener, Main
<1> QED BY <1>1, <1>2

-----------------------------------------------------------------------------

(* The next /proc entry of the bootstrap is the least of those it chooses   *)
(* from.                                                                    *)
LEMMA MinOfTids ==
  ASSUME NEW T, T \subseteq Tids, T # {}
  PROVE  Min(T) \in T /\ \A k \in T : Min(T) <= k
<1>1. T \subseteq Nat
  BY TidsAssumption
<1>2. PICK m \in T : \A k \in T : m <= k
  BY <1>1, LeastNatural
<1> QED BY <1>2 DEF Min

(* The bootstrap and the replay are the only steps that write the table. *)
LEMMA TableInvInductive ==
  /\ Init => TableInv
  /\ EventInv /\ HandInv /\ TableInv /\ [Next]_vars => TableInv'
<1> USE TidsAssumption
<1>1. Init => TableInv
  <2> SUFFICES ASSUME Init PROVE TableInv
    OBVIOUS
  <2>1. procs = <<>> /\ bootPid = 0
    BY DEF Init
  <2>2. <<>> \in Seq(Entry({})) /\ SortedByPid(<<>>)
    BY DEF SortedByPid
  <2> QED BY <2>1, <2>2 DEF TableInv, Table
<1>2. ASSUME EventInv, HandInv, TableInv, [Next]_vars PROVE TableInv'
  <2>1. CASE UNCHANGED <<procs, bootPid>>
    BY <1>2, <2>1 DEF TableInv
  <2>2. CASE BootstrapNext
    <3> DEFINE later == {p \in InProc : p > bootPid}
    <3>1. CASE later = {}
      BY <1>2, <2>2, <3>1, <2>1 DEF BootstrapNext
    <3>2. CASE later # {}
      <4>1. Min(later) \in Nat
        <5>1. later \subseteq Tids
          BY DEF InProc
        <5> HIDE DEF later
        <5> QED BY <5>1, <3>2, MinOfTids
      <4>2. procs' = InsertPid(procs, Min(later), 0) /\ bootPid' = Min(later)
        BY <2>2, <3>2 DEF BootstrapNext
      <4> HIDE DEF later
      <4>3. Table(procs) /\ 0 \in Nat
        BY <1>2 DEF TableInv
      <4> QED BY <4>1, <4>2, <4>3, InsertPidKeepsTable DEF TableInv
    <3> QED BY <3>1, <3>2
  <2>3. CASE BootstrapTask
    <3> DEFINE later == {t \in Group(bootPid) : t # bootPid /\ t > bootTid}
    <3>1. \/ UNCHANGED procs
          \/ procs' = InsertPidThread(procs, bootPid, Min(later))
      BY <2>3 DEF BootstrapTask
    <3>2. bootPid' = bootPid
      BY <2>3 DEF BootstrapTask
    <3> HIDE DEF later
    <3> QED BY <1>2, <3>1, <3>2, InsertPidThreadKeepsTable DEF TableInv
  <2>4. CASE ImportEvent
    <3>1. Head(evs) \in ReplayEvents(Tids)
      BY <1>2, <2>4, HeadTailProperties DEF HandInv, QueueInv, ImportEvent, Queueable
    <3>2. procs' = Replayed(procs, Head(evs)) /\ bootPid' = bootPid
      BY <2>4 DEF ImportEvent
    <3>3. Tids \subseteq Nat
      OBVIOUS
    <3> QED BY <1>2, <3>1, <3>2, <3>3, ReplayKeepsTable DEF TableInv
  <2>5. CASE Kernel \/ Listener \/ UNCHANGED vars
    <3>1. UNCHANGED <<procs, bootPid>>
      BY <2>5 DEF Kernel, Listener, RecvError, Recv, HandleExec, HandleForkOrExit,
                  ListenerLock, ListenerStore, vars, mainVars
    <3> QED BY <2>1, <3>1
  <2>6. CASE \/ RestartLock \/ RestartTake \/ RestartClear \/ ImportDone
             \/ ScanNext \/ Sample \/ ScanEnd \/ Wake
    <3>1. UNCHANGED <<procs, bootPid>>
      BY <2>6 DEF RestartLock, RestartTake, RestartClear, ImportDone, ScanNext,
                  Sample, ScanEnd, Wake
    <3> QED BY <2>1, <3>1
  <2> QED BY <1>2, <2>2, <2>3, <2>4, <2>5, <2>6 DEF Next, Main
<1> QED BY <1>1, <1>2

-----------------------------------------------------------------------------

(* How far a pass has come: what next has returned are the first cur_proc   *)
(* entries of a table that only the bootstrap and the replay change, and    *)
(* both leave cur_proc at the start.                                        *)
PassInv ==
  /\ curProc \in Nat /\ curProc <= Len(procs)
  /\ mpc \in {"boot", "boottask", "take", "clear", "import"} => curProc = 0 /\ scanned = <<>>
  /\ mpc \in {"scan", "sample"} => scanned = [i \in 1..curProc |-> procs[i].pid]
  /\ PassExact

(* A table has a length. *)
LEMMA TableLen ==
  ASSUME TableInv
  PROVE  Len(procs) \in Nat
BY LenProperties DEF TableInv, Table

(* The walk of a pass: only next moves it, and nothing changes the table    *)
(* under it.                                                                *)
LEMMA PassInvInductive ==
  /\ Init => PassInv
  /\ TableInv /\ PassInv /\ [Next]_vars /\ TableInv' => PassInv'
<1>1. Init => PassInv
  BY DEF Init, PassInv, PassExact
<1>2. ASSUME TableInv, PassInv, [Next]_vars, TableInv' PROVE PassInv'
  <2>1. Len(procs) \in Nat /\ Len(procs') \in Nat
    BY <1>2, TableLen DEF TableInv, Table
  <2> USE DEF PassInv, PassExact
  <2>2. CASE Kernel \/ Listener \/ UNCHANGED vars
    <3>1. UNCHANGED <<mpc, curProc, scanned, procs>>
      BY <2>2 DEF Kernel, Listener, RecvError, Recv, HandleExec, HandleForkOrExit,
                  ListenerLock, ListenerStore, vars, mainVars
    <3> QED BY <1>2, <3>1
  <2>3. CASE BootstrapNext \/ BootstrapTask
    BY <1>2, <2>1, <2>3 DEF BootstrapNext, BootstrapTask
  <2>4. CASE RestartLock \/ RestartTake \/ RestartClear \/ Wake
    BY <1>2, <2>1, <2>4 DEF RestartLock, RestartTake, RestartClear, Wake
  <2>5. CASE ImportEvent
    BY <1>2, <2>1, <2>5 DEF ImportEvent
  <2>6. CASE ImportDone
    <3>1. curProc = 0 /\ scanned = <<>> /\ UNCHANGED <<curProc, scanned, procs>> /\ mpc' = "scan"
      BY <1>2, <2>6 DEF ImportDone
    <3>2. <<>> = [i \in 1..0 |-> procs[i].pid]
      OBVIOUS
    <3> QED BY <2>1, <3>1, <3>2
  <2>7. CASE ScanNext
    <3> DEFINE walked(n) == [i \in 1..n |-> procs[i].pid]
    <3>1. /\ mpc' = "sample" /\ curProc' = curProc + 1 /\ UNCHANGED procs
          /\ scanned' = Append(walked(curProc), procs[curProc + 1].pid)
          /\ curProc < Len(procs)
      BY <1>2, <2>7 DEF ScanNext
    <3>2. Append(walked(curProc), procs[curProc + 1].pid) = walked(curProc + 1)
      BY <1>2
    <3> QED BY <1>2, <2>1, <3>1, <3>2
  <2>8. CASE Sample
    BY <1>2, <2>8 DEF Sample
  <2>9. CASE ScanEnd
    <3>1. /\ curProc >= Len(procs) /\ UNCHANGED <<curProc, scanned, procs>>
          /\ mpc' = "sleep" /\ mpc = "scan"
      BY <2>9 DEF ScanEnd
    <3>2. curProc = Len(procs)
      BY <1>2, <2>1, <3>1
    <3> QED BY <1>2, <3>1, <3>2
  <2> QED BY <1>2, <2>2, <2>3, <2>4, <2>5, <2>6, <2>7, <2>8, <2>9 DEF Next, Main
<1> QED BY <1>1, <1>2

-----------------------------------------------------------------------------

(* The bootstrap reads the tasks of a process it has entered. *)
BootInv ==
  /\ bootPid \in Tids \cup {0} /\ bootTid \in Tids \cup {0}
  /\ mpc = "boottask" => bootPid \in PidsOf(procs)

(* What the table knows of a parent was in an event that the listener had   *)
(* received, and by then logged.                                            *)
ParentInv ==
  /\ ParentPairs(procs) \subseteq Tids \X (Tids \cup {0})
  /\ \A pair \in ParentPairs(procs) : pair[2] # 0 => pair \in paternity
  /\ \A k \in 1..Len(heard) : Paternity(heard[k]) \subseteq paternity

(* Every pid of a table has its pair. *)
LEMMA PidsFromPairs ==
  ASSUME NEW ps, NEW pid \in PidsOf(ps)
  PROVE  \E parent : <<pid, parent>> \in ParentPairs(ps)
BY DEF PidsOf, ParentPairs

(* The next event to be replayed is one that the listener has logged. *)
LEMMA NextImported ==
  ASSUME EventInv, HandInv, ParentInv, ImportEvent
  PROVE  Head(evs) \in ReplayEvents(Tids) /\ Paternity(Head(evs)) \subseteq paternity
<1>1. /\ imported \in Seq(Queueable) /\ evs \in Seq(Queueable)
      /\ buffer \in Seq(Queueable) /\ evs # <<>> /\ InHand \in Seq(Queueable)
  BY DEF HandInv, QueueInv, ImportEvent, EventInv, ListenerInv, InHand
<1>2. heard = (imported \o (evs \o buffer)) \o InHand
  BY DEF HandInv, HandoverExact, Queued, ImportEvent
<1>3. Len(imported) < Len(heard) /\ heard[Len(imported) + 1] = Head(evs)
  BY <1>1, <1>2, HeadOfMiddle
<1>4. Len(imported) \in Nat /\ Len(heard) \in Nat
  BY <1>1, LenProperties DEF HandInv, QueueInv
<1>5. Len(imported) + 1 \in 1..Len(heard)
  BY <1>3, <1>4
<1>6. Head(evs) \in Queueable
  BY <1>1, HeadTailProperties
<1> QED BY <1>3, <1>5, <1>6 DEF ParentInv, Queueable

(* The bootstrap reads the tasks of a process only after it has entered it, *)
(* and nothing takes the entry away meanwhile.                              *)
LEMMA BootInvInductive ==
  /\ Init => BootInv
  /\ EventInv /\ HandInv /\ TableInv /\ BootInv /\ [Next]_vars => BootInv'
<1>1. Init => BootInv
  BY DEF Init, BootInv
<1>2. ASSUME EventInv, HandInv, TableInv, BootInv, [Next]_vars PROVE BootInv'
  <2> USE DEF BootInv
  <2>1. CASE BootstrapNext
    <3> DEFINE later == {p \in InProc : p > bootPid}
    <3>1. CASE later = {}
      BY <1>2, <2>1, <3>1 DEF BootstrapNext
    <3>2. CASE later # {}
      <4>1. Min(later) \in Tids
        <5>1. later \subseteq Tids
          BY DEF InProc
        <5> HIDE DEF later
        <5> QED BY <5>1, <3>2, MinOfTids
      <4>2. /\ procs' = InsertPid(procs, Min(later), 0)
            /\ bootPid' = Min(later) /\ bootTid' = 0
        BY <2>1, <3>2 DEF BootstrapNext
      <4> HIDE DEF later
      <4>3. Min(later) \in PidsOf(InsertPid(procs, Min(later), 0))
        <5>1. Table(procs) /\ Min(later) \in Nat
          BY <1>2, <4>1, TidsAssumption DEF TableInv
        <5>2. PidsOf(InsertPid(procs, Min(later), 0)) = PidsOf(procs) \cup {Min(later)}
          BY <5>1, InsertPidContents
        <5> QED BY <5>2
      <4> QED BY <4>1, <4>2, <4>3
    <3> QED BY <3>1, <3>2
  <2>2. CASE BootstrapTask
    <3> DEFINE later == {t \in Group(bootPid) : t # bootPid /\ t > bootTid}
    <3>1. CASE later = {}
      BY <1>2, <2>2, <3>1 DEF BootstrapTask
    <3>2. CASE later # {}
      <4>1. Min(later) \in Tids
        <5>1. later \subseteq Tids
          BY DEF Group
        <5> HIDE DEF later
        <5> QED BY <5>1, <3>2, MinOfTids
      <4>2. /\ procs' = InsertPidThread(procs, bootPid, Min(later))
            /\ bootTid' = Min(later) /\ UNCHANGED bootPid
        BY <2>2, <3>2 DEF BootstrapTask
      <4> HIDE DEF later
      <4>3. bootPid \in PidsOf(InsertPidThread(procs, bootPid, Min(later)))
        BY <1>2, InsertPidThreadContents DEF TableInv
      <4> QED BY <1>2, <4>1, <4>2, <4>3
    <3> QED BY <3>1, <3>2
  <2>3. CASE \/ RestartLock \/ RestartTake \/ RestartClear \/ ImportEvent \/ ImportDone
             \/ ScanNext \/ Sample \/ ScanEnd \/ Wake
    BY <1>2, <2>3 DEF RestartLock, RestartTake, RestartClear, ImportEvent, ImportDone,
                      ScanNext, Sample, ScanEnd, Wake
  <2>4. CASE Kernel \/ Listener \/ UNCHANGED vars
    <3>1. UNCHANGED <<mpc, procs, bootPid, bootTid>>
      BY <2>4 DEF Kernel, Listener, RecvError, Recv, HandleExec, HandleForkOrExit,
                  ListenerLock, ListenerStore, vars, mainVars
    <3> QED BY <1>2, <3>1
  <2> QED BY <1>2, <2>1, <2>2, <2>3, <2>4 DEF Next, Main
<1> QED BY <1>1, <1>2

(* A parent comes to the table by the replay of a fork alone, which the     *)
(* listener logged when it received it, and the log only grows.             *)
LEMMA ParentInvInductive ==
  /\ Init => ParentInv
  /\ EventInv /\ HandInv /\ TableInv /\ BootInv /\ ParentInv /\ [Next]_vars => ParentInv'
<1> USE TidsAssumption
<1>1. Init => ParentInv
  BY DEF Init, ParentInv, ParentPairs
<1>2. ASSUME EventInv, HandInv, TableInv, BootInv, ParentInv, [Next]_vars
      PROVE  ParentInv'
  <2>1. ASSUME NEW pid \in Tids,
               ParentPairs(procs') \subseteq ParentPairs(procs) \cup {<<pid, 0>>},
               UNCHANGED <<heard, paternity>>
        PROVE  ParentInv'
    BY <1>2, <2>1 DEF ParentInv
  <2>2. CASE UNCHANGED <<procs, heard, paternity>>
    BY <1>2, <2>2 DEF ParentInv
  <2>3. CASE BootstrapNext
    <3> DEFINE later == {p \in InProc : p > bootPid}
    <3>1. UNCHANGED <<heard, paternity>>
      BY <2>3 DEF BootstrapNext, listenerVars
    <3>2. CASE later = {}
      BY <2>3, <3>1, <3>2, <2>2 DEF BootstrapNext
    <3>3. CASE later # {}
      <4>1. Min(later) \in Tids
        <5>1. later \subseteq Tids
          BY DEF InProc
        <5> HIDE DEF later
        <5> QED BY <5>1, <3>3, MinOfTids
      <4>2. procs' = InsertPid(procs, Min(later), 0)
        BY <2>3, <3>3 DEF BootstrapNext
      <4> HIDE DEF later
      <4>3. ParentPairs(procs') \subseteq ParentPairs(procs) \cup {<<Min(later), 0>>}
        <5>1. Table(procs) /\ Min(later) \in Nat
          BY <1>2, <4>1 DEF TableInv
        <5>2. ParentPairs(InsertPid(procs, Min(later), 0))
                \subseteq ParentPairs(procs) \cup {<<Min(later), 0>>, <<Min(later), 0>>}
          BY <5>1, InsertPidContents
        <5> QED BY <4>2, <5>2
      <4> QED BY <2>1, <3>1, <4>1, <4>3
    <3> QED BY <3>2, <3>3
  <2>4. CASE BootstrapTask
    <3>1. UNCHANGED <<heard, paternity>> /\ mpc = "boottask"
      BY <2>4 DEF BootstrapTask, listenerVars
    <3>2. bootPid \in Tids
      BY <1>2, <3>1, PidsFromPairs DEF BootInv, ParentInv
    <3>3. UNCHANGED procs \/ \E t : procs' = InsertPidThread(procs, bootPid, t)
      BY <2>4 DEF BootstrapTask
    <3>4. ParentPairs(procs') \subseteq ParentPairs(procs) \cup {<<bootPid, 0>>}
      BY <1>2, <3>3, InsertPidThreadContents DEF TableInv
    <3> QED BY <2>1, <3>1, <3>2, <3>4
  <2>5. CASE ImportEvent
    <3> DEFINE e == Head(evs)
    <3>1. e \in ReplayEvents(Tids) /\ Paternity(e) \subseteq paternity
      BY <1>2, <2>5, NextImported
    <3>2. procs' = Replayed(procs, e) /\ UNCHANGED <<heard, paternity>>
      BY <2>5 DEF ImportEvent, listenerVars
    <3> HIDE DEF e
    <3>3. ParentPairs(procs') \subseteq ParentPairs(procs) \cup {<<e.tgid, 0>>} \cup Paternity(e)
      <4>1. Table(procs) /\ Tids \subseteq Nat
        BY <1>2 DEF TableInv
      <4> QED BY <3>1, <3>2, <4>1, ReplayContents DEF Paternity
    <3>4. e.tgid \in Tids /\ Paternity(e) \subseteq Tids \X (Tids \cup {0})
      BY <3>1 DEF ReplayEvents, Paternity
    <3> QED BY <1>2, <3>1, <3>2, <3>3, <3>4 DEF ParentInv
  <2>6. CASE HandleForkOrExit
    <3>1. /\ paternity' = paternity \cup Paternity(ev)
          /\ heard' = Append(heard, ev) /\ UNCHANGED procs
      BY <2>6 DEF HandleForkOrExit, mainVars
    <3>2. heard \in Seq(Queueable)
      BY <1>2 DEF HandInv, QueueInv
    <3>3. /\ Len(heard) \in Nat /\ Len(heard') = Len(heard) + 1
          /\ \A k \in 1..Len(heard) + 1 :
               heard'[k] = IF k = Len(heard) + 1 THEN ev ELSE heard[k]
      BY <3>1, <3>2, LenProperties, AppendProperties
    <3>4. ASSUME NEW k \in 1..Len(heard') PROVE Paternity(heard'[k]) \subseteq paternity'
      BY <1>2, <3>1, <3>3 DEF ParentInv
    <3> QED BY <1>2, <3>1, <3>4 DEF ParentInv
  <2>7. CASE Kernel \/ RecvError \/ Recv \/ HandleExec \/ ListenerLock \/ ListenerStore
             \/ UNCHANGED vars
    <3>1. UNCHANGED <<procs, heard, paternity>>
      BY <2>7 DEF Kernel, RecvError, Recv, HandleExec, ListenerLock, ListenerStore,
                  vars, listenerVars, mainVars
    <3> QED BY <3>1, <2>2
  <2>8. CASE \/ RestartLock \/ RestartTake \/ RestartClear \/ ImportDone
             \/ ScanNext \/ Sample \/ ScanEnd \/ Wake
    <3>1. UNCHANGED <<procs, heard, paternity>>
      BY <2>8 DEF RestartLock, RestartTake, RestartClear, ImportDone, ScanNext, Sample,
                  ScanEnd, Wake, listenerVars
    <3> QED BY <3>1, <2>2
  <2> QED BY <1>2, <2>3, <2>4, <2>5, <2>6, <2>7, <2>8 DEF Next, Main, Listener
<1> QED BY <1>1, <1>2

-----------------------------------------------------------------------------

(* A process keeps its leader until no other task is left in it, as a       *)
(* zombie if need be.                                                       *)
LEMMA LeaderInvInductive ==
  /\ Init => LeaderInv
  /\ EventInv /\ LeaderInv /\ [Next]_vars => LeaderInv'
<1> USE TidsAssumption
<1>1. Init => LeaderInv
  <2> SUFFICES ASSUME Init PROVE LeaderInv
    OBVIOUS
  <2>1. PICK k \in InitKernels :
          /\ tgid = k.tgid /\ running = k.running
          /\ headless = {k.tgid[t] : t \in Tids} \ (k.running \cup {0})
    BY DEF Init
  <2>2. /\ k.tgid \in [Tids -> Tids \cup {0}]
        /\ k.running \subseteq {t \in Tids : k.tgid[t] # 0}
        /\ \A t \in Tids : k.tgid[t] # 0 => k.tgid[k.tgid[t]] = k.tgid[t]
    BY InitAssumption
  <2> QED BY <2>1, <2>2 DEF LeaderInv
<1>2. ASSUME EventInv, LeaderInv, [Next]_vars PROVE LeaderInv'
  <2>1. /\ tgid \in [Tids -> Tids \cup {0}] /\ running \subseteq Tids
        /\ \A t \in running : tgid[t] # 0
        /\ \A t \in Tids : tgid[t] # 0 => tgid[tgid[t]] = tgid[t]
        /\ \A t \in running : tgid[t] \in running \cup headless
        /\ headless \subseteq Tids
    BY <1>2 DEF EventInv, KernelInv, LeaderInv
  <2>2. CASE UNCHANGED <<tgid, running, headless>>
    BY <1>2, <2>2 DEF LeaderInv
  <2>3. ASSUME NEW t \in Tids, TaskExit(t) PROVE LeaderInv'
    <3>1. t \in running /\ running' = running \ {t}
      BY <2>3 DEF TaskExit
    <3>2. CASE tgid[t] = t
      <4>1. UNCHANGED tgid
        BY <2>3, <3>2 DEF TaskExit
      <4>2. headless' = headless \cup (IF Group(t) # {t} THEN {t} ELSE {})
        BY <2>3, <3>2 DEF TaskExit
      <4>3. ASSUME NEW u \in running' PROVE tgid[u] \in running' \cup headless'
        <5>1. CASE tgid[u] = t
          <6>1. u \in Group(t) /\ u # t
            BY <2>1, <3>1, <4>3, <5>1 DEF Group
          <6> QED BY <4>2, <5>1, <6>1
        <5>2. CASE tgid[u] # t
          BY <2>1, <3>1, <4>2, <4>3, <5>2
        <5> QED BY <5>1, <5>2
      <4> QED BY <2>1, <4>1, <4>2, <4>3 DEF LeaderInv
    <3>3. CASE tgid[t] # t
      <4>1. tgid' = [tgid EXCEPT ![t] = 0] /\ headless' = headless
        BY <2>3, <3>3 DEF TaskExit
      <4>2. \A u \in Tids : tgid[u] # t
        BY <2>1, <3>3
      <4> QED BY <2>1, <3>1, <4>1, <4>2 DEF LeaderInv
    <3> QED BY <3>2, <3>3
  <2>4. ASSUME NEW p \in Tids, Reap(p) PROVE LeaderInv'
    <3>1. /\ p \notin running /\ tgid' = [tgid EXCEPT ![p] = 0]
          /\ UNCHANGED <<running, headless>>
      BY <2>4 DEF Reap
    <3>2. \A u \in Tids : u # p => tgid[u] # p
      BY <2>4 DEF Reap, Group
    <3> QED BY <2>1, <3>1, <3>2 DEF LeaderInv
  <2>5. ASSUME NEW t \in Tids, NEW c \in Tids, ForkProcess(t, c) PROVE LeaderInv'
    <3>1. /\ tgid[c] = 0 /\ tgid' = [tgid EXCEPT ![c] = c]
          /\ running' = running \cup {c} /\ UNCHANGED headless
      BY <2>5 DEF ForkProcess, FreeIds
    <3>2. \A u \in Tids : tgid[u] # c
      BY <2>1, <3>1
    <3> QED BY <2>1, <3>1, <3>2 DEF LeaderInv
  <2>6. ASSUME NEW t \in Tids, NEW c \in Tids, CloneThread(t, c) PROVE LeaderInv'
    <3>1. /\ t \in running /\ tgid[c] = 0 /\ tgid' = [tgid EXCEPT ![c] = tgid[t]]
          /\ running' = running \cup {c} /\ UNCHANGED headless
      BY <2>6 DEF CloneThread, FreeIds
    <3>2. tgid[t] \in Tids /\ tgid[tgid[t]] = tgid[t] /\ tgid[t] # c
      BY <2>1, <3>1
    <3>3. \A u \in Tids : tgid[u] # c
      BY <2>1, <3>1
    <3> QED BY <2>1, <3>1, <3>2, <3>3 DEF LeaderInv
  <2>7. ASSUME NEW t \in Tids, Exec(t) PROVE LeaderInv'
    <3>1. /\ t \in running /\ running' = (running \ {t}) \cup {tgid[t]}
          /\ tgid' = IF tgid[t] = t THEN tgid ELSE [tgid EXCEPT ![t] = 0]
          /\ UNCHANGED headless
      BY <2>7 DEF Exec
    <3>2. CASE tgid[t] = t
      BY <2>1, <3>1, <3>2 DEF LeaderInv
    <3>3. CASE tgid[t] # t
      <4>1. \A u \in Tids : tgid[u] # t
        BY <2>1, <3>3
      <4>2. tgid' = [tgid EXCEPT ![t] = 0] /\ tgid[t] \in Tids /\ tgid[tgid[t]] = tgid[t]
        BY <2>1, <3>1, <3>3
      <4>3. \A u \in Tids : tgid'[u] # 0 => tgid'[tgid'[u]] = tgid'[u]
        BY <2>1, <4>1, <4>2
      <4>4. \A u \in running' : tgid'[u] \in running' \cup headless'
        BY <2>1, <3>1, <3>3, <4>1, <4>2
      <4> QED BY <2>1, <3>1, <4>3, <4>4 DEF LeaderInv
    <3> QED BY <3>2, <3>3
  <2>8. CASE Listener \/ Main \/ UNCHANGED vars
    <3>1. UNCHANGED <<tgid, running, headless>>
      BY <2>8 DEF Listener, RecvError, Recv, HandleExec, HandleForkOrExit, ListenerLock,
                  ListenerStore, Main, BootstrapNext, BootstrapTask, RestartLock,
                  RestartTake, RestartClear, ImportEvent, ImportDone, ScanNext, Sample,
                  ScanEnd, Wake, vars, kernelVars
    <3> QED BY <2>2, <3>1
  <2> QED BY <1>2, <2>3, <2>4, <2>5, <2>6, <2>7, <2>8 DEF Next, Kernel
<1> QED BY <1>1, <1>2

-----------------------------------------------------------------------------

(* The last event about a process, in two sequences one after the other. *)
LEMMA ConcatNews ==
  ASSUME NEW S, NEW s \in Seq(S), NEW t \in Seq(S), NEW p
  PROVE  /\ Silent(s \o t, p) <=> Silent(s, p) /\ Silent(t, p)
         /\ \A what : LastAbout(s \o t, p, what) <=>
                        LastAbout(t, p, what) \/ (Silent(t, p) /\ LastAbout(s, p, what))
<1> DEFINE st == s \o t
<1>1. /\ Len(s) \in Nat /\ Len(t) \in Nat /\ Len(st) = Len(s) + Len(t)
      /\ \A i \in 1..Len(s) : st[i] = s[i]
      /\ \A i \in 1..Len(t) : st[i + Len(s)] = t[i]
  BY LenProperties, ConcatProperties
<1> HIDE DEF st
<1>2. \A i \in 1..Len(st) : i > Len(s) => i - Len(s) \in 1..Len(t) /\ st[i] = t[i - Len(s)]
  BY <1>1
<1>3. Silent(st, p) <=> Silent(s, p) /\ Silent(t, p)
  <2>1. ASSUME Silent(st, p), NEW i \in 1..Len(s) PROVE ~ About(s[i], p)
    <3>1. i \in 1..Len(st) /\ st[i] = s[i]
      BY <1>1
    <3> QED BY <2>1, <3>1 DEF Silent
  <2>2. ASSUME Silent(st, p), NEW i \in 1..Len(t) PROVE ~ About(t[i], p)
    <3>1. i + Len(s) \in 1..Len(st) /\ st[i + Len(s)] = t[i]
      BY <1>1
    <3> QED BY <2>2, <3>1 DEF Silent
  <2>3. ASSUME Silent(s, p), Silent(t, p), NEW i \in 1..Len(st) PROVE ~ About(st[i], p)
    <3>1. CASE i <= Len(s)
      BY <1>1, <2>3, <3>1 DEF Silent
    <3>2. CASE i > Len(s)
      BY <1>2, <2>3, <3>2 DEF Silent
    <3> QED BY <1>1, <3>1, <3>2
  <2> QED BY <2>1, <2>2, <2>3 DEF Silent
<1>4. ASSUME NEW what, LastAbout(t, p, what) PROVE LastAbout(st, p, what)
  <2>1. PICK i \in 1..Len(t) : /\ About(t[i], p) /\ t[i].what = what
                               /\ \A k \in i + 1..Len(t) : ~ About(t[k], p)
    BY <1>4 DEF LastAbout
  <2>2. i + Len(s) \in 1..Len(st) /\ st[i + Len(s)] = t[i]
    BY <1>1
  <2>3. ASSUME NEW k \in i + Len(s) + 1..Len(st) PROVE ~ About(st[k], p)
    <3>1. k - Len(s) \in i + 1..Len(t) /\ st[k] = t[k - Len(s)]
      BY <1>1, <1>2
    <3> QED BY <2>1, <3>1
  <2> QED BY <2>1, <2>2, <2>3 DEF LastAbout
<1>5. ASSUME NEW what, Silent(t, p), LastAbout(s, p, what) PROVE LastAbout(st, p, what)
  <2>1. PICK i \in 1..Len(s) : /\ About(s[i], p) /\ s[i].what = what
                               /\ \A k \in i + 1..Len(s) : ~ About(s[k], p)
    BY <1>5 DEF LastAbout
  <2>2. i \in 1..Len(st) /\ st[i] = s[i]
    BY <1>1
  <2>3. ASSUME NEW k \in i + 1..Len(st) PROVE ~ About(st[k], p)
    <3>1. CASE k <= Len(s)
      BY <1>1, <2>1, <3>1
    <3>2. CASE k > Len(s)
      <4>1. k \in 1..Len(st)
        BY <1>1, <3>2
      <4> QED BY <1>2, <1>5, <3>2, <4>1 DEF Silent
    <3> QED BY <1>1, <3>1, <3>2
  <2> QED BY <2>1, <2>2, <2>3 DEF LastAbout
<1>6. ASSUME NEW what, LastAbout(st, p, what)
      PROVE  LastAbout(t, p, what) \/ (Silent(t, p) /\ LastAbout(s, p, what))
  <2>1. PICK i \in 1..Len(st) : /\ About(st[i], p) /\ st[i].what = what
                                /\ \A k \in i + 1..Len(st) : ~ About(st[k], p)
    BY <1>6 DEF LastAbout
  <2>2. CASE i > Len(s)
    <3>1. i - Len(s) \in 1..Len(t) /\ st[i] = t[i - Len(s)]
      BY <1>2, <2>2
    <3>2. ASSUME NEW k \in i - Len(s) + 1..Len(t) PROVE ~ About(t[k], p)
      <4>1. k \in 1..Len(t) /\ k + Len(s) \in i + 1..Len(st)
        BY <1>1, <2>2
      <4> QED BY <1>1, <2>1, <4>1
    <3> QED BY <2>1, <3>1, <3>2 DEF LastAbout
  <2>3. CASE i <= Len(s)
    <3>1. i \in 1..Len(s) /\ st[i] = s[i]
      BY <1>1, <2>3
    <3>2. ASSUME NEW k \in i + 1..Len(s) PROVE ~ About(s[k], p)
      <4>1. k \in 1..Len(s) /\ k \in i + 1..Len(st)
        BY <1>1, <3>1
      <4> QED BY <1>1, <2>1, <4>1
    <3>3. ASSUME NEW k \in 1..Len(t) PROVE ~ About(t[k], p)
      <4>1. k + Len(s) \in i + 1..Len(st)
        BY <1>1, <2>3
      <4> QED BY <1>1, <2>1, <4>1
    <3> QED BY <2>1, <3>1, <3>2, <3>3 DEF LastAbout, Silent
  <2> QED BY <1>1, <2>2, <2>3
<1> QED BY <1>3, <1>4, <1>5, <1>6 DEF st

(* A single event is the last one of those it is about. *)
LEMMA SingleNews ==
  ASSUME NEW e, NEW p
  PROVE  /\ Silent(<<e>>, p) <=> ~ About(e, p)
         /\ \A what : LastAbout(<<e>>, p, what) <=> About(e, p) /\ e.what = what
BY DEF Silent, LastAbout

(* An empty sequence tells nothing. *)
LEMMA NoNews ==
  ASSUME NEW p
  PROVE  Silent(<<>>, p) /\ \A what : ~ LastAbout(<<>>, p, what)
BY DEF Silent, LastAbout

(* There is one last event, or none. *)
LEMMA LastIsOne ==
  ASSUME NEW S, NEW s \in Seq(S), NEW p, NEW what, LastAbout(s, p, what)
  PROVE  ~ Silent(s, p) /\ \A other : LastAbout(s, p, other) => other = what
<1>1. Len(s) \in Nat
  BY LenProperties
<1>2. PICK i \in 1..Len(s) : /\ About(s[i], p) /\ s[i].what = what
                             /\ \A k \in i + 1..Len(s) : ~ About(s[k], p)
  BY DEF LastAbout
<1>3. ASSUME NEW other, LastAbout(s, p, other) PROVE other = what
  <2>1. PICK j \in 1..Len(s) : /\ About(s[j], p) /\ s[j].what = other
                               /\ \A k \in j + 1..Len(s) : ~ About(s[k], p)
    BY <1>3 DEF LastAbout
  <2>2. ~ (i < j) /\ ~ (j < i)
    BY <1>1, <1>2, <2>1
  <2>3. i = j
    BY <2>2
  <2> QED BY <1>2, <2>1, <2>3
<1> QED BY <1>2, <1>3 DEF Silent

-----------------------------------------------------------------------------

(* What the events on their way will do to the entry of a process. *)
Arrives(p) == LastAbout(OnWay, p, "FORK")
Leaves(p) == LastAbout(OnWay, p, "EXIT")
Unheard(p) == Silent(OnWay, p)
SameNews(p) ==
  /\ Arrives(p)' <=> Arrives(p)
  /\ Leaves(p)' <=> Leaves(p)
  /\ Unheard(p)' <=> Unheard(p)

(* Unless an event was dropped: the last event about a process that runs    *)
(* and has not lost its leader is no exit, and if there is none the process *)
(* is in the table already or the bootstrap will come to it; the last one   *)
(* about a process that has gone is its exit, and if there is none it is not in the table, nor in /proc for  *)
(* the bootstrap to find.                                                   *)
Lives(p) == p \in running /\ tgid[p] = p
Owed(p) == p \in Alive \ beheaded
Found(p) ==
  \/ Arrives(p)
  \/ Unheard(p) /\ (p \in PidsOf(procs) \/ (~ Bootstrapped /\ p > bootPid))
Forgotten(p) ==
  \/ Leaves(p)
  \/ Unheard(p) /\ p \notin PidsOf(procs) /\ (Bootstrapped \/ tgid[p] # p)
NewsInv ==
  ~ lost => \A p \in Tids : /\ Owed(p) => Found(p)
                            /\ ~ Lives(p) /\ p \notin headless => Forgotten(p)

(* The parts of the way are sequences of events. *)
LEMMA WayParts ==
  ASSUME EventInv, HandInv
  PROVE  /\ evs \in Seq(KernelEvents) /\ buffer \in Seq(KernelEvents)
         /\ Queued \in Seq(KernelEvents) /\ InHand \in Seq(KernelEvents)
         /\ Received \in Seq(KernelEvents) /\ chan \in Seq(KernelEvents)
         /\ OnWay \in Seq(KernelEvents)
<1>1. Queueable \subseteq KernelEvents
  BY DEF Queueable, ReplayEvents, KernelEvents
<1>2. evs \in Seq(KernelEvents) /\ buffer \in Seq(KernelEvents)
  <2>1. evs \in Seq(Queueable) /\ buffer \in Seq(Queueable)
    BY DEF HandInv, QueueInv
  <2> QED BY <1>1, <2>1, SeqMonotonic
<1>3. Queued \in Seq(KernelEvents)
  BY <1>2, ConcatProperties DEF Queued
<1>4. InHand \in Seq(KernelEvents) /\ Received \in Seq(KernelEvents)
  BY DEF EventInv, ListenerInv, InHand, Received
<1>5. chan \in Seq(KernelEvents)
  BY DEF EventInv, ChanInv
<1> QED BY <1>2, <1>3, <1>4, <1>5, ConcatProperties DEF OnWay

(* An event that is posted comes last. *)
LEMMA PostedNews ==
  ASSUME EventInv, HandInv, NEW e \in KernelEvents, Post(e), ~ lost',
         UNCHANGED <<listenerVars, buffer, mainVars>>, NEW p
  PROVE  IF About(e, p)
           THEN /\ Arrives(p)' <=> e.what = "FORK"
                /\ Leaves(p)' <=> e.what = "EXIT"
                /\ ~ Unheard(p)'
           ELSE SameNews(p)
<1>1. chan' = Append(chan, e)
  BY DEF Post
<1>2. /\ Queued \in Seq(KernelEvents) /\ InHand \in Seq(KernelEvents)
      /\ Received \in Seq(KernelEvents) /\ chan \in Seq(KernelEvents)
      /\ OnWay \in Seq(KernelEvents)
  BY WayParts
<1>3. UNCHANGED <<Queued, InHand, Received>>
  BY DEF listenerVars, mainVars, Queued, InHand, Received
<1>4. OnWay' = (Queued \o InHand) \o (Received \o Append(chan, e))
  BY <1>1, <1>3 DEF OnWay
<1>5. OnWay' = OnWay \o <<e>>
  <2>1. Queued \o InHand \in Seq(KernelEvents)
    BY <1>2, ConcatProperties
  <2> DEFINE ahead == Queued \o InHand
  <2> HIDE DEF ahead
  <2>2. ahead \o (Received \o Append(chan, e)) = (ahead \o (Received \o chan)) \o <<e>>
    <3>1. ahead \in Seq(KernelEvents)
      BY <2>1 DEF ahead
    <3>2. Received \in Seq(KernelEvents) /\ chan \in Seq(KernelEvents) /\ e \in KernelEvents
      BY <1>2
    <3> QED BY <3>1, <3>2, AppendToLast
  <2> QED BY <1>4, <2>2 DEF OnWay, ahead
<1>6. <<e>> \in Seq(KernelEvents)
  OBVIOUS
<1>7. /\ Silent(OnWay \o <<e>>, p) <=> Silent(OnWay, p) /\ ~ About(e, p)
      /\ \A what : LastAbout(OnWay \o <<e>>, p, what) <=>
           \/ About(e, p) /\ e.what = what
           \/ ~ About(e, p) /\ LastAbout(OnWay, p, what)
  BY <1>2, <1>6, ConcatNews, SingleNews
<1>8. /\ Arrives(p)' <=> LastAbout(OnWay \o <<e>>, p, "FORK")
      /\ Leaves(p)' <=> LastAbout(OnWay \o <<e>>, p, "EXIT")
      /\ Unheard(p)' <=> Silent(OnWay \o <<e>>, p)
  BY <1>5 DEF Arrives, Leaves, Unheard
<1> QED BY <1>7, <1>8 DEF SameNews, Arrives, Leaves, Unheard

(* As long as nothing is dropped a process of the kernel is found, or       *)
(* forgotten, whatever the kernel does.                                     *)
LEMMA KernelKeepsNews ==
  ASSUME EventInv, HandInv, LeaderInv, NewsInv, Kernel
  PROVE  NewsInv'
<1> SUFFICES ASSUME ~ lost', NEW p \in Tids
             PROVE  /\ Owed(p)' => Found(p)'
                    /\ ~ Lives(p)' /\ p \notin headless' => Forgotten(p)'
  BY DEF NewsInv
<1> USE TidsAssumption
<1>1. UNCHANGED <<listenerVars, buffer, mainVars>>
  BY DEF Kernel
<1>2. UNCHANGED <<procs, bootPid, Bootstrapped>>
  BY <1>1 DEF mainVars, Bootstrapped
<1>3. /\ tgid \in [Tids -> Tids \cup {0}] /\ running \subseteq Tids
      /\ \A t \in running : tgid[t] # 0
      /\ \A t \in Tids : tgid[t] # 0 => tgid[tgid[t]] = tgid[t]
      /\ \A t \in running : tgid[t] \in running \cup headless
  BY DEF EventInv, KernelInv, LeaderInv
<1>4. ~ lost => /\ Owed(p) => Found(p)
                /\ ~ Lives(p) /\ p \notin headless => Forgotten(p)
  BY DEF NewsInv
<1> DEFINE Kept == /\ Found(p) => Found(p)'
                   /\ Forgotten(p) /\ (tgid'[p] = p => tgid[p] = p) => Forgotten(p)'
<1>5. ASSUME SameNews(p) PROVE Kept
  BY <1>2, <1>5 DEF SameNews, Found, Forgotten
<1>6. ASSUME NEW e \in KernelEvents, Post(e)
      PROVE  /\ ~ lost
             /\ ~ About(e, p) => Kept
             /\ About(e, p) /\ e.what = "FORK" => Found(p)'
             /\ About(e, p) /\ e.what = "EXIT" => Forgotten(p)'
  <2>1. ~ lost
    BY <1>6 DEF Post
  <2>2. CASE About(e, p)
    BY <1>1, <1>6, <2>1, <2>2, PostedNews DEF Found, Forgotten
  <2>3. CASE ~ About(e, p)
    BY <1>1, <1>5, <1>6, <2>1, <2>3, PostedNews
  <2> QED BY <2>1, <2>2, <2>3
<1> HIDE DEF Kept
<1>7. ASSUME NEW t \in Tids, TaskExit(t)
      PROVE  /\ Owed(p)' => Found(p)'
             /\ ~ Lives(p)' /\ p \notin headless' => Forgotten(p)'
  <2> DEFINE e == Event("EXIT", t, tgid[t], 0)
  <2>1. /\ t \in running /\ running' = running \ {t}
        /\ tgid' = IF tgid[t] = t THEN tgid ELSE [tgid EXCEPT ![t] = 0]
        /\ headless \subseteq headless' /\ Post(e)
        /\ beheaded \subseteq beheaded'
        /\ tgid[t] = t /\ Group(t) # {t} => t \in beheaded'
    BY <1>7 DEF TaskExit
  <2>2. tgid[t] \in Tids
    BY <1>3, <2>1
  <2>3. e \in KernelEvents
    BY <2>2, KernelEvent
  <2>4. e.what = "EXIT" /\ (About(e, p) <=> tgid[t] = p /\ t = p)
    BY DEF Event, About
  <2> HIDE DEF e
  <2>5. CASE About(e, p)
    <3>1. ~ Owed(p)'
      <4> SUFFICES ASSUME p \in Alive' PROVE p \in beheaded'
        BY DEF Owed
      <4>1. PICK u \in running' : tgid'[u] = p
        BY DEF Alive
      <4>2. tgid' = tgid /\ t = p /\ tgid[t] = t
        BY <2>1, <2>4, <2>5
      <4>3. u \in Group(t) /\ u # t
        BY <1>3, <2>1, <4>1, <4>2 DEF Group
      <4> QED BY <2>1, <4>2, <4>3
    <3> QED BY <1>6, <2>1, <2>3, <2>4, <2>5, <3>1
  <2>6. CASE ~ About(e, p)
    <3>1. (Lives(p)' <=> Lives(p)) /\ (Owed(p)' => Owed(p))
      <4>1. Lives(p)' <=> Lives(p)
        BY <1>3, <2>1, <2>4, <2>6 DEF Lives
      <4>2. Alive' \subseteq Alive
        BY <1>3, <2>1 DEF Alive
      <4> QED BY <2>1, <4>1, <4>2 DEF Owed
    <3>2. tgid'[p] = p => tgid[p] = p
      BY <1>3, <2>1
    <3> QED BY <1>4, <1>6, <2>1, <2>3, <2>6, <3>1, <3>2 DEF Kept
  <2> QED BY <2>5, <2>6
<1>8. ASSUME NEW t \in Tids, NEW c \in Tids, ForkProcess(t, c)
      PROVE  /\ Owed(p)' => Found(p)'
             /\ ~ Lives(p)' /\ p \notin headless' => Forgotten(p)'
  <2> DEFINE e == Event("FORK", c, c, tgid[t])
  <2>1. /\ tgid[c] = 0 /\ tgid' = [tgid EXCEPT ![c] = c]
        /\ running' = running \cup {c} /\ headless' = headless /\ Post(e)
        /\ beheaded' = beheaded \ {c}
    BY <1>8 DEF ForkProcess, FreeIds
  <2>2. tgid[t] \in Tids \cup {0}
    BY <1>3
  <2>3. e \in KernelEvents
    BY <2>2, KernelEvent
  <2>4. e.what = "FORK" /\ (About(e, p) <=> c = p)
    BY DEF Event, About
  <2> HIDE DEF e
  <2>5. CASE c = p
    <3>1. Lives(p)'
      BY <1>3, <2>1, <2>5 DEF Lives
    <3> QED BY <1>6, <2>1, <2>3, <2>4, <2>5, <3>1
  <2>6. CASE c # p
    <3>1. (Lives(p)' <=> Lives(p)) /\ (tgid'[p] = p => tgid[p] = p)
      BY <1>3, <2>1, <2>6 DEF Lives
    <3>2. Owed(p)' => Owed(p)
      <4>1. Alive' \subseteq Alive \cup {c}
        BY <1>3, <2>1 DEF Alive
      <4> QED BY <2>1, <2>6, <4>1 DEF Owed
    <3> QED BY <1>4, <1>6, <2>1, <2>3, <2>4, <2>6, <3>1, <3>2 DEF Kept
  <2> QED BY <2>5, <2>6
<1>9. ASSUME NEW t \in Tids, NEW c \in Tids, CloneThread(t, c)
      PROVE  /\ Owed(p)' => Found(p)'
             /\ ~ Lives(p)' /\ p \notin headless' => Forgotten(p)'
  <2> DEFINE e == Event("FORK", c, tgid[t], tgid[t])
  <2>1. /\ t \in running /\ tgid[c] = 0 /\ tgid' = [tgid EXCEPT ![c] = tgid[t]]
        /\ running' = running \cup {c} /\ headless' = headless /\ Post(e)
        /\ beheaded' = beheaded \ {tgid[t]}
    BY <1>9 DEF CloneThread, FreeIds
  <2>2. /\ tgid[t] \in Tids /\ tgid[tgid[t]] = tgid[t] /\ tgid[t] # c
        /\ tgid[t] \in running \cup headless
    BY <1>3, <2>1
  <2>3. e \in KernelEvents
    BY <2>2, KernelEvent
  <2>4. e.what = "FORK" /\ (About(e, p) <=> tgid[t] = p)
    BY DEF Event, About
  <2> HIDE DEF e
  <2>5. Lives(p)' <=> Lives(p)
    BY <1>3, <2>1, <2>2 DEF Lives
  <2>6. CASE tgid[t] = p
    <3>1. Found(p)'
      BY <1>6, <2>1, <2>3, <2>4, <2>6
    <3>2. Lives(p) \/ p \in headless
      BY <2>2, <2>6 DEF Lives
    <3> QED BY <2>1, <2>5, <3>1, <3>2
  <2>7. CASE tgid[t] # p
    <3>1. tgid'[p] = p => tgid[p] = p
      BY <1>3, <2>1, <2>2, <2>7
    <3>2. Owed(p)' => Owed(p)
      <4>1. Alive' \subseteq Alive
        BY <1>3, <2>1 DEF Alive
      <4> QED BY <2>1, <2>7, <4>1 DEF Owed
    <3> QED BY <1>4, <1>6, <2>1, <2>3, <2>4, <2>5, <2>7, <3>1, <3>2 DEF Kept
  <2> QED BY <2>6, <2>7
<1>10. ASSUME NEW t \in Tids, Exec(t)
       PROVE  /\ Owed(p)' => Found(p)'
              /\ ~ Lives(p)' /\ p \notin headless' => Forgotten(p)'
  <2> DEFINE e == Event("EXEC", tgid[t], tgid[t], 0)
  <2>1. /\ t \in running /\ running' = (running \ {t}) \cup {tgid[t]}
        /\ tgid' = IF tgid[t] = t THEN tgid ELSE [tgid EXCEPT ![t] = 0]
        /\ Post(e) /\ UNCHANGED <<headless, beheaded>>
    BY <1>10 DEF Exec
  <2>2. tgid[t] \in Tids /\ tgid[tgid[t]] = tgid[t]
    BY <1>3, <2>1
  <2>3. e \in KernelEvents
    BY <2>2, KernelEvent
  <2>4. ~ About(e, p)
    BY DEF Event, About
  <2> HIDE DEF e
  <2>5. Owed(p)' => Owed(p)
    <3>1. \A u \in running' : tgid'[u] \in {tgid[v] : v \in running}
      <4> SUFFICES ASSUME NEW u \in running' PROVE \E v \in running : tgid'[u] = tgid[v]
        OBVIOUS
      <4>1. CASE u = tgid[t]
        BY <1>3, <2>1, <2>2, <4>1
      <4>2. CASE u # tgid[t]
        <5>1. u \in running /\ u # t
          BY <2>1, <4>2
        <5> QED BY <1>3, <2>1, <5>1
      <4> QED BY <4>1, <4>2
    <3> QED BY <2>1, <3>1 DEF Owed, Alive
  <2>6. Lives(p) => Lives(p)' \/ p \in headless
    BY <1>3, <2>1, <2>2 DEF Lives
  <2>7. tgid'[p] = p => tgid[p] = p
    BY <1>3, <2>1, <2>2
  <2> QED BY <1>4, <1>6, <2>1, <2>3, <2>4, <2>5, <2>6, <2>7 DEF Kept
<1>11. ASSUME NEW x \in Tids, Reap(x)
       PROVE  /\ Owed(p)' => Found(p)'
              /\ ~ Lives(p)' /\ p \notin headless' => Forgotten(p)'
  <2>1. /\ x \notin running /\ tgid' = [tgid EXCEPT ![x] = 0]
        /\ UNCHANGED <<running, headless, beheaded, lost, chan>>
    BY <1>11 DEF Reap
  <2>2. OnWay' = OnWay
    BY <1>1, <2>1 DEF OnWay, Queued, InHand, Received, listenerVars, mainVars
  <2>3. SameNews(p)
    BY <2>2 DEF SameNews, Arrives, Leaves, Unheard
  <2>4. (Lives(p)' <=> Lives(p)) /\ (tgid'[p] = p => tgid[p] = p)
    BY <1>3, <2>1 DEF Lives
  <2>5. Owed(p)' <=> Owed(p)
    <3>1. \A t \in running : tgid'[t] = tgid[t]
      BY <1>3, <2>1
    <3> QED BY <2>1, <3>1 DEF Owed, Alive
  <2> QED BY <1>4, <1>5, <2>1, <2>3, <2>4, <2>5 DEF Kept
<1> QED BY <1>7, <1>8, <1>9, <1>10, <1>11 DEF Kernel

(* An event stays on its way while the listener and the mutex pass it on. *)
LEMMA ListenerKeepsWay ==
  ASSUME EventInv, HandInv, Listener, NEW p
  PROVE  SameNews(p)
<1>1. /\ evs \in Seq(KernelEvents) /\ buffer \in Seq(KernelEvents)
      /\ Queued \in Seq(KernelEvents) /\ chan \in Seq(KernelEvents)
  BY WayParts
<1>2. ASSUME OnWay' = OnWay PROVE SameNews(p)
  BY <1>2 DEF SameNews, Arrives, Leaves, Unheard
<1>3. CASE RecvError \/ ListenerLock
  BY <1>2, <1>3 DEF OnWay, Queued, InHand, Received, RecvError, ListenerLock,
                    kernelVars, listenerVars, mainVars
<1>4. CASE Recv
  <2>1. /\ OnWay = (Queued \o <<>>) \o (<<>> \o chan)
        /\ OnWay' = (Queued \o <<>>) \o (<<Head(chan)>> \o Tail(chan))
    BY <1>4 DEF OnWay, Queued, InHand, Received, Recv, mainVars
  <2>2. <<Head(chan)>> \o Tail(chan) = <<>> \o chan
    BY <1>1, <1>4, HeadThenTail DEF Recv
  <2> QED BY <1>2, <2>1, <2>2
<1>5. CASE HandleForkOrExit
  <2>1. /\ OnWay = (Queued \o <<>>) \o (<<ev>> \o chan)
        /\ OnWay' = (Queued \o <<ev>>) \o (<<>> \o chan)
    BY <1>5 DEF OnWay, Queued, InHand, Received, HandleForkOrExit, kernelVars, mainVars
  <2>2. ev \in KernelEvents
    BY <1>5 DEF EventInv, ListenerInv, HandleForkOrExit
  <2>3. (Queued \o <<ev>>) \o (<<>> \o chan) = (Queued \o <<>>) \o (<<ev>> \o chan)
    BY <1>1, <2>2, PassOn
  <2> QED BY <1>2, <2>1, <2>3
<1>6. CASE ListenerStore
  <2>1. mpc # "clear"
    BY <1>6 DEF HandInv, LockInv, ListenerStore
  <2>2. /\ OnWay = ((evs \o buffer) \o <<ev>>) \o (<<>> \o chan)
        /\ OnWay' = ((evs \o Append(buffer, ev)) \o <<>>) \o (<<>> \o chan)
    BY <1>6, <2>1 DEF OnWay, Queued, InHand, Received, ListenerStore, kernelVars, mainVars
  <2>3. ev \in KernelEvents
    BY <1>6 DEF EventInv, ListenerInv, ListenerStore
  <2>4. (evs \o Append(buffer, ev)) \o <<>> = (evs \o buffer) \o <<ev>>
    BY <1>1, <2>3, StoreLast
  <2> QED BY <1>2, <2>2, <2>4
<1>7. CASE HandleExec
  <2> DEFINE ahead == Queued \o <<>>
  <2>1. /\ OnWay = ahead \o (<<ev>> \o chan) /\ OnWay' = ahead \o (<<>> \o chan)
        /\ ev.what = "EXEC"
    BY <1>7 DEF OnWay, Queued, InHand, Received, HandleExec, kernelVars, mainVars
  <2>2. ev \in KernelEvents /\ ~ About(ev, p)
    BY <1>7, <2>1 DEF EventInv, ListenerInv, HandleExec, About
  <2>3. /\ ahead \in Seq(KernelEvents) /\ <<ev>> \in Seq(KernelEvents)
        /\ <<>> \in Seq(KernelEvents)
        /\ <<ev>> \o chan \in Seq(KernelEvents) /\ <<>> \o chan \in Seq(KernelEvents)
    BY <1>1, <2>2, ConcatProperties
  <2> HIDE DEF ahead
  <2>4. /\ Silent(<<ev>> \o chan, p) <=> Silent(chan, p)
        /\ \A what : LastAbout(<<ev>> \o chan, p, what) <=> LastAbout(chan, p, what)
    BY <1>1, <2>2, <2>3, ConcatNews, SingleNews
  <2>5. /\ Silent(<<>> \o chan, p) <=> Silent(chan, p)
        /\ \A what : LastAbout(<<>> \o chan, p, what) <=> LastAbout(chan, p, what)
    BY <1>1, <2>3, ConcatNews, NoNews
  <2>6. /\ Silent(ahead \o (<<ev>> \o chan), p) <=> Silent(ahead \o (<<>> \o chan), p)
        /\ \A what : LastAbout(ahead \o (<<ev>> \o chan), p, what)
                       <=> LastAbout(ahead \o (<<>> \o chan), p, what)
    <3>1. /\ Silent(ahead \o (<<ev>> \o chan), p) <=> Silent(ahead, p) /\ Silent(chan, p)
          /\ \A what : LastAbout(ahead \o (<<ev>> \o chan), p, what) <=>
               LastAbout(chan, p, what) \/ (Silent(chan, p) /\ LastAbout(ahead, p, what))
      BY <2>3, <2>4, ConcatNews
    <3>2. /\ Silent(ahead \o (<<>> \o chan), p) <=> Silent(ahead, p) /\ Silent(chan, p)
          /\ \A what : LastAbout(ahead \o (<<>> \o chan), p, what) <=>
               LastAbout(chan, p, what) \/ (Silent(chan, p) /\ LastAbout(ahead, p, what))
      BY <2>3, <2>5, ConcatNews
    <3> QED BY <3>1, <3>2
  <2>7. /\ Arrives(p) <=> LastAbout(ahead \o (<<ev>> \o chan), p, "FORK")
        /\ Leaves(p) <=> LastAbout(ahead \o (<<ev>> \o chan), p, "EXIT")
        /\ Unheard(p) <=> Silent(ahead \o (<<ev>> \o chan), p)
        /\ Arrives(p)' <=> LastAbout(ahead \o (<<>> \o chan), p, "FORK")
        /\ Leaves(p)' <=> LastAbout(ahead \o (<<>> \o chan), p, "EXIT")
        /\ Unheard(p)' <=> Silent(ahead \o (<<>> \o chan), p)
    BY <2>1 DEF Arrives, Leaves, Unheard
  <2> QED BY <2>6, <2>7 DEF SameNews
<1> QED BY <1>3, <1>4, <1>5, <1>6, <1>7 DEF Listener

(* So does the main thread when it takes the buffer, and elsewhere. *)
LEMMA MainKeepsWay ==
  ASSUME EventInv, HandInv, Main, ~ ImportEvent
  PROVE  OnWay' = OnWay
<1>1. UNCHANGED <<Received, chan, InHand>>
  BY DEF Main, BootstrapNext, BootstrapTask, RestartLock, RestartTake, RestartClear,
         ImportDone, ScanNext, Sample, ScanEnd, Wake, Received, InHand,
         kernelVars, listenerVars
<1>2. UNCHANGED Queued
  <2>1. evs \in Seq(Queueable) /\ buffer \in Seq(Queueable)
    BY DEF HandInv, QueueInv
  <2>2. CASE RestartTake
    <3>1. Queued = <<>> \o buffer /\ Queued' = buffer
      BY <2>2 DEF Queued, HandInv, QueueInv, RestartTake
    <3> QED BY <2>1, <3>1, ConcatEmptySeq
  <2>3. CASE RestartClear
    <3>1. Queued = evs /\ Queued' = evs \o <<>>
      BY <2>3 DEF Queued, RestartClear
    <3> QED BY <2>1, <3>1, ConcatEmptySeq
  <2>4. CASE \/ BootstrapNext \/ BootstrapTask \/ RestartLock \/ ImportDone
             \/ ScanNext \/ Sample \/ ScanEnd \/ Wake
    BY <2>4 DEF Queued, BootstrapNext, BootstrapTask, RestartLock, ImportDone,
                ScanNext, Sample, ScanEnd, Wake
  <2> QED BY <2>2, <2>3, <2>4 DEF Main
<1> QED BY <1>1, <1>2 DEF OnWay

(* The replay takes the first event off the way. *)
LEMMA ImportedNews ==
  ASSUME EventInv, HandInv, ImportEvent, NEW p
  PROVE  LET e == Head(evs) IN
         /\ Arrives(p) <=> Arrives(p)' \/ (Unheard(p)' /\ About(e, p) /\ e.what = "FORK")
         /\ Leaves(p) <=> Leaves(p)' \/ (Unheard(p)' /\ About(e, p) /\ e.what = "EXIT")
         /\ Unheard(p) <=> Unheard(p)' /\ ~ About(e, p)
<1> DEFINE e == Head(evs)
           rest == ((Tail(evs) \o buffer) \o InHand) \o (Received \o chan)
<1>1. /\ evs \in Seq(KernelEvents) /\ buffer \in Seq(KernelEvents) /\ evs # <<>>
      /\ InHand \in Seq(KernelEvents) /\ Received \o chan \in Seq(KernelEvents)
  BY WayParts, ConcatProperties DEF ImportEvent
<1>2. e \in KernelEvents /\ Tail(evs) \in Seq(KernelEvents)
  BY <1>1, HeadTailProperties
<1>3. /\ OnWay = ((evs \o buffer) \o InHand) \o (Received \o chan)
      /\ OnWay' = rest
  BY DEF ImportEvent, OnWay, Queued, InHand, Received, kernelVars, listenerVars
<1>4. OnWay = <<e>> \o rest
  <2> DEFINE last == Received \o chan
  <2>1. last \in Seq(KernelEvents)
    BY <1>1
  <2> HIDE DEF last
  <2>2. ((evs \o buffer) \o InHand) \o last
          = <<Head(evs)>> \o (((Tail(evs) \o buffer) \o InHand) \o last)
    <3>1. /\ evs \in Seq(KernelEvents) /\ buffer \in Seq(KernelEvents) /\ evs # <<>>
          /\ InHand \in Seq(KernelEvents)
      BY <1>1
    <3> QED BY <2>1, <3>1
  <2> QED BY <1>3, <2>2 DEF last
<1>5. <<e>> \in Seq(KernelEvents) /\ rest \in Seq(KernelEvents)
  BY <1>1, <1>2, ConcatProperties
<1> HIDE DEF e, rest
<1>6. /\ Silent(<<e>> \o rest, p) <=> Silent(rest, p) /\ ~ About(e, p)
      /\ \A what : LastAbout(<<e>> \o rest, p, what) <=>
           LastAbout(rest, p, what) \/ (Silent(rest, p) /\ About(e, p) /\ e.what = what)
  BY <1>5, ConcatNews, SingleNews
<1>7. /\ Arrives(p) <=> LastAbout(<<e>> \o rest, p, "FORK")
      /\ Leaves(p) <=> LastAbout(<<e>> \o rest, p, "EXIT")
      /\ Unheard(p) <=> Silent(<<e>> \o rest, p)
      /\ Arrives(p)' <=> LastAbout(rest, p, "FORK")
      /\ Leaves(p)' <=> LastAbout(rest, p, "EXIT")
      /\ Unheard(p)' <=> Silent(rest, p)
  BY <1>3, <1>4 DEF Arrives, Leaves, Unheard
<1> QED BY <1>6, <1>7 DEF e

(* A turn of the replay does to the table what its event announced. *)
LEMMA ReplayKeepsNews ==
  ASSUME EventInv, HandInv, TableInv, NewsInv, ParentInv, ImportEvent
  PROVE  NewsInv'
<1> DEFINE e == Head(evs)
<1>1. UNCHANGED <<running, tgid, headless, beheaded, lost, bootPid, Bootstrapped>> /\ Bootstrapped
  BY DEF ImportEvent, kernelVars, Bootstrapped
<1>2. e \in ReplayEvents(Tids)
  BY NextImported
<1>3. procs' = Replayed(procs, e)
  BY DEF ImportEvent
<1>4. /\ e.what = "FORK" => PidsOf(procs') = PidsOf(procs) \cup {e.tgid}
      /\ e.what = "EXIT" /\ e.pid = e.tgid => PidsOf(procs') = PidsOf(procs) \ {e.tgid}
      /\ e.what = "EXIT" /\ e.pid # e.tgid => PidsOf(procs') = PidsOf(procs)
  <2>1. Tids \subseteq Nat /\ Table(procs)
    BY TidsAssumption DEF TableInv
  <2> HIDE DEF e
  <2>2. e.what = "FORK" => PidsOf(Replayed(procs, e)) = PidsOf(procs) \cup {e.tgid}
    BY <1>2, <2>1, ReplayContents
  <2>3. e.what = "EXIT" /\ e.pid = e.tgid =>
          PidsOf(Replayed(procs, e)) = PidsOf(procs) \ {e.tgid}
    BY <1>2, <2>1, ReplayContents
  <2>4. ASSUME e.what = "EXIT", e.pid # e.tgid
        PROVE  PidsOf(Replayed(procs, e)) = PidsOf(procs)
    <3>1. Replayed(procs, e) = RemovePidThread(procs, e.tgid, e.pid)
      BY <2>4 DEF Replayed
    <3>2. e.tgid \in Nat
      BY <1>2, <2>1 DEF ReplayEvents
    <3> QED BY <2>1, <3>1, <3>2, RemovePidThreadContents
  <2> QED BY <1>3, <2>2, <2>3, <2>4
<1>5. e.what \in {"FORK", "EXIT"}
  BY <1>2 DEF ReplayEvents
<1> SUFFICES ASSUME ~ lost, NEW p \in Tids
             PROVE  /\ Owed(p) => Found(p)'
                    /\ ~ Lives(p) /\ p \notin headless => Forgotten(p)'
  BY <1>1 DEF NewsInv, Lives, Owed, Alive
<1>6. /\ Arrives(p) <=> Arrives(p)' \/ (Unheard(p)' /\ About(e, p) /\ e.what = "FORK")
      /\ Leaves(p) <=> Leaves(p)' \/ (Unheard(p)' /\ About(e, p) /\ e.what = "EXIT")
      /\ Unheard(p) <=> Unheard(p)' /\ ~ About(e, p)
  BY ImportedNews
<1> HIDE DEF e
<1>7. /\ About(e, p) /\ e.what = "FORK" => p \in PidsOf(procs')
      /\ About(e, p) /\ e.what = "EXIT" => p \notin PidsOf(procs')
      /\ ~ About(e, p) => (p \in PidsOf(procs') <=> p \in PidsOf(procs))
  BY <1>4, <1>5 DEF About
<1>8. /\ Owed(p) => Found(p)
      /\ ~ Lives(p) /\ p \notin headless => Forgotten(p)
  BY DEF NewsInv
<1>9. Owed(p) => Found(p)'
  BY <1>1, <1>6, <1>7, <1>8 DEF Found
<1>10. ~ Lives(p) /\ p \notin headless => Forgotten(p)'
  BY <1>1, <1>6, <1>7, <1>8 DEF Forgotten
<1> QED BY <1>9, <1>10

(* The bootstrap comes to every process of /proc, in the order of their     *)
(* pids.                                                                    *)
LEMMA BootstrapKeepsNews ==
  ASSUME EventInv, HandInv, TableInv, BootInv, LeaderInv, NewsInv, BootstrapNext \/ BootstrapTask
  PROVE  NewsInv'
<1>1. UNCHANGED <<running, tgid, headless, beheaded, lost>> /\ ~ Bootstrapped
  BY DEF BootstrapNext, BootstrapTask, kernelVars, Bootstrapped
<1>2. OnWay' = OnWay
  <2>1. Main /\ ~ ImportEvent
    BY DEF Main, BootstrapNext, BootstrapTask, ImportEvent
  <2> QED BY <2>1, MainKeepsWay
<1> SUFFICES ASSUME ~ lost, NEW p \in Tids
             PROVE  /\ Owed(p) => Found(p)'
                    /\ ~ Lives(p) /\ p \notin headless => Forgotten(p)'
  BY <1>1 DEF NewsInv, Lives, Owed, Alive
<1>3. (Arrives(p)' <=> Arrives(p)) /\ (Leaves(p)' <=> Leaves(p)) /\ (Unheard(p)' <=> Unheard(p))
  BY <1>2 DEF Arrives, Leaves, Unheard
<1>4. /\ Owed(p) => Found(p)
      /\ ~ Lives(p) /\ p \notin headless => Forgotten(p)
  BY DEF NewsInv
<1>5. p \in Nat /\ bootPid \in Nat /\ Tids \subseteq Nat
  BY TidsAssumption DEF BootInv
<1>6. Owed(p) => tgid[p] = p
  <2>1. \A t \in running : tgid[tgid[t]] = tgid[t]
    BY DEF EventInv, KernelInv, LeaderInv
  <2> QED BY <2>1 DEF Owed, Alive
<1>7. CASE BootstrapNext
  <2> DEFINE later == {q \in InProc : q > bootPid}
  <2>1. CASE later = {}
    <3>1. UNCHANGED <<procs, bootPid>> /\ Bootstrapped'
      BY <1>7, <2>1 DEF BootstrapNext, Bootstrapped
    <3>2. Owed(p) => ~ (p > bootPid)
      BY <1>6, <2>1 DEF InProc
    <3>3. Owed(p) => Found(p)'
      BY <1>3, <1>4, <3>1, <3>2 DEF Found
    <3>4. ~ Lives(p) /\ p \notin headless => Forgotten(p)'
      BY <1>1, <1>3, <1>4, <3>1 DEF Forgotten
    <3> QED BY <3>3, <3>4
  <2>2. CASE later # {}
    <3>1. later \subseteq Tids
      BY DEF InProc
    <3>2. Min(later) \in later /\ \A q \in later : Min(later) <= q
      <4> HIDE DEF later
      <4> QED BY <2>2, <3>1, MinOfTids
    <3> DEFINE m == Min(later)
    <3>3. procs' = InsertPid(procs, m, 0) /\ bootPid' = m /\ ~ Bootstrapped'
      BY <1>7, <2>2 DEF BootstrapNext, Bootstrapped
    <3>4. m \in Tids /\ tgid[m] = m /\ m > bootPid
      BY <3>2 DEF InProc
    <3>5. Owed(p) /\ p > bootPid => m <= p
      BY <1>6, <3>2 DEF InProc
    <3> HIDE DEF m, later
    <3>6. m \in Nat
      BY <1>5, <3>4
    <3>7. PidsOf(procs') = PidsOf(procs) \cup {m}
      <4>1. Table(procs)
        BY DEF TableInv
      <4> QED BY <3>3, <3>6, <4>1, InsertPidContents
    <3>8. Owed(p) => Found(p)'
      <4>1. Owed(p) => \/ Arrives(p)
                       \/ Unheard(p) /\ (p \in PidsOf(procs) \/ p > bootPid)
        BY <1>4 DEF Found
      <4>2. Owed(p) /\ p > bootPid => p \in PidsOf(procs') \/ p > m
        BY <1>5, <3>5, <3>6, <3>7
      <4>3. Owed(p) => \/ Arrives(p)
                       \/ Unheard(p) /\ (p \in PidsOf(procs') \/ p > bootPid')
        BY <3>3, <3>7, <4>1, <4>2
      <4> QED BY <1>3, <3>3, <4>3 DEF Found
    <3>9. ~ Lives(p) /\ p \notin headless => Forgotten(p)'
      <4> SUFFICES ASSUME ~ Lives(p), p \notin headless, ~ Leaves(p)
                   PROVE  Unheard(p) /\ p \notin PidsOf(procs') /\ tgid[p] # p
        BY <1>1, <1>3 DEF Forgotten
      <4>1. Unheard(p) /\ p \notin PidsOf(procs) /\ tgid[p] # p
        BY <1>1, <1>4 DEF Forgotten
      <4> QED BY <3>4, <3>7, <4>1
    <3> QED BY <3>8, <3>9
  <2> QED BY <2>1, <2>2
<1>8. CASE BootstrapTask
  <2>1. /\ UNCHANGED bootPid /\ ~ Bootstrapped' /\ mpc = "boottask"
        /\ UNCHANGED procs \/ \E t : procs' = InsertPidThread(procs, bootPid, t)
    BY <1>8 DEF BootstrapTask, Bootstrapped
  <2>2. bootPid \in PidsOf(procs)
    BY <2>1 DEF BootInv
  <2>3. PidsOf(procs') = PidsOf(procs)
    <3>1. ASSUME NEW t PROVE PidsOf(InsertPidThread(procs, bootPid, t)) = PidsOf(procs)
      <4>1. Table(procs)
        BY DEF TableInv
      <4>2. PidsOf(InsertPidThread(procs, bootPid, t)) = PidsOf(procs) \cup {bootPid}
        BY <1>5, <4>1, InsertPidThreadContents
      <4> QED BY <2>2, <4>2
    <3> QED BY <2>1, <3>1
  <2>4. Owed(p) => Found(p)'
    BY <1>1, <1>3, <1>4, <2>1, <2>3 DEF Found
  <2>5. ~ Lives(p) /\ p \notin headless => Forgotten(p)'
    BY <1>1, <1>3, <1>4, <2>1, <2>3 DEF Forgotten
  <2> QED BY <2>4, <2>5
<1> QED BY <1>7, <1>8

(* The last event about a process is never at odds with whether it runs:    *)
(* the kernel posts an event with each change, the threads pass it on, and  *)
(* the bootstrap and the replay do to the table what the events say.        *)
LEMMA NewsInvInductive ==
  /\ Init => NewsInv
  /\ EventInv /\ HandInv /\ TableInv /\ BootInv /\ ParentInv /\ LeaderInv /\ NewsInv
       /\ [Next]_vars => NewsInv'
<1>1. Init => NewsInv
  <2> SUFFICES ASSUME Init, NEW p \in Tids
               PROVE  /\ Owed(p) => Found(p)
                      /\ ~ Lives(p) /\ p \notin headless => Forgotten(p)
    BY DEF NewsInv
  <2>1. /\ mpc = "boot" /\ bootPid = 0 /\ procs = <<>>
        /\ evs = <<>> /\ buffer = <<>> /\ chan = <<>> /\ lpc = "recv"
    BY DEF Init
  <2>2. OnWay = <<>>
    BY <2>1 DEF OnWay, Queued, InHand, Received
  <2>3. Unheard(p)
    BY <2>2, NoNews DEF Unheard
  <2>4. p \in Nat /\ p > 0
    BY TidsAssumption
  <2>5. Found(p)
    BY <2>1, <2>3, <2>4 DEF Found, Bootstrapped
  <2>6. ~ Lives(p) /\ p \notin headless => tgid[p] # p
    <3>1. PICK k \in InitKernels :
            /\ tgid = k.tgid /\ running = k.running
            /\ headless = {k.tgid[t] : t \in Tids} \ (k.running \cup {0})
      BY DEF Init
    <3> QED BY <2>4, <3>1 DEF Lives
  <2>7. p \notin PidsOf(procs)
    BY <2>1 DEF PidsOf
  <2> QED BY <2>3, <2>5, <2>6, <2>7 DEF Forgotten
<1>2. ASSUME EventInv, HandInv, TableInv, BootInv, ParentInv, LeaderInv, NewsInv, [Next]_vars
      PROVE  NewsInv'
  <2>1. ASSUME UNCHANGED <<running, tgid, headless, beheaded, lost, procs, bootPid, Bootstrapped>>,
               \A p \in Tids : SameNews(p)
        PROVE  NewsInv'
    BY <1>2, <2>1 DEF NewsInv, Lives, Owed, Alive, Found, Forgotten, SameNews
  <2>2. CASE Kernel
    BY <1>2, <2>2, KernelKeepsNews
  <2>3. CASE Listener
    <3>1. UNCHANGED <<running, tgid, headless, beheaded, lost, procs, bootPid, Bootstrapped>>
      BY <2>3 DEF Listener, RecvError, Recv, HandleExec, HandleForkOrExit, ListenerLock,
                  ListenerStore, kernelVars, mainVars, Bootstrapped
    <3> QED BY <1>2, <2>1, <2>3, <3>1, ListenerKeepsWay
  <2>4. CASE BootstrapNext \/ BootstrapTask
    BY <1>2, <2>4, BootstrapKeepsNews
  <2>5. CASE ImportEvent
    BY <1>2, <2>5, ReplayKeepsNews
  <2>6. CASE \/ RestartLock \/ RestartTake \/ RestartClear \/ ImportDone
             \/ ScanNext \/ Sample \/ ScanEnd \/ Wake
    <3>1. UNCHANGED <<running, tgid, headless, beheaded, lost, procs, bootPid, Bootstrapped>>
      BY <2>6 DEF RestartLock, RestartTake, RestartClear, ImportDone, ScanNext, Sample,
                  ScanEnd, Wake, kernelVars, Bootstrapped
    <3>2. Main /\ ~ ImportEvent
      BY <2>6 DEF Main, ImportEvent, RestartLock, RestartTake, RestartClear, ImportDone,
                  ScanNext, Sample, ScanEnd, Wake
    <3>3. OnWay' = OnWay
      BY <1>2, <3>2, MainKeepsWay
    <3> QED BY <2>1, <3>1, <3>3 DEF SameNews, Arrives, Leaves, Unheard
  <2>7. CASE UNCHANGED vars
    <3>1. OnWay' = OnWay
      BY <2>7 DEF vars, kernelVars, listenerVars, mainVars, OnWay, Queued, InHand, Received
    <3>2. UNCHANGED <<running, tgid, headless, beheaded, lost, procs, bootPid, Bootstrapped>>
      BY <2>7 DEF vars, kernelVars, mainVars, Bootstrapped
    <3> QED BY <2>1, <3>1, <3>2 DEF SameNews, Arrives, Leaves, Unheard
  <2> QED BY <1>2, <2>2, <2>3, <2>4, <2>5, <2>6, <2>7 DEF Next, Main
<1> QED BY <1>1, <1>2

-----------------------------------------------------------------------------

(* What the queues hold and where the two threads may be. *)
PlaceInv ==
  /\ posted \in 0..MaxEvents /\ Len(chan) <= ChanCap
  /\ overrun \in BOOLEAN /\ lost \in BOOLEAN
  /\ mpc \in {"boot", "boottask", "restart", "take", "clear",
              "import", "scan", "sample", "sleep"}
  /\ lock \in {None, "listener", "main"}

(* A queue never holds more than its capacity, and the mutex is held by one *)
(* of the two threads or by none.                                           *)
LEMMA PlaceInvInductive ==
  /\ Init => PlaceInv
  /\ EventInv /\ PlaceInv /\ [Next]_vars => PlaceInv'
<1>1. Init => PlaceInv
  <2> SUFFICES ASSUME Init PROVE PlaceInv
    OBVIOUS
  <2>1. posted = 0 /\ chan = <<>> /\ overrun = FALSE /\ lost = FALSE
    BY DEF Init
  <2>2. mpc = "boot" /\ lock = None
    BY DEF Init
  <2>3. Len(<<>>) = 0
    BY EmptySeq
  <2>4. posted \in 0..MaxEvents /\ Len(chan) <= ChanCap
    BY <2>1, <2>3, BoundsAssumption
  <2> QED BY <2>1, <2>2, <2>4 DEF PlaceInv
<1>2. ASSUME EventInv, PlaceInv, [Next]_vars PROVE PlaceInv'
  <2>1. Len(chan) \in Nat /\ chan \in Seq(KernelEvents)
    BY <1>2, LenProperties DEF EventInv, ChanInv
  <2>2. ASSUME NEW e \in KernelEvents, Post(e), UNCHANGED <<mpc, lock>> PROVE PlaceInv'
    <3>1. posted' \in 0..MaxEvents
      BY <1>2, <2>2, BoundsAssumption DEF PlaceInv, Post
    <3>2. CASE Len(chan) < ChanCap
      <4>1. chan' = Append(chan, e) /\ UNCHANGED <<overrun, lost>>
        BY <2>2, <3>2 DEF Post
      <4>2. Len(Append(chan, e)) = Len(chan) + 1
        BY <2>1, AppendProperties
      <4>3. Len(chan') <= ChanCap
        BY <2>1, <3>2, <4>1, <4>2, BoundsAssumption
      <4> QED BY <1>2, <2>2, <3>1, <4>1, <4>3 DEF PlaceInv
    <3>3. CASE ~ (Len(chan) < ChanCap)
      BY <1>2, <2>2, <3>1, <3>3 DEF PlaceInv, Post
    <3> QED BY <3>2, <3>3
  <2>3. CASE Kernel
    <3>1. UNCHANGED <<mpc, lock>>
      BY <2>3 DEF Kernel, mainVars
    <3>2. \A t \in running : tgid[t] \in Tids
      BY <1>2 DEF EventInv, KernelInv
    <3>3. ASSUME NEW t \in Tids, TaskExit(t) PROVE PlaceInv'
      <4>1. Event("EXIT", t, tgid[t], 0) \in KernelEvents
        BY <3>2, <3>3, KernelEvent DEF TaskExit
      <4> QED BY <2>2, <3>1, <3>3, <4>1 DEF TaskExit
    <3>4. ASSUME NEW t \in Tids, Exec(t) PROVE PlaceInv'
      <4>1. Event("EXEC", tgid[t], tgid[t], 0) \in KernelEvents
        BY <3>2, <3>4, KernelEvent, TidsAssumption DEF Exec
      <4> QED BY <2>2, <3>1, <3>4, <4>1 DEF Exec
    <3>5. ASSUME NEW p \in Tids, Reap(p) PROVE PlaceInv'
      BY <1>2, <3>1, <3>5 DEF Reap, PlaceInv
    <3>6. ASSUME NEW t \in Tids, NEW c \in Tids, ForkProcess(t, c) PROVE PlaceInv'
      <4>1. Event("FORK", c, c, tgid[t]) \in KernelEvents
        BY <3>2, <3>6, KernelEvent DEF ForkProcess
      <4> QED BY <2>2, <3>1, <3>6, <4>1 DEF ForkProcess
    <3>7. ASSUME NEW t \in Tids, NEW c \in Tids, CloneThread(t, c) PROVE PlaceInv'
      <4>1. Event("FORK", c, tgid[t], tgid[t]) \in KernelEvents
        BY <3>2, <3>7, KernelEvent DEF CloneThread
      <4> QED BY <2>2, <3>1, <3>7, <4>1 DEF CloneThread
    <3> QED BY <2>3, <3>3, <3>4, <3>5, <3>6, <3>7 DEF Kernel
  <2>4. CASE Recv
    <3>1. Len(Tail(chan)) = Len(chan) - 1
      BY <2>1, <2>4, HeadTailProperties DEF Recv
    <3>2. Len(chan') <= ChanCap
      BY <1>2, <2>1, <2>4, <3>1, BoundsAssumption DEF Recv, PlaceInv
    <3> QED BY <1>2, <2>4, <3>2 DEF Recv, PlaceInv, mainVars
  <2>5. CASE RecvError \/ HandleExec \/ HandleForkOrExit \/ ListenerLock \/ ListenerStore
    BY <1>2, <2>5 DEF RecvError, HandleExec, HandleForkOrExit, ListenerLock,
                      ListenerStore, PlaceInv, kernelVars, mainVars
  <2>6. CASE Main
    <3>1. UNCHANGED kernelVars
      BY <2>6 DEF Main, BootstrapNext, BootstrapTask, RestartLock, RestartTake,
                  RestartClear, ImportEvent, ImportDone, ScanNext, Sample, ScanEnd, Wake
    <3>2. /\ mpc' \in {"boot", "boottask", "restart", "take", "clear",
                       "import", "scan", "sample", "sleep"}
          /\ lock' \in {lock, None, "main"}
      <4> USE DEF PlaceInv
      <4>1. CASE BootstrapNext
        BY <1>2, <4>1 DEF BootstrapNext
      <4>2. CASE BootstrapTask
        BY <1>2, <4>2 DEF BootstrapTask
      <4>3. CASE RestartLock \/ RestartTake \/ RestartClear
        BY <1>2, <4>3 DEF RestartLock, RestartTake, RestartClear
      <4>4. CASE ImportEvent \/ ImportDone \/ ScanNext \/ Sample \/ ScanEnd \/ Wake
        BY <1>2, <4>4 DEF ImportEvent, ImportDone, ScanNext, Sample, ScanEnd, Wake
      <4> QED BY <2>6, <4>1, <4>2, <4>3, <4>4 DEF Main
    <3> QED BY <1>2, <3>1, <3>2 DEF PlaceInv, kernelVars
  <2>7. CASE UNCHANGED vars
    BY <1>2, <2>7 DEF vars, kernelVars, mainVars, PlaceInv
  <2> QED BY <1>2, <2>3, <2>4, <2>5, <2>6, <2>7 DEF Next, Listener
<1> QED BY <1>1, <1>2

(* The table lists no thread but task ids. *)
ThreadsInv == procs \in Seq(Entry(Seq(Tids)))

(* The bootstrap enters tasks it reads in /proc, the replay those of the    *)
(* events, and the compaction leaves only what was there.                   *)
LEMMA ThreadsInvInductive ==
  /\ Init => ThreadsInv
  /\ EventInv /\ HandInv /\ TableInv /\ BootInv /\ ThreadsInv /\ [Next]_vars => ThreadsInv'
<1> USE TidsAssumption
<1>1. Init => ThreadsInv
  BY DEF Init, ThreadsInv
<1>2. ASSUME EventInv, HandInv, TableInv, BootInv, ThreadsInv, [Next]_vars
      PROVE  ThreadsInv'
  <2>0. SortedByPid(procs) /\ procs \in Seq(Entry(Seq(Tids))) /\ bootPid \in Nat
    BY <1>2 DEF TableInv, Table, ThreadsInv
  <2>1. CASE UNCHANGED procs
    BY <1>2, <2>1 DEF ThreadsInv
  <2>2. CASE BootstrapNext
    <3> DEFINE later == {p \in InProc : p > bootPid}
    <3>1. CASE later = {}
      BY <2>1, <2>2, <3>1 DEF BootstrapNext
    <3>2. CASE later # {}
      <4>1. Min(later) \in Nat
        <5>1. later \subseteq Tids
          BY DEF InProc
        <5> HIDE DEF later
        <5> QED BY <5>1, <3>2, MinOfTids
      <4>2. procs' = InsertPid(procs, Min(later), 0)
        BY <2>2, <3>2 DEF BootstrapNext
      <4> HIDE DEF later
      <4>3. <<>> \in Seq(Tids) /\ 0 \in Nat
        OBVIOUS
      <4>4. InsertPid(procs, Min(later), 0) \in Seq(Entry(Seq(Tids)))
        BY <2>0, <4>1, <4>3, InsertPidTyped
      <4> QED BY <4>2, <4>4 DEF ThreadsInv
    <3> QED BY <3>1, <3>2
  <2>3. CASE BootstrapTask
    <3> DEFINE later == {t \in Group(bootPid) : t # bootPid /\ t > bootTid}
    <3>1. CASE later = {}
      BY <2>1, <2>3, <3>1 DEF BootstrapTask
    <3>2. CASE later # {}
      <4>1. Min(later) \in Tids
        <5>1. later \subseteq Tids
          BY DEF Group
        <5> HIDE DEF later
        <5> QED BY <5>1, <3>2, MinOfTids
      <4>2. procs' = InsertPidThread(procs, bootPid, Min(later))
        BY <2>3, <3>2 DEF BootstrapTask
      <4> HIDE DEF later
      <4>3. InsertPidThread(procs, bootPid, Min(later)) \in Seq(Entry(Seq(Tids)))
        BY <2>0, <4>1, InsertPidThreadTyped
      <4> QED BY <4>2, <4>3 DEF ThreadsInv
    <3> QED BY <3>1, <3>2
  <2>4. CASE ImportEvent
    <3>1. Head(evs) \in ReplayEvents(Tids)
      BY <1>2, <2>4, HeadTailProperties DEF HandInv, QueueInv, ImportEvent, Queueable
    <3>2. procs' = Replayed(procs, Head(evs)) /\ Tids \subseteq Nat
      BY <2>4 DEF ImportEvent
    <3>3. Replayed(procs, Head(evs)) \in Seq(Entry(Seq(Tids)))
      BY <2>0, <3>1, <3>2, ReplayKeepsThreads
    <3> QED BY <3>2, <3>3 DEF ThreadsInv
  <2>5. CASE \/ Kernel \/ Listener \/ UNCHANGED vars \/ RestartLock \/ RestartTake
             \/ RestartClear \/ ImportDone \/ ScanNext \/ Sample \/ ScanEnd \/ Wake
    <3>1. UNCHANGED procs
      BY <2>5 DEF Kernel, Listener, RecvError, Recv, HandleExec, HandleForkOrExit,
                  ListenerLock, ListenerStore, vars, mainVars, RestartLock, RestartTake,
                  RestartClear, ImportDone, ScanNext, Sample, ScanEnd, Wake
    <3> QED BY <2>1, <3>1
  <2> QED BY <1>2, <2>2, <2>3, <2>4, <2>5 DEF Next, Main
<1> QED BY <1>1, <1>2

-----------------------------------------------------------------------------

(* The inductive invariant: what each of its parts says is above. *)
IInv ==
  /\ EventInv /\ HandInv /\ TableInv /\ BootInv
  /\ PassInv /\ ParentInv /\ LeaderInv /\ NewsInv
  /\ PlaceInv /\ ThreadsInv

(* The parts hold at the start, and each step keeps every one of them, given *)
(* the ones before it.                                                       *)
LEMMA Invariance == Spec => []IInv
<1>1. Init => IInv
  BY EventInvInductive, HandInvInductive, TableInvInductive, BootInvInductive,
     PassInvInductive, ParentInvInductive, LeaderInvInductive, NewsInvInductive,
     PlaceInvInductive, ThreadsInvInductive DEF IInv
<1>2. IInv /\ [Next]_vars => IInv'
  <2> SUFFICES ASSUME IInv, [Next]_vars
               PROVE  IInv'
    OBVIOUS
  <2>1. EventInv' /\ HandInv' /\ TableInv'
    BY EventInvInductive, HandInvInductive, TableInvInductive DEF IInv
  <2>2. BootInv' /\ PassInv'
    BY <2>1, BootInvInductive, PassInvInductive DEF IInv
  <2>3. ParentInv' /\ LeaderInv' /\ NewsInv'
    BY ParentInvInductive, LeaderInvInductive, NewsInvInductive DEF IInv
  <2>4. PlaceInv' /\ ThreadsInv'
    BY PlaceInvInductive, ThreadsInvInductive DEF IInv
  <2> QED BY <2>1, <2>2, <2>3, <2>4 DEF IInv
<1> QED BY <1>1, <1>2, PTL DEF Spec

(* All that the scanner keeps is well formed: the socket's queue within its *)
(* capacity, every entry of the table a process, its parent and a list of   *)
(* its threads, the walk inside a table that cannot outgrow the ids.        *)
THEOREM ScannerTyped == Spec => []TypeOK
<1>1. IInv => TypeOK
  <2> SUFFICES ASSUME IInv PROVE TypeOK
    OBVIOUS
  <2>1. /\ tgid \in [Tids -> Tids \cup {0}] /\ running \subseteq Tids
        /\ lpc \in {"recv", "news", "lock", "store"}
        /\ bootPid \in Tids \cup {0} /\ bootTid \in Tids \cup {0}
    BY DEF IInv, EventInv, KernelInv, ListenerInv, BootInv
  <2>2. ASSUME NEW i \in 1..Len(procs)
        PROVE  /\ procs[i].pid \in Tids /\ procs[i].parent \in Tids \cup {0}
               /\ procs[i].threads \in Seq(Tids)
    <3>1. <<procs[i].pid, procs[i].parent>> \in Tids \X (Tids \cup {0})
      BY DEF IInv, ParentInv, ParentPairs
    <3>2. procs[i] \in Entry(Seq(Tids))
      BY ElementOfSeq DEF IInv, ThreadsInv
    <3> QED BY <3>1, <3>2 DEF Entry
  <2>3. curProc \in 0..Cardinality(Tids)
    <3>1. PidsOf(procs) \subseteq Tids
      BY <2>2 DEF PidsOf
    <3>2. Len(procs) \in Nat /\ Len(procs) <= Cardinality(Tids)
      BY <3>1, TidsAssumption, FewTids, TableFits DEF IInv, TableInv
    <3>3. Cardinality(Tids) \in Nat
      BY FewTids, FS_CardinalityType
    <3>4. curProc \in Nat /\ curProc <= Len(procs)
      BY DEF IInv, PassInv
    <3> QED BY <3>2, <3>3, <3>4
  <2> QED BY <2>1, <2>2, <2>3 DEF TypeOK, IInv, PlaceInv
<1> QED BY <1>1, Invariance, PTL

(* The table is sorted by pid in every state, in every interleaving of the  *)
(* bootstrap with the replay and for every sequence of kernel events, even  *)
(* one with losses.                                                         *)
THEOREM TableSorted == Spec => []Sorted
<1>1. IInv => Sorted
  BY DEF IInv, TableInv, Table, Sorted
<1> QED BY <1>1, Invariance, PTL

(* No event is lost, duplicated or reordered between the two threads. *)
THEOREM HandoverIsExact == Spec => []HandoverExact
<1>1. IInv => HandoverExact
  BY DEF IInv, HandInv
<1> QED BY <1>1, Invariance, PTL

(* The table never knows a parent that paternity.log does not: the log      *)
(* cannot fall behind what the dump shows of the processes.                 *)
THEOREM ParentsLogged == Spec => []ParentLogged
<1>1. IInv => ParentLogged
  <2> SUFFICES ASSUME IInv, NEW i \in 1..Len(procs), procs[i].parent # 0
               PROVE  <<procs[i].pid, procs[i].parent>> \in paternity
    BY DEF ParentLogged
  <2>1. <<procs[i].pid, procs[i].parent>> \in ParentPairs(procs)
    BY DEF ParentPairs
  <2> QED BY <2>1 DEF IInv, ParentInv
<1> QED BY <1>1, Invariance, PTL

(* Each pass returns every process of the table once, in order, however the *)
(* events that arrive during it change the buffer.                          *)
THEOREM PassIsExact == Spec => []PassExact
<1>1. IInv => PassExact
  BY DEF IInv, PassInv
<1> QED BY <1>1, Invariance, PTL

(* As long as the socket drops nothing, a process with a running thread is  *)
(* in the table, or the last event on its way about it is a fork, unless    *)
(* its leader has exited before other threads (by itself, or because one of *)
(* them had to take its place to exec) and no clone has been seen since.    *)
THEOREM NothingMissed == Spec => []NoProcessMissed
<1>1. IInv => NoProcessMissed
  <2> SUFFICES ASSUME IInv, Bootstrapped, ~ lost, NEW p \in Alive, p \notin beheaded
               PROVE  p \in Expected
    BY DEF NoProcessMissed
  <2>1. p \in Tids /\ Owed(p)
    BY DEF Owed, Alive, IInv, EventInv, KernelInv
  <2>2. Found(p)
    BY <2>1 DEF IInv, NewsInv
  <2> QED BY <2>1, <2>2 DEF Found, Expected, Arrives, Unheard
<1> QED BY <1>1, Invariance, PTL

(* As long as the socket drops nothing, a process that has exited is out of *)
(* the table once the events on their way are replayed, unless its leader   *)
(* went before its threads.                                                 *)
THEOREM NoGhosts == Spec => []NoGhost
<1>1. IInv => NoGhost
  <2> SUFFICES ASSUME IInv, Bootstrapped, ~ lost, NEW p \in Expected,
                      p \notin Alive, p \notin headless
               PROVE  FALSE
    BY DEF NoGhost
  <2>1. p \in Tids /\ ~ Lives(p)
    BY DEF Lives, Alive, Expected
  <2>2. Forgotten(p)
    BY <2>1 DEF IInv, NewsInv
  <2>3. \/ Arrives(p)
        \/ Unheard(p) /\ p \in PidsOf(procs)
    BY DEF Expected, Arrives, Unheard
  <2>4. OnWay \in Seq(KernelEvents)
    BY WayParts DEF IInv
  <2>5. Arrives(p) => ~ Leaves(p) /\ ~ Unheard(p)
    <3>1. ASSUME Arrives(p) PROVE ~ Leaves(p) /\ ~ Unheard(p)
      <4>1. LastAbout(OnWay, p, "FORK")
        BY <3>1 DEF Arrives
      <4>2. /\ ~ Silent(OnWay, p)
            /\ \A other : LastAbout(OnWay, p, other) => other = "FORK"
        BY <2>4, <4>1, LastIsOne
      <4> QED BY <4>2 DEF Leaves, Unheard
    <3> QED BY <3>1
  <2>6. Leaves(p) => ~ Unheard(p)
    <3>1. ASSUME Leaves(p) PROVE ~ Unheard(p)
      <4>1. LastAbout(OnWay, p, "EXIT")
        BY <3>1 DEF Leaves
      <4>2. ~ Silent(OnWay, p)
        BY <2>4, <4>1, LastIsOne
      <4> QED BY <4>2 DEF Unheard
    <3> QED BY <3>1
  <2> QED BY <2>2, <2>3, <2>5, <2>6 DEF Forgotten
<1> QED BY <1>1, Invariance, PTL

(* The scanner implements the abstract hand-over (its safety part). *)
THEOREM ImplementsHandover == Spec => Handover!Spec
<1>1. Init => Handover!Init
  BY DEF Init, Handover!Init
<1>2. IInv /\ [Next]_vars => [Handover!Next]_<<heard, imported>>
  <2> SUFFICES ASSUME IInv, [Next]_vars
               PROVE  [Handover!Next]_<<heard, imported>>
    OBVIOUS
  <2>1. CASE HandleForkOrExit
    <3>1. ev \in Queueable
      BY <2>1 DEF IInv, EventInv, ListenerInv, HandleForkOrExit, KernelEvents,
                  Queueable, ReplayEvents
    <3>2. heard' = Append(heard, ev) /\ UNCHANGED imported
      BY <2>1 DEF HandleForkOrExit, mainVars
    <3>3. Handover!Hear
      BY <3>1, <3>2 DEF Handover!Hear, Queueable, ReplayEvents
    <3> QED BY <3>3 DEF Handover!Next
  <2>2. CASE ImportEvent
    <3> DEFINE rest == Queued \o InHand
    <3>1. /\ imported \in Seq(Queueable) /\ evs \in Seq(Queueable)
          /\ buffer \in Seq(Queueable) /\ evs # <<>>
      BY <2>2 DEF IInv, HandInv, QueueInv, ImportEvent
    <3>2. InHand \in Seq(Queueable)
      BY DEF IInv, EventInv, ListenerInv, InHand
    <3>3. heard = (imported \o (evs \o buffer)) \o InHand
      BY <2>2 DEF IInv, HandInv, HandoverExact, Queued, ImportEvent
    <3>4. Len(imported) < Len(heard) /\ heard[Len(imported) + 1] = Head(evs)
      BY <3>1, <3>2, <3>3, HeadOfMiddle
    <3>5. imported' = Append(imported, Head(evs)) /\ UNCHANGED heard
      BY <2>2 DEF ImportEvent, listenerVars
    <3>6. Handover!Import
      BY <3>4, <3>5 DEF Handover!Import
    <3> QED BY <3>6 DEF Handover!Next
  <2>3. CASE \/ Kernel \/ RecvError \/ Recv \/ HandleExec \/ ListenerLock
             \/ ListenerStore \/ UNCHANGED vars
    <3>1. UNCHANGED <<heard, imported>>
      BY <2>3 DEF Kernel, RecvError, Recv, HandleExec, ListenerLock, ListenerStore,
                  vars, listenerVars, mainVars
    <3> QED BY <3>1
  <2>4. CASE \/ BootstrapNext \/ BootstrapTask \/ RestartLock \/ RestartTake
             \/ RestartClear \/ ImportDone \/ ScanNext \/ Sample \/ ScanEnd \/ Wake
    <3>1. UNCHANGED <<heard, imported>>
      BY <2>4 DEF BootstrapNext, BootstrapTask, RestartLock, RestartTake,
                  RestartClear, ImportDone, ScanNext, Sample, ScanEnd, Wake, listenerVars
    <3> QED BY <3>1
  <2> QED BY <2>1, <2>2, <2>3, <2>4 DEF Next, Listener, Main
<1> QED BY <1>1, <1>2, Invariance, PTL DEF Spec, Handover!Spec
=============================================================================
