# A TLA+ development of bootchart2

bootchart2 records what happens while a machine boots. `bootchart-collector`
(C, `src/collector`) starts as early as it can, samples /proc and the kernel's
task statistics into memory, and is later stopped by a second instance of
itself that reads the buffers out of it with ptrace. `bootchartd`
(`src/bootchartd.in`) drives both, and `pybootchartgui` draws the logs.

The development has TLA+ modules of the collector's concurrent core, of the
processes it runs as, and of the viewer from the logs to the chart, TLC
configurations that check them on small instances, and TLAPS proofs of the
invariants of the collector and of the process tree for every value of the
constants. `PROJECT.json` lists the
components, the runs, the mutants of the code that each property detects, the
source lines of every definition, the hazards and the theorems.

## 1. Inventory

| component | source | state it keeps | operations | what is hard | what makes it correct |
|---|---|---|---|---|---|
| netlink pid scanner | collector/tasks-netlink.c | sorted `procs`, `cur_proc`, `cur_thread`; `buffer` of events behind `lock` | listener (`handle_news`), `restart`, `next`, `get_cur_*`, `get_tasks_*`, `bootstrap` | two threads; bootstrap races with queued events; lost netlink messages | table sorted and in step with the kernel, events handed over exactly, each process sampled |
| main loop | collector.c `main` | the buffer files, uptime | sample, restart, walk, sleep | runs beside the listener, is stopped by ptrace anywhere | one frame per sample, each pid once |
| task statistics | collector.c `get_taskstats` to `dump_taskstat` | request in flight, `PidEntry` table | request, wait, aggregate, elide | late replies, pid reuse | what is written belongs to the pid asked for |
| /proc scanner, events | collector/tasks.c | `cur_ent`, `cur_pid`, `PidMap` | `next`, `get_tasks_next`, `emit_exec`, `emit_paternity` | processes die between readdir and use; pid reuse | every process reported |
| output buffers | collector/output.c, common.h | `StackMap`, `BufferFile.cur` | `chunk_alloc`, `buffer_file_append`, `buffer_file_dump` | one map for two threads; last chunk shared once the map is full | the chunks of a file are its stream |
| extraction | collector/dump.c | the dumper's copy of the `StackMap` | `open_pid`, `find_chunks`, `dump_buffers`, `close_wait_pid` | ptrace stops one thread only | the logs are prefixes of the streams, complete as of the attach |
| header and dmesg | collector/dump.c | none | `dump_header`, `dump_dmsg` | formatting only | |
| single instance | dump.c `bootchart_find_running_pid`, collector.c `main` | the processes in /proc | scan, decide, exit | check-then-run race between instances | at most one collector; a dump finds it |
| private mounts | collector.c `enter_environment`, `clean_enviroment`, `cleanup_dev`, `chroot_into_dev`, `term_handler` | mounts stacked on TMPFS_PATH | mount, move, unmount | several processes share one path | no mount left behind, none taken from under a collector |
| boot script | bootchartd.in, *.service.in, *.timer.in | temporary directory, archive | `start`, `wait_boot`, `stop` | polling and partial failure | the archive holds what was collected |
| log parsers | pybootchartgui/parsing.py, samples.py | `Trace`, `Process` | `_parse_*`, `compile`, `crop` | pid rewriting, parent cycles, truncated last block | every sample belongs to one process of the tree |
| process tree | pybootchartgui/process_tree.py | list of trees | build, prune, `merge_*` | lists mutated while iterated | no process lost or shown twice |
| drawing | draw.py | canvas, `below` of the graph | render, clip, bands | partial redraws, early ends of loops, processes merged before | each process in its row, redraws complete, bands stacked, times counted once |
| GUI, command line | gui.py, batch.py, main.py.in | scroll position, zoom | zoom, scroll, export | toolkit callbacks | |

How they interact. The kernel posts process events to a netlink socket; the
listener thread reports forks to `paternity.log` and execs to `cmdline2.log`
through the output buffers, and queues forks and exits for the main thread.
The main thread replays the queue into its table at the start of each pass,
walks the table, and appends samples to its own buffer files. All buffer files
take their chunks from one `StackMap` on the main thread's stack. `--dump` runs
in another process, which finds the collector in /proc, stops its main thread,
copies the map and the chunks, and sends SIGTERM; the boot script packs the
resulting logs, and the parsers read them.

## 2. Modules

| module | models | how |
|---|---|---|
| `ProcTable` | the sorted table and its operations, `tasks-netlink.c` 60-248 | pure operators on sequences, one per function; positions count from 1 |
| `NetlinkScanner` | kernel (external), listener thread, main thread | one action per step at which another actor can interfere; `lpc` and `mpc` are the threads' program counters |
| `EventHandover` | what the two threads promise each other | a first-in first-out hand-over: `heard` and `imported` |
| `OutputBuffer` | chunks, map, guard mutex, appends and reads of two threads | one action per statement that touches shared memory |
| `DumpExtract` | the dumper process beside the collector; EXTENDS `OutputBuffer` | `dpc` is the dumper's program counter; the collector's steps need it alive and, in the main thread, not stopped |
| `CollectorProcesses` | the processes that run `bootchart-collector`, what they mount and how they find each other | `pc` is each process's place in `main`; one action per look at /proc, mount, unmount, ptrace call or signal |
| `Samples` | processes of a chart and their samples, `samples.py` | pure operators, one per method |
| `TraceParser` | from the logs to a `Trace`, `parsing.py`; EXTENDS `Samples` | one action per log, per timed block of a process log, per step of the climb to a parent, and per phase of `compile` and `crop` |
| `ProcessTree` | the tree of a chart, `process_tree.py` | one action per turn of a loop; a recursive method is a stack of frames |
| `Chart` | bars and cumulative graph, `draw.py`; EXTENDS `ProcessTree` | one action per band; the bars of one `render` are one action |
| `MCNetlinkScanner`, `MCDumpExtract`, `MCCollectorProcesses`, `MCTraceParser`, `MCChart` | instances for TLC | initial kernels, files and writers, casts, archives, forests |
| `SequenceFacts`, `ForestFacts`, `ProcessTreeProofs`, `NetlinkScannerProofs`, `OutputBufferProofs`, `DumpExtractProofs`, `CollectorProcessesProofs`, `TraceParserProofs` | proofs | see section 4 |

### NetlinkScanner

`procs`, `curProc`, `buffer`, `lock` are the members of `NetLinkPidScanner`;
`evs` are the events `restart` has taken and not yet replayed. The listener
goes through `recv`, `news`, `lock`, `store`; the main thread through the
bootstrap (`boot`, `boottask`), `restart`, `take`, `clear`, `import`, and then
`scan` and `sample` for each process, and `sleep`. Each `pthread_mutex_lock` is a
guard on `lock`; the unlock is part of the last action of the critical section.
`Replayed` is one turn of the switch in `restart`, with the whole of
`insert_pid`, `insert_pid_thread`, `remove_pid` or `remove_pid_thread`.
`Compacted` is the compaction loop of `remove_pid_thread` as it is written.

The kernel forks, clones, execs, exits and reaps, and posts an event for each
but the last. The socket queue holds `ChanCap` events; an event that finds it
full is dropped and the next `recvfrom` fails, which the thread does not tell
from an empty message. Kernel properties the model relies on: the leader of a
process stays in /proc until its other threads have gone and it has been
reaped; readdir of /proc is ascending; init does not exit. Any thread may execute a
program (`Exec`): the others of its process exit first, the leader among them, each with
its event, and then the thread takes the leader's id, and no event tells that its own id is gone.

Abstractions: the report of an exec goes to `cmdline2.log` and changes nothing
this module keeps; the fields of a fork event are those the code reads; when a
bootstrapped pid is reused before its task directory has been read, the model
reads the tasks of the new process, as an open by name would. Setting up the
socket is before any concurrency and left out.

Bootstrap and events race, so the table alone says little of the kernel. What
does is the table *as it will be*: `OnWay` are the events taken, buffered, held
by the listener and in the socket, in the order they will be replayed, and
`Expected` are the processes the table will have after them. The last event
about a process decides (`LastAbout`), and where none is on its way the table
does. `CatchesUp` ties that to the code: replaying all of `OnWay` with the
operations of `ProcTable` gives exactly these processes.

`remove_pid` takes the exit of a leader for the end of its process. A process
whose leader exits first, or one of whose other threads executes a program, is dropped from the
table while it runs, and comes back only with the next thread it makes. `beheaded` is the history
of just these processes, which `NoProcessMissed` excepts; it covers all others with a running
thread, those without a leader included. In the other direction the entry that a later clone
brings back is not removed any more (`headless`, excepted by `NoGhost`). What is not covered:
a thread that executed a program stays in its process's thread list under the id it had.

### OutputBuffer and DumpExtract

A byte is the pair of its file and its place in that file's stream, so that a
chunk's content says which bytes it should be. A call is a nondeterministic
choice of a file of the thread and a length; `buffer_file_append` writes all
that fits in each round, `buffer_file_dump` (main thread only) writes what one
read returns, and ends early when a read returns nothing or fails. `Fit`,
`Copy`, `Count` and `Full`/`Room` are the statements of a round. `chunk_alloc`
is `AllocLock` and then either `AllocLast` (the map is full: empty the last
chunk, hand it out again) or the two stores `AllocStore` and `AllocBump`.

When two threads share the last chunk they race on its length. The model
interleaves the statements; a copy past the end of a chunk sets `spilled`, and
from there on the properties say nothing of any chunk's content, since in the
program that copy may have hit anything.

The dumper attaches (`Attach`: only the main thread stops), copies the pointers
and then the count (`FindPointers`, `FindMax`: the stack is read upwards), reads
each chunk's header and then its data, and terminates, detaches and waits. The
listener runs on throughout. An allocation published between the two halves of
the copy leaves a count without a pointer (`torn`); the failed read then
appends the chunk before once more, which the model does too. Values the C code
frees or leaves on return (`tries`, the copy of the map) are reset.

### CollectorProcesses

Every process runs the same `main`. `mode` is what it was started to do: a
collector, one in the initrd, a dumper, a probe or a sleeper. All but the
sleeper mount the tmpfs and proc (`MountTmpfs`, `MountProc`), and look
for another (`OpenProc`, then `ReadExe` and `ReadCmdline` for each entry of
/proc, since the executable and the arguments of a process are two reads), and
`Decide` on what they found. One in the initrd first looks at the kernel's command line
(`SanityCheck`), and cleans up if nobody would be started to stop it. A dumper attaches, waits
for its target to stop, reads, and signals and detaches it, with `Tries` attempts; `Stop` and
`LetGo` are ptrace's part.

`main` returns or exits at many places without coming past its label `exit`, and then leaves
the mounts as they are: when `enter_environment` fails after it has mounted the tmpfs
(`Fails` at "mount proc") or proc too (`SymlinkFails`), when a file cannot be opened, a buffer or a scanner not
be made or the uptime not be read, and when the move to /dev or the change of root fails. A dumper
exits so when it cannot write a log. `strays` is the history of
these; `Faults` bounds how many there are. The ends the code comes to for want of a
mount, where there is nothing to clean up (`MountTmpfs`, `MountProc` without a place to mount on, `OpenFiles`,
`MoveMount`), are no faults and not bounded.

A signalled process runs its handler (`HandlerProc`, `HandlerTmpfs`, `HandlerExit`), or ends
at once if it has not set one yet (`Killed`). A collector that samples has a listener thread,
which may take the signal: `main` then goes on beside the handler until that exits, even while the
dumper has it stopped. If `main` moves the mount in the meantime the handler looks for it in the wrong
place, so the collector is then among the `strays`. SIGKILL is not modelled.

The mounts are one shared set, because they are one place in the file system:
a tmpfs, a proc on it or, without it, on the directory beneath, and the tmpfs
after its move into /dev. The code treats `EBUSY` as "already mounted", and the
model has one mount of a kind at a place accordingly; a kernel that stacks a
second tmpfs on the first would leave one mount for each process to remove.
`root` is what a process has changed its root to. `missed` is a history: the
pairs of collectors of which the first passed over the second in its search,
because there was no /proc to see it in. What a process does between its attach and
its kill is `DumpExtract`; here it is one step that may fail.

Reading the code for this module showed several things the properties do not
forbid, because no document says otherwise: a probe or a dumper counts another
probe or dumper as a running collector; of two collectors that start together
both may exit; two dumpers can attach to each other and both stand still
(`StopEnds` is checked with one dumper); a probe or dumper that scanned before a
collector started unmounts the proc of that collector; and a process that ends on an
error, or a collector of an initrd that is terminated during its move, leaves its mounts
behind, as `LeftMounts` says. `main` reads `remote_args` uninitialised
(collector.c, 861) when it has found no collector; the only effect is whether a
dmesg is written and /dev cleaned up, and `CleanupDev` allows both.

### Samples and TraceParser

An archive is a sequence of logs, and the order matters: the number of
processors in the header divides disk use only if the header comes first, and
a process log parsed later replaces one parsed before. Bodies are what the
lines say. `rewrites` is `pidRewrites`; `Spread` is the factor of a thousand
between a pid and its key, two in the run so that keys run out.
Samples are time in `cpu` (user and system), `io` (block I/O delays) and `swap`; whether a process was active
depends on the first two only. Loads are percentages, in integers.

`ArchivesAssumption` says what the logs of any archive are: their fields have the
types of `TaskRecord`, `PsRecord` and `Written`, no process has the pid 0, and the blocks
of a log and the lines of dmesg come in the order of their times, as the collector
and the kernel write them. An archive may have any logs, any number of times and in any
order, and any number of them, blocks and lines.

`CroppedAtFirstIdle` calls a window idle if every sample in it, and in the one after, is
below a quarter (`Quiet`), while the program averages. A gap between samples that is
longer than a window sets the two apart: the average of a window ends at the first sample
*behind* it, and behind a long gap that sample may be a busy one, which no look at the
window itself would show. `Quiet` therefore asks for a sample at least once in a window.
The collector takes one every fiftieth of a second.

`Climb` is one call of `find_parent_id_for`. Where the program goes through a
dictionary, whose order no part of the code relies on by intention, the model
chooses: `Crop` without a match crops after any process (`Chosen`; the loop leaves the last
one selected), and `Annotate` looks at the processes in any order.

Of the formats the following is left out: an `IndexError` or `ValueError` on a
malformed line; a memory sample's values other than whether they are all
there; nested directories and archives; and `kernel_pacct`, whose reader
compares bytes with a string and never sees the end of a file in Python 3.

### ProcessTree and Chart

A process is its place in the sorted process list, and `kids` are the child
lists, which the methods change while they go through them: `PruneStep` pops a
process and inserts its children where it was, `SiblingStep` steps back after a
merge, `RunStep` stays where it is, `MergeLogger` removes from the list it
iterates over and so passes over every other child, whose subtrees go with the
merged ones. `merge_exploders` tests whether the set of names is one of its own
members and never merges; `MergeExploders` is that. Samples keep the process they were taken from, which is what
`EverySampleOnce` counts.

A recursive method is a stack of frames (`Enter`, `Return`), each the list of a
process and the index of the loop over it; `FilterStep` is the recursion of
`filter_subtree`, which finds the loggers in the order of the tree. What is in the
tree (`InTree`) is what is found by going down the lists (`Below`); the heights
and the count of the program are those of the walk that meets a process as often as
it is listed (`Preorder`, `NumNodes`), and `CountedOnce` says that the two agree.
Samples are merged by a stable sort (`ByTime`): the i-th is the one with i samples
up to it (`Rank`).
A list that is sorted has at its i-th place the process with fewer than i before
it (`SortedByPid`).

`DrawBars` takes a clip region, computes the boxes the recursion draws before it
breaks off, and which of them, and which of their samples, it paints. The
cumulative graph goes through the *process list*, not the tree, and so meets merged
processes too (`Accumulate`). `Band` is the loop over the times for one command,
with its test for a change of the edge below (`trend`). A sample stands for one
unit of time; the order of the bands is a dictionary's and any.

A chart may be that of a cropped trace. `calc_stats` lets a bar end one period after its last
sample, but `crop` cuts bars at the crop time and keeps the samples up to it. `CropAt` is that
time, and `InBar` says what the parser leaves: a sample begins in its bar, and its period ends
there too unless the bar ends at the crop.

The tree of the kernel's calls is another instance of the same class over other
processes, without pruning, and is not modelled separately.

## 3. Runs

Each run's bounds are the constants of its cfg.

| run | expect | shows | bounds and why |
|---|---|---|---|
| `netlink_core` | pass | `TypeOK`, `Sorted`, `HandoverExact`, `ParentLogged`, `CatchesUp`, `NoProcessMissed`, `NoGhost`, `PassExact` | three task ids: init, one process and one thread, or two processes, with reuse of an id; four events: fork, exit and reuse of the id; a queue of two overflows; initial kernels: init alone, or with a zombie leader; enough for a thread beside the leader to execute a program (2.8 million states, two minutes) |
| `netlink_live` | pass | `EventsImported`, `HandoverImplemented` | two ids, four events, a queue of one |
| `netlink_sampled` | violation | `EachPidSampled` | init alone is enough |
| `netlink_tasks` | violation | `AllTasksReturned` | a process of four threads: removing one of three others |
| `dump_extract` | pass | `TypeOK`, `ChunksIntact`, `NothingDropped`, `SpilledOnlyIfWrapped`, `OutputIsPrefix`, `SnapshotTaken` | one file per thread, four chunks of two bytes, five bytes per file: the map fills up, wraps around and is shared, a copy spills, a copy of the map is torn, an attempt is retried |
| `dump_wrapped` | violation | `DiscardsOnlyIfWrapped` | three chunks, exactly filled |
| `collector_processes` | pass | `TypeOK`, `OneCollector`, `NothingLeft`, `StopEnds` | seven casts of three processes, each kind beside the others and pids in different orders, since a scan sees what is at a higher pid later; two attempts; three of the casts have two collectors and a process that cleans up beside them; one process ends on an error (`Faults`), at any place, while the others go on |
| `collector_sleeper` | violation | `SleepersIgnored` | a dumper and a sleeper |
| `trace_parse` | pass | `TypeOK`, `TimeAccounted`, `SamplesBelong`, `NearestAncestor`, `CroppedAtFirstIdle`, `KernelForward`, `ClimbEnds` | five families of archives: three blocks of two pids with every sequence of two names and of totals that grow or fall; every paternity of three pids over four, cycles included, with every choice of those that left entries; six intervals, busy or idle in processor and disk in every way, with a process of the name to crop after or without; the older process log of up to three blocks; four lines of dmesg with the clock set at any of them |
| `trace_annotate` | violation | `SingleAnnotation` | one archive, one list |
| `tree_chart` | pass | `TreeTypeOK`, `InTreeOnce`, `CountedOnce`, `EverySampleOnce`, `BarsCoverSamples`, `NoTwinsLeft`, `NoRunsLeft`, `ShortLivedGone`, `RowsFollowTree`, `RedrawComplete`, `BandsStack`, `LoopsEnd` | four processes: every forest in which parents have the lower pid and four in which they do not, with every assignment of lives for prune (one of them to the crop), of commands for the merges, of loggers and of `rc`; a whole and a partial redraw |
| `chart_totals` | violation | `TotalCountsOnce` | a process and its thread |

What the properties say is stated with each of them in the modules. Those of
`netlink_core` that speak of the kernel hold for what the table *will* be once
the events on their way have been replayed (`Expected`), if the socket dropped
none: no running process is missed but those in `beheaded`, and what stays behind are
processes whose leader exited before their other threads. Both exceptions are
deliberate in the statement: the code removes a process when its leader exits,
and a later clone of one of its threads creates the entry again, which no
further event removes. From the first dropped event on neither claims anything.

`OneCollector` says that two collectors get past their searches only if one of
them passed over the other (`missed`). That does happen: a dumper or a probe that
cleans up, or the move of an initrd's collector, takes away the proc that another
process is just reading, which finds nobody, and whose files open all the same
once another has mounted proc again. The run has such behaviours, and without the
exception TLC finds the property violated with three processes. `NothingLeft` names the processes that may
leave mounts behind (`LeftMounts`): one that has found another and leaves them to
it, and one that ended without cleaning up, on an error or killed, or whose handler ran beside its
move to /dev. As long as every process comes to its clean-up or hands its mounts
over, none is left in any interleaving of them. `TimeAccounted`
and `SamplesBelong` speak of pids that have not run out of keys; the run has
some that have, and there the samples of two processes do mix. `ClimbEnds` holds where each cycle of
parents has a process with an entry (`CyclesHaveEntries`); the run has archives
without, and on them the code recurses until Python stops it. `CroppedAtFirstIdle` speaks of the
idle time after the process the search selected; where no process has a given name,
it holds of one of them, whichever the search ended with.
`EverySampleOnce` leaves out what is below a logger, which `MergeLogger` loses,
and what was pruned. `BandsStack` is what the test for a trend in `Band` is for:
it is true although the test compares with the edge one segment ago.

The violations are six places where the code does not do what a comment, a
label or the manual says of it; `PROJECT.json` quotes each under `findings`.

Only the runs of the scanner check deadlock: the collector is
terminated and the dumper ends, processes exit, and a chart is drawn, and all
of them then stop, as the real ones do.

Fairness (`FairSpec` of `NetlinkScanner`): weak fairness of each thread, since
both are runnable threads of a preemptive scheduler, and strong fairness of the
two lock actions. The mutex is not fair by itself, but each thread spends a
`usleep` or a blocking `recvfrom` between two critical sections of a few
instructions. Nothing is assumed of the kernel's events.

`CollectorProcesses`: weak fairness of a step of some process that has been
started, or of a signal's delivery (`Onwards`). This is less than fairness of
each process, and enough, since none of them waits in a loop; nobody has to
start a process. `TraceParser`: weak fairness of `Climb`, a
loop in one thread. `LoopsEnd` needs none: it is an action property, and says that every turn
of the loops of `filter_subtree`, `prune`, `merge_siblings` and `merge_runs` takes a
process out of the tree, or leaves the tree as it is and a natural number (`Work`)
smaller. Both can happen only so often.

## 4. Proofs

TLAPS checks these for every value of the constants that satisfies the named
assumptions.

| theorem | says |
|---|---|
| `NetlinkScannerProofs!ReplayKeepsTable` | one event takes any sorted table to a sorted table |
| `NetlinkScannerProofs!ReplayContents` | and changes its processes in just this way: a fork adds the process, its own exit removes it, the exit of a thread changes none |
| `NetlinkScannerProofs!ReplayKeepsThreads` | and leaves every entry with a list of task ids: `remove_pid_thread` reads nothing past the end of a list |
| `NetlinkScannerProofs!TableSorted` | `Spec => []Sorted`: the table is strictly sorted by pid |
| `NetlinkScannerProofs!ScannerTyped` | `Spec => []TypeOK`: queues keep to their capacity, the walk stays inside the table |
| `NetlinkScannerProofs!HandoverIsExact` | `Spec => []HandoverExact`: what was replayed, taken, buffered and held by the listener is what was received, in order |
| `NetlinkScannerProofs!ImplementsHandover` | the scanner implements the safety of `EventHandover` |
| `NetlinkScannerProofs!ParentsLogged` | `Spec => []ParentLogged`: the parent the table knows of a process was reported to `paternity.log` |
| `NetlinkScannerProofs!PassIsExact` | `Spec => []PassExact`: a pass returns every process of the table once, in order |
| `NetlinkScannerProofs!NothingMissed` | `Spec => []NoProcessMissed`: no running process is missing from what the table will be |
| `NetlinkScannerProofs!NoGhosts` | `Spec => []NoGhost`: nor is there any that has gone, but for processes whose leader left first |
| `OutputBufferProofs!BufferTypeCorrect` | `BufferSpec => []BufferTypeOK` |
| `OutputBufferProofs!ChunksStayIntact` | `BufferSpec => []ChunksIntact`: the chunks of a file are its stream |
| `OutputBufferProofs!NothingIsDropped` | `BufferSpec => []NothingDropped`: no byte is lost before the map wraps around |
| `OutputBufferProofs!NoSpillBeforeWrap` | `BufferSpec => []SpilledOnlyIfWrapped` |
| `DumpExtractProofs!ImplementsBuffer`, `ChunksIntactUnderDump` | with a dumper attached the buffers behave as without, so the same holds there |
| `DumpExtractProofs!DumperTyped` | `Spec => []TypeOK` |
| `DumpExtractProofs!LogsArePrefixes` | `Spec => []OutputIsPrefix`: a log is a prefix of the stream written to its file |
| `DumpExtractProofs!SnapshotIsTaken` | `Spec => []SnapshotTaken`: and has all that was counted when the main thread was stopped |
| `CollectorProcessesProofs!ProcessesTyped` | `Spec => []TypeOK`: a stopped process has a live tracer that looks at it, whatever is killed or retried |
| `CollectorProcessesProofs!CollectorsExclude` | `Spec => []OneCollector`, for any number of processes of any kind |
| `CollectorProcessesProofs!MountsCleaned` | `Spec => []NothingLeft` |
| `TraceParserProofs!TypesOK` | `Spec => []TypeOK` |
| `TraceParserProofs!KernelMovesForward` | `Spec => []KernelForward`: no call of the kernel ends before it starts, or starts before the chart |
| `TraceParserProofs!ParentsNearest` | `Spec => []NearestAncestor`: a process hangs below the nearest ancestor that left an entry |
| `TraceParserProofs!CropsAtFirstIdle` | `Spec => []CroppedAtFirstIdle`: nothing goes past the crop, and no idle window before it was passed over |
| `ProcessTreeProofs!TreeTyped` | `Spec => []TreeTypeOK`: no loop's index leaves its list, although the lists change under it |
| `ProcessTreeProofs!TreeOnce` | `Spec => []InTreeOnce`: no process is at two places of the tree |
| `ProcessTreeProofs!ShortLivedPruned` | `Spec => []ShortLivedGone`: nothing short-lived is left below the roots |
| `ProcessTreeProofs!TwinsMerged` | `Spec => []NoTwinsLeft`: no neighbours with the same command |
| `ProcessTreeProofs!RunsMerged` | `Spec => []NoRunsLeft`: no only child with its parent's command |
| `ProcessTreeProofs!SamplesOnce` | `Spec => []EverySampleOnce`: each sample of a process that is kept is at one place of one process of the tree |
| `ProcessTreeProofs!BarsCover` | `Spec => []BarsCoverSamples`: bars reach over their samples, and the time span over the bars |
| `ProcessTreeProofs!LoopsFinish` | `Spec => LoopsEnd`: every turn of a recursive method brings it nearer to its end |
| `ProcessTreeProofs!Counted` | `Spec => []CountedOnce`: the count that gives the chart its height meets each process of the tree once |
| `ProcessTreeProofs!RowsFollow` | `Spec => []RowsFollowTree`: every box is in the row of its process, and none that meets the clip region is missing |
| `ProcessTreeProofs!Redrawn` | `Spec => []RedrawComplete`: every sample that begins in the clip region is painted |

**Scanner.** From `TidsAssumption`, `FewTids` (a kernel has a largest pid),
`InitAssumption` and `BoundsAssumption`. None of the properties is inductive by
itself. The invariant `IInv` is a conjunction whose parts are proved one after
another, each from those before it:

- `EventInv`: every event on its way is well formed, which the table operations
  need.
- `HandInv`: who holds the mutex, and that between `take` and `clear` what was
  taken is still in the buffer, without which clearing it might lose or repeat
  events.
- `TableInv`, `BootInv`: the table is sorted, and the bootstrap reads the tasks of
  a process that it has entered.
- `PassInv`: how far a pass has come.
- `ParentInv`: every event the listener has heard was logged before it was
  queued, so that a replay brings no parent that was not.
- `LeaderInv`: a task belongs to a process that still has its leader's entry, and
  a running one to a process whose leader runs or has left before it, by itself or for
  another thread's exec.
- `NewsInv`, for `NoProcessMissed` and `NoGhost`. It says of each process which
  of three things the program will know of it: news about it is on its way and
  the last of them is a fork (or its exit); or no news is on its way and it is in the
  table (or is not); or the bootstrap has not yet come to its pid. A process that
  starts or ends moves between the three, and so does an event that is replayed:
  there the last event about a process must have the effect that `ReplayContents`
  proves. A process is `Owed` an entry as long as it has a running thread and is not in `beheaded`: the
  exit of a leader before its threads ends that, and the fork event of a new thread
  renews it. That events may repeat what the bootstrap has already seen does no harm,
  since only the last of them counts.
- `PlaceInv`, `ThreadsInv`: what the queues and the thread lists hold.

`ReplayKeepsTable`, `ReplayContents` and `ReplayKeepsThreads` are about the
operators alone, for any sorted table. The last rests on `Source`, where the loop
of `remove_pid_thread` takes an entry from: at most one place further right than
the entry before, so never past the end of the list. `SequenceFacts` has what
is needed about inserting into and removing from a sequence.

**Buffers.** From `FilesAssumption` (each file has one writer) and
`SizesAssumption`. `ChunksIntact` is not inductive: nothing in it says that the
place a copy goes to continues the stream. `IInv` adds where the next byte of
a file goes (`SentInv`: what was sent is the full chunks before the current one,
its length, and the copy not yet counted), that the chunk a file is writing is
its own as long as it is held (`OwnInv`; a chunk is held until it is handed out a
second time), that a held chunk has every byte sent in its place (`PlaceInv`, of
which the counted ones are a part), and what one step of a call leaves for the
next (`CallInv`: the room found by `Fit` is there at `Copy` and `Count`). Since
a file has one writer, no other thread can be in a held chunk, which is the step
where the missing lock on files could have mattered. A new chunk continues the
one before because that one was found exactly full (`BaseNext`). TLC checked
`IInv` on the small instance first.

**Dump.** From the same assumptions as the buffers. `ImplementsBuffer` gives
the dumper the buffers' `IInv` in every state; `DumpInv` adds what the chunks that it
has yet to read will be when it comes to them, although the listener goes on
writing. `MapInv` places the copy of the map in the map of that moment, `HeldInv` says
that a header which is out of date by the time the data is read was that of the
last chunk of its file that will be read, since only the last of a file's chunks
grows; `OutInv` that a log is as long as the chunks read so far are full, and
`SnapInv` that what was counted at the attach is in the chunks still to be read or
in the log. `FirstInv`, `DumperType` and `StopInv` are the bookkeeping: in particular
the main thread is stopped as long as the dumper reads, so of its files nothing
changes. From the moment the map has wrapped around, or the copy of the map is torn, the
properties claim nothing, and nor does the invariant. TLC checked `DumpInv` on
the instance of `dump_extract`.

**Processes.** From `CastsAssumption`. `OneCollector` speaks of two processes
that are past their searches, and says nothing of two that are not, so that no step can
be shown to keep it. `SearchInv` does: of two collectors that are there, if each has
*passed* the other, in the middle of its search or at the end of it, one has passed over
the other. A search passes a live process in three ways: it finds it and leaves, or
has no /proc to find it in, which is `missed`, or had passed its pid before it was started,
and then that one is still to search in its turn. `PlaceInv` says what a process is that has come
to a place in `main`, `TraceInv` that a traced process is what its tracer looks
for, and `MountInv` that whatever is mounted has somebody left to unmount it, or one
who has gone and whom `LeftMounts` names: one part each for a tmpfs without
proc, a tmpfs with proc, and the tmpfs that was moved, since different steps end
them. Whoever ends early joins `strays` in the same step, and a collector whose handler has begun
between its move and its change of root is one of them. TLC checked the invariant on the
casts of three.

**Parser.** From `ArchivesAssumption` and `SpreadAssumption`, for archives, logs and blocks
of any length. `TypeInv` says what the parser has made at every moment: the
fields of the trace (`TraceOK`), the entries so far (`Entries`), and what the search for
parents has in hand (`Climbing`). It needs more than `TypeOK` says: the samples of an
entry are in the order of their times and none is later than the last block that was read,
since `EndTime` and the crop look at the last one only. Four parts of the
model are recursive functions: the lines of a block, those of dmesg, the sum of a window of
loads, and the ancestors of a pid. Each is defined by an equation, and the proofs
first show that there is such a function (`ReadFrom`, `KernelFrom`, `SumFrom`, `ClimbFrom`);
that a statement holds at each of its arguments follows from the least one at which it
would not.

- `KernelForward`: `KernelAt` says of the calls read so far that none begins after the line last
  read, counted from `base`. `base` is set at most once, before there is a call
  later than 0.
- `NearestAncestor`: `Search` says what `Climb` has done: those it is through with are where they
  should be (`Found`), and for the one it is at, all ancestors so far had no
  entry (`Sought`). Each call looks at one ancestor further up, so that the first it finds
  is the nearest.
- `CroppedAtFirstIdle`: what is cut off is `CutOff` and `CutLoads`. The crop takes the least of the
  idle times, so it is to be shown that a quiet window before it would have been an idle
  time too. Only what is left after the crop can be seen to be quiet, and
  the average of a window that begins earlier may end beyond that. `StillIdle` says why it
  stays below a quarter all the same: either the window ends where it can be seen, and every
  load in it is below a quarter, or it ends at the same sample as the window of the idle time
  that was found, and the sum is that of quiet samples (`TotalSmall`) and of that window
  (`TotalSplits`). The proof found that this fails if a gap between samples
  may be longer than a window, which is why `Quiet` says that none is.

TLC checked `TypeInv` on the instance of `trace_parse` first.

**Tree.** From `TreeAssumption` and `ForestsAssumption` (what the parser makes of
a process): any number of processes with any commands, parents, times and
samples. Each of `ShortLivedGone`, `NoTwinsLeft` and `NoRunsLeft` says what a
recursive method has done once it is through, and nothing of the way there. The
invariant `TreeInv` does:

- `TypedInv`: the lists form a forest. `Tree` is the least set that has the roots
  and with each process its children; no list of it has a process twice and no two
  lists share one (`Apart`). That there is such a least set, and that N levels
  reach all of it, is `TreeIsLeast`, from the equation that defines `Below`. It
  gives a way to reason about a recursion without one: to show that something holds of
  the whole tree, show that it holds of the roots and is passed on to children.
  `TreeWithout` shows that way that popping a process and handing its children to
  its parent or its sibling takes that process out of the tree and nothing else.
- `StackInv`: the frames lead down the tree from the roots, no process is in two of
  them, and each index is in its list or just past it (`OnPath`). A method changes
  the list of the last frame and lists below it only, and so never one that a
  caller is in the middle of.
- `FinishedInv`: there is a set of processes the method has `Finished`. With a
  process it has all that is below, and its list is as the method leaves lists
  (`Good`); in the list of a frame all before the index are in it, but for the one
  the next frame is about. When `merge_siblings` or `merge_runs` merges into a process, that
  process, its children and theirs are ahead of every index, or taken out of the set and
  gone through again, which is why the loops stay where they are after a merge.
- `Achieved`: what the methods before have left, which the later ones keep since a
  merge changes no command and makes no process shorter.

TLC checked the parts of the invariant on the instance of `tree_chart` first.

`EverySampleOnce` is not inductive either: that the samples of a process are once in
the tree does not say that a merge will not bring a second copy from elsewhere.
`SampleInv` does, on top of `TreeInv`:

- `Barred`: whoever has a sample has it in its bar (`InBar`), and the process it was taken of
  has it too, also when that process has left the tree. A merge takes the earlier start and
  the later end of two bars, so this is kept (`MergedBar`).
- `Unmixed`: no sample is with two processes of the tree or twice with one. A merge
  brings the samples of two processes of the tree together and takes one of them out
  of it (`UnmixedMerged`); what a logger outside the tree takes over is in nobody's way.
- `Held`: the samples of each process that is kept are with some process of the tree.
  While loggers are merged and the tree is pruned this process is itself:
  only a logger's list has changed (`Pristine`), so whoever leaves the tree is below a
  logger (`KeptInTree`), or is removed by `prune`. Later it is whoever it was merged into.

That the sort of samples and of lists keeps what they hold is `SortedSamples` and
`SortedTree`, from the definitions by rank; `SpanCovers` is about the minimum and the
maximum over a tree of any size. The proof of `LoopsEnd` rests on `SubtreesApart`: nobody is below
itself, and nobody below two children of one process. A call for a child
therefore takes that child out of what is ahead of the frames and adds nothing
(`PendingEnters`, an injection into what was pending without the child), and a return
only takes a frame away.

**Chart.** The rows of the chart are those of a recursive walk, and so is their
number. What a walk returns at a depth is a function defined by an equation, of which
`WalkFrom` shows that there is one; that a statement holds at every depth follows from the
least depth at which it would not. So `WalkReaches` and `WalkDistinct` show that the walk of
a forest meets what is below a process, each once (`PreorderOfTree`), and `WalkSettles`
that at N levels it has come to an end, so that it *is* the children's walks one after
another (`PreorderUnfolds`). `CountedOnce` follows, as `sort` is the only step that sets
the count (`NumberInv`).

The drawing recursion does not know places in the tree: it adds up the heights
of what is before. `Offset` is where a child's part of the walk begins, `RowsOffset` says that
the heights added up are that many rows, and `KidStartsAt` that all below a process lie
behind it without a gap (`StartsAt`). `DrawnInRows` goes down the depths with both: a call
that is made in the row of its process's place draws boxes in theirs. A loop that breaks
off at a child below the clip region leaves out only processes further down, since they come after
that child in the walk (`StartsBefore`). `RedrawComplete` needs one thing more, that the
samples of a process are in order, which is part of `Barred`. The clip regions of
`ChartAssumption` are any ranges of integers; `ForestsAssumption` says that a process is sampled
at most once at a time, as the readers of the log do.

`ForestFacts` has the lemmas, about any child lists and any stack, and
`ProcessTreeProofs` the steps. They are proved of the specification of `Chart`, whose
own steps leave the tree alone.

## 5. Only model-checked

Liveness under fairness (`EventsImported`, the fairness part of
`HandoverImplemented`, `StopEnds`, `ClimbEnds`) is beyond the prover. `CatchesUp`
folds the events on their way over the table, and the prover cannot apply the
library's induction theorems to what a fold computes for a sequence of any length;
`NoProcessMissed` and `NoGhost` are stated with `Expected`, which needs none, and
`CatchesUp` is checked to connect the two.

Of `Chart`, `BandsStack` is model-checked: it speaks of a sum over the commands and of
what a fold over the times computes. Of `TraceParser`, `TimeAccounted` and
`SamplesBelong` are: they compare the entries with what a selection from the blocks and a
sum over a set of keys say, both of which are folds in the library.

## 6. Not modelled

- The GUI: callbacks that set a position and a zoom factor and queue a redraw.
  Which of them run, in which order and with which values is the toolkit's
  doing. The redraw of a part of the chart, which they rely on, is in `Chart`.
- The boot script and the units: shell around the collector, whose failures are
  those of mktemp, tar, pidof and systemd. The processes it starts are in
  `CollectorProcesses`.
- The exchange with the kernel over taskstats: the receive blocks, and what
  arrives late depends on what the kernel drops. The elision table and
  `was_known_pid` each restate one comparison.
- `dump_header`, `dump_dmsg` and option parsing format and read text.
- Headers, load, disk and memory charts, ticks and labels are output without
  state. A chart of the kernel alone, whose bars go past the extents computed
  for it, is among them.

## 7. What is left

- `TimeAccounted` and `SamplesBelong` as theorems. Both need an invariant that
  says of each pid which of its entries is the current one and that the totals of that
  entry are those last reported; a sum over the keys of a pid would have to be written as
  a recursive function first.
- `CatchesUp` and `BandsStack`, which need the same for folds over events and times.
