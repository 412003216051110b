----------------------------- MODULE DumpExtract -----------------------------
(***************************************************************************)
(* bootchart-collector --dump: a second process attaches to the collector  *)
(* with ptrace, copies the StackMap off its stack, appends the chunks it   *)
(* points to to the log files, and terminates it (collector/dump.c, lines  *)
(* 29-243, and term_handler of collector.c).                               *)
(*                                                                         *)
(* PTRACE_ATTACH stops the main thread alone: the listener goes on writing *)
(* and allocating while its chunks are read.                               *)
(***************************************************************************)
EXTENDS OutputBuffer

CONSTANTS
  MaxTries,   \* how often buffers_extract_and_dump tries
  MaxWaits    \* how often close_wait_pid looks

ASSUME TriesAssumption == MaxTries \in Nat \ {0} /\ MaxWaits \in Nat \ {0}

VARIABLES
  alive,      \* the collector has not exited
  stopped,    \* its main thread is stopped by ptrace
  sigterm,    \* a SIGTERM is pending
  dpc,        \* dumper: where it is
  tries,      \* dumper: attempts so far
  pointers,   \* dumper: how many entries of its copy of chunks[] are set
  copiedMax,  \* dumper: its copy of max_chunk
  next,       \* dumper: the next chunk to read
  held,       \* dumper: the chunk in its buffer (char buffer[CHUNK_SIZE])
  output,     \* the log files written so far
  waits,      \* dumper: looks at /proc so far
  atAttach,   \* history: the bytes of each file that were in the chunks the
              \* dumper reads when it attached
  torn        \* history: the dumper's copy counts a chunk it has no pointer to

collectorVars == <<alive, sigterm>>
dumperVars == <<dpc, tries, pointers, copiedMax, next, held, output, waits, atAttach, torn>>
vars == <<bufferVars, stopped, collectorVars, dumperVars>>

(* The chunks dump_buffers reads: all but the last of a full map. *)
Kept(n) == IF n < MaxChunks THEN n ELSE MaxChunks - 1

(* The bytes counted in the chunks of f numbered up to n. *)
Counted(f, n) ==
  LET mine == {i \in 1..n : chunks[i].dest = f}
      open == {i \in mine : chunks[i].length < Payload}
  IN  Payload * Cardinality(mine \ open)
      + (IF open = {} THEN 0 ELSE chunks[CHOOSE i \in open : TRUE].length)

Init ==
  /\ BufferInit
  /\ alive = TRUE /\ stopped = FALSE /\ sigterm = FALSE
  /\ dpc = "attach" /\ tries = 0
  /\ pointers = 0 /\ copiedMax = 0 /\ next = 1
  /\ held = Chunk(FileOrder[1])
  /\ output = [f \in Files |-> <<>>]
  /\ waits = 0 /\ atAttach = [f \in Files |-> 0] /\ torn = FALSE

-----------------------------------------------------------------------------
(* The collector *)

Collector ==
  /\ alive
  /\ \E t \in Threads : (t = "main" => ~ stopped) /\ Step(t)
  /\ UNCHANGED <<stopped, collectorVars, dumperVars>>

(* term_handler, in whichever thread the signal is delivered to. *)
Terminate ==
  /\ alive /\ sigterm
  /\ alive' = FALSE /\ stopped' = FALSE
  /\ UNCHANGED <<bufferVars, sigterm, dumperVars>>

-----------------------------------------------------------------------------
(* The dumper *)

(* Mutant: the chunks are read without stopping the main thread. *)
AttachNoStop ==
  /\ dpc = "attach" /\ alive
  /\ stopped' = FALSE /\ tries' = tries + 1
  /\ atAttach' = [f \in Files |-> Counted(f, Kept(maxChunk))]
  /\ dpc' = "pointers"
  /\ UNCHANGED <<bufferVars, collectorVars, pointers, copiedMax, next, held, output, waits, torn>>

(* open_pid: the main thread is stopped when waitpid has returned. *)
Attach ==
  /\ dpc = "attach" /\ alive
  /\ stopped' = TRUE /\ tries' = tries + 1
  /\ atAttach' = [f \in Files |-> Counted(f, Kept(maxChunk))]
  /\ dpc' = "pointers"
  /\ UNCHANGED <<bufferVars, collectorVars, pointers, copiedMax, next, held, output, waits, torn>>

(* ptrace, waitpid or open fails: no other try is made. *)
AttachFails ==
  /\ dpc = "attach"
  /\ dpc' = "failed" /\ tries' = 0
  /\ UNCHANGED <<bufferVars, stopped, collectorVars, pointers, copiedMax, next,
                 held, output, waits, atAttach, torn>>

(* find_chunks cannot read the stack: detach without a signal, and try      *)
(* again or give up.                                                        *)
FindFails ==
  /\ dpc = "pointers"
  /\ stopped' = FALSE
  /\ IF tries < MaxTries
       THEN dpc' = "attach" /\ UNCHANGED tries
       ELSE dpc' = "failed" /\ tries' = 0
  /\ UNCHANGED <<bufferVars, collectorVars, pointers, copiedMax, next, held, output,
                 waits, atAttach, torn>>

(* find_chunks reads the stack upwards: the pointers, then max_chunk. *)
FindPointers ==
  /\ dpc = "pointers"
  /\ pointers' = Len(chunks)
  /\ dpc' = "max"
  /\ UNCHANGED <<bufferVars, stopped, collectorVars, tries, copiedMax, next, held, output,
                 waits, atAttach, torn>>

FindMax ==
  /\ dpc = "max"
  /\ copiedMax' = maxChunk
  /\ torn' = (pointers < maxChunk)
  /\ next' = 1
  /\ dpc' = "dump"
  /\ UNCHANGED <<bufferVars, stopped, collectorVars, tries, pointers, held, output, waits, atAttach>>

(* Mutant: the last chunk of a full map is read as well. *)
ReadHeaderOfAll ==
  /\ dpc = "dump" /\ next <= copiedMax
  /\ held' = IF next <= pointers
               THEN [held EXCEPT !.dest = chunks[next].dest, !.length = chunks[next].length]
               ELSE held
  /\ dpc' = "data"
  /\ UNCHANGED <<bufferVars, stopped, collectorVars, tries, pointers, copiedMax, next,
                 output, waits, atAttach, torn>>

(* dump_buffers reads a chunk from its header on.  Where its copy holds no  *)
(* pointer the read fails and the buffer keeps the chunk before.            *)
ReadHeader ==
  /\ dpc = "dump" /\ next <= Kept(copiedMax)
  /\ held' = IF next <= pointers
               THEN [held EXCEPT !.dest = chunks[next].dest, !.length = chunks[next].length]
               ELSE held
  /\ dpc' = "data"
  /\ UNCHANGED <<bufferVars, stopped, collectorVars, tries, pointers, copiedMax, next,
                 output, waits, atAttach, torn>>

(* Then its data, of which as much as the header says is appended. *)
ReadData ==
  /\ dpc = "data"
  /\ LET data == IF next <= pointers THEN chunks[next].data ELSE held.data
     IN  /\ held' = [held EXCEPT !.data = data]
         /\ output' = [output EXCEPT ![held.dest] = @ \o SubSeq(data, 1, held.length)]
  /\ next' = next + 1
  /\ dpc' = "dump"
  /\ UNCHANGED <<bufferVars, stopped, collectorVars, tries, pointers, copiedMax, waits, atAttach, torn>>

(* close_wait_pid: SIGTERM, *)
Kill ==
  /\ dpc = "dump" /\ next > Kept(copiedMax)
  /\ sigterm' = alive
  /\ dpc' = "detach"
  /\ UNCHANGED <<bufferVars, stopped, alive, tries, pointers, copiedMax, next, held,
                 output, waits, atAttach, torn>>

(* then the main thread is let go and the dumper's copy is freed, *)
Detach ==
  /\ dpc = "detach"
  /\ stopped' = FALSE
  /\ tries' = 0 /\ pointers' = 0 /\ copiedMax' = 0 /\ next' = 1
  /\ held' = Chunk(FileOrder[1]) /\ atAttach' = [f \in Files |-> 0]
  /\ dpc' = "wait"
  /\ UNCHANGED <<bufferVars, collectorVars, output, waits, torn>>

(* and the dumper waits a while for the collector to be gone. *)
Wait ==
  /\ dpc = "wait"
  /\ IF alive /\ waits < MaxWaits
       THEN waits' = waits + 1 /\ UNCHANGED dpc
       ELSE dpc' = "done" /\ UNCHANGED waits
  /\ UNCHANGED <<bufferVars, stopped, collectorVars, tries, pointers, copiedMax, next, held,
                 output, atAttach, torn>>

Dumper ==
  \/ Attach \/ AttachFails \/ FindFails \/ FindPointers \/ FindMax
  \/ ReadHeader \/ ReadData \/ Kill \/ Detach \/ Wait

Next == Collector \/ Terminate \/ Dumper

Spec == Init /\ [][Next]_vars

-----------------------------------------------------------------------------
(* Properties *)

TypeOK ==
  /\ BufferTypeOK
  /\ alive \in BOOLEAN /\ stopped \in BOOLEAN /\ sigterm \in BOOLEAN
  /\ dpc \in {"attach", "pointers", "max", "dump", "data", "detach", "wait", "done", "failed"}
  /\ tries \in 0..MaxTries /\ waits \in 0..MaxWaits
  /\ pointers \in 0..MaxChunks /\ copiedMax \in 0..MaxChunks /\ next \in 1..MaxChunks
  /\ held.dest \in Files /\ output \in [Files -> Seq(Files \X Nat)]
  /\ atAttach \in [Files -> Nat] /\ torn \in BOOLEAN

(* Unless the listener published a chunk while the map was being copied,    *)
(* what the dumper has written to a log is a prefix of what the collector   *)
(* handed to that file, although the listener writes to the chunks while    *)
(* they are read and although the map may wrap around.                      *)
OutputIsPrefix ==
  ~ spilled /\ ~ torn =>
    \A f \in Files : \A k \in 1..Len(output[f]) : output[f][k] = Byte(f, k)

(* When the collector has just been told to terminate, all that the chunks  *)
(* to be read held when the dumper attached is in the logs, and of the main *)
(* thread's files nothing else: its samples are those of that moment.       *)
SnapshotTaken ==
  dpc = "detach" /\ ~ spilled /\ ~ torn =>
    \A f \in Files :
      /\ Len(output[f]) >= atAttach[f]
      /\ Writer[f] = "main" => Len(output[f]) = atAttach[f]

(* dump.c:180: the last chunk is discarded if the map wrapped around.  If   *)
(* it did not, nothing that the stopped main thread has counted is left out *)
(* when the collector is about to be told to terminate.                     *)
DiscardsOnlyIfWrapped ==
  dpc = "detach" /\ alive /\ ~ wrapped /\ ~ torn =>
    \A f \in Files :
      Writer[f] = "main" => Len(output[f]) = Counted(f, maxChunk)
=============================================================================
