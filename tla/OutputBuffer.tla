---------------------------- MODULE OutputBuffer ----------------------------
(***************************************************************************)
(* The collector's output buffers (collector/output.c): log files kept in  *)
(* memory as chunks of one StackMap, appended to by two threads until the  *)
(* dumper reads them.  Each file has one writer; the map and, once it is   *)
(* full, its last chunk are shared.                                        *)
(*                                                                         *)
(* A byte is the pair of its file and its place in the stream of bytes     *)
(* handed to that file.  Statements of buffer_file_append that touch a     *)
(* chunk are separate steps.                                               *)
(***************************************************************************)
EXTENDS Naturals, Sequences, FiniteSets

CONSTANTS
  FileOrder,   \* the files, in the order main creates them
  Writer,      \* the thread that appends to each file
  MaxChunks,   \* sizeof (sm->chunks) / sizeof (sm->chunks[0])
  Payload,     \* CHUNK_PAYLOAD
  MaxBytes,    \* bound: bytes handed to one file
  Calls,       \* bound: the lengths of one append or read
  None         \* no thread, and no byte

Threads == {"main", "listener"}
Files == {FileOrder[i] : i \in DOMAIN FileOrder}

ASSUME FilesAssumption ==
  /\ FileOrder \in Seq(Files) /\ FileOrder # <<>>
  /\ \A i, k \in DOMAIN FileOrder : FileOrder[i] = FileOrder[k] => i = k
  /\ Writer \in [Files -> Threads]
ASSUME SizesAssumption ==
  /\ MaxChunks \in Nat /\ Len(FileOrder) < MaxChunks
  /\ Payload \in Nat \ {0} /\ MaxBytes \in Nat /\ Calls \subseteq Nat \ {0}
  /\ None \notin Threads

VARIABLES
  chunks,      \* sm->chunks: the chunks whose pointer is in the map
  maxChunk,    \* sm->max_chunk
  cur,         \* file->cur of each file: its index in chunks
  guard,       \* the mutex of chunk_alloc: None or a thread
  pc,          \* where each thread is
  file,        \* the file each thread is writing
  reading,     \* the thread is in buffer_file_dump, not in buffer_file_append
  len,         \* bytes that call has left
  toWrite,     \* to_write (to_read)
  sent,        \* history: bytes copied so far, for each file
  wrapped,     \* history: chunk_alloc has handed out the last chunk again
  spilled      \* history: a copy went past the end of a chunk

chunkVars == <<chunks, maxChunk, cur, guard>>
callVars == <<pc, file, reading, len, toWrite>>
historyVars == <<sent, wrapped, spilled>>
bufferVars == <<chunkVars, callVars, historyVars>>

Byte(f, k) == <<f, k>>

(* calloc, strncpy of the destination, and a length of 0. *)
Chunk(dest) == [dest |-> dest, length |-> 0, data |-> [j \in 1..Payload |-> None]]

(* main creates one buffer file after the other before it has a second      *)
(* thread, so each starts with a chunk of its own.                          *)
BufferInit ==
  /\ chunks = [i \in 1..Len(FileOrder) |-> Chunk(FileOrder[i])]
  /\ maxChunk = Len(FileOrder)
  /\ cur = [f \in Files |-> CHOOSE i \in 1..Len(FileOrder) : FileOrder[i] = f]
  /\ guard = None
  /\ pc = [t \in Threads |-> "idle"]
  /\ file = [t \in Threads |-> FileOrder[1]]
  /\ reading = [t \in Threads |-> FALSE]
  /\ len = [t \in Threads |-> 0]
  /\ toWrite = [t \in Threads |-> 0]
  /\ sent = [f \in Files |-> 0]
  /\ wrapped = FALSE /\ spilled = FALSE

CurLength(t) == chunks[cur[file[t]]].length

(* buffer_file_append or, in the main thread, buffer_file_dump is called    *)
(* for a file of this thread, with n bytes to write or to be read.          *)
Call(t, f, n) ==
  /\ pc[t] = "idle" /\ Writer[f] = t /\ sent[f] + n <= MaxBytes
  /\ file' = [file EXCEPT ![t] = f]
  /\ \E r \in IF t = "main" THEN BOOLEAN ELSE {FALSE} :
       reading' = [reading EXCEPT ![t] = r]
  /\ len' = [len EXCEPT ![t] = n]
  /\ pc' = [pc EXCEPT ![t] = "fit"]
  /\ UNCHANGED <<chunkVars, toWrite, historyVars>>

(* Mutant: the call is not cut to the room there is. *)
FittingAll(t) == len[t]

(* The room in the chunk is an unsigned difference: with a length above the *)
(* payload it wraps around, and no call is as long as that.                 *)
Fitting(t) ==
  IF CurLength(t) > Payload \/ Payload - CurLength(t) >= len[t]
    THEN len[t] ELSE Payload - CurLength(t)

(* An append writes all that fits; read may return less, and ends the call  *)
(* when it returns nothing or fails.                                        *)
Fit(t) ==
  /\ pc[t] = "fit"
  /\ \E n \in IF reading[t] THEN 1..Fitting(t) ELSE {Fitting(t)} :
       toWrite' = [toWrite EXCEPT ![t] = n]
  /\ pc' = [pc EXCEPT ![t] = "copy"]
  /\ UNCHANGED <<chunkVars, file, reading, len, historyVars>>

ReadEnds(t) ==
  /\ pc[t] = "fit" /\ reading[t]
  /\ len' = [len EXCEPT ![t] = 0] /\ reading' = [reading EXCEPT ![t] = FALSE]
  /\ pc' = [pc EXCEPT ![t] = "idle"]
  /\ UNCHANGED <<chunkVars, file, toWrite, historyVars>>

(* Mutant: the bytes go one place further. *)
CopiedOneFurther(chunk, f, first, n) ==
  [chunk EXCEPT !.data = [j \in 1..Payload |->
     IF j > chunk.length + 1 /\ j <= chunk.length + 1 + n
       THEN Byte(f, first + j - chunk.length - 1) ELSE @[j]]]

(* memcpy of n bytes of f, those after the first ones, behind the chunk's *)
(* length.                                                                *)
Copied(chunk, f, first, n) ==
  [chunk EXCEPT !.data = [j \in 1..Payload |->
     IF j > chunk.length /\ j <= chunk.length + n
       THEN Byte(f, first + j - chunk.length) ELSE @[j]]]

Copy(t) ==
  LET f == file[t]
  IN  /\ pc[t] = "copy"
      /\ chunks' = [chunks EXCEPT ![cur[f]] = Copied(@, f, sent[f], toWrite[t])]
      /\ spilled' = (spilled \/ CurLength(t) + toWrite[t] > Payload)
      /\ sent' = [sent EXCEPT ![f] = @ + toWrite[t]]
      /\ len' = [len EXCEPT ![t] = @ - toWrite[t]]
      /\ pc' = [pc EXCEPT ![t] = "count"]
      /\ UNCHANGED <<maxChunk, cur, guard, file, reading, toWrite, wrapped>>

(* Mutant: the length is that of the last copy. *)
CountAnew(t) ==
  /\ pc[t] = "count"
  /\ chunks' = [chunks EXCEPT ![cur[file[t]]].length = toWrite[t]]
  /\ toWrite' = [toWrite EXCEPT ![t] = 0]
  /\ pc' = [pc EXCEPT ![t] = "full"]
  /\ UNCHANGED <<maxChunk, cur, guard, file, reading, len, historyVars>>

Count(t) ==
  /\ pc[t] = "count"
  /\ chunks' = [chunks EXCEPT ![cur[file[t]]].length = @ + toWrite[t]]
  /\ toWrite' = [toWrite EXCEPT ![t] = 0]
  /\ pc' = [pc EXCEPT ![t] = "full"]
  /\ UNCHANGED <<maxChunk, cur, guard, file, reading, len, historyVars>>

(* The round ends: with no bytes left the call returns. *)
RoundEnds(t) ==
  /\ pc' = [pc EXCEPT ![t] = IF len[t] = 0 THEN "idle" ELSE "fit"]
  /\ reading' = [reading EXCEPT ![t] = @ /\ len[t] # 0]
  /\ UNCHANGED <<file, len, toWrite>>

Room(t) ==
  /\ pc[t] = "full" /\ CurLength(t) < Payload
  /\ RoundEnds(t)
  /\ UNCHANGED <<chunkVars, historyVars>>

Full(t) ==
  /\ pc[t] = "full" /\ CurLength(t) >= Payload
  /\ pc' = [pc EXCEPT ![t] = "lock"]
  /\ UNCHANGED <<chunkVars, file, reading, len, toWrite, historyVars>>

(* Mutant: the mutex is not taken. *)
AllocNoLock(t) ==
  /\ pc[t] = "lock"
  /\ pc' = [pc EXCEPT ![t] = "alloc"]
  /\ UNCHANGED <<chunkVars, file, reading, len, toWrite, historyVars>>

AllocLock(t) ==
  /\ pc[t] = "lock" /\ guard = None
  /\ guard' = t
  /\ pc' = [pc EXCEPT ![t] = "alloc"]
  /\ UNCHANGED <<chunks, maxChunk, cur, file, reading, len, toWrite, historyVars>>

(* When the map is full the last chunk is emptied and handed out again. *)
AllocLast(t) ==
  /\ pc[t] = "alloc" /\ maxChunk = MaxChunks
  /\ chunks' = [chunks EXCEPT ![MaxChunks].length = 0]
  /\ cur' = [cur EXCEPT ![file[t]] = MaxChunks]
  /\ wrapped' = TRUE
  /\ guard' = None
  /\ RoundEnds(t)
  /\ UNCHANGED <<maxChunk, sent, spilled>>

(* sm->chunks[sm->max_chunk++] = c is two stores. *)
AllocStore(t) ==
  /\ pc[t] = "alloc" /\ maxChunk < MaxChunks
  /\ chunks' = [i \in 1..maxChunk + 1 |->
                  IF i <= maxChunk THEN chunks[i] ELSE Chunk(file[t])]
  /\ pc' = [pc EXCEPT ![t] = "bump"]
  /\ UNCHANGED <<maxChunk, cur, guard, file, reading, len, toWrite, historyVars>>

AllocBump(t) ==
  /\ pc[t] = "bump"
  /\ maxChunk' = maxChunk + 1
  /\ cur' = [cur EXCEPT ![file[t]] = maxChunk + 1]
  /\ guard' = None
  /\ RoundEnds(t)
  /\ UNCHANGED <<chunks, historyVars>>

Step(t) ==
  \/ \E f \in Files, n \in Calls : Call(t, f, n)
  \/ Fit(t) \/ ReadEnds(t) \/ Copy(t) \/ Count(t) \/ Room(t) \/ Full(t)
  \/ AllocLock(t) \/ AllocLast(t) \/ AllocStore(t) \/ AllocBump(t)

BufferSpec == BufferInit /\ [][\E t \in Threads : Step(t)]_bufferVars

-----------------------------------------------------------------------------
(* Properties *)

BufferTypeOK ==
  /\ maxChunk \in Len(FileOrder)..MaxChunks
  /\ Len(chunks) \in maxChunk..MaxChunks
  /\ \A i \in 1..Len(chunks) : /\ chunks[i].dest \in Files
                               /\ chunks[i].length \in Nat
                               /\ DOMAIN chunks[i].data = 1..Payload
  /\ cur \in [Files -> 1..maxChunk]
  /\ guard \in Threads \cup {None}
  /\ pc \in [Threads -> {"idle", "fit", "copy", "count", "full", "lock", "alloc", "bump"}]
  /\ file \in [Threads -> Files] /\ reading \in [Threads -> BOOLEAN]
  /\ len \in [Threads -> Nat] /\ toWrite \in [Threads -> Nat]
  /\ sent \in [Files -> 0..MaxBytes]
  /\ wrapped \in BOOLEAN /\ spilled \in BOOLEAN

(* The chunks that were never handed out twice.  Nothing is said of any     *)
(* once a copy has gone past the end of one: it may have hit another.       *)
Intact(i) == ~ spilled /\ (i < MaxChunks \/ ~ wrapped)

Earlier(i) == {k \in 1..i - 1 : chunks[k].dest = chunks[i].dest}

(* A chunk holds consecutive bytes of its own file from the place where the *)
(* file's chunks before it end, and only the one its file is writing may    *)
(* have room: reading the chunks of a file in map order gives its stream,   *)
(* whatever the two threads do and even after the map has filled up, but    *)
(* for the last chunk then.                                                 *)
ChunksIntact ==
  \A i \in 1..maxChunk : Intact(i) =>
    LET c == chunks[i] IN
    /\ c.length <= Payload
    /\ \A j \in 1..c.length :
         c.data[j] = Byte(c.dest, Payload * Cardinality(Earlier(i)) + j)
    /\ cur[c.dest] # i => c.length = Payload

(* Until the map wraps around every byte handed to a file is in a chunk or  *)
(* in the hands of its writer: the counted lengths add up to what was sent, *)
(* but for the one copy not yet counted.                                    *)
Uncounted(f) ==
  IF pc[Writer[f]] = "count" /\ file[Writer[f]] = f THEN toWrite[Writer[f]] ELSE 0
NothingDropped ==
  ~ wrapped =>
    \A f \in Files :
      sent[f] = Uncounted(f) + chunks[cur[f]].length + Payload * Cardinality(Earlier(cur[f]))

(* A buffer file is used from one thread, and as long as no two of them     *)
(* share a chunk that is enough for no copy to go past the end of one: that *)
(* takes a map that has wrapped around.                                     *)
SpilledOnlyIfWrapped == spilled => wrapped
=============================================================================
