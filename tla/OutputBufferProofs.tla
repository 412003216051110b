-------------------------- MODULE OutputBufferProofs --------------------------
(***************************************************************************)
(* The output buffers for any files, sizes and calls: the chunks of a file *)
(* stay its stream, in every interleaving of the two threads and after the *)
(* map has filled up (but for the last chunk then).                        *)
(*                                                                         *)
(* The inductive invariant says of each file where its next byte goes      *)
(* (SentInv), that the chunk it is writing is its own until it is the      *)
(* shared last one (OwnInv), and what the steps of a call may rely on      *)
(* (CallInv): the room found by Fit is still there when Copy uses it.      *)
(***************************************************************************)
EXTENDS OutputBuffer, FiniteSetTheorems, SequenceTheorems, TLAPS

(* The chunks that only the writer of one file writes to. *)
Held(i) == i < MaxChunks \/ ~ wrapped

(* The bytes of a file that are in its chunks before this one. *)
Base(i) == Payload * Cardinality(Earlier(i))

ByteSet == (Files \X Nat) \cup {None}
ChunkSet == [dest : Files, length : Nat, data : [1..Payload -> ByteSet]]
Stored == IF \E t \in Threads : pc[t] = "bump" THEN maxChunk + 1 ELSE maxChunk

ChunksType ==
  /\ maxChunk \in Len(FileOrder)..MaxChunks
  /\ chunks \in [1..Stored -> ChunkSet]
  /\ cur \in [Files -> 1..maxChunk]

CallType ==
  /\ pc \in [Threads -> {"idle", "fit", "copy", "count", "full", "lock", "alloc", "bump"}]
  /\ file \in [Threads -> Files] /\ reading \in [Threads -> BOOLEAN]
  /\ len \in [Threads -> Nat] /\ toWrite \in [Threads -> Nat]
  /\ sent \in [Files -> Nat] /\ wrapped \in BOOLEAN /\ spilled \in BOOLEAN
  /\ guard \in Threads \cup {None}

CallInv ==
  \A t \in Threads :
    /\ pc[t] # "idle" => /\ Writer[file[t]] = t
                         /\ sent[file[t]] + len[t] <= MaxBytes
    /\ pc[t] = "copy" => toWrite[t] <= len[t]
    /\ pc[t] \in {"alloc", "bump"} <=> guard = t
    /\ pc[t] = "bump" => maxChunk < MaxChunks /\ chunks[maxChunk + 1] = Chunk(file[t])
    /\ pc[t] \in {"copy", "count"} /\ Held(cur[file[t]]) =>
         CurLength(t) + toWrite[t] <= Payload
    /\ pc[t] \in {"lock", "alloc", "bump"} /\ Held(cur[file[t]]) => CurLength(t) = Payload

OwnInv ==
  /\ wrapped => maxChunk = MaxChunks
  /\ spilled => wrapped
  /\ \A f \in Files : Held(cur[f]) => chunks[cur[f]].dest = f
  /\ \A i \in 1..maxChunk : i <= cur[chunks[i].dest]

PlaceInv ==
  \A i \in 1..maxChunk : Held(i) =>
    LET c == chunks[i] IN
    /\ c.length <= Payload
    /\ cur[c.dest] # i => c.length = Payload
    /\ \A j \in 1..Payload :
         cur[c.dest] # i \/ Base(i) + j <= sent[c.dest] =>
           c.data[j] = Byte(c.dest, Base(i) + j)

SentInv ==
  \A f \in Files : /\ sent[f] <= MaxBytes
                   /\ Held(cur[f]) => sent[f] = Uncounted(f) + chunks[cur[f]].length + Base(cur[f])

IInv == ChunksType /\ CallType /\ CallInv /\ OwnInv /\ PlaceInv /\ SentInv

-----------------------------------------------------------------------------

(* The place of a chunk in its file's stream is a number. *)
LEMMA BaseType ==
  ASSUME NEW i \in Nat
  PROVE  Base(i) \in Nat /\ IsFiniteSet(Earlier(i)) /\ Cardinality(Earlier(i)) \in Nat
<1>1. IsFiniteSet(1..i - 1)
  BY FS_Interval
<1>2. IsFiniteSet(Earlier(i))
  BY <1>1, FS_Subset DEF Earlier
<1>3. Cardinality(Earlier(i)) \in Nat
  BY <1>2, FS_CardinalityType
<1> QED BY <1>2, <1>3, SizesAssumption DEF Base

(* It depends on the destinations of the chunks up to it only. *)
LEMMA BaseSame ==
  ASSUME NEW i \in Nat,
         \A k \in 1..i : chunks'[k].dest = chunks[k].dest
  PROVE  Base(i)' = Base(i)
<1>1. CASE i = 0
  <2>1. Earlier(i) = {} /\ Earlier(i)' = {}
    BY <1>1 DEF Earlier
  <2> QED BY <2>1 DEF Base
<1>2. CASE i # 0
  <2>1. Earlier(i)' = Earlier(i)
    BY <1>2 DEF Earlier
  <2> QED BY <2>1 DEF Base
<1> QED BY <1>1, <1>2

(* The chunk after the last of a file, appended at the end of the map,      *)
(* continues where that one ends.                                           *)
LEMMA BaseNext ==
  ASSUME NEW f, NEW last \in 1..maxChunk, maxChunk \in Nat,
         chunks[last].dest = f, chunks[maxChunk + 1].dest = f,
         \A i \in 1..maxChunk : chunks[i].dest = f => i <= last
  PROVE  Base(maxChunk + 1) = Base(last) + Payload
<1>1. Earlier(maxChunk + 1) = Earlier(last) \cup {last}
  BY DEF Earlier
<1>2. last \notin Earlier(last)
  BY DEF Earlier
<1>3. IsFiniteSet(Earlier(last)) /\ Cardinality(Earlier(last)) \in Nat
  BY BaseType
<1>4. Cardinality(Earlier(maxChunk + 1)) = Cardinality(Earlier(last)) + 1
  BY <1>1, <1>2, <1>3, FS_AddElement
<1> QED BY <1>3, <1>4, SizesAssumption DEF Base

(* What the assumptions on the constants say of the first chunks. *)
LEMMA FirstChunks ==
  /\ Len(FileOrder) \in Nat /\ Len(FileOrder) < MaxChunks
  /\ \A i \in 1..Len(FileOrder) : FileOrder[i] \in Files
  /\ \A f \in Files : \E i \in 1..Len(FileOrder) : FileOrder[i] = f
<1>1. FileOrder \in Seq(Files) /\ DOMAIN FileOrder = 1..Len(FileOrder) /\ Len(FileOrder) \in Nat
  BY FilesAssumption
<1> QED BY <1>1, SizesAssumption DEF Files

(* An empty chunk. *)
LEMMA ChunkType ==
  ASSUME NEW f \in Files
  PROVE  /\ Chunk(f) \in ChunkSet
         /\ Chunk(f).dest = f /\ Chunk(f).length = 0
BY DEF Chunk, ChunkSet, ByteSet

(* The buffers main has created are empty, and every file has its own.      *)
LEMMA InitOK == BufferInit => IInv
<1> SUFFICES ASSUME BufferInit PROVE IInv
  OBVIOUS
<1> DEFINE N == Len(FileOrder)
<1> HIDE DEF N
<1>n. N \in Nat /\ N < MaxChunks /\ MaxChunks \in Nat
      /\ \A i \in 1..N : FileOrder[i] \in Files
  BY FirstChunks, SizesAssumption DEF N
<1>e. \A f \in Files : \E i \in 1..N : FileOrder[i] = f
  BY ONLY FirstChunks DEF N
<1>i. /\ chunks = [i \in 1..N |-> Chunk(FileOrder[i])]
      /\ maxChunk = N
      /\ cur = [f \in Files |-> CHOOSE i \in 1..N : FileOrder[i] = f]
      /\ pc = [t \in Threads |-> "idle"] /\ guard = None
      /\ file = [t \in Threads |-> FileOrder[1]]
      /\ reading = [t \in Threads |-> FALSE]
      /\ len = [t \in Threads |-> 0] /\ toWrite = [t \in Threads |-> 0]
      /\ sent = [f \in Files |-> 0] /\ wrapped = FALSE /\ spilled = FALSE
  BY DEF BufferInit, N
<1>c. \A i \in 1..N : chunks[i].dest = FileOrder[i] /\ chunks[i].length = 0
                      /\ chunks[i] \in ChunkSet
  BY <1>n, <1>i, ChunkType
<1>f. \A f \in Files : cur[f] \in 1..N /\ FileOrder[cur[f]] = f
  <2> SUFFICES ASSUME NEW f \in Files PROVE cur[f] \in 1..N /\ FileOrder[cur[f]] = f
    OBVIOUS
  <2>1. cur[f] = CHOOSE i \in 1..N : FileOrder[i] = f
    BY <1>i
  <2>2. \E i \in 1..N : FileOrder[i] = f
    BY ONLY <1>e, f \in Files
  <2> QED BY <2>1, <2>2
<1>u. \A i, k \in 1..N : FileOrder[i] = FileOrder[k] => i = k
  <2>1. DOMAIN FileOrder = 1..N
    BY FilesAssumption DEF N
  <2> QED BY <2>1, FilesAssumption
<1>d. \A i \in 1..N : cur[FileOrder[i]] = i
  BY <1>n, <1>f, <1>u
<1>b. \A i \in 1..N : Base(i) = 0
  <2> SUFFICES ASSUME NEW i \in 1..N PROVE Base(i) = 0
    OBVIOUS
  <2>1. Earlier(i) = {}
    BY <1>n, <1>c, <1>u DEF Earlier
  <2> QED BY <2>1, FS_EmptySet, SizesAssumption DEF Base
<1>1. ChunksType
  <2>1. Stored = N
    BY <1>i DEF Stored
  <2>2. chunks \in [1..N -> ChunkSet]
    BY <1>c, <1>i
  <2>3. cur \in [Files -> 1..N]
    BY <1>f, <1>i
  <2>4. maxChunk = N /\ maxChunk \in N..MaxChunks
    BY <1>n, <1>i
  <2> QED BY <2>1, <2>2, <2>3, <2>4 DEF ChunksType, N
<1>2. CallType
  <2>1. FileOrder[1] \in Files
    <3>1. N # 0
      BY FilesAssumption DEF N
    <3> QED BY <3>1, <1>n
  <2> QED BY <2>1, <1>i DEF CallType
<1>3. CallInv
  BY <1>i, SizesAssumption DEF CallInv
<1>4. OwnInv
  <2>1. \A f \in Files : chunks[cur[f]].dest = f
    BY <1>c, <1>f
  <2>2. \A i \in 1..N : cur[chunks[i].dest] = i
    BY <1>c, <1>d
  <2>3. \A i \in 1..N : i <= cur[chunks[i].dest]
    <3>1. \A i \in 1..N : i <= i
      BY ONLY <1>n
    <3> QED BY ONLY <3>1, <2>2
  <2>4. maxChunk = N
    BY <1>i
  <2> QED BY <2>1, <2>3, <2>4, <1>i DEF OwnInv
<1>5. PlaceInv
  <2> SUFFICES ASSUME NEW i \in 1..N
               PROVE  /\ chunks[i].length <= Payload
                      /\ cur[chunks[i].dest] = i
                      /\ \A j \in 1..Payload : ~ (Base(i) + j <= sent[chunks[i].dest])
    BY <1>i DEF PlaceInv
  <2>1. sent[chunks[i].dest] = 0
    BY <1>n, <1>c, <1>i
  <2> QED BY <2>1, <1>c, <1>d, <1>b, SizesAssumption
<1>6. SentInv
  BY <1>i, <1>c, <1>f, <1>b, FilesAssumption, SizesAssumption DEF SentInv, Uncounted
<1> QED BY <1>1, <1>2, <1>3, <1>4, <1>5, <1>6 DEF IInv

-----------------------------------------------------------------------------

(* A step that leaves the map and what was sent alone, and has no copy to   *)
(* count before or after it that it had not, keeps what is said of both.    *)
LEMMA QuietKeeps ==
  ASSUME IInv, UNCHANGED <<chunks, maxChunk, cur, sent, wrapped, spilled>>,
         \A f \in Files : Uncounted(f)' = Uncounted(f)
  PROVE  OwnInv' /\ PlaceInv' /\ SentInv'
<1>1. \A i : Base(i)' = Base(i)
  BY DEF Base, Earlier
<1>2. \A i : Held(i)' = Held(i)
  BY DEF Held
<1>3. OwnInv'
  BY <1>2 DEF IInv, OwnInv
<1>4. PlaceInv'
  BY <1>1, <1>2 DEF IInv, PlaceInv, Byte
<1>5. SentInv'
  BY <1>1, <1>2 DEF IInv, SentInv
<1> QED BY <1>3, <1>4, <1>5

(* The types of what a thread has at hand. *)
LEMMA ThreadType ==
  ASSUME IInv, NEW t \in Threads
  PROVE  /\ file[t] \in Files /\ len[t] \in Nat /\ toWrite[t] \in Nat
         /\ cur[file[t]] \in 1..maxChunk /\ cur[file[t]] \in 1..Stored
         /\ chunks[cur[file[t]]] \in ChunkSet
         /\ CurLength(t) \in Nat
         /\ maxChunk \in Nat /\ sent[file[t]] \in Nat
<1>1. file[t] \in Files /\ len[t] \in Nat /\ toWrite[t] \in Nat
  BY DEF IInv, CallType
<1>2. maxChunk \in Nat
  BY FirstChunks, SizesAssumption DEF IInv, ChunksType
<1>3. cur[file[t]] \in 1..maxChunk
  BY <1>1 DEF IInv, ChunksType
<1>4. cur[file[t]] \in 1..Stored
  BY <1>2, <1>3 DEF Stored
<1>5. chunks[cur[file[t]]] \in ChunkSet
  BY <1>4 DEF IInv, ChunksType
<1>6. CurLength(t) \in Nat
  BY <1>5 DEF CurLength, ChunkSet
<1> QED BY <1>1, <1>2, <1>3, <1>4, <1>5, <1>6 DEF IInv, CallType

(* A file is one thread's, so two threads within a call never write to the  *)
(* same held chunk.                                                         *)
LEMMA ApartFiles ==
  ASSUME IInv, NEW t \in Threads, NEW u \in Threads, u # t,
         pc[t] # "idle", pc[u] # "idle"
  PROVE  /\ file[u] # file[t]
         /\ Held(cur[file[u]]) => cur[file[u]] # cur[file[t]]
<1>1. file[u] # file[t]
  BY DEF IInv, CallInv
<1>2. ASSUME Held(cur[file[u]]), cur[file[u]] = cur[file[t]] PROVE FALSE
  <2>1. file[t] \in Files /\ file[u] \in Files
    BY ThreadType
  <2> QED BY <2>1, <1>1, <1>2 DEF IInv, OwnInv
<1> QED BY <1>1, <1>2

(* A call begins within the bound. *)
LEMMA CallKeeps ==
  ASSUME IInv, NEW t \in Threads, NEW f \in Files, NEW n \in Calls, Call(t, f, n)
  PROVE  IInv'
<1>1. n \in Nat
  BY SizesAssumption
<1>2. ChunksType'
  BY DEF IInv, ChunksType, Call, Stored, chunkVars, CallType
<1>3. CallType'
  BY <1>1 DEF IInv, CallType, Call, chunkVars, historyVars
<1>4. CallInv'
  BY <1>1 DEF IInv, CallType, CallInv, Call, chunkVars, historyVars, CurLength, Held
<1>5. \A g \in Files : Uncounted(g)' = Uncounted(g)
  BY FilesAssumption DEF IInv, CallType, Call, Uncounted
<1> QED BY <1>2, <1>3, <1>4, <1>5, QuietKeeps DEF Call, chunkVars, historyVars, IInv

(* The room found is there: the call is cut to what fits a held chunk. *)
LEMMA FitKeeps ==
  ASSUME IInv, NEW t \in Threads, Fit(t)
  PROVE  IInv'
<1>1. PICK n \in IF reading[t] THEN 1..Fitting(t) ELSE {Fitting(t)} :
        toWrite' = [toWrite EXCEPT ![t] = n]
  BY DEF Fit
<1>2. len[t] \in Nat /\ CurLength(t) \in Nat /\ Payload \in Nat
  BY ThreadType, SizesAssumption
<1>3. Fitting(t) \in Nat /\ Fitting(t) <= len[t]
      /\ (CurLength(t) <= Payload => CurLength(t) + Fitting(t) <= Payload)
  BY <1>2 DEF Fitting
<1>4. n \in Nat /\ n <= len[t] /\ (CurLength(t) <= Payload => CurLength(t) + n <= Payload)
  BY <1>2, <1>3
<1>5. Held(cur[file[t]]) => CurLength(t) <= Payload
  BY ThreadType DEF IInv, PlaceInv, CurLength
<1>6. ChunksType'
  BY DEF IInv, ChunksType, Fit, Stored, chunkVars, CallType
<1>7. CallType'
  BY <1>1, <1>4 DEF IInv, CallType, Fit, chunkVars, historyVars
<1>8. CallInv'
  BY <1>1, <1>4, <1>5 DEF IInv, CallType, CallInv, Fit, chunkVars, historyVars, CurLength, Held
<1>9. \A g \in Files : Uncounted(g)' = Uncounted(g)
  BY <1>1, FilesAssumption DEF IInv, CallType, Fit, Uncounted
<1> QED BY <1>6, <1>7, <1>8, <1>9, QuietKeeps DEF Fit, chunkVars, historyVars, IInv

(* A read that returns nothing leaves the chunks as they are. *)
LEMMA ReadEndsKeeps ==
  ASSUME IInv, NEW t \in Threads, ReadEnds(t)
  PROVE  IInv'
<1>1. ChunksType'
  BY DEF IInv, ChunksType, ReadEnds, Stored, chunkVars, CallType
<1>2. CallType'
  BY DEF IInv, CallType, ReadEnds, RoundEnds, chunkVars, historyVars
<1>3. CallInv'
  BY DEF IInv, CallType, CallInv, ReadEnds, RoundEnds, chunkVars, historyVars, CurLength, Held
<1>4. \A g \in Files : Uncounted(g)' = Uncounted(g)
  BY FilesAssumption DEF IInv, CallType, ReadEnds, RoundEnds, Uncounted
<1> QED BY <1>1, <1>2, <1>3, <1>4, QuietKeeps DEF ReadEnds, chunkVars, historyVars, IInv

(* So does the end of a round in a chunk that has room. *)
LEMMA RoomKeeps ==
  ASSUME IInv, NEW t \in Threads, Room(t)
  PROVE  IInv'
<1>1. ChunksType'
  <2>1. \A u \in Threads : pc'[u] = "bump" <=> pc[u] = "bump"
    BY DEF IInv, CallType, Room, RoundEnds
  <2>2. Stored' = Stored
    BY <2>1 DEF Stored, Room, chunkVars
  <2> QED BY <2>2 DEF IInv, ChunksType, Room, chunkVars
<1>2. CallType'
  BY DEF IInv, CallType, Room, RoundEnds, chunkVars, historyVars
<1>3. CallInv'
  BY DEF IInv, CallType, CallInv, Room, RoundEnds, chunkVars, historyVars, CurLength, Held
<1>4. \A g \in Files : Uncounted(g)' = Uncounted(g)
  BY FilesAssumption DEF IInv, CallType, Room, RoundEnds, Uncounted
<1> QED BY <1>1, <1>2, <1>3, <1>4, QuietKeeps DEF Room, chunkVars, historyVars, IInv

(* A held chunk found full has exactly its payload. *)
LEMMA FullKeeps ==
  ASSUME IInv, NEW t \in Threads, Full(t)
  PROVE  IInv'
<1>1. ChunksType'
  BY DEF IInv, ChunksType, Full, Stored, chunkVars, CallType
<1>2. CallType'
  BY DEF IInv, CallType, Full, RoundEnds, chunkVars, historyVars
<1>3. CallInv'
  <2>1. Held(cur[file[t]]) => CurLength(t) <= Payload
    BY ThreadType DEF IInv, PlaceInv, CurLength
  <2>2. CurLength(t) \in Nat /\ Payload \in Nat
    BY ThreadType, SizesAssumption
  <2> QED BY <2>1, <2>2 DEF IInv, CallType, CallInv, Full, RoundEnds, chunkVars, historyVars, CurLength, Held
<1>4. \A g \in Files : Uncounted(g)' = Uncounted(g)
  BY FilesAssumption DEF IInv, CallType, Full, RoundEnds, Uncounted
<1> QED BY <1>1, <1>2, <1>3, <1>4, QuietKeeps DEF Full, chunkVars, historyVars, IInv

(* Only one thread is in chunk_alloc. *)
LEMMA AllocLockKeeps ==
  ASSUME IInv, NEW t \in Threads, AllocLock(t)
  PROVE  IInv'
<1>1. ChunksType'
  BY DEF IInv, ChunksType, AllocLock, Stored, chunkVars, CallType
<1>2. CallType'
  BY DEF IInv, CallType, AllocLock, RoundEnds, chunkVars, historyVars
<1>3. CallInv'
  BY SizesAssumption DEF IInv, CallType, CallInv, AllocLock, RoundEnds, chunkVars, historyVars, CurLength, Held
<1>4. \A g \in Files : Uncounted(g)' = Uncounted(g)
  BY FilesAssumption DEF IInv, CallType, AllocLock, RoundEnds, Uncounted
<1> QED BY <1>1, <1>2, <1>3, <1>4, QuietKeeps DEF AllocLock, chunkVars, historyVars, IInv

-----------------------------------------------------------------------------

(* A copy fills the places behind the length of a held chunk with the next  *)
(* bytes of the file: SentInv says that they continue the chunk.            *)
LEMMA CopyKeeps ==
  ASSUME IInv, NEW t \in Threads, Copy(t)
  PROVE  IInv'
<1> DEFINE f == file[t]
           i0 == cur[f]
           n == toWrite[t]
           chunk == Copied(chunks[i0], f, sent[f], n)
<1>t. /\ f \in Files /\ len[t] \in Nat /\ n \in Nat /\ i0 \in 1..maxChunk /\ i0 \in 1..Stored
      /\ chunks[i0] \in ChunkSet /\ maxChunk \in Nat /\ sent[f] \in Nat
      /\ CurLength(t) = chunks[i0].length /\ chunks[i0].length \in Nat
  BY ThreadType DEF CurLength
<1>p. Payload \in Nat /\ MaxBytes \in Nat
  BY SizesAssumption
<1>a. /\ pc[t] = "copy" /\ pc' = [pc EXCEPT ![t] = "count"]
      /\ chunks' = [chunks EXCEPT ![i0] = chunk]
      /\ spilled' = (spilled \/ chunks[i0].length + n > Payload)
      /\ sent' = [sent EXCEPT ![f] = @ + n]
      /\ len' = [len EXCEPT ![t] = @ - n]
      /\ UNCHANGED <<maxChunk, cur, guard, file, reading, toWrite, wrapped>>
  BY DEF Copy, CurLength
<1>n. n <= len[t] /\ sent[f] + len[t] <= MaxBytes /\ Writer[f] = t
  BY <1>a DEF IInv, CallInv
<1>h. Held(i0) => /\ chunks[i0].length + n <= Payload
                  /\ chunks[i0].dest = f
                  /\ sent[f] = chunks[i0].length + Base(i0)
  <2>1. Uncounted(f) = 0
    BY <1>a, <1>n DEF Uncounted
  <2>2. Base(i0) \in Nat
    BY <1>t, BaseType
  <2>3. Held(i0) => chunks[i0].length + n <= Payload
    BY <1>a DEF IInv, CallInv, CurLength
  <2>4. Held(i0) => chunks[i0].dest = f
    BY <1>t DEF IInv, OwnInv
  <2>5. Held(i0) => sent[f] = Uncounted(f) + chunks[i0].length + Base(i0)
    BY <1>t DEF IInv, SentInv
  <2> HIDE DEF i0, n, f
  <2>6. Held(i0) => sent[f] = chunks[i0].length + Base(i0)
    BY <1>t, <2>1, <2>2, <2>5
  <2> QED BY <2>3, <2>4, <2>6
<1>c. /\ chunk \in ChunkSet /\ chunk.dest = chunks[i0].dest /\ chunk.length = chunks[i0].length
      /\ \A j \in 1..Payload : chunk.data[j] =
           IF j > chunks[i0].length /\ j <= chunks[i0].length + n
             THEN Byte(f, sent[f] + j - chunks[i0].length) ELSE chunks[i0].data[j]
  <2> HIDE DEF f, i0, n
  <2>1. \A j \in 1..Payload : j > chunks[i0].length =>
          Byte(f, sent[f] + j - chunks[i0].length) \in ByteSet
    BY <1>t, <1>p DEF Byte, ByteSet
  <2>2. \A j \in 1..Payload : chunks[i0].data[j] \in ByteSet
    BY <1>t DEF ChunkSet
  <2> DEFINE D == [j \in 1..Payload |->
                     IF j > chunks[i0].length /\ j <= chunks[i0].length + n
                       THEN Byte(f, sent[f] + j - chunks[i0].length)
                       ELSE chunks[i0].data[j]]
  <2>3. chunk = [chunks[i0] EXCEPT !.data = D]
    BY DEF Copied
  <2>4. D \in [1..Payload -> ByteSet]
    BY <2>1, <2>2
  <2> HIDE DEF chunk, D
  <2>5. chunk \in ChunkSet /\ chunk.dest = chunks[i0].dest /\ chunk.length = chunks[i0].length
        /\ chunk.data = D
    BY <2>3, <2>4, <1>t DEF ChunkSet
  <2> QED BY <2>5 DEF D
<1> HIDE DEF chunk, n, i0, f
<1>s. Stored' = Stored
  <2>1. \A u \in Threads : pc'[u] = "bump" <=> pc[u] = "bump"
    BY <1>a DEF IInv, CallType
  <2> QED BY <2>1, <1>a DEF Stored
<1>e. /\ \A i \in 1..Stored : i # i0 => chunks'[i] = chunks[i]
      /\ chunks'[i0] = chunk
      /\ \A i \in 1..Stored : /\ chunks'[i].dest = chunks[i].dest
                              /\ chunks'[i].length = chunks[i].length
  BY <1>a, <1>c, <1>t DEF IInv, ChunksType
<1>m. \A i \in 1..maxChunk : i \in 1..Stored /\ i \in Nat
  BY <1>t DEF Stored
<1>b. \A i \in 1..maxChunk : Base(i)' = Base(i) /\ Base(i) \in Nat
  <2> SUFFICES ASSUME NEW i \in 1..maxChunk PROVE Base(i)' = Base(i) /\ Base(i) \in Nat
    OBVIOUS
  <2>1. \A k \in 1..i : k \in 1..maxChunk
    BY <1>t
  <2> QED BY <2>1, <1>e, <1>m, BaseSame, BaseType
<1>k. \A i : Held(i)' = Held(i)
  BY <1>a DEF Held
<1>f. \A g \in Files : cur[g] \in 1..maxChunk
  BY DEF IInv, ChunksType
<1>1. ChunksType'
  BY <1>s, <1>e, <1>a, <1>c DEF IInv, ChunksType
<1>2. CallType'
  BY <1>a, <1>t, <1>n DEF IInv, CallType
<1>3. CallInv'
  <2>1. \A u \in Threads : CurLength(u)' = CurLength(u)
    BY <1>a, <1>e, <1>f, <1>m DEF CurLength, IInv, CallType
  <2> SUFFICES ASSUME NEW u \in Threads
               PROVE  /\ pc'[u] # "idle" => /\ Writer[file[u]] = u
                                            /\ sent'[file[u]] + len'[u] <= MaxBytes
                      /\ pc'[u] = "copy" => toWrite[u] <= len'[u]
                      /\ pc'[u] \in {"alloc", "bump"} <=> guard = u
                      /\ pc'[u] = "bump" => /\ maxChunk < MaxChunks
                                            /\ chunks'[maxChunk + 1] = Chunk(file[u])
                      /\ pc'[u] \in {"copy", "count"} /\ Held(cur[file[u]]) =>
                           CurLength(u) + toWrite[u] <= Payload
                      /\ pc'[u] \in {"lock", "alloc", "bump"} /\ Held(cur[file[u]]) =>
                           CurLength(u) = Payload
    BY <2>1, <1>a, <1>k DEF CallInv
  <2>2. CASE u = t
    <3>1. pc'[t] = "count" /\ len'[t] = len[t] - n /\ sent'[f] = sent[f] + n
      BY <1>a, <1>t DEF IInv, CallType
    <3> QED BY <2>2, <3>1, <1>a, <1>n, <1>t, <1>p DEF IInv, CallInv, f, n
  <2>3. CASE u # t
    <3>1. pc'[u] = pc[u] /\ len'[u] = len[u]
      BY <2>3, <1>a DEF IInv, CallType
    <3>2. pc[u] # "idle" => sent'[file[u]] = sent[file[u]]
      <4>1. pc[u] # "idle" => file[u] # f
        BY <2>3, <1>a, ApartFiles DEF f
      <4> QED BY <4>1, <1>a DEF IInv, CallType
    <3>3. pc[u] = "bump" => chunks'[maxChunk + 1] = chunks[maxChunk + 1]
      BY <1>e, <1>t DEF Stored
    <3> QED BY <3>1, <3>2, <3>3 DEF IInv, CallInv
  <2> QED BY <2>2, <2>3
<1>4. OwnInv'
  <2>1. spilled' => wrapped'
    <3>1. chunks[i0].length + n > Payload => ~ Held(i0)
      BY <1>h, <1>t, <1>p
    <3>2. ~ Held(i0) => wrapped
      BY DEF Held
    <3> QED BY <3>1, <3>2, <1>a DEF IInv, OwnInv
  <2>2. \A g \in Files : Held(cur[g]) => chunks'[cur[g]].dest = g
    BY <1>e, <1>f, <1>m DEF IInv, OwnInv
  <2>3. \A i \in 1..maxChunk : i <= cur[chunks'[i].dest]
    BY <1>e, <1>m DEF IInv, OwnInv
  <2> QED BY <2>1, <2>2, <2>3, <1>a, <1>k DEF IInv, OwnInv
<1>5. PlaceInv'
  <2> SUFFICES ASSUME NEW i \in 1..maxChunk, Held(i)
               PROVE  LET c == chunks'[i] IN
                      /\ c.length <= Payload
                      /\ cur[c.dest] # i => c.length = Payload
                      /\ \A j \in 1..Payload :
                           cur[c.dest] # i \/ Base(i) + j <= sent'[c.dest] =>
                             c.data[j] = Byte(c.dest, Base(i) + j)
    BY <1>a, <1>b, <1>k DEF PlaceInv, Byte
  <2>1. /\ chunks[i].length <= Payload
        /\ cur[chunks[i].dest] # i => chunks[i].length = Payload
        /\ \A j \in 1..Payload :
             cur[chunks[i].dest] # i \/ Base(i) + j <= sent[chunks[i].dest] =>
               chunks[i].data[j] = Byte(chunks[i].dest, Base(i) + j)
    BY DEF IInv, PlaceInv
  <2>2. Base(i) \in Nat /\ i \in 1..Stored
    BY <1>b, <1>m
  <2>3. CASE i = i0
    <3>1. cur[f] = i0 /\ sent'[f] = sent[f] + n
      BY <1>a, <1>t DEF i0, IInv, CallType
    <3>2. ASSUME NEW j \in 1..Payload, Base(i0) + j <= sent[f] + n
          PROVE  chunk.data[j] = Byte(f, Base(i0) + j)
      <4>1. CASE j <= chunks[i0].length
        BY <4>1, <2>1, <2>2, <2>3, <1>c, <1>h, <1>t
      <4>2. CASE j > chunks[i0].length
        <5>1. j <= chunks[i0].length + n
          BY <3>2, <2>2, <2>3, <1>h, <1>t
        <5>2. sent[f] + j - chunks[i0].length = Base(i0) + j
          BY <2>2, <2>3, <1>h, <1>t
        <5> QED BY <4>2, <5>1, <5>2, <1>c
      <4> QED BY <4>1, <4>2, <1>t
    <3> QED BY <2>1, <2>3, <3>1, <3>2, <1>c, <1>e, <1>h
  <2>4. CASE i # i0
    <3>1. chunks'[i] = chunks[i] /\ chunks[i].dest \in Files
      BY <2>2, <2>4, <1>e DEF IInv, ChunksType, ChunkSet
    <3>2. chunks[i].dest = f => cur[chunks[i].dest] # i
      BY <2>4 DEF i0
    <3>3. chunks[i].dest # f => sent'[chunks[i].dest] = sent[chunks[i].dest]
      BY <3>1, <1>a DEF IInv, CallType
    <3> QED BY <2>1, <3>1, <3>2, <3>3
  <2> QED BY <2>3, <2>4
<1>6. SentInv'
  <2> SUFFICES ASSUME NEW g \in Files
               PROVE  /\ sent'[g] <= MaxBytes
                      /\ Held(cur[g]) => sent'[g] = Uncounted(g)' + chunks[cur[g]].length + Base(cur[g])
    BY <1>a, <1>b, <1>e, <1>f, <1>k, <1>m DEF SentInv
  <2>1. CASE g = f
    <3>1. Uncounted(g)' = n /\ sent'[g] = sent[f] + n
      BY <2>1, <1>a, <1>n, <1>t DEF Uncounted, f, n, IInv, CallType
    <3>2. Base(i0) \in Nat
      BY <1>b, <1>t
    <3>3. sent[f] + n <= MaxBytes
      BY <1>n, <1>t, <1>p
    <3>4. Held(i0) => sent[f] + n = n + chunks[i0].length + Base(i0)
      BY <3>2, <1>h, <1>t
    <3>5. cur[f] = i0
      BY DEF i0
    <3> QED BY <2>1, <3>1, <3>3, <3>4, <3>5
  <2>2. CASE g # f
    <3>1. sent'[g] = sent[g]
      BY <2>2, <1>a DEF IInv, CallType
    <3>2. Uncounted(g)' = Uncounted(g)
      BY <2>2, <1>a, FilesAssumption DEF Uncounted, f, IInv, CallType
    <3> QED BY <3>1, <3>2 DEF IInv, SentInv
  <2> QED BY <2>1, <2>2
<1> QED BY <1>1, <1>2, <1>3, <1>4, <1>5, <1>6 DEF IInv

(* The count takes a held chunk's length over what was copied to it: no     *)
(* other thread has written to that chunk in between.                       *)
LEMMA CountKeeps ==
  ASSUME IInv, NEW t \in Threads, Count(t)
  PROVE  IInv'
<1> DEFINE f == file[t]
           i0 == cur[f]
           n == toWrite[t]
<1>t. /\ f \in Files /\ len[t] \in Nat /\ n \in Nat /\ i0 \in 1..maxChunk /\ i0 \in 1..Stored
      /\ chunks[i0] \in ChunkSet /\ maxChunk \in Nat /\ sent[f] \in Nat
      /\ CurLength(t) = chunks[i0].length /\ chunks[i0].length \in Nat
  BY ThreadType DEF CurLength
<1>p. Payload \in Nat /\ MaxBytes \in Nat
  BY SizesAssumption
<1>a. /\ pc[t] = "count" /\ pc' = [pc EXCEPT ![t] = "full"]
      /\ chunks' = [chunks EXCEPT ![i0].length = @ + n]
      /\ toWrite' = [toWrite EXCEPT ![t] = 0]
      /\ UNCHANGED <<maxChunk, cur, guard, file, reading, len, sent, wrapped, spilled>>
  BY DEF Count, historyVars
<1>n. Writer[f] = t
  BY <1>a DEF IInv, CallInv
<1>h. Held(i0) => /\ chunks[i0].length + n <= Payload
                  /\ chunks[i0].dest = f
                  /\ sent[f] = n + chunks[i0].length + Base(i0)
  <2>1. Uncounted(f) = n
    BY <1>a, <1>n DEF Uncounted
  <2>2. Held(i0) => chunks[i0].length + n <= Payload
    BY <1>a DEF IInv, CallInv, CurLength
  <2>3. Held(i0) => chunks[i0].dest = f
    BY <1>t DEF IInv, OwnInv
  <2>4. Held(i0) => sent[f] = Uncounted(f) + chunks[i0].length + Base(i0)
    BY <1>t DEF IInv, SentInv
  <2> QED BY <2>1, <2>2, <2>3, <2>4
<1> HIDE DEF n, i0, f
<1>s. Stored' = Stored
  <2>1. \A u \in Threads : pc'[u] = "bump" <=> pc[u] = "bump"
    BY <1>a DEF IInv, CallType
  <2> QED BY <2>1, <1>a DEF Stored
<1>e. /\ \A i \in 1..Stored : i # i0 => chunks'[i] = chunks[i]
      /\ chunks'[i0] \in ChunkSet /\ chunks'[i0].dest = chunks[i0].dest
      /\ chunks'[i0].length = chunks[i0].length + n /\ chunks'[i0].data = chunks[i0].data
  <2>1. \A i \in 1..Stored : i # i0 => chunks'[i] = chunks[i]
    BY <1>a DEF IInv, ChunksType
  <2>2. chunks'[i0] = [chunks[i0] EXCEPT !.length = @ + n]
    BY <1>a, <1>t DEF IInv, ChunksType
  <2>3. chunks[i0].length + n \in Nat
    BY <1>t
  <2>4. /\ chunks'[i0] \in ChunkSet /\ chunks'[i0].dest = chunks[i0].dest
        /\ chunks'[i0].length = chunks[i0].length + n /\ chunks'[i0].data = chunks[i0].data
    BY <2>2, <2>3, <1>t DEF ChunkSet
  <2> QED BY <2>1, <2>4
<1>d. \A i \in 1..Stored : chunks'[i].dest = chunks[i].dest
  BY <1>e, <1>t
<1>m. \A i \in 1..maxChunk : i \in 1..Stored /\ i \in Nat
  BY <1>t DEF Stored
<1>b. \A i \in 1..maxChunk : Base(i)' = Base(i) /\ Base(i) \in Nat
  <2> SUFFICES ASSUME NEW i \in 1..maxChunk PROVE Base(i)' = Base(i) /\ Base(i) \in Nat
    OBVIOUS
  <2>1. \A k \in 1..i : k \in 1..maxChunk
    BY <1>t
  <2> QED BY <2>1, <1>d, <1>m, BaseSame, BaseType
<1>k. \A i : Held(i)' = Held(i)
  BY <1>a DEF Held
<1>f. \A g \in Files : cur[g] \in 1..maxChunk
  BY DEF IInv, ChunksType
<1>o. \A g \in Files : g # f /\ Held(cur[g]) => chunks'[cur[g]] = chunks[cur[g]]
  <2> SUFFICES ASSUME NEW g \in Files, g # f, Held(cur[g])
               PROVE  chunks'[cur[g]] = chunks[cur[g]]
    OBVIOUS
  <2>1. cur[g] # i0
    BY <1>h DEF IInv, OwnInv
  <2> QED BY <2>1, <1>e, <1>f, <1>m
<1>1. ChunksType'
  BY <1>s, <1>e, <1>a DEF IInv, ChunksType
<1>2. CallType'
  BY <1>a DEF IInv, CallType
<1>3. CallInv'
  <2> SUFFICES ASSUME NEW u \in Threads
               PROVE  /\ pc'[u] # "idle" => /\ Writer[file[u]] = u
                                            /\ sent[file[u]] + len[u] <= MaxBytes
                      /\ pc'[u] = "copy" => toWrite'[u] <= len[u]
                      /\ pc'[u] \in {"alloc", "bump"} <=> guard = u
                      /\ pc'[u] = "bump" => /\ maxChunk < MaxChunks
                                            /\ chunks'[maxChunk + 1] = Chunk(file[u])
                      /\ pc'[u] \in {"copy", "count"} /\ Held(cur[file[u]]) =>
                           chunks'[cur[file[u]]].length + toWrite'[u] <= Payload
                      /\ pc'[u] \in {"lock", "alloc", "bump"} /\ Held(cur[file[u]]) =>
                           chunks'[cur[file[u]]].length = Payload
    BY <1>a, <1>k DEF CallInv, CurLength
  <2>1. CASE u = t
    <3>1. pc'[t] = "full"
      BY <1>a DEF IInv, CallType
    <3> QED BY <2>1, <3>1, <1>a DEF IInv, CallInv
  <2>2. CASE u # t
    <3>1. pc'[u] = pc[u] /\ toWrite'[u] = toWrite[u]
      BY <2>2, <1>a DEF IInv, CallType
    <3>2. pc[u] # "idle" /\ Held(cur[file[u]]) => chunks'[cur[file[u]]] = chunks[cur[file[u]]]
      BY <2>2, <1>a, <1>o, ApartFiles DEF f, IInv, CallType
    <3>3. pc[u] = "bump" => chunks'[maxChunk + 1] = chunks[maxChunk + 1]
      BY <1>e, <1>t DEF Stored
    <3> QED BY <3>1, <3>2, <3>3 DEF IInv, CallInv, CurLength
  <2> QED BY <2>1, <2>2
<1>4. OwnInv'
  <2>1. \A g \in Files : Held(cur[g]) => chunks'[cur[g]].dest = g
    BY <1>d, <1>f, <1>m DEF IInv, OwnInv
  <2>2. \A i \in 1..maxChunk : i <= cur[chunks'[i].dest]
    BY <1>d, <1>m DEF IInv, OwnInv
  <2> QED BY <2>1, <2>2, <1>a, <1>k DEF IInv, OwnInv
<1>5. PlaceInv'
  <2> SUFFICES ASSUME NEW i \in 1..maxChunk, Held(i)
               PROVE  LET c == chunks'[i] IN
                      /\ c.length <= Payload
                      /\ cur[c.dest] # i => c.length = Payload
                      /\ \A j \in 1..Payload :
                           cur[c.dest] # i \/ Base(i) + j <= sent[c.dest] =>
                             c.data[j] = Byte(c.dest, Base(i) + j)
    BY <1>a, <1>b, <1>k DEF PlaceInv, Byte
  <2>1. /\ chunks[i].length <= Payload
        /\ cur[chunks[i].dest] # i => chunks[i].length = Payload
        /\ \A j \in 1..Payload :
             cur[chunks[i].dest] # i \/ Base(i) + j <= sent[chunks[i].dest] =>
               chunks[i].data[j] = Byte(chunks[i].dest, Base(i) + j)
    BY DEF IInv, PlaceInv
  <2>2. CASE i = i0
    <3>1. cur[f] = i0
      BY DEF i0
    <3> QED BY <2>1, <2>2, <3>1, <1>e, <1>h
  <2>3. CASE i # i0
    BY <2>1, <2>3, <1>e, <1>m
  <2> QED BY <2>2, <2>3
<1>6. SentInv'
  <2> SUFFICES ASSUME NEW g \in Files
               PROVE  /\ sent[g] <= MaxBytes
                      /\ Held(cur[g]) => sent[g] = Uncounted(g)' + chunks'[cur[g]].length + Base(cur[g])
    BY <1>a, <1>b, <1>f, <1>k DEF SentInv
  <2>1. CASE g = f
    <3>1. Uncounted(g)' = 0
      BY <2>1, <1>a, <1>n, <1>t DEF Uncounted, f, IInv, CallType
    <3>2. Base(i0) \in Nat
      BY <1>b, <1>t
    <3>3. Held(i0) => sent[f] = 0 + chunks'[i0].length + Base(i0)
      BY <3>2, <1>e, <1>h, <1>t
    <3>4. cur[f] = i0
      BY DEF i0
    <3> QED BY <2>1, <3>1, <3>3, <3>4 DEF IInv, SentInv
  <2>2. CASE g # f
    <3>1. Uncounted(g)' = Uncounted(g)
      BY <2>2, <1>a, FilesAssumption DEF Uncounted, f, IInv, CallType
    <3> QED BY <2>2, <3>1, <1>o DEF IInv, SentInv
  <2> QED BY <2>1, <2>2
<1> QED BY <1>1, <1>2, <1>3, <1>4, <1>5, <1>6 DEF IInv

-----------------------------------------------------------------------------

(* In chunk_alloc no other thread is between its two stores. *)
LEMMA AllocAlone ==
  ASSUME IInv, NEW t \in Threads, pc[t] = "alloc"
  PROVE  /\ \A u \in Threads : pc[u] # "bump" /\ (u # t => pc[u] # "alloc")
         /\ Stored = maxChunk
<1>1. guard = t
  BY DEF IInv, CallInv
<1>2. \A u \in Threads : pc[u] # "bump" /\ (u # t => pc[u] # "alloc")
  BY <1>1 DEF IInv, CallInv
<1> QED BY <1>2 DEF Stored

(* When the last chunk is handed out again it stops being held; the chunk   *)
(* the file leaves is full, and a held one has all its bytes in place.      *)
LEMMA AllocLastKeeps ==
  ASSUME IInv, NEW t \in Threads, AllocLast(t)
  PROVE  IInv'
<1> DEFINE f == file[t]
<1>t. f \in Files /\ len[t] \in Nat /\ maxChunk \in Nat /\ sent[f] \in Nat
  BY ThreadType
<1>p. Payload \in Nat /\ MaxChunks \in Nat /\ MaxChunks # 0
  BY SizesAssumption, FirstChunks
<1>a. /\ pc[t] = "alloc" /\ maxChunk = MaxChunks
      /\ chunks' = [chunks EXCEPT ![MaxChunks].length = 0]
      /\ cur' = [cur EXCEPT ![f] = MaxChunks]
      /\ wrapped' = TRUE /\ guard' = None
      /\ pc' = [pc EXCEPT ![t] = IF len[t] = 0 THEN "idle" ELSE "fit"]
      /\ reading' = [reading EXCEPT ![t] = @ /\ len[t] # 0]
      /\ UNCHANGED <<maxChunk, file, len, toWrite, sent, spilled>>
  BY DEF AllocLast, RoundEnds
<1>n. Writer[f] = t
  BY <1>a DEF IInv, CallInv
<1> HIDE DEF f
<1>s. Stored = MaxChunks /\ Stored' = MaxChunks
  <2>1. \A u \in Threads : pc[u] # "bump" /\ pc'[u] # "bump"
    BY <1>a, AllocAlone DEF IInv, CallType
  <2> QED BY <2>1, <1>a DEF Stored
<1>e. /\ \A i \in 1..MaxChunks : i # MaxChunks => chunks'[i] = chunks[i]
      /\ \A i \in 1..MaxChunks : chunks'[i] \in ChunkSet /\ chunks'[i].dest = chunks[i].dest
  <2>1. \A i \in 1..MaxChunks : i # MaxChunks => chunks'[i] = chunks[i]
    BY <1>a, <1>s DEF IInv, ChunksType
  <2>2. chunks[MaxChunks] \in ChunkSet
        /\ chunks'[MaxChunks] = [chunks[MaxChunks] EXCEPT !.length = 0]
    BY <1>a, <1>s, <1>p DEF IInv, ChunksType
  <2>3. chunks'[MaxChunks] \in ChunkSet /\ chunks'[MaxChunks].dest = chunks[MaxChunks].dest
    BY <2>2 DEF ChunkSet
  <2> QED BY <2>1, <2>3, <1>s DEF IInv, ChunksType
<1>b. \A i \in 1..maxChunk : Base(i)' = Base(i) /\ Base(i) \in Nat
  <2> SUFFICES ASSUME NEW i \in 1..maxChunk PROVE Base(i)' = Base(i) /\ Base(i) \in Nat
    OBVIOUS
  <2>1. i \in Nat /\ \A k \in 1..i : k \in 1..MaxChunks
    BY <1>t, <1>a
  <2> QED BY <2>1, <1>e, BaseSame, BaseType
<1>k. \A i \in 1..MaxChunks : (Held(i)' <=> i < MaxChunks) /\ (i < MaxChunks => Held(i) /\ i # MaxChunks)
  BY <1>a, <1>p DEF Held
<1>f. /\ \A g \in Files : g # f => cur'[g] = cur[g]
      /\ \A g \in Files : cur'[g] \in 1..MaxChunks
      /\ cur'[f] = MaxChunks
  BY <1>a, <1>t, <1>p DEF IInv, ChunksType
<1>g. \A g \in Files : cur'[g] < MaxChunks =>
        g # f /\ Held(cur[g]) /\ cur'[g] = cur[g] /\ chunks'[cur[g]] = chunks[cur[g]]
  BY <1>e, <1>f, <1>k
<1>1. ChunksType'
  BY <1>s, <1>e, <1>a, <1>f DEF IInv, ChunksType
<1>2. CallType'
  BY <1>a DEF IInv, CallType
<1>3. CallInv'
  <2> SUFFICES ASSUME NEW u \in Threads
               PROVE  /\ pc'[u] # "idle" => /\ Writer[file[u]] = u
                                            /\ sent[file[u]] + len[u] <= MaxBytes
                      /\ pc'[u] = "copy" => toWrite[u] <= len[u]
                      /\ ~ pc'[u] \in {"alloc", "bump"}
                      /\ pc'[u] \in {"copy", "count"} /\ cur'[file[u]] < MaxChunks =>
                           chunks'[cur'[file[u]]].length + toWrite[u] <= Payload
                      /\ pc'[u] \in {"lock", "alloc", "bump"} /\ cur'[file[u]] < MaxChunks =>
                           chunks'[cur'[file[u]]].length = Payload
    BY <1>a, SizesAssumption DEF CallInv, CurLength, Held
  <2>1. CASE u = t
    <3>1. pc'[t] = IF len[t] = 0 THEN "idle" ELSE "fit"
      BY <1>a DEF IInv, CallType
    <3> QED BY <2>1, <3>1, <1>a DEF IInv, CallInv
  <2>2. CASE u # t
    <3>1. pc'[u] = pc[u] /\ pc[u] # "alloc" /\ pc[u] # "bump" /\ file[u] \in Files
      BY <2>2, <1>a, AllocAlone DEF IInv, CallType
    <3> QED BY <3>1, <1>g DEF IInv, CallInv, CurLength
  <2> QED BY <2>1, <2>2
<1>4. OwnInv'
  <2>1. \A g \in Files : cur'[g] < MaxChunks => chunks'[cur'[g]].dest = g
    BY <1>g DEF IInv, OwnInv
  <2>2. \A i \in 1..MaxChunks : i <= cur'[chunks'[i].dest]
    <3>1. \A i \in 1..MaxChunks : i <= MaxChunks
      BY <1>p
    <3>2. \A i \in 1..MaxChunks : chunks[i].dest \in Files /\ i <= cur[chunks[i].dest]
      BY <1>a, <1>s DEF IInv, OwnInv, ChunksType, ChunkSet
    <3> QED BY <3>1, <3>2, <1>e, <1>f
  <2> QED BY <2>1, <2>2, <1>a DEF OwnInv, Held
<1>5. PlaceInv'
  <2> SUFFICES ASSUME NEW i \in 1..MaxChunks, Held(i)'
               PROVE  LET c == chunks'[i] IN
                      /\ c.length <= Payload
                      /\ cur'[c.dest] # i => c.length = Payload
                      /\ \A j \in 1..Payload :
                           cur'[c.dest] # i \/ Base(i) + j <= sent[c.dest] =>
                             c.data[j] = Byte(c.dest, Base(i) + j)
    BY <1>a, <1>b DEF PlaceInv, Byte
  <2>1. /\ chunks[i].length <= Payload
        /\ cur[chunks[i].dest] # i => chunks[i].length = Payload
        /\ \A j \in 1..Payload :
             cur[chunks[i].dest] # i \/ Base(i) + j <= sent[chunks[i].dest] =>
               chunks[i].data[j] = Byte(chunks[i].dest, Base(i) + j)
    BY <1>a, <1>k DEF IInv, PlaceInv
  <2>2. Held(i) /\ chunks'[i] = chunks[i] /\ chunks[i].dest \in Files
    BY <1>e, <1>k, <1>a, <1>s DEF IInv, ChunksType, ChunkSet
  <2>3. CASE chunks[i].dest = f /\ cur[f] = i
    <3>1. chunks[i].length = Payload
      BY <2>2, <2>3, <1>a DEF IInv, CallInv, CurLength, f
    <3>2. Uncounted(f) = 0
      BY <1>a, <1>n DEF Uncounted, f
    <3>3. sent[f] = 0 + Payload + Base(i) /\ Base(i) \in Nat
      BY <2>2, <2>3, <3>1, <3>2, <1>a, <1>b, <1>t DEF IInv, SentInv
    <3>4. \A j \in 1..Payload : Base(i) + j <= sent[f]
      BY <3>3, <1>p
    <3> QED BY <2>1, <2>2, <2>3, <3>1, <3>4
  <2>4. CASE chunks[i].dest = f /\ cur[f] # i
    BY <2>1, <2>2, <2>4
  <2>5. CASE chunks[i].dest # f
    BY <2>1, <2>2, <2>5, <1>f
  <2> QED BY <2>3, <2>4, <2>5
<1>6. SentInv'
  <2> SUFFICES ASSUME NEW g \in Files
               PROVE  /\ sent[g] <= MaxBytes
                      /\ cur'[g] < MaxChunks => sent[g] = Uncounted(g)' + chunks'[cur'[g]].length + Base(cur'[g])
    BY <1>a, <1>b, <1>f DEF SentInv, Held
  <2>1. Uncounted(g)' = Uncounted(g)
    BY <1>a, FilesAssumption DEF Uncounted, IInv, CallType
  <2> QED BY <2>1, <1>g DEF IInv, SentInv
<1> QED BY <1>1, <1>2, <1>3, <1>4, <1>5, <1>6 DEF IInv

(* The first store adds a chunk behind the map's count and touches no other. *)
LEMMA AllocStoreKeeps ==
  ASSUME IInv, NEW t \in Threads, AllocStore(t)
  PROVE  IInv'
<1>t. file[t] \in Files /\ maxChunk \in Nat
  BY ThreadType
<1>a. /\ pc[t] = "alloc" /\ maxChunk < MaxChunks
      /\ chunks' = [i \in 1..maxChunk + 1 |->
                      IF i <= maxChunk THEN chunks[i] ELSE Chunk(file[t])]
      /\ pc' = [pc EXCEPT ![t] = "bump"]
      /\ UNCHANGED <<maxChunk, cur, guard, file, reading, len, toWrite, sent, wrapped, spilled>>
  BY DEF AllocStore, historyVars
<1>s. Stored = maxChunk /\ Stored' = maxChunk + 1
  <2>1. pc'[t] = "bump"
    BY <1>a DEF IInv, CallType
  <2> QED BY <2>1, <1>a, AllocAlone DEF Stored
<1>e. /\ \A i \in 1..maxChunk : chunks'[i] = chunks[i]
      /\ chunks'[maxChunk + 1] = Chunk(file[t])
  BY <1>a, <1>t
<1>b. \A i \in 1..maxChunk : Base(i)' = Base(i) /\ Base(i) \in Nat
  <2> SUFFICES ASSUME NEW i \in 1..maxChunk PROVE Base(i)' = Base(i) /\ Base(i) \in Nat
    OBVIOUS
  <2>1. i \in Nat /\ \A k \in 1..i : k \in 1..maxChunk
    BY <1>t
  <2> QED BY <2>1, <1>e, BaseSame, BaseType
<1>k. \A i : Held(i)' = Held(i)
  BY <1>a DEF Held
<1>f. \A g \in Files : cur[g] \in 1..maxChunk
  BY DEF IInv, ChunksType
<1>1. ChunksType'
  <2>1. chunks' \in [1..maxChunk + 1 -> ChunkSet]
    <3>1. chunks \in [1..maxChunk -> ChunkSet] /\ Chunk(file[t]) \in ChunkSet
      BY <1>s, <1>t, ChunkType DEF IInv, ChunksType
    <3> QED BY <3>1, <1>a, <1>t
  <2> QED BY <2>1, <1>s, <1>a DEF IInv, ChunksType
<1>2. CallType'
  BY <1>a DEF IInv, CallType
<1>3. CallInv'
  <2> SUFFICES ASSUME NEW u \in Threads
               PROVE  /\ pc'[u] # "idle" => /\ Writer[file[u]] = u
                                            /\ sent[file[u]] + len[u] <= MaxBytes
                      /\ pc'[u] = "copy" => toWrite[u] <= len[u]
                      /\ pc'[u] \in {"alloc", "bump"} <=> guard = u
                      /\ pc'[u] = "bump" => /\ maxChunk < MaxChunks
                                            /\ chunks'[maxChunk + 1] = Chunk(file[u])
                      /\ pc'[u] \in {"copy", "count"} /\ Held(cur[file[u]]) =>
                           chunks[cur[file[u]]].length + toWrite[u] <= Payload
                      /\ pc'[u] \in {"lock", "alloc", "bump"} /\ Held(cur[file[u]]) =>
                           chunks[cur[file[u]]].length = Payload
    <3>1. \A u \in Threads : chunks'[cur[file[u]]] = chunks[cur[file[u]]]
      BY <1>e, <1>f DEF IInv, CallType
    <3> QED BY <3>1, <1>a, <1>k DEF CallInv, CurLength
  <2>1. CASE u = t
    <3>1. pc'[t] = "bump"
      BY <1>a DEF IInv, CallType
    <3> QED BY <2>1, <3>1, <1>a, <1>e DEF IInv, CallInv, CurLength
  <2>2. CASE u # t
    <3>1. pc'[u] = pc[u] /\ pc[u] # "bump"
      BY <2>2, <1>a, AllocAlone DEF IInv, CallType
    <3> QED BY <3>1 DEF IInv, CallInv, CurLength
  <2> QED BY <2>1, <2>2
<1>4. OwnInv'
  BY <1>a, <1>e, <1>f, <1>k DEF IInv, OwnInv
<1>5. PlaceInv'
  BY <1>a, <1>b, <1>e, <1>k DEF IInv, PlaceInv, Byte
<1>6. SentInv'
  <2>1. \A g \in Files : Uncounted(g)' = Uncounted(g)
    BY <1>a, FilesAssumption DEF Uncounted, IInv, CallType
  <2> QED BY <2>1, <1>a, <1>b, <1>e, <1>f, <1>k DEF IInv, SentInv
<1> QED BY <1>1, <1>2, <1>3, <1>4, <1>5, <1>6 DEF IInv

(* The second store makes the new chunk the one its file writes, which       *)
(* continues the full one the file leaves.                                   *)
LEMMA AllocBumpKeeps ==
  ASSUME IInv, NEW t \in Threads, AllocBump(t)
  PROVE  IInv'
<1> DEFINE f == file[t]
           i0 == cur[f]
<1>t. f \in Files /\ len[t] \in Nat /\ maxChunk \in Nat /\ sent[f] \in Nat /\ i0 \in 1..maxChunk
  BY ThreadType
<1>p. Payload \in Nat /\ Payload # 0 /\ MaxChunks \in Nat
  BY SizesAssumption
<1>a. /\ pc[t] = "bump"
      /\ maxChunk' = maxChunk + 1
      /\ cur' = [cur EXCEPT ![f] = maxChunk + 1]
      /\ guard' = None
      /\ pc' = [pc EXCEPT ![t] = IF len[t] = 0 THEN "idle" ELSE "fit"]
      /\ reading' = [reading EXCEPT ![t] = @ /\ len[t] # 0]
      /\ UNCHANGED <<chunks, file, len, toWrite, sent, wrapped, spilled>>
  BY DEF AllocBump, RoundEnds, historyVars
<1>n. Writer[f] = t /\ guard = t /\ maxChunk < MaxChunks /\ chunks[maxChunk + 1] = Chunk(f)
  BY <1>a DEF IInv, CallInv
<1>w. ~ wrapped /\ (\A i : Held(i) /\ Held(i)')
  <2>1. ~ wrapped
    BY <1>n, <1>t, <1>p DEF IInv, OwnInv
  <2> QED BY <2>1, <1>a DEF Held
<1>h. chunks[i0].dest = f /\ chunks[i0].length = Payload
  BY <1>a, <1>t, <1>w DEF IInv, CallInv, OwnInv, CurLength
<1>c. /\ chunks[maxChunk + 1].dest = f /\ chunks[maxChunk + 1].length = 0
  BY <1>n, <1>t, ChunkType
<1> HIDE DEF i0, f
<1>s. Stored = maxChunk + 1 /\ Stored' = maxChunk + 1
  <2>1. \A u \in Threads : pc'[u] # "bump"
    <3>1. pc'[t] # "bump"
      BY <1>a DEF IInv, CallType
    <3>2. \A u \in Threads : u # t => pc[u] # "bump" /\ pc'[u] = pc[u]
      BY <1>a, <1>n DEF IInv, CallInv, CallType
    <3> QED BY <3>1, <3>2
  <2> QED BY <2>1, <1>a DEF Stored
<1>b. \A i \in 1..maxChunk + 1 : Base(i)' = Base(i) /\ Base(i) \in Nat
  <2>1. \A i \in 1..maxChunk + 1 : i \in Nat
    BY <1>t
  <2> QED BY <2>1, <1>a, BaseSame, BaseType
<1>x. Base(maxChunk + 1) = Base(i0) + Payload
  <2>1. \A i \in 1..maxChunk : chunks[i].dest = f => i <= i0
    BY DEF IInv, OwnInv, i0
  <2> QED BY <2>1, <1>t, <1>h, <1>c, BaseNext
<1>u. Uncounted(f) = 0 /\ sent[f] = Payload + Base(i0) /\ Base(i0) \in Nat
  <2>1. Uncounted(f) = 0
    BY <1>a, <1>n DEF Uncounted, f
  <2>2. Base(i0) \in Nat
    BY <1>b, <1>t
  <2>3. sent[f] = Uncounted(f) + chunks[i0].length + Base(i0)
    BY <1>t, <1>w DEF IInv, SentInv, i0
  <2> QED BY <2>1, <2>2, <2>3, <1>h, <1>p
<1>f. /\ \A g \in Files : g # f => cur'[g] = cur[g]
      /\ \A g \in Files : cur[g] \in 1..maxChunk
      /\ cur'[f] = maxChunk + 1
  BY <1>a, <1>t DEF IInv, ChunksType
<1>1. ChunksType'
  <2>1. cur' \in [Files -> 1..maxChunk + 1]
    BY <1>a, <1>t DEF IInv, ChunksType
  <2>2. maxChunk + 1 \in Len(FileOrder)..MaxChunks
    BY <1>n, <1>t, <1>p, FirstChunks DEF IInv, ChunksType
  <2> QED BY <2>1, <2>2, <1>s, <1>a DEF IInv, ChunksType
<1>2. CallType'
  BY <1>a DEF IInv, CallType
<1>3. CallInv'
  <2> SUFFICES ASSUME NEW u \in Threads
               PROVE  /\ pc'[u] # "idle" => /\ Writer[file[u]] = u
                                            /\ sent[file[u]] + len[u] <= MaxBytes
                      /\ pc'[u] = "copy" => toWrite[u] <= len[u]
                      /\ ~ pc'[u] \in {"alloc", "bump"}
                      /\ pc'[u] \in {"copy", "count"} =>
                           chunks[cur'[file[u]]].length + toWrite[u] <= Payload
                      /\ pc'[u] \in {"lock", "alloc", "bump"} =>
                           chunks[cur'[file[u]]].length = Payload
    BY <1>a, SizesAssumption DEF CallInv, CurLength
  <2>1. CASE u = t
    <3>1. pc'[t] = IF len[t] = 0 THEN "idle" ELSE "fit"
      BY <1>a DEF IInv, CallType
    <3> QED BY <2>1, <3>1, <1>a DEF IInv, CallInv
  <2>2. CASE u # t
    <3>1. pc'[u] = pc[u] /\ ~ pc[u] \in {"alloc", "bump"} /\ file[u] \in Files
      BY <2>2, <1>a, <1>n DEF IInv, CallInv, CallType
    <3>2. pc[u] # "idle" => cur'[file[u]] = cur[file[u]]
      BY <2>2, <3>1, <1>a, <1>f, ApartFiles DEF f
    <3> QED BY <3>1, <3>2, <1>w DEF IInv, CallInv, CurLength
  <2> QED BY <2>1, <2>2
<1>4. OwnInv'
  <2>1. \A g \in Files : chunks[cur'[g]].dest = g
    BY <1>c, <1>f, <1>w DEF IInv, OwnInv
  <2>2. \A i \in 1..maxChunk + 1 : i <= cur'[chunks[i].dest]
    <3> SUFFICES ASSUME NEW i \in 1..maxChunk + 1 PROVE i <= cur'[chunks[i].dest]
      OBVIOUS
    <3>1. CASE chunks[i].dest = f
      BY <3>1, <1>f, <1>t
    <3>2. CASE chunks[i].dest # f
      <4>1. i \in 1..maxChunk
        BY <3>2, <1>c, <1>t
      <4>2. chunks[i].dest \in Files
        BY <1>s DEF IInv, ChunksType, ChunkSet
      <4> QED BY <3>2, <4>1, <4>2, <1>f DEF IInv, OwnInv
    <3> QED BY <3>1, <3>2
  <2> QED BY <2>1, <2>2, <1>a, <1>w DEF IInv, OwnInv
<1>5. PlaceInv'
  <2> SUFFICES ASSUME NEW i \in 1..maxChunk + 1
               PROVE  LET c == chunks[i] IN
                      /\ c.length <= Payload
                      /\ cur'[c.dest] # i => c.length = Payload
                      /\ \A j \in 1..Payload :
                           cur'[c.dest] # i \/ Base(i) + j <= sent[c.dest] =>
                             c.data[j] = Byte(c.dest, Base(i) + j)
    BY <1>a, <1>b DEF PlaceInv, Byte
  <2>1. CASE i = maxChunk + 1
    <3>1. \A j \in 1..Payload : ~ (Base(i) + j <= sent[f])
      BY <2>1, <1>x, <1>u, <1>p
    <3> QED BY <2>1, <3>1, <1>c, <1>f, <1>p
  <2>2. CASE i # maxChunk + 1
    <3>0. i \in 1..maxChunk
      BY <2>2, <1>t
    <3>1. /\ chunks[i].length <= Payload
          /\ cur[chunks[i].dest] # i => chunks[i].length = Payload
          /\ \A j \in 1..Payload :
               cur[chunks[i].dest] # i \/ Base(i) + j <= sent[chunks[i].dest] =>
                 chunks[i].data[j] = Byte(chunks[i].dest, Base(i) + j)
      BY <3>0, <1>w DEF IInv, PlaceInv
    <3>2. chunks[i].dest \in Files
      BY <1>s DEF IInv, ChunksType, ChunkSet
    <3>3. CASE i = i0
      <4>1. \A j \in 1..Payload : Base(i0) + j <= sent[f]
        BY <1>u, <1>p
      <4> QED BY <3>1, <3>3, <4>1, <1>h
    <3>4. CASE i # i0 /\ chunks[i].dest = f
      BY <3>1, <3>4 DEF i0
    <3>5. CASE i # i0 /\ chunks[i].dest # f
      BY <3>1, <3>2, <3>5, <1>f
    <3> QED BY <3>3, <3>4, <3>5
  <2> QED BY <2>1, <2>2
<1>6. SentInv'
  <2> SUFFICES ASSUME NEW g \in Files
               PROVE  /\ sent[g] <= MaxBytes
                      /\ sent[g] = Uncounted(g)' + chunks[cur'[g]].length + Base(cur'[g])
    <3>1. \A g \in Files : cur'[g] \in 1..maxChunk + 1
      BY <1>f, <1>t
    <3> QED BY <3>1, <1>a, <1>b DEF SentInv
  <2>1. Uncounted(g)' = Uncounted(g)
    BY <1>a, FilesAssumption DEF Uncounted, IInv, CallType
  <2>2. CASE g = f
    <3>1. sent[f] = 0 + 0 + Base(maxChunk + 1)
      BY <1>x, <1>u, <1>p
    <3> QED BY <2>1, <2>2, <3>1, <1>c, <1>f, <1>u DEF IInv, SentInv
  <2>3. CASE g # f
    BY <2>1, <2>3, <1>f, <1>w DEF IInv, SentInv
  <2> QED BY <2>2, <2>3
<1> QED BY <1>1, <1>2, <1>3, <1>4, <1>5, <1>6 DEF IInv

-----------------------------------------------------------------------------

(* Every step of the two threads keeps the invariant. *)
LEMMA StepKeeps ==
  ASSUME IInv, [\E t \in Threads : Step(t)]_bufferVars
  PROVE  IInv'
<1>1. ASSUME NEW t \in Threads, Step(t) PROVE IInv'
  <2>1. CASE \E f \in Files, n \in Calls : Call(t, f, n)
    BY <2>1, CallKeeps
  <2>2. CASE Fit(t)
    BY <2>2, FitKeeps
  <2>3. CASE ReadEnds(t)
    BY <2>3, ReadEndsKeeps
  <2>4. CASE Copy(t)
    BY <2>4, CopyKeeps
  <2>5. CASE Count(t)
    BY <2>5, CountKeeps
  <2>6. CASE Room(t)
    BY <2>6, RoomKeeps
  <2>7. CASE Full(t)
    BY <2>7, FullKeeps
  <2>8. CASE AllocLock(t)
    BY <2>8, AllocLockKeeps
  <2>9. CASE AllocLast(t)
    BY <2>9, AllocLastKeeps
  <2>10. CASE AllocStore(t)
    BY <2>10, AllocStoreKeeps
  <2>11. CASE AllocBump(t)
    BY <2>11, AllocBumpKeeps
  <2> QED BY <1>1, <2>1, <2>2, <2>3, <2>4, <2>5, <2>6, <2>7, <2>8, <2>9, <2>10, <2>11 DEF Step
<1>2. CASE UNCHANGED bufferVars
  <2>1. UNCHANGED <<chunks, maxChunk, cur, guard, pc, file, reading, len, toWrite,
                    sent, wrapped, spilled>>
    BY <1>2 DEF bufferVars, chunkVars, callVars, historyVars
  <2>2. \A g \in Files : Uncounted(g)' = Uncounted(g)
    BY <2>1 DEF Uncounted
  <2>3. OwnInv' /\ PlaceInv' /\ SentInv'
    BY <2>1, <2>2, QuietKeeps
  <2>4. ChunksType' /\ CallType' /\ CallInv'
    BY <2>1 DEF IInv, ChunksType, Stored, CallType, CallInv, CurLength, Held
  <2> QED BY <2>3, <2>4 DEF IInv
<1> QED BY <1>1, <1>2

(* The invariant holds in every state of the two threads. *)
LEMMA InvHolds == BufferSpec => []IInv
<1>1. BufferInit => IInv
  BY InitOK
<1>2. IInv /\ [\E t \in Threads : Step(t)]_bufferVars => IInv'
  BY StepKeeps
<1> QED BY <1>1, <1>2, PTL DEF BufferSpec

(* The map and the calls in progress are well formed: an index is that of a *)
(* chunk of the map, a file's bytes stay within the bound.                  *)
THEOREM BufferTypeCorrect == BufferSpec => []BufferTypeOK
<1>1. IInv => BufferTypeOK
  <2> SUFFICES ASSUME IInv PROVE BufferTypeOK
    OBVIOUS
  <2>1. maxChunk \in Nat /\ MaxChunks \in Nat /\ MaxBytes \in Nat
    BY FirstChunks, SizesAssumption DEF IInv, ChunksType
  <2>2. Stored \in maxChunk..MaxChunks
    BY <2>1 DEF Stored, IInv, ChunksType, CallInv
  <2>3. chunks \in Seq(ChunkSet) /\ Len(chunks) = Stored
    <3>1. Stored \in Nat
      BY <2>1, <2>2
    <3> QED BY <3>1 DEF IInv, ChunksType
  <2>4. \A i \in 1..Len(chunks) : /\ chunks[i].dest \in Files
                                  /\ chunks[i].length \in Nat
                                  /\ DOMAIN chunks[i].data = 1..Payload
    BY <2>3 DEF IInv, ChunksType, ChunkSet
  <2>5. sent \in [Files -> 0..MaxBytes]
    <3>1. \A f \in Files : sent[f] \in 0..MaxBytes
      BY <2>1 DEF IInv, CallType, SentInv
    <3> QED BY <3>1 DEF IInv, CallType
  <2> QED BY <2>2, <2>3, <2>4, <2>5 DEF IInv, ChunksType, CallType, BufferTypeOK
<1> QED BY <1>1, InvHolds, PTL

(* The counted bytes of a held chunk are those of its file from its base on. *)
LEMMA HeldIntact ==
  ASSUME IInv, NEW i \in 1..maxChunk, Held(i)
  PROVE  /\ chunks[i].length <= Payload
         /\ \A j \in 1..chunks[i].length :
              chunks[i].data[j] = Byte(chunks[i].dest, Base(i) + j)
         /\ cur[chunks[i].dest] # i => chunks[i].length = Payload
<1>t. maxChunk \in Nat /\ Payload \in Nat
  BY FirstChunks, SizesAssumption DEF IInv, ChunksType
<1>1. /\ chunks[i].length <= Payload
      /\ cur[chunks[i].dest] # i => chunks[i].length = Payload
      /\ \A j \in 1..Payload :
           cur[chunks[i].dest] # i \/ Base(i) + j <= sent[chunks[i].dest] =>
             chunks[i].data[j] = Byte(chunks[i].dest, Base(i) + j)
  BY DEF IInv, PlaceInv
<1>2. i \in 1..Stored /\ chunks[i].dest \in Files /\ chunks[i].length \in Nat
  <2>1. i \in 1..Stored
    BY <1>t DEF Stored
  <2> QED BY <2>1 DEF IInv, ChunksType, ChunkSet
<1>3. ASSUME NEW j \in 1..chunks[i].length
      PROVE  chunks[i].data[j] = Byte(chunks[i].dest, Base(i) + j)
  <2> DEFINE g == chunks[i].dest
  <2>1. j \in 1..Payload
    BY <1>1, <1>2, <1>t
  <2>2. CASE cur[g] # i
    BY <1>1, <2>1, <2>2
  <2>3. CASE cur[g] = i
    <3>1. sent[g] = Uncounted(g) + chunks[i].length + Base(i)
      BY <1>2, <2>3 DEF IInv, SentInv
    <3>2. Base(i) \in Nat /\ Uncounted(g) \in Nat
      <4>1. Writer[g] \in Threads
        BY <1>2, FilesAssumption
      <4> QED BY <4>1, <1>t, BaseType DEF IInv, CallType, Uncounted
    <3>3. Base(i) + j <= sent[g]
      BY <3>1, <3>2, <1>2
    <3> QED BY <1>1, <2>1, <3>3
  <2> QED BY <2>2, <2>3
<1> QED BY <1>1, <1>3

(* The chunks of a file are its stream, cut at the payload: counted bytes   *)
(* are in place, and only the chunk a file is writing has room, whatever    *)
(* the sizes and in every interleaving of main and the listener.            *)
THEOREM ChunksStayIntact == BufferSpec => []ChunksIntact
<1>1. IInv => ChunksIntact
  BY HeldIntact DEF ChunksIntact, Intact, Held, Base
<1> QED BY <1>1, InvHolds, PTL

(* No byte is lost or counted twice before the map wraps around: the number *)
(* handed to a file is what its chunks hold, but for a copy not yet counted.*)
THEOREM NothingIsDropped == BufferSpec => []NothingDropped
<1>1. IInv => NothingDropped
  BY DEF IInv, SentInv, NothingDropped, Held, Base
<1> QED BY <1>1, InvHolds, PTL

(* Without locking a file, two threads never write past the end of a chunk  *)
(* before the map has wrapped around.                                       *)
THEOREM NoSpillBeforeWrap == BufferSpec => []SpilledOnlyIfWrapped
<1>1. IInv => SpilledOnlyIfWrapped
  BY DEF IInv, OwnInv, SpilledOnlyIfWrapped
<1> QED BY <1>1, InvHolds, PTL
=============================================================================
