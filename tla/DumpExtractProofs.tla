-------------------------- MODULE DumpExtractProofs --------------------------
(***************************************************************************)
(* The dump, for any number of files and chunks, any payload and any bound *)
(* on the retries.  What is proved of the output buffers holds with a      *)
(* dumper attached: none of its steps, nor the collector's end, touches    *)
(* them, and stopping the main thread only takes steps away.  On that rest *)
(* the theorems about the logs: they are prefixes of what the collector    *)
(* wrote, and hold all of it that there was when the dumper attached.      *)
(*                                                                         *)
(* The inductive invariant says what the chunks that the dumper has yet to *)
(* read will be when it comes to them, although the listener still writes  *)
(* to them and adds others: it only appends, and to the last of a file.    *)
(***************************************************************************)
EXTENDS DumpExtract, OutputBufferProofs, SequenceFacts

(* Each step of the collector under --dump is a step of the two threads of  *)
(* OutputBuffer, or leaves the buffers alone.                               *)
LEMMA BufferSteps == [Next]_vars => [\E t \in Threads : Step(t)]_bufferVars
<1> SUFFICES ASSUME [Next]_vars
             PROVE  (\E t \in Threads : Step(t)) \/ UNCHANGED bufferVars
  OBVIOUS
<1>1. CASE Collector
  BY <1>1 DEF Collector
<1>2. CASE Terminate
  BY <1>2 DEF Terminate
<1>3. CASE Dumper
  BY <1>3 DEF Dumper, Attach, AttachFails, FindFails, FindPointers, FindMax,
              ReadHeader, ReadData, Kill, Detach, Wait
<1>4. CASE UNCHANGED vars
  BY <1>4 DEF vars
<1> QED BY <1>1, <1>2, <1>3, <1>4 DEF Next

(* The collector under --dump is the two threads of OutputBuffer. *)
THEOREM ImplementsBuffer == Spec => BufferSpec
<1>1. Init => BufferInit
  BY DEF Init
<1> QED BY <1>1, BufferSteps, PTL DEF Spec, BufferSpec

(* The chunks the dumper reads are intact at every moment it may read them. *)
THEOREM ChunksIntactUnderDump == Spec => [](ChunksIntact /\ NothingDropped /\ SpilledOnlyIfWrapped)
<1>1. BufferSpec => []ChunksIntact
  BY ChunksStayIntact
<1>2. BufferSpec => []NothingDropped
  BY NothingIsDropped
<1>3. BufferSpec => []SpilledOnlyIfWrapped
  BY NoSpillBeforeWrap
<1> QED BY <1>1, <1>2, <1>3, ImplementsBuffer, PTL
-----------------------------------------------------------------------------

(* The first chunks belong to the files they were made for, for good. *)
FirstInv == \A f \in Files : \E i \in 1..Len(FileOrder) : chunks[i].dest = f

(* What a dumper holds: the header and the data of a chunk, not always read *)
(* at the same time nor from the same chunk.                                *)
HeldSet == [dest : Files, length : 0..Payload, data : [1..Payload -> ByteSet]]

DumperType ==
  /\ alive \in BOOLEAN /\ stopped \in BOOLEAN /\ sigterm \in BOOLEAN /\ torn \in BOOLEAN
  /\ dpc \in {"attach", "pointers", "max", "dump", "data", "detach", "wait", "done", "failed"}
  /\ tries \in 0..MaxTries /\ waits \in 0..MaxWaits
  /\ dpc = "attach" => tries < MaxTries
  /\ held \in HeldSet /\ atAttach \in [Files -> Nat]
  /\ output \in [Files -> Seq(Files \X Nat)]

(* Until it is told to terminate the collector lives, and while the dumper  *)
(* reads its main thread is stopped.                                        *)
StopInv ==
  /\ dpc \in {"attach", "pointers", "max", "dump", "data", "failed"} => alive /\ ~ sigterm
  /\ dpc \in {"pointers", "max", "dump", "data"} => stopped
  /\ dpc = "detach" => stopped \/ ~ alive

(* The dumper's copy of the map is of chunks that are there. *)
MapInv ==
  /\ pointers \in 0..MaxChunks /\ copiedMax \in 0..MaxChunks /\ next \in 1..MaxChunks
  /\ dpc \in {"max", "dump", "data"} => pointers <= Stored
  /\ dpc \in {"dump", "data"} => /\ copiedMax \in Len(FileOrder)..maxChunk
                                 /\ ~ torn => copiedMax <= pointers
  /\ dpc = "dump" => next <= Kept(copiedMax) + 1
  /\ dpc = "data" => next <= Kept(copiedMax)

(* From chunk n on the dumper will read none of this file. *)
Over(f, n) == \A i \in n..Kept(copiedMax) : chunks[i].dest # f

(* A header is that of the chunk whose data is read next, or of one before  *)
(* whose data is held.  It may be out of date by then, but a chunk that had *)
(* room was the last of its file that the dumper will read.                 *)
HeldInv ==
  IF dpc = "data" /\ next <= pointers
    THEN /\ held.dest = chunks[next].dest /\ held.length <= chunks[next].length
         /\ \/ held.length = Payload
            \/ Over(held.dest, next + 1)
    ELSE \A j \in 1..held.length : held.data[j] \in Files \X Nat

(* The chunks of a file that the dumper has been through. *)
Done(f) == {i \in 1..next - 1 : chunks[i].dest = f}

(* A log holds the first bytes of its file, and as long as a chunk of the   *)
(* file is left to read, exactly those of the chunks read.                  *)
OutInv ==
  /\ dpc \in {"attach", "pointers", "max", "failed"} => \A f \in Files : output[f] = <<>>
  /\ ~ torn => \A f \in Files : \A k \in 1..Len(output[f]) : output[f][k] = Byte(f, k)
  /\ ~ torn /\ dpc \in {"dump", "data"} =>
       \A i \in next..Kept(copiedMax) :
         Len(output[chunks[i].dest]) = Payload * Cardinality(Done(chunks[i].dest))

(* As many bytes of a file as there were when the dumper attached, or more  *)
(* if the listener writes it.                                               *)
Covers(f, n) == n >= atAttach[f] /\ (Writer[f] = "main" => n = atAttach[f])

(* What was counted when the dumper attached is in the chunks it will read, *)
(* and in the log once the last chunk of the file has been read.            *)
SnapInv ==
  /\ dpc \in {"pointers", "max"} => \A f \in Files : Covers(f, Counted(f, Kept(maxChunk)))
  /\ dpc \in {"dump", "data"} => \A f \in Files : Covers(f, Counted(f, Kept(copiedMax)))
  /\ ~ torn /\ dpc \in {"dump", "data"} =>
       \A f \in Files : Over(f, next) => Covers(f, Len(output[f]))
  /\ ~ torn /\ dpc = "data" /\ Over(held.dest, next + 1) =>
       Covers(held.dest, Base(next) + held.length)
  /\ ~ torn /\ dpc = "detach" => \A f \in Files : Covers(f, Len(output[f]))

DumpInv == FirstInv /\ DumperType /\ StopInv /\ MapInv /\ HeldInv /\ OutInv /\ SnapInv

-----------------------------------------------------------------------------

(* The sizes: there are more chunks than files, and at least one file. *)
LEMMA Sizes ==
  ASSUME IInv
  PROVE  /\ MaxChunks \in Nat /\ Payload \in Nat /\ Payload # 0
         /\ Len(FileOrder) \in Nat /\ 1 <= Len(FileOrder) /\ Len(FileOrder) < MaxChunks
         /\ maxChunk \in Len(FileOrder)..MaxChunks
         /\ Stored \in maxChunk..MaxChunks
<1>1. /\ MaxChunks \in Nat /\ Payload \in Nat /\ Payload # 0
      /\ Len(FileOrder) \in Nat /\ Len(FileOrder) < MaxChunks
  BY SizesAssumption, FirstChunks
<1>2. 1 <= Len(FileOrder)
  BY FilesAssumption, <1>1, EmptySeq
<1>3. maxChunk \in Len(FileOrder)..MaxChunks
  BY DEF IInv, ChunksType
<1>4. Stored \in maxChunk..MaxChunks
  BY <1>1, <1>3 DEF Stored, IInv, CallInv
<1> QED BY <1>1, <1>2, <1>3, <1>4

(* All the first chunks are kept, and never the last of the map. *)
LEMMA KeptSome ==
  ASSUME IInv, NEW n \in Len(FileOrder)..MaxChunks
  PROVE  /\ Kept(n) \in Len(FileOrder)..n
         /\ Kept(n) \in Nat /\ 1 <= Kept(n) /\ Kept(n) < MaxChunks /\ n <= Kept(n) + 1
<1>1. /\ MaxChunks \in Nat /\ Len(FileOrder) \in Nat
      /\ 1 <= Len(FileOrder) /\ Len(FileOrder) < MaxChunks
  BY Sizes
<1> QED BY <1>1 DEF Kept

(* What a chunk of the map is. *)
LEMMA ChunkThere ==
  ASSUME IInv, NEW i \in 1..maxChunk
  PROVE  /\ chunks[i] \in ChunkSet /\ chunks[i].dest \in Files /\ chunks[i].length \in Nat
         /\ i < MaxChunks => /\ chunks[i].length <= Payload
                             /\ cur[chunks[i].dest] # i => chunks[i].length = Payload
<1>1. i \in 1..Stored
  BY Sizes
<1>2. chunks[i] \in ChunkSet
  BY <1>1 DEF IInv, ChunksType
<1>3. i < MaxChunks => Held(i)
  BY DEF Held
<1> QED BY <1>2, <1>3 DEF ChunkSet, IInv, PlaceInv

(* One step of a thread: chunks come and grow, and only those of its files. *)
LEMMA ChunksGrow ==
  ASSUME IInv, NEW t \in Threads, Step(t)
  PROVE  /\ maxChunk' \in {maxChunk, maxChunk + 1}
         /\ maxChunk' # maxChunk => Writer[chunks'[maxChunk + 1].dest] = t
         /\ DOMAIN chunks \subseteq DOMAIN chunks'
         /\ \A i \in 1..maxChunk :
              /\ chunks'[i].dest = chunks[i].dest
              /\ i < MaxChunks => \/ chunks'[i].length = chunks[i].length
                                  \/ /\ chunks'[i].length \in Nat
                                     /\ chunks'[i].length > chunks[i].length
                                     /\ Writer[chunks[i].dest] = t
<1>t. /\ file[t] \in Files /\ cur[file[t]] \in 1..maxChunk /\ cur[file[t]] \in 1..Stored
      /\ maxChunk \in Nat /\ toWrite[t] \in Nat /\ CurLength(t) \in Nat
  BY ThreadType
<1>c. /\ chunks \in [1..Stored -> ChunkSet] /\ Stored \in Nat /\ maxChunk <= Stored
      /\ \A i \in 1..maxChunk : chunks[i] \in ChunkSet /\ chunks[i].length \in Nat
  <2>1. Stored \in maxChunk..MaxChunks /\ MaxChunks \in Nat
    BY Sizes
  <2>2. \A i \in 1..maxChunk : chunks[i] \in ChunkSet /\ chunks[i].length \in Nat
    BY ChunkThere
  <2> QED BY <2>1, <2>2, <1>t DEF IInv, ChunksType
<1>1. CASE \/ \E f \in Files, n \in Calls : Call(t, f, n)
           \/ Fit(t) \/ ReadEnds(t) \/ Room(t) \/ Full(t) \/ AllocLock(t)
  BY <1>1 DEF Call, Fit, ReadEnds, Room, Full, AllocLock, chunkVars
<1>2. CASE Copy(t)
  <2> DEFINE i0 == cur[file[t]]
             chunk == Copied(chunks[i0], file[t], sent[file[t]], toWrite[t])
  <2>1. chunks' = [chunks EXCEPT ![i0] = chunk] /\ maxChunk' = maxChunk
    BY <1>2 DEF Copy
  <2>2. chunk.dest = chunks[i0].dest /\ chunk.length = chunks[i0].length
    BY <1>c, <1>t DEF Copied, ChunkSet
  <2> HIDE DEF chunk, i0
  <2> QED BY <2>1, <2>2, <1>c
<1>3. CASE Count(t)
  <2> DEFINE i0 == cur[file[t]]
  <2>1. /\ chunks' = [chunks EXCEPT ![i0] = [chunks[i0] EXCEPT !.length = @ + toWrite[t]]]
        /\ maxChunk' = maxChunk /\ pc[t] = "count"
    BY <1>3 DEF Count
  <2>2. \A i \in 1..maxChunk : i # i0 => chunks'[i] = chunks[i]
    BY <2>1, <1>c
  <2>3. /\ chunks'[i0].dest = chunks[i0].dest
        /\ chunks'[i0].length = chunks[i0].length + toWrite[t]
    BY <2>1, <1>c, <1>t DEF ChunkSet
  <2>4. i0 < MaxChunks => Writer[chunks[i0].dest] = t
    <3>1. Writer[file[t]] = t
      BY <2>1 DEF IInv, CallInv
    <3> QED BY <3>1, <1>t DEF IInv, OwnInv, Held
  <2>5. i0 < MaxChunks => \/ chunks'[i0].length = chunks[i0].length
                          \/ /\ chunks'[i0].length \in Nat
                             /\ chunks'[i0].length > chunks[i0].length
                             /\ Writer[chunks[i0].dest] = t
    <3>1. chunks[i0].length \in Nat /\ toWrite[t] \in Nat
      BY <1>c, <1>t
    <3> QED BY <3>1, <2>3, <2>4
  <2>6. DOMAIN chunks \subseteq DOMAIN chunks'
    BY <2>1
  <2> HIDE DEF i0
  <2> QED BY <2>1, <2>2, <2>3, <2>5, <2>6
<1>4. CASE AllocLast(t)
  <2>1. /\ chunks' = [chunks EXCEPT ![MaxChunks] = [chunks[MaxChunks] EXCEPT !.length = 0]]
        /\ maxChunk' = maxChunk /\ maxChunk = MaxChunks
    BY <1>4 DEF AllocLast
  <2>2. chunks'[MaxChunks].dest = chunks[MaxChunks].dest
    BY <2>1, <1>c, Sizes DEF ChunkSet
  <2>3. \A i \in 1..maxChunk : i # MaxChunks => chunks'[i] = chunks[i]
    BY <2>1, <1>c
  <2> QED BY <2>1, <2>2, <2>3
<1>5. CASE AllocStore(t)
  <2>1. Stored = maxChunk
    BY <1>5, AllocAlone DEF AllocStore
  <2>2. /\ chunks' = [i \in 1..maxChunk + 1 |->
                        IF i <= maxChunk THEN chunks[i] ELSE Chunk(file[t])]
        /\ maxChunk' = maxChunk
    BY <1>5 DEF AllocStore
  <2> QED BY <2>1, <2>2, <1>c
<1>6. CASE AllocBump(t)
  <2>1. maxChunk' = maxChunk + 1 /\ chunks' = chunks /\ pc[t] = "bump"
    BY <1>6 DEF AllocBump
  <2>2. chunks[maxChunk + 1] = Chunk(file[t]) /\ Writer[file[t]] = t
    BY <2>1 DEF IInv, CallInv
  <2> QED BY <2>1, <2>2 DEF Chunk
<1> QED BY <1>1, <1>2, <1>3, <1>4, <1>5, <1>6 DEF Step

-----------------------------------------------------------------------------

(* The last of the chunks numbered up to n that belongs to a file. *)
LastOf(f, n, l) ==
  /\ l \in 1..n /\ chunks[l].dest = f
  /\ \A i \in l + 1..n : chunks[i].dest # f

(* Every file has one among the chunks that are kept. *)
LEMMA LastExists ==
  ASSUME IInv, FirstInv, NEW f \in Files, NEW n \in Len(FileOrder)..maxChunk
  PROVE  \E l : LastOf(f, n, l)
<1>1. n \in Nat /\ Len(FileOrder) \in Nat
  BY Sizes
<1> DEFINE mine == {i \in 1..n : chunks[i].dest = f}
           back == {n - i : i \in mine}
<1>2. PICK i \in 1..Len(FileOrder) : chunks[i].dest = f
  BY DEF FirstInv
<1>3. i \in mine
  BY <1>1, <1>2
<1>4. back # {} /\ back \subseteq Nat
  BY <1>1, <1>3
<1>5. PICK m \in back : \A k \in back : m <= k
  BY <1>4, LeastNatural
<1>6. PICK l \in mine : m = n - l
  BY <1>5
<1>7. ASSUME NEW k \in l + 1..n, chunks[k].dest = f PROVE FALSE
  <2>1. k \in 1..n /\ l \in 1..n
    BY <1>1, <1>6, <1>7
  <2>2. k \in mine
    BY <2>1, <1>7
  <2>3. n - k \in back
    BY <2>2
  <2>4. n - l <= n - k
    BY <2>3, <1>5, <1>6
  <2> QED BY <2>1, <2>4, <1>1, <1>7
<1> QED BY <1>6, <1>7 DEF LastOf

(* What is counted of a file is all up to the end of its last chunk: the    *)
(* ones before it are full.                                                 *)
LEMMA CountedToLast ==
  ASSUME IInv, NEW f \in Files, NEW n \in 1..maxChunk, n < MaxChunks,
         NEW l, LastOf(f, n, l)
  PROVE  /\ Counted(f, n) = Base(l) + chunks[l].length
         /\ l \in 1..maxChunk /\ l < MaxChunks
         /\ Base(l) \in Nat /\ chunks[l].length \in Nat /\ Counted(f, n) \in Nat
<1> DEFINE mine == {i \in 1..n : chunks[i].dest = f}
           open == {i \in mine : chunks[i].length < Payload}
           before == Earlier(l)
<1>1. /\ l \in 1..n /\ chunks[l].dest = f /\ \A i \in l + 1..n : chunks[i].dest # f
  BY DEF LastOf
<1>2. /\ maxChunk \in Nat /\ MaxChunks \in Nat /\ Payload \in Nat /\ Payload # 0
  BY Sizes
<1>3. l \in Nat /\ l \in 1..maxChunk /\ l < MaxChunks
  BY <1>1, <1>2
<1>4. /\ Base(l) \in Nat /\ IsFiniteSet(before) /\ Cardinality(before) \in Nat
      /\ Base(l) = Payload * Cardinality(before)
  BY <1>3, BaseType DEF Base
<1>5. chunks[l].length \in Nat /\ chunks[l].length <= Payload
  BY <1>3, ChunkThere
<1>6. mine = before \cup {l} /\ l \notin before
  BY <1>1, <1>2, <1>3 DEF Earlier
<1>7. \A i \in before : chunks[i].length = Payload
  <2> SUFFICES ASSUME NEW i \in before PROVE chunks[i].length = Payload
    OBVIOUS
  <2>1. i \in 1..maxChunk /\ i < MaxChunks /\ chunks[i].dest = f /\ i < l
    BY <1>1, <1>2, <1>3 DEF Earlier
  <2>2. l <= cur[f]
    BY <1>1, <1>3 DEF IInv, OwnInv
  <2>3. cur[f] \in 1..maxChunk
    BY DEF IInv, ChunksType
  <2>4. cur[f] # i
    BY <2>1, <2>2, <2>3, <1>2, <1>3
  <2> QED BY <2>1, <2>4, ChunkThere
<1>8. Counted(f, n) = Payload * Cardinality(mine \ open)
        + (IF open = {} THEN 0 ELSE chunks[CHOOSE i \in open : TRUE].length)
  BY DEF Counted
<1> HIDE DEF mine, before
<1>9. CASE chunks[l].length < Payload
  <2>1. open = {l}
    BY <1>2, <1>5, <1>6, <1>7, <1>9
  <2>2. (CHOOSE i \in open : TRUE) = l /\ open # {}
    BY <2>1
  <2>3. mine \ open = before
    BY <2>1, <1>6
  <2> HIDE DEF open
  <2>4. Counted(f, n) = Payload * Cardinality(before) + chunks[l].length
    BY <2>2, <2>3, <1>8
  <2>5. Counted(f, n) = Base(l) + chunks[l].length
    BY <2>4, <1>4
  <2> QED BY <2>5, <1>3, <1>4, <1>5
<1>10. CASE ~ (chunks[l].length < Payload)
  <2>1. open = {}
    BY <1>2, <1>6, <1>7, <1>10
  <2>2. mine \ open = mine
    BY <2>1
  <2>3. Cardinality(mine) = Cardinality(before) + 1
    BY <1>4, <1>6, FS_AddElement
  <2>4. chunks[l].length = Payload
    BY <1>2, <1>5, <1>10
  <2>5. Payload * (Cardinality(before) + 1) = Payload * Cardinality(before) + Payload
    BY <1>2, <1>4
  <2> HIDE DEF open
  <2> QED BY <2>1, <2>2, <2>3, <2>4, <2>5, <1>2, <1>3, <1>4, <1>5, <1>8
<1> QED BY <1>9, <1>10

-----------------------------------------------------------------------------

(* What CountedToLast says, as a formula that can be primed. *)
CountsToLast ==
  \A f \in Files : \A n \in 1..maxChunk : \A l :
    IInv /\ n < MaxChunks /\ LastOf(f, n, l) =>
      /\ Counted(f, n) = Base(l) + chunks[l].length
      /\ chunks[l].length \in Nat /\ Counted(f, n) \in Nat

(* CountedToLast, which holds in every state, holds in the next one.        *)
LEMMA CountsToLastNext == CountsToLast'
<1>1. CountsToLast
  BY CountedToLast DEF CountsToLast
<1> QED BY <1>1, PTL

(* What is counted of a file grows, and only its writer makes it grow. *)
LEMMA CountedGrows ==
  ASSUME IInv, IInv', FirstInv, NEW t \in Threads, Step(t), NEW f \in Files,
         NEW n \in Len(FileOrder)..maxChunk, n < MaxChunks
  PROVE  /\ Counted(f, n) \in Nat /\ Counted(f, n)' \in Nat
         /\ Counted(f, n)' >= Counted(f, n)
         /\ Writer[f] # t => Counted(f, n)' = Counted(f, n)
<1>1. PICK l : LastOf(f, n, l)
  BY LastExists
<1>2. n \in 1..maxChunk /\ maxChunk \in Nat /\ l \in 1..n
  BY <1>1, Sizes DEF LastOf
<1>3. n \in 1..maxChunk'
  BY <1>2, ChunksGrow
<1>4. \A i \in 1..n : chunks'[i].dest = chunks[i].dest
  BY <1>2, ChunksGrow
<1>5. LastOf(f, n, l)'
  BY <1>1, <1>2, <1>4 DEF LastOf
<1>6. /\ Counted(f, n) = Base(l) + chunks[l].length
      /\ l \in 1..maxChunk /\ l < MaxChunks
      /\ Base(l) \in Nat /\ chunks[l].length \in Nat /\ Counted(f, n) \in Nat
  BY <1>1, <1>2, CountedToLast
<1>7. /\ Counted(f, n)' = Base(l)' + chunks'[l].length
      /\ chunks'[l].length \in Nat /\ Counted(f, n)' \in Nat
  BY <1>3, <1>5, CountsToLastNext DEF CountsToLast
<1>8. Base(l)' = Base(l)
  BY <1>2, <1>4, BaseSame
<1>9. \/ chunks'[l].length = chunks[l].length
      \/ chunks'[l].length > chunks[l].length /\ Writer[f] = t
  BY <1>1, <1>6, ChunksGrow DEF LastOf
<1> QED BY <1>6, <1>7, <1>8, <1>9

(* A chunk that is new in the map is its file's last and follows on it. *)
LEMMA CountedMore ==
  ASSUME IInv, FirstInv, NEW f \in Files, maxChunk \in Len(FileOrder) + 1..MaxChunks - 1
  PROVE  /\ Counted(f, maxChunk) \in Nat
         /\ IF chunks[maxChunk].dest = f
              THEN Counted(f, maxChunk) >= Counted(f, maxChunk - 1)
              ELSE Counted(f, maxChunk) = Counted(f, maxChunk - 1)
<1> DEFINE n == maxChunk - 1
<1>1. /\ maxChunk \in Nat /\ n \in Nat /\ n \in Len(FileOrder)..maxChunk /\ n \in 1..maxChunk
      /\ n < MaxChunks /\ maxChunk \in 1..maxChunk /\ maxChunk < MaxChunks
      /\ maxChunk = n + 1 /\ n < maxChunk /\ Payload \in Nat
  BY Sizes
<1>2. PICK l : LastOf(f, n, l)
  BY <1>1, LastExists
<1>3. /\ Counted(f, n) = Base(l) + chunks[l].length
      /\ l \in 1..maxChunk /\ Base(l) \in Nat /\ chunks[l].length \in Nat
  BY <1>1, <1>2, CountedToLast
<1>4. l \in 1..n
  BY <1>2 DEF LastOf
<1> HIDE DEF n
<1>5. CASE chunks[maxChunk].dest # f
  <2>1. LastOf(f, maxChunk, l)
    BY <1>1, <1>2, <1>5 DEF LastOf
  <2>2. /\ Counted(f, maxChunk) = Base(l) + chunks[l].length
        /\ Counted(f, maxChunk) \in Nat
    BY <1>1, <2>1, CountedToLast
  <2> QED BY <2>2, <1>3, <1>5 DEF n
<1>6. CASE chunks[maxChunk].dest = f
  <2>1. LastOf(f, maxChunk, maxChunk)
    BY <1>1, <1>6 DEF LastOf
  <2>2. /\ Counted(f, maxChunk) = Base(maxChunk) + chunks[maxChunk].length
        /\ Base(maxChunk) \in Nat /\ chunks[maxChunk].length \in Nat
    BY <1>1, <2>1, CountedToLast
  <2>3. Base(maxChunk) = Base(l) + Payload
    <3>1. Earlier(maxChunk) = Earlier(l) \cup {l} /\ l \notin Earlier(l)
      BY <1>1, <1>2, <1>4, <1>6 DEF Earlier, LastOf
    <3>2. l \in Nat
      BY <1>1, <1>4
    <3>3. IsFiniteSet(Earlier(l)) /\ Cardinality(Earlier(l)) \in Nat
      BY <3>2, BaseType
    <3>4. Cardinality(Earlier(maxChunk)) = Cardinality(Earlier(l)) + 1
      BY <3>1, <3>3, FS_AddElement
    <3> QED BY <3>3, <3>4, <1>1 DEF Base
  <2>4. l < MaxChunks /\ MaxChunks \in Nat
    BY <1>1, <1>4, Sizes
  <2>5. chunks[l].length <= Payload
    BY <1>3, <2>4, ChunkThere
  <2>6. Counted(f, maxChunk) >= Counted(f, n)
    <3> DEFINE b == Base(l)
               last == chunks[l].length
               more == chunks[maxChunk].length
    <3>1. b \in Nat /\ last \in Nat /\ more \in Nat /\ last <= Payload /\ Payload \in Nat
      BY <1>1, <1>3, <2>2, <2>5
    <3>2. Counted(f, n) = b + last /\ Counted(f, maxChunk) = (b + Payload) + more
      BY <1>3, <2>2, <2>3, Zenon
    <3> HIDE DEF b, last, more
    <3>3. (b + Payload) + more >= b + last
      BY <3>1
    <3> QED BY <3>2, <3>3
  <2>7. Counted(f, maxChunk) \in Nat
    BY <1>1, <2>1, CountedToLast
  <2> QED BY <2>6, <2>7, <1>6 DEF n
<1> QED BY <1>5, <1>6

-----------------------------------------------------------------------------

(* What CountedMore says, as a formula that can be primed. *)
MoreCounted ==
  \A f \in Files :
    IInv /\ FirstInv /\ maxChunk \in Len(FileOrder) + 1..MaxChunks - 1 =>
      /\ Counted(f, maxChunk) \in Nat
      /\ IF chunks[maxChunk].dest = f
           THEN Counted(f, maxChunk) >= Counted(f, maxChunk - 1)
           ELSE Counted(f, maxChunk) = Counted(f, maxChunk - 1)

(* CountedMore, which holds in every state, holds in the next one. *)
LEMMA MoreCountedNext == MoreCounted'
<1>1. MoreCounted
  BY CountedMore DEF MoreCounted
<1> QED BY <1>1, PTL

(* While the dumper reads, what it will read is in the map. *)
LEMMA ReadingMap ==
  ASSUME IInv, MapInv, dpc \in {"dump", "data"}
  PROVE  /\ Kept(copiedMax) \in Len(FileOrder)..maxChunk
         /\ Kept(copiedMax) \in Nat /\ Kept(copiedMax) < MaxChunks /\ maxChunk \in Nat
         /\ next \in Nat /\ next <= Kept(copiedMax) + 1
         /\ dpc = "data" => next \in 1..maxChunk /\ next \in 1..Kept(copiedMax) /\ next < MaxChunks
<1>1. /\ MaxChunks \in Nat /\ Len(FileOrder) \in Nat /\ 1 <= Len(FileOrder)
      /\ maxChunk \in Len(FileOrder)..MaxChunks
  BY Sizes
<1>2. copiedMax \in Len(FileOrder)..maxChunk /\ next \in 1..MaxChunks
  BY DEF MapInv
<1>3. /\ Kept(copiedMax) \in Len(FileOrder)..copiedMax
      /\ Kept(copiedMax) \in Nat /\ Kept(copiedMax) < MaxChunks
  <2>1. copiedMax \in Len(FileOrder)..MaxChunks
    BY <1>1, <1>2
  <2> QED BY <2>1, KeptSome
<1>4. /\ dpc = "dump" => next <= Kept(copiedMax) + 1
      /\ dpc = "data" => next <= Kept(copiedMax)
  BY DEF MapInv
<1> QED BY <1>1, <1>2, <1>3, <1>4

(* The collector goes on with its main thread stopped: what the dumper has  *)
(* read stays true of chunks that only grow, and of the main thread's files *)
(* nothing changes.                                                         *)
LEMMA CollectorKeeps ==
  ASSUME IInv, DumpInv, Collector
  PROVE  DumpInv'
<1>1. PICK t \in Threads : (t = "main" => ~ stopped) /\ Step(t)
  BY DEF Collector
<1>2. UNCHANGED <<stopped, collectorVars, dumperVars>>
  BY DEF Collector
<1>3. IInv'
  BY <1>1, StepKeeps
<1>4. /\ maxChunk \in Nat /\ MaxChunks \in Nat /\ Len(FileOrder) \in Nat
      /\ 1 <= Len(FileOrder) /\ maxChunk \in Len(FileOrder)..MaxChunks
      /\ Stored \in Nat
  BY Sizes
<1>5. /\ maxChunk' \in {maxChunk, maxChunk + 1}
      /\ maxChunk' # maxChunk => Writer[chunks'[maxChunk + 1].dest] = t
      /\ DOMAIN chunks \subseteq DOMAIN chunks'
      /\ \A i \in 1..maxChunk :
           /\ chunks'[i].dest = chunks[i].dest
           /\ i < MaxChunks => \/ chunks'[i].length = chunks[i].length
                               \/ /\ chunks'[i].length \in Nat
                                  /\ chunks'[i].length > chunks[i].length
                                  /\ Writer[chunks[i].dest] = t
  BY <1>1, ChunksGrow
<1>6. /\ dpc' = dpc /\ next' = next /\ copiedMax' = copiedMax /\ pointers' = pointers
      /\ held' = held /\ output' = output /\ torn' = torn /\ atAttach' = atAttach
      /\ stopped' = stopped /\ alive' = alive /\ sigterm' = sigterm
      /\ tries' = tries /\ waits' = waits
  BY <1>2 DEF collectorVars, dumperVars
<1>7. FirstInv'
  BY <1>4, <1>5 DEF FirstInv, DumpInv
<1>8. DumperType' /\ StopInv'
  BY <1>6 DEF DumpInv, DumperType, StopInv, HeldSet
<1>9. Stored <= Stored'
  <2>1. DOMAIN chunks = 1..Stored /\ DOMAIN chunks' = 1..Stored'
    BY <1>3 DEF IInv, ChunksType
  <2>2. Stored \in 1..Stored
    BY <1>4, Sizes
  <2> QED BY <2>1, <2>2, <1>5
<1>10. MapInv'
  <2>1. MapInv
    BY DEF DumpInv
  <2>2. maxChunk <= maxChunk' /\ maxChunk' \in Nat
    BY <1>4, <1>5
  <2>3. Stored' \in Nat
    <3>1. Stored' = maxChunk' \/ Stored' = maxChunk' + 1
      BY DEF Stored
    <3> QED BY <2>2, <3>1
  <2>4. copiedMax \in Len(FileOrder)..maxChunk => copiedMax \in Len(FileOrder)..maxChunk'
    BY <2>2, <1>4
  <2>5. pointers \in Nat
    BY <2>1, <1>4 DEF MapInv
  <2>6. pointers <= Stored => pointers <= Stored'
    BY <1>4, <1>9, <2>3, <2>5
  <2> QED BY <1>6, <2>1, <2>4, <2>6 DEF MapInv, Kept
<1>11. HeldInv'
  <2>1. CASE dpc = "data" /\ next <= pointers
    <3>1. /\ Kept(copiedMax) \in Len(FileOrder)..maxChunk /\ Kept(copiedMax) \in Nat
          /\ next \in 1..maxChunk /\ next < MaxChunks /\ next \in Nat
      BY <2>1, ReadingMap DEF DumpInv
    <3>2. held.dest = chunks'[next].dest
      BY <2>1, <3>1, <1>5 DEF DumpInv, HeldInv
    <3>3. held.length <= chunks'[next].length
      <4>1. held.length <= chunks[next].length
        BY <2>1 DEF DumpInv, HeldInv
      <4>2. held.length \in Nat
        BY Sizes DEF DumpInv, DumperType, HeldSet
      <4>3. chunks[next].length \in Nat
        BY <3>1, ChunkThere
      <4> QED BY <4>1, <4>2, <4>3, <3>1, <1>5
    <3>4. Over(held.dest, next + 1) => Over(held.dest, next + 1)'
      BY <3>1, <1>4, <1>5, <1>6 DEF Over, Kept
    <3> QED BY <2>1, <3>2, <3>3, <3>4, <1>6 DEF DumpInv, HeldInv
  <2>2. CASE ~ (dpc = "data" /\ next <= pointers)
    BY <2>2, <1>6 DEF DumpInv, HeldInv
  <2> QED BY <2>1, <2>2
<1>12. OutInv'
  <2>1. ASSUME dpc \in {"dump", "data"}
        PROVE  /\ \A i \in next..Kept(copiedMax) : chunks'[i].dest = chunks[i].dest
               /\ \A f : Done(f)' = Done(f)
    <3>1. /\ Kept(copiedMax) \in Len(FileOrder)..maxChunk /\ Kept(copiedMax) \in Nat
          /\ next \in Nat /\ next <= Kept(copiedMax) + 1
      BY <2>1, ReadingMap DEF DumpInv
    <3>2. next \in 1..MaxChunks
      BY DEF DumpInv, MapInv
    <3>3. \A i \in next..Kept(copiedMax) : i \in 1..maxChunk
      BY <3>1, <3>2, <1>4
    <3>4. \A i \in 1..next - 1 : i \in 1..maxChunk
      BY <3>1, <3>2, <1>4
    <3>5. \A f : Done(f)' = Done(f)
      BY <3>4, <1>5, <1>6 DEF Done
    <3> QED BY <3>3, <3>5, <1>5
  <2>2. Kept(copiedMax)' = Kept(copiedMax)
    BY <1>6 DEF Kept
  <2> QED BY <2>1, <2>2, <1>6 DEF DumpInv, OutInv
<1>13. SnapInv'
  <2>1. ASSUME dpc \in {"pointers", "max", "dump", "data"}
        PROVE  t # "main"
    BY <1>1, <2>1 DEF DumpInv, StopInv
  <2>2. ASSUME NEW f \in Files, NEW n \in Nat, NEW m \in Nat, Covers(f, n), m >= n,
               Writer[f] # t => m = n, t # "main"
        PROVE  Covers(f, m)'
    <3>1. atAttach[f] \in Nat
      BY DEF DumpInv, DumperType
    <3> QED BY <2>2, <3>1, <1>6 DEF Covers
  <2>3. CASE dpc \in {"dump", "data"}
    <3> DEFINE n == Kept(copiedMax)
    <3>1. /\ n \in Len(FileOrder)..maxChunk /\ n \in Nat /\ n < MaxChunks
          /\ next \in Nat /\ next <= n + 1
          /\ dpc = "data" => next \in 1..maxChunk /\ next \in 1..n
      BY <2>3, ReadingMap DEF DumpInv
    <3>2. n' = n
      BY <1>6 DEF Kept
    <3>n. next \in 1..MaxChunks
      BY DEF DumpInv, MapInv
    <3> HIDE DEF n
    <3>3. ASSUME NEW f \in Files PROVE Covers(f, Counted(f, n))'
      <4>1. Covers(f, Counted(f, n))
        BY <2>3 DEF DumpInv, SnapInv, n
      <4>2. /\ Counted(f, n) \in Nat /\ Counted(f, n)' \in Nat
            /\ Counted(f, n)' >= Counted(f, n)
            /\ Writer[f] # t => Counted(f, n)' = Counted(f, n)
        BY <1>1, <1>3, <3>1, <3>2, CountedGrows DEF DumpInv
      <4> QED BY <4>1, <4>2, <2>1, <2>2, <2>3
    <3>4. ASSUME NEW f, NEW m \in {next, next + 1} PROVE Over(f, m)' <=> Over(f, m)
      <4>1. \A i \in m..n : i \in 1..maxChunk
        BY <3>1, <3>n, <1>4
      <4> QED BY <4>1, <3>2, <1>5, <1>6 DEF Over, n
    <3>5. ASSUME dpc = "data" PROVE Base(next)' = Base(next)
      <4>1. \A k \in 1..next : chunks'[k].dest = chunks[k].dest
        BY <3>1, <3>5, <1>4, <1>5
      <4>2. next' = next
        BY <1>6
      <4> QED BY <3>1, <4>1, <4>2, BaseSame
    <3>6. \A f \in Files : Covers(f, Counted(f, Kept(copiedMax)))'
      BY <3>3 DEF n
    <3>7. \A f \in Files : ~ torn /\ Over(f, next) => Covers(f, Len(output[f]))
      BY <2>3 DEF DumpInv, SnapInv
    <3>8. ~ torn /\ dpc = "data" /\ Over(held.dest, next + 1) =>
            Covers(held.dest, Base(next) + held.length)
      BY DEF DumpInv, SnapInv
    <3>9. ASSUME NEW f \in Files, ~ torn', Over(f, next)'
          PROVE  Covers(f, Len(output[f]))'
      <4>1. Covers(f, Len(output[f]))
        BY <3>4, <3>7, <3>9, <1>6
      <4> QED BY <4>1, <1>6 DEF Covers
    <3>10. ASSUME ~ torn', dpc' = "data", Over(held.dest, next + 1)'
           PROVE  Covers(held.dest, Base(next) + held.length)'
      <4>1. Over(held.dest, next + 1)
        BY <3>4, <3>10, <1>6
      <4>2. Covers(held.dest, Base(next) + held.length)
        BY <3>8, <3>10, <4>1, <1>6
      <4>3. Base(next)' = Base(next)
        BY <3>5, <3>10, <1>6
      <4> QED BY <4>2, <4>3, <1>6 DEF Covers
    <3> QED BY <2>3, <3>6, <3>9, <3>10, <1>6 DEF SnapInv
  <2>4. CASE dpc \in {"pointers", "max"}
    <3> SUFFICES ASSUME NEW f \in Files PROVE Covers(f, Counted(f, Kept(maxChunk)))'
      BY <2>4, <1>6 DEF SnapInv
    <3> DEFINE n == Kept(maxChunk)
    <3>1. Covers(f, Counted(f, n))
      BY <2>4 DEF DumpInv, SnapInv
    <3>2. n \in Len(FileOrder)..maxChunk /\ n < MaxChunks /\ n \in Nat
      BY <1>4, KeptSome
    <3>3. /\ n' = n \/ (n' = n + 1 /\ n = maxChunk /\ maxChunk' = maxChunk + 1
                          /\ maxChunk' <= MaxChunks - 1)
      BY <1>4, <1>5 DEF Kept
    <3> HIDE DEF n
    <3>4. PICK k : k = n
      OBVIOUS
    <3>5. /\ Counted(f, n) \in Nat /\ Counted(f, k)' \in Nat
          /\ Counted(f, k)' >= Counted(f, n)
          /\ Writer[f] # t => Counted(f, k)' = Counted(f, n)
      <4>1. k \in Len(FileOrder)..maxChunk /\ k < MaxChunks
        BY <3>2, <3>4
      <4>2. /\ Counted(f, k) \in Nat /\ Counted(f, k)' \in Nat
            /\ Counted(f, k)' >= Counted(f, k)
            /\ Writer[f] # t => Counted(f, k)' = Counted(f, k)
        BY <1>1, <1>3, <4>1, CountedGrows DEF DumpInv
      <4> QED BY <4>2, <3>4
    <3>6. t # "main"
      BY <2>1, <2>4
    <3>7. CASE n' = n
      <4>1. Covers(f, Counted(f, k))'
        BY <3>1, <3>2, <3>5, <3>6, <2>2
      <4> QED BY <4>1, <3>4, <3>7 DEF n
    <3>8. CASE n' # n
      <4>1. n' = k + 1 /\ k = maxChunk /\ maxChunk' = k + 1 /\ maxChunk' <= MaxChunks - 1
        BY <3>3, <3>4, <3>8
      <4>2. maxChunk' \in Len(FileOrder) + 1..MaxChunks - 1 /\ maxChunk' - 1 = k
        BY <4>1, <1>4
      <4>3. /\ Counted(f, k + 1)' \in Nat
            /\ IF chunks'[maxChunk'].dest = f
                 THEN Counted(f, k + 1)' >= Counted(f, k)'
                 ELSE Counted(f, k + 1)' = Counted(f, k)'
        BY <1>3, <1>7, <4>1, <4>2, MoreCountedNext DEF MoreCounted
      <4>4. chunks'[maxChunk'].dest = f => Writer[f] = t
        BY <4>1, <1>4, <1>5
      <4>5. Counted(f, n)' = Counted(f, k + 1)'
        BY <4>1
      <4>6. /\ Counted(f, k + 1)' >= Counted(f, n)
            /\ Writer[f] # t => Counted(f, k + 1)' = Counted(f, n)
        BY <4>3, <4>4, <3>5
      <4>7. Covers(f, Counted(f, k + 1))'
        BY <4>3, <4>6, <3>1, <3>5, <3>6, <2>2
      <4> QED BY <4>5, <4>7 DEF n
    <3> QED BY <3>7, <3>8
  <2>5. CASE dpc \notin {"pointers", "max", "dump", "data"}
    BY <2>5, <1>6 DEF DumpInv, SnapInv, Covers
  <2> QED BY <2>3, <2>4, <2>5
<1> QED BY <1>7, <1>8, <1>10, <1>11, <1>12, <1>13 DEF DumpInv

-----------------------------------------------------------------------------

(* Before anything is read the dumper holds an empty chunk and has written  *)
(* nothing.                                                                 *)
LEMMA DumpInit == Init => DumpInv
<1> SUFFICES ASSUME Init PROVE DumpInv
  OBVIOUS
<1>1. IInv
  BY InitOK DEF Init
<1>2. /\ MaxChunks \in Nat /\ Payload \in Nat /\ Payload # 0
      /\ Len(FileOrder) \in Nat /\ 1 <= Len(FileOrder) /\ Len(FileOrder) < MaxChunks
      /\ \A i \in 1..Len(FileOrder) : FileOrder[i] \in Files
      /\ \A f \in Files : \E i \in 1..Len(FileOrder) : FileOrder[i] = f
  BY <1>1, Sizes, FirstChunks
<1>3. /\ chunks = [i \in 1..Len(FileOrder) |-> Chunk(FileOrder[i])]
      /\ alive = TRUE /\ stopped = FALSE /\ sigterm = FALSE
      /\ dpc = "attach" /\ tries = 0
      /\ pointers = 0 /\ copiedMax = 0 /\ next = 1
      /\ held = Chunk(FileOrder[1])
      /\ output = [f \in Files |-> <<>>]
      /\ waits = 0 /\ atAttach = [f \in Files |-> 0] /\ torn = FALSE
  BY DEF Init, BufferInit
<1>4. FirstInv
  <2>1. \A i \in 1..Len(FileOrder) : chunks[i].dest = FileOrder[i]
    BY <1>3 DEF Chunk
  <2> QED BY <2>1, <1>2 DEF FirstInv
<1>5. held \in HeldSet /\ held.length = 0
  BY <1>2, <1>3 DEF HeldSet, Chunk, ByteSet
<1>6. DumperType
  <2>1. tries \in 0..MaxTries /\ waits \in 0..MaxWaits /\ tries < MaxTries
    BY <1>3, TriesAssumption
  <2>2. output \in [Files -> Seq(Files \X Nat)] /\ atAttach \in [Files -> Nat]
    BY <1>3
  <2> QED BY <1>3, <1>5, <2>1, <2>2 DEF DumperType
<1>7. StopInv /\ MapInv /\ HeldInv
  BY <1>2, <1>3, <1>5 DEF StopInv, MapInv, HeldInv
<1>8. OutInv /\ SnapInv
  BY <1>3 DEF OutInv, SnapInv
<1> QED BY <1>4, <1>6, <1>7, <1>8 DEF DumpInv

(* The collector's end, once it has been asked to. *)
LEMMA TerminateKeeps ==
  ASSUME IInv, DumpInv, Terminate
  PROVE  DumpInv'
<1>1. UNCHANGED <<bufferVars, sigterm, dumperVars>> /\ alive' = FALSE /\ stopped' = FALSE /\ sigterm
  BY DEF Terminate
<1>2. dpc \notin {"attach", "pointers", "max", "dump", "data", "failed"}
  BY <1>1 DEF DumpInv, StopInv
<1>3. FirstInv' /\ DumperType' /\ StopInv' /\ MapInv'
  BY <1>1, <1>2 DEF DumpInv, FirstInv, DumperType, StopInv, MapInv, bufferVars, chunkVars,
                    dumperVars
<1>4. HeldInv' /\ OutInv' /\ SnapInv'
  BY <1>1, <1>2 DEF DumpInv, HeldInv, OutInv, SnapInv, Covers, dumperVars
<1> QED BY <1>3, <1>4 DEF DumpInv

(* What was counted of each file when the dumper attaches. *)
LEMMA AttachKeeps ==
  ASSUME IInv, DumpInv, Attach
  PROVE  DumpInv'
<1>1. /\ dpc = "attach" /\ alive /\ stopped' = TRUE /\ tries' = tries + 1
      /\ atAttach' = [f \in Files |-> Counted(f, Kept(maxChunk))]
      /\ dpc' = "pointers"
      /\ UNCHANGED <<bufferVars, collectorVars, pointers, copiedMax, next, held, output,
                     waits, torn>>
  BY DEF Attach
<1>2. UNCHANGED <<chunks, maxChunk, pc, cur, alive, sigterm>>
  BY <1>1 DEF bufferVars, chunkVars, callVars, collectorVars
<1>3. \A f \in Files : Counted(f, Kept(maxChunk)) \in Nat
  <2> SUFFICES ASSUME NEW f \in Files PROVE Counted(f, Kept(maxChunk)) \in Nat
    OBVIOUS
  <2>1. maxChunk \in Len(FileOrder)..MaxChunks /\ maxChunk \in Nat
    BY Sizes
  <2>2. /\ Kept(maxChunk) \in Len(FileOrder)..maxChunk /\ Kept(maxChunk) < MaxChunks
        /\ Kept(maxChunk) \in Nat /\ 1 <= Kept(maxChunk)
    BY <2>1, KeptSome
  <2>3. PICK l : LastOf(f, Kept(maxChunk), l)
    BY <2>2, LastExists DEF DumpInv
  <2>4. Kept(maxChunk) \in 1..maxChunk
    BY <2>1, <2>2
  <2> QED BY <2>2, <2>3, <2>4, CountedToLast
<1>4. FirstInv' /\ StopInv' /\ MapInv' /\ HeldInv'
  BY <1>1, <1>2 DEF DumpInv, FirstInv, StopInv, MapInv, HeldInv
<1>5. DumperType'
  <2>1. tries \in Nat /\ MaxTries \in Nat /\ tries < MaxTries
    BY <1>1, TriesAssumption DEF DumpInv, DumperType
  <2>2. tries' \in 0..MaxTries
    BY <2>1, <1>1
  <2> QED BY <2>2, <1>1, <1>2, <1>3 DEF DumpInv, DumperType
<1>6. OutInv'
  BY <1>1 DEF DumpInv, OutInv
<1>7. SnapInv'
  <2> SUFFICES ASSUME NEW f \in Files PROVE Covers(f, Counted(f, Kept(maxChunk)))'
    BY <1>1 DEF SnapInv
  <2>1. Counted(f, Kept(maxChunk))' = Counted(f, Kept(maxChunk))
    BY <1>2 DEF Counted, Kept
  <2>2. atAttach'[f] = Counted(f, Kept(maxChunk))
    BY <1>1
  <2> QED BY <2>1, <2>2, <1>3 DEF Covers
<1> QED BY <1>4, <1>5, <1>6, <1>7 DEF DumpInv

(* Giving up, or letting go of the main thread to try again. *)
LEMMA FailureKeeps ==
  ASSUME IInv, DumpInv, AttachFails \/ FindFails
  PROVE  DumpInv'
<1>1. /\ dpc \in {"attach", "pointers"} /\ dpc' \in {"attach", "failed"}
      /\ stopped' \in {stopped, FALSE}
      /\ \/ tries' = tries /\ dpc = "pointers" /\ tries < MaxTries
         \/ tries' = 0 /\ dpc' = "failed"
      /\ UNCHANGED <<bufferVars, collectorVars, pointers, copiedMax, next, held, output,
                     waits, atAttach, torn>>
  BY DEF AttachFails, FindFails
<1>2. UNCHANGED <<chunks, maxChunk, pc, alive, sigterm>>
  BY <1>1 DEF bufferVars, chunkVars, callVars, collectorVars
<1>3. FirstInv' /\ StopInv' /\ MapInv' /\ HeldInv'
  BY <1>1, <1>2 DEF DumpInv, FirstInv, StopInv, MapInv, HeldInv, DumperType
<1>4. DumperType'
  <2>1. stopped' \in BOOLEAN
    BY <1>1 DEF DumpInv, DumperType
  <2>2. tries' \in 0..MaxTries /\ (dpc' = "attach" => tries' < MaxTries)
    <3>1. 0 \in 0..MaxTries
      BY TriesAssumption
    <3>2. tries \in 0..MaxTries
      BY DEF DumpInv, DumperType
    <3> QED BY <3>1, <3>2, <1>1
  <2> QED BY <2>1, <2>2, <1>1, <1>2 DEF DumpInv, DumperType
<1>5. OutInv' /\ SnapInv'
  BY <1>1 DEF DumpInv, OutInv, SnapInv
<1> QED BY <1>3, <1>4, <1>5 DEF DumpInv

-----------------------------------------------------------------------------

(* The copy of the pointers is no longer than the map, and the map only     *)
(* grows.                                                                   *)
LEMMA FindPointersKeeps ==
  ASSUME IInv, DumpInv, FindPointers
  PROVE  DumpInv'
<1>1. /\ dpc = "pointers" /\ pointers' = Len(chunks) /\ dpc' = "max"
      /\ UNCHANGED <<bufferVars, stopped, collectorVars, tries, copiedMax, next, held, output,
                     waits, atAttach, torn>>
  BY DEF FindPointers
<1>2. UNCHANGED <<chunks, maxChunk, pc, alive, sigterm>>
  BY <1>1 DEF bufferVars, chunkVars, callVars, collectorVars
<1>3. Len(chunks) = Stored /\ Stored \in 0..MaxChunks
  <2>1. Stored \in maxChunk..MaxChunks /\ maxChunk \in Nat /\ MaxChunks \in Nat
    BY Sizes
  <2> QED BY <2>1 DEF IInv, ChunksType
<1>4. FirstInv' /\ StopInv'
  BY <1>1, <1>2 DEF DumpInv, FirstInv, StopInv
<1>5. MapInv'
  <2>1. Stored' = Stored
    BY <1>2 DEF Stored
  <2> QED BY <2>1, <1>1, <1>3 DEF DumpInv, MapInv
<1>6. DumperType' /\ HeldInv' /\ OutInv'
  BY <1>1, <1>2 DEF DumpInv, DumperType, HeldInv, OutInv
<1>7. SnapInv'
  <2>1. \A f : Counted(f, Kept(maxChunk))' = Counted(f, Kept(maxChunk))
    BY <1>2 DEF Counted, Kept
  <2> QED BY <2>1, <1>1 DEF DumpInv, SnapInv, Covers
<1> QED BY <1>4, <1>5, <1>6, <1>7 DEF DumpInv

(* From here on the chunks to be read are fixed, and none is read yet. *)
LEMMA FindMaxKeeps ==
  ASSUME IInv, DumpInv, FindMax
  PROVE  DumpInv'
<1>1. /\ dpc = "max" /\ copiedMax' = maxChunk /\ torn' = (pointers < maxChunk)
      /\ next' = 1 /\ dpc' = "dump"
      /\ UNCHANGED <<bufferVars, stopped, collectorVars, tries, pointers, held, output,
                     waits, atAttach>>
  BY DEF FindMax
<1>2. UNCHANGED <<chunks, maxChunk, pc, alive, sigterm>>
  BY <1>1 DEF bufferVars, chunkVars, callVars, collectorVars
<1>3. /\ MaxChunks \in Nat /\ Len(FileOrder) \in Nat /\ 1 <= Len(FileOrder)
      /\ maxChunk \in Len(FileOrder)..MaxChunks /\ maxChunk \in Nat /\ Payload \in Nat
  BY Sizes
<1>4. /\ Kept(maxChunk) \in Len(FileOrder)..maxChunk /\ Kept(maxChunk) \in Nat
      /\ 1 <= Kept(maxChunk)
  BY <1>3, KeptSome
<1>5. Kept(copiedMax)' = Kept(maxChunk)
  BY <1>1 DEF Kept
<1>6. FirstInv' /\ StopInv' /\ DumperType'
  BY <1>1, <1>2 DEF DumpInv, FirstInv, StopInv, DumperType
<1>7. MapInv'
  <2>1. Stored' = Stored
    BY <1>2 DEF Stored
  <2>2. pointers \in Nat /\ pointers \in 0..MaxChunks /\ pointers <= Stored
    BY <1>1, <1>3 DEF DumpInv, MapInv
  <2>3. torn' \/ maxChunk <= pointers
    <3>1. torn' \/ ~ (pointers < maxChunk)
      BY <1>1, Zenon
    <3> QED BY <3>1, <1>3, <2>2
  <2> QED BY <2>1, <2>2, <2>3, <1>1, <1>2, <1>3, <1>4, <1>5 DEF MapInv
<1>8. HeldInv'
  BY <1>1 DEF DumpInv, HeldInv
<1>9. OutInv'
  <2>1. \A f \in Files : output'[f] = <<>>
    BY <1>1 DEF DumpInv, OutInv
  <2>2. \A f : Done(f)' = {}
    BY <1>1 DEF Done
  <2>3. \A i \in 1..Kept(maxChunk) : chunks'[i].dest \in Files
    <3>1. \A i \in 1..Kept(maxChunk) : i \in 1..maxChunk
      BY <1>3, <1>4
    <3> QED BY <3>1, <1>2, ChunkThere
  <2>4. Payload * Cardinality({}) = 0
    BY <1>3, FS_EmptySet
  <2>5. Len(<<>>) = 0
    OBVIOUS
  <2>6. ASSUME NEW i \in next'..Kept(copiedMax)'
        PROVE  Len(output'[chunks'[i].dest]) = Payload * Cardinality(Done(chunks[i].dest)')
    <3>1. i \in 1..Kept(maxChunk)
      BY <2>6, <1>1, <1>5
    <3>2. output'[chunks'[i].dest] = <<>>
      BY <3>1, <2>1, <2>3
    <3> QED BY <3>2, <2>2, <2>4, <2>5
  <2>7. \A i \in (next..Kept(copiedMax))' :
          Len(output'[chunks'[i].dest]) = Payload * Cardinality(Done(chunks[i].dest)')
    BY <2>6
  <2>8. \A f \in Files : \A k \in 1..Len(output'[f]) : output'[f][k] = Byte(f, k)
    BY <2>1, <2>5
  <2> QED BY <2>7, <2>8, <1>1, <1>2 DEF OutInv
<1>10. SnapInv'
  <2>1. \A f : Counted(f, Kept(copiedMax))' = Counted(f, Kept(maxChunk))
    BY <1>2, <1>5 DEF Counted
  <2>2. \A f \in Files : Covers(f, Counted(f, Kept(copiedMax)))'
    BY <2>1, <1>1 DEF DumpInv, SnapInv, Covers
  <2>3. \A f \in Files : ~ Over(f, next)'
    BY <1>1, <1>2, <1>3, <1>4, <1>5 DEF DumpInv, FirstInv, Over
  <2> QED BY <2>2, <2>3, <1>1 DEF SnapInv
<1> QED BY <1>6, <1>7, <1>8, <1>9, <1>10 DEF DumpInv

(* A header read now says what is counted in the chunk. *)
LEMMA ReadHeaderKeeps ==
  ASSUME IInv, DumpInv, ReadHeader
  PROVE  DumpInv'
<1>1. /\ dpc = "dump" /\ next <= Kept(copiedMax) /\ dpc' = "data"
      /\ held' = IF next <= pointers
                   THEN [held EXCEPT !.dest = chunks[next].dest, !.length = chunks[next].length]
                   ELSE held
      /\ UNCHANGED <<bufferVars, stopped, collectorVars, tries, pointers, copiedMax, next,
                     output, waits, atAttach, torn>>
  BY DEF ReadHeader
<1>2. UNCHANGED <<chunks, maxChunk, pc, alive, sigterm, cur>>
  BY <1>1 DEF bufferVars, chunkVars, callVars, collectorVars
<1>3. /\ Kept(copiedMax) \in Len(FileOrder)..maxChunk
      /\ Kept(copiedMax) \in Nat /\ Kept(copiedMax) < MaxChunks /\ maxChunk \in Nat
      /\ next \in Nat
  BY <1>1, ReadingMap DEF DumpInv
<1>4. /\ next \in 1..MaxChunks /\ MaxChunks \in Nat /\ Payload \in Nat
  BY Sizes DEF DumpInv, MapInv
<1>5. next \in 1..maxChunk /\ next < MaxChunks
  BY <1>1, <1>3, <1>4
<1>6. /\ chunks[next] \in ChunkSet /\ chunks[next].dest \in Files
      /\ chunks[next].length \in Nat /\ chunks[next].length <= Payload
      /\ cur[chunks[next].dest] # next => chunks[next].length = Payload
  BY <1>5, ChunkThere
<1>7. held \in HeldSet
  BY DEF DumpInv, DumperType
<1>8. next <= pointers => /\ held' \in HeldSet /\ held'.dest = chunks[next].dest
                          /\ held'.length = chunks[next].length
  <2> SUFFICES ASSUME next <= pointers
               PROVE  /\ held' \in HeldSet /\ held'.dest = chunks[next].dest
                      /\ held'.length = chunks[next].length
    OBVIOUS
  <2>1. held' = [held EXCEPT !.dest = chunks[next].dest, !.length = chunks[next].length]
    BY <1>1
  <2>2. chunks[next].length \in 0..Payload
    BY <1>4, <1>6
  <2> QED BY <2>1, <2>2, <1>6, <1>7 DEF HeldSet
<1>9. Kept(copiedMax)' = Kept(copiedMax)
  BY <1>1 DEF Kept
<1>10. FirstInv' /\ StopInv' /\ DumperType'
  BY <1>1, <1>2, <1>7, <1>8 DEF DumpInv, FirstInv, StopInv, DumperType
<1>11. MapInv'
  <2>1. Stored' = Stored
    BY <1>2 DEF Stored
  <2> QED BY <2>1, <1>1, <1>2, <1>9 DEF DumpInv, MapInv
<1>12. chunks[next].length # Payload => Over(chunks[next].dest, next + 1)
  <2> SUFFICES ASSUME chunks[next].length # Payload, NEW i \in next + 1..Kept(copiedMax)
               PROVE  chunks[i].dest # chunks[next].dest
    BY DEF Over
  <2>1. i \in 1..maxChunk /\ next < i
    BY <1>3, <1>4
  <2>2. cur[chunks[next].dest] = next
    BY <1>6
  <2>3. i <= cur[chunks[i].dest]
    BY <2>1 DEF IInv, OwnInv
  <2> QED BY <2>1, <2>2, <2>3, <1>4
<1>13. \A f, m : Over(f, m)' <=> Over(f, m)
  BY <1>2, <1>9 DEF Over
<1>14. HeldInv'
  <2>1. CASE next <= pointers
    <3>1. held'.length <= chunks[next].length
      BY <2>1, <1>6, <1>8
    <3>2. held'.length = Payload \/ Over(held'.dest, next + 1)
      BY <2>1, <1>8, <1>12
    <3> QED BY <3>1, <3>2, <2>1, <1>1, <1>2, <1>8, <1>13 DEF HeldInv, Over
  <2>2. CASE ~ (next <= pointers)
    BY <2>2, <1>1 DEF DumpInv, HeldInv
  <2> QED BY <2>1, <2>2
<1>15. OutInv'
  <2>1. \A f : Done(f)' = Done(f)
    BY <1>1, <1>2 DEF Done
  <2> QED BY <2>1, <1>1, <1>2, <1>9 DEF DumpInv, OutInv
<1>16. SnapInv'
  <2>1. \A f : Counted(f, Kept(copiedMax))' = Counted(f, Kept(copiedMax))
    BY <1>2, <1>9 DEF Counted
  <2>2. \A f, n : Covers(f, n)' <=> Covers(f, n)
    BY <1>1 DEF Covers
  <2>3. ASSUME ~ torn, Over(held'.dest, next + 1)
        PROVE  Covers(held'.dest, Base(next) + held'.length)
    <3>1. next <= pointers
      BY <2>3, <1>1, <1>3, <1>4 DEF DumpInv, MapInv, Kept
    <3>2. held'.dest = chunks[next].dest /\ held'.length = chunks[next].length
      BY <3>1, <1>8
    <3>3. LastOf(held'.dest, Kept(copiedMax), next)
      BY <2>3, <3>2, <1>1, <1>3, <1>4 DEF LastOf, Over
    <3>4. Kept(copiedMax) \in 1..maxChunk
      BY <1>3, <1>1, <1>4
    <3>5. Counted(held'.dest, Kept(copiedMax)) = Base(next) + chunks[next].length
      BY <3>2, <3>3, <3>4, <1>3, <1>6, CountedToLast
    <3> QED BY <3>2, <3>5, <1>1, <1>6 DEF DumpInv, SnapInv
  <2>4. Base(next)' = Base(next)
    BY <1>1, <1>2 DEF Base, Earlier
  <2>5. \A f \in Files : Covers(f, Counted(f, Kept(copiedMax)))'
    BY <2>1, <2>2, <1>1 DEF DumpInv, SnapInv
  <2>6. ASSUME NEW f \in Files, ~ torn', Over(f, next)' PROVE Covers(f, Len(output[f]))'
    BY <2>6, <2>2, <1>1, <1>13 DEF DumpInv, SnapInv
  <2>7. ASSUME ~ torn', Over(held.dest, next + 1)'
        PROVE  Covers(held.dest, Base(next) + held.length)'
    BY <2>7, <2>2, <2>3, <2>4, <1>1, <1>13 DEF Over
  <2> QED BY <2>5, <2>6, <2>7, <1>1 DEF SnapInv
<1> QED BY <1>10, <1>11, <1>14, <1>15, <1>16 DEF DumpInv

-----------------------------------------------------------------------------

(* The data read is appended where the log ends: at the chunk's place in    *)
(* the stream, even if more has been counted since the header was read.     *)
LEMMA ReadDataKeeps ==
  ASSUME IInv, DumpInv, ReadData
  PROVE  DumpInv'
<1> DEFINE data == IF next <= pointers THEN chunks[next].data ELSE held.data
           d == held.dest
           size == held.length
           part == SubSeq(data, 1, size)
<1>1. /\ dpc = "data" /\ dpc' = "dump" /\ next' = next + 1
      /\ held' = [held EXCEPT !.data = data]
      /\ output' = [output EXCEPT ![d] = @ \o part]
      /\ UNCHANGED <<bufferVars, stopped, collectorVars, tries, pointers, copiedMax, waits,
                     atAttach, torn>>
  BY DEF ReadData
<1>2. UNCHANGED <<chunks, maxChunk, pc, alive, sigterm, cur>>
  BY <1>1 DEF bufferVars, chunkVars, callVars, collectorVars
<1>3. /\ Kept(copiedMax) \in Len(FileOrder)..maxChunk
      /\ Kept(copiedMax) \in Nat /\ Kept(copiedMax) < MaxChunks /\ maxChunk \in Nat
      /\ next \in Nat /\ next \in 1..maxChunk /\ next \in 1..Kept(copiedMax)
      /\ next < MaxChunks /\ MaxChunks \in Nat /\ Payload \in Nat
  BY <1>1, ReadingMap, Sizes DEF DumpInv
<1>4. /\ chunks[next] \in ChunkSet /\ chunks[next].dest \in Files
      /\ chunks[next].length \in Nat /\ chunks[next].length <= Payload
  BY <1>3, ChunkThere
<1>5. /\ \A j \in 1..chunks[next].length :
           chunks[next].data[j] = Byte(chunks[next].dest, Base(next) + j)
      /\ Base(next) \in Nat
  <2>1. Held(next)
    BY <1>3 DEF Held
  <2> QED BY <2>1, <1>3, HeldIntact, BaseType
<1>6. held \in HeldSet /\ d \in Files /\ size \in 0..Payload /\ size \in Nat
  BY <1>3 DEF DumpInv, DumperType, HeldSet
<1>7. next <= pointers =>
        /\ d = chunks[next].dest /\ size <= chunks[next].length
        /\ size = Payload \/ Over(d, next + 1)
        /\ \A j \in 1..size : data[j] = Byte(d, Base(next) + j)
  <2> SUFFICES ASSUME next <= pointers
               PROVE  /\ d = chunks[next].dest /\ size <= chunks[next].length
                      /\ size = Payload \/ Over(d, next + 1)
                      /\ \A j \in 1..size : data[j] = Byte(d, Base(next) + j)
    OBVIOUS
  <2>1. /\ d = chunks[next].dest /\ size <= chunks[next].length
        /\ size = Payload \/ Over(d, next + 1)
    BY <1>1 DEF DumpInv, HeldInv
  <2>2. \A j \in 1..size : j \in 1..chunks[next].length
    BY <2>1, <1>4, <1>6
  <2> QED BY <2>1, <2>2, <1>5
<1>8. data \in [1..Payload -> ByteSet] /\ \A j \in 1..size : data[j] \in Files \X Nat
  <2>1. CASE next <= pointers
    <3>1. \A j \in 1..size : Base(next) + j \in Nat
      BY <1>5, <1>6
    <3>2. ASSUME NEW j \in 1..size PROVE data[j] \in Files \X Nat
      <4>1. data[j] = Byte(d, Base(next) + j)
        BY <2>1, <1>7
      <4>2. d \in Files /\ Base(next) + j \in Nat
        BY <3>1, <1>6
      <4> HIDE DEF d, data
      <4> QED BY <4>1, <4>2 DEF Byte
    <3> QED BY <2>1, <3>2, <1>4 DEF ChunkSet
  <2>2. CASE ~ (next <= pointers)
    BY <2>2, <1>1, <1>6 DEF DumpInv, HeldInv, HeldSet
  <2> QED BY <2>1, <2>2
<1> HIDE DEF data
<1>9. /\ part \in Seq(Files \X Nat) /\ Len(part) = size
      /\ \A j \in 1..size : part[j] = data[j]
  BY <1>6, <1>8, SubSeqProperties
<1>10. output \in [Files -> Seq(Files \X Nat)]
  BY DEF DumpInv, DumperType
<1> HIDE DEF part, size, d
<1>11. /\ output[d] \o part \in Seq(Files \X Nat)
       /\ Len(output[d] \o part) = Len(output[d]) + size
       /\ \A i \in 1..Len(output[d]) + size :
            (output[d] \o part)[i] =
              IF i <= Len(output[d]) THEN output[d][i] ELSE part[i - Len(output[d])]
  <2>1. output[d] \in Seq(Files \X Nat)
    BY <1>6, <1>10
  <2> QED BY <2>1, <1>9, ConcatProperties
<1>12. /\ output'[d] = output[d] \o part
       /\ \A f \in Files : f # d => output'[f] = output[f]
  BY <1>1, <1>6, <1>10
<1>13. Kept(copiedMax)' = Kept(copiedMax)
  BY <1>1 DEF Kept
<1>14. FirstInv' /\ StopInv'
  BY <1>1, <1>2 DEF DumpInv, FirstInv, StopInv
<1>15. DumperType'
  <2>1. held' \in HeldSet
    BY <1>1, <1>6, <1>8 DEF HeldSet
  <2>2. output' \in [Files -> Seq(Files \X Nat)]
    BY <1>1, <1>6, <1>10, <1>11
  <2> QED BY <2>1, <2>2, <1>1, <1>2 DEF DumpInv, DumperType
<1>16. MapInv'
  <2>1. Stored' = Stored
    BY <1>2 DEF Stored
  <2>2. next + 1 \in 1..MaxChunks /\ next + 1 <= Kept(copiedMax) + 1
    BY <1>3
  <2> QED BY <2>1, <2>2, <1>1, <1>2, <1>13 DEF DumpInv, MapInv
<1>17. HeldInv'
  <2>1. held'.length = size /\ held'.data = data
    BY <1>1, <1>6 DEF HeldSet, size
  <2> QED BY <2>1, <1>1, <1>8 DEF HeldInv
<1>18. ASSUME ~ torn PROVE next <= pointers
  <2>1. copiedMax <= pointers /\ copiedMax \in Nat /\ pointers \in Nat
    BY <1>1, <1>3, <1>18, Sizes DEF DumpInv, MapInv
  <2>2. Kept(copiedMax) <= copiedMax
    BY <2>1, <1>3 DEF Kept
  <2> QED BY <2>1, <2>2, <1>3
<1>19. Done(chunks[next].dest) = Earlier(next)
  BY DEF Done, Earlier
<1>20. ASSUME ~ torn PROVE Len(output[d]) = Base(next)
  <2>1. next \in next..Kept(copiedMax)
    BY <1>3
  <2>2. Len(output[chunks[next].dest]) = Payload * Cardinality(Done(chunks[next].dest))
    BY <2>1, <1>1, <1>20 DEF DumpInv, OutInv
  <2> QED BY <2>2, <1>7, <1>18, <1>19, <1>20 DEF Base
<1>21. OutInv'
  <2>1. ASSUME ~ torn, NEW f \in Files, NEW k \in 1..Len(output'[f])
        PROVE  output'[f][k] = Byte(f, k)
    <3>1. CASE f # d
      BY <2>1, <3>1, <1>12 DEF DumpInv, OutInv
    <3>2. CASE f = d
      <4>1. k \in Nat /\ k \in 1..Base(next) + size
        BY <2>1, <3>2, <1>5, <1>6, <1>11, <1>12, <1>20
      <4>2. CASE k <= Base(next)
        <5>1. k \in 1..Len(output[d])
          BY <4>1, <4>2, <1>5, <2>1, <1>20
        <5>2. output'[f][k] = output[d][k]
          BY <4>1, <4>2, <3>2, <2>1, <1>11, <1>12, <1>20
        <5> QED BY <5>1, <5>2, <3>2, <2>1, <1>6 DEF DumpInv, OutInv
      <4>3. CASE k > Base(next)
        <5>1. k - Base(next) \in 1..size
          BY <4>1, <4>3, <1>5, <1>6
        <5>2. output'[f][k] = part[k - Base(next)]
          BY <4>1, <4>3, <3>2, <2>1, <1>5, <1>11, <1>12, <1>20
        <5>3. part[k - Base(next)] = Byte(d, Base(next) + (k - Base(next)))
          BY <5>1, <2>1, <1>7, <1>9, <1>18
        <5>4. Base(next) + (k - Base(next)) = k
          BY <4>1, <1>5
        <5> QED BY <5>2, <5>3, <5>4, <3>2
      <4> QED BY <4>1, <4>2, <4>3, <1>5
    <3> QED BY <3>1, <3>2
  <2> DEFINE Through(f) == {k \in 1..next : chunks[k].dest = f}
  <2>2. ASSUME ~ torn, NEW i \in next + 1..Kept(copiedMax)
        PROVE  Len(output'[chunks[i].dest]) = Payload * Cardinality(Through(chunks[i].dest))
    <3> DEFINE f == chunks[i].dest
    <3>1. i \in 1..maxChunk /\ i \in next..Kept(copiedMax)
      BY <1>3
    <3>2. f \in Files /\ Len(output[f]) = Payload * Cardinality(Done(f))
      BY <3>1, <2>2, <1>1, ChunkThere DEF DumpInv, OutInv
    <3>3. chunks[next].dest = d
      BY <2>2, <1>7, <1>18
    <3> HIDE DEF f
    <3>4. CASE f # d
      <4>1. Through(f) = Done(f)
        BY <3>3, <3>4, <1>3 DEF Done
      <4> QED BY <4>1, <3>2, <3>4, <1>12 DEF f
    <3>5. CASE f = d
      <4>1. size = Payload
        BY <2>2, <3>5, <1>7, <1>18 DEF Over, f
      <4>2. Through(f) = Earlier(next) \cup {next} /\ next \notin Earlier(next)
        BY <3>3, <3>5, <1>3 DEF Earlier
      <4>3. IsFiniteSet(Earlier(next)) /\ Cardinality(Earlier(next)) \in Nat
        BY <1>3, BaseType
      <4>4. Cardinality(Through(f)) = Cardinality(Earlier(next)) + 1
        BY <4>2, <4>3, FS_AddElement
      <4>5. Base(next) = Payload * Cardinality(Earlier(next))
        BY DEF Base
      <4>6. Payload * (Cardinality(Earlier(next)) + 1) = Base(next) + Payload
        BY <4>3, <4>5, <1>3
      <4>7. Len(output'[f]) = Base(next) + Payload
        BY <4>1, <2>2, <3>5, <1>11, <1>12, <1>20
      <4> QED BY <4>4, <4>6, <4>7 DEF f
    <3> QED BY <3>4, <3>5
  <2>3. \A i \in next'..Kept(copiedMax)' : ~ torn =>
          Len(output'[chunks'[i].dest]) = Payload * Cardinality(Done(chunks[i].dest)')
    <3>1. 1..next' - 1 = 1..next
      BY <1>1, <1>3
    <3>2. \A i : Done(chunks[i].dest)' = Through(chunks[i].dest)
      BY <3>1, <1>2 DEF Done
    <3> HIDE DEF Through
    <3> QED BY <3>2, <2>2, <1>1, <1>2, <1>13
  <2> QED BY <2>1, <2>3, <1>1, <1>2 DEF OutInv
<1>22. SnapInv'
  <2>1. \A f, n : Covers(f, n)' <=> Covers(f, n)
    BY <1>1 DEF Covers
  <2>2. \A f : Counted(f, Kept(copiedMax))' = Counted(f, Kept(copiedMax))
    BY <1>2, <1>13 DEF Counted
  <2>3. \A f \in Files : Covers(f, Counted(f, Kept(copiedMax)))'
    BY <2>1, <2>2, <1>1 DEF DumpInv, SnapInv
  <2>4. ASSUME NEW f \in Files, ~ torn', Over(f, next)' PROVE Covers(f, Len(output[f]))'
    <3>1. ~ torn /\ Over(f, next + 1)
      BY <2>4, <1>1, <1>2, <1>13 DEF Over
    <3>2. chunks[next].dest = d
      BY <3>1, <1>7, <1>18
    <3>3. CASE f = d
      <4>1. Covers(d, Base(next) + size)
        BY <3>1, <3>3, <1>1 DEF DumpInv, SnapInv, d, size
      <4>2. Len(output'[f]) = Base(next) + size
        BY <3>1, <3>3, <1>11, <1>12, <1>20
      <4> QED BY <4>1, <4>2, <3>3, <2>1
    <3>4. CASE f # d
      <4>1. Over(f, next)
        BY <3>1, <3>2, <3>4, <1>3 DEF Over
      <4>2. Covers(f, Len(output[f]))
        BY <4>1, <3>1, <1>1 DEF DumpInv, SnapInv
      <4> QED BY <4>2, <3>4, <1>12, <2>1
    <3> QED BY <3>3, <3>4
  <2> QED BY <2>3, <2>4, <1>1 DEF SnapInv
<1> QED BY <1>14, <1>15, <1>16, <1>17, <1>21, <1>22 DEF DumpInv

-----------------------------------------------------------------------------

(* All the chunks have been read: the logs hold what they should. *)
LEMMA KillKeeps ==
  ASSUME IInv, DumpInv, Kill
  PROVE  DumpInv'
<1>1. /\ dpc = "dump" /\ next > Kept(copiedMax) /\ sigterm' = alive /\ dpc' = "detach"
      /\ UNCHANGED <<bufferVars, stopped, alive, tries, pointers, copiedMax, next, held,
                     output, waits, atAttach, torn>>
  BY DEF Kill
<1>2. UNCHANGED <<chunks, maxChunk, pc>>
  BY <1>1 DEF bufferVars, chunkVars, callVars
<1>3. FirstInv' /\ StopInv' /\ DumperType'
  BY <1>1, <1>2 DEF DumpInv, FirstInv, StopInv, DumperType
<1>4. MapInv' /\ HeldInv' /\ OutInv'
  BY <1>1, <1>2 DEF DumpInv, MapInv, HeldInv, OutInv
<1>5. \A f : Over(f, next)
  <2>1. next \in Nat /\ Kept(copiedMax) \in Nat
    BY <1>1, ReadingMap DEF DumpInv
  <2> QED BY <2>1, <1>1 DEF Over
<1>6. SnapInv'
  <2>1. ~ torn => \A f \in Files : Covers(f, Len(output[f]))
    BY <1>1, <1>5 DEF DumpInv, SnapInv
  <2> QED BY <2>1, <1>1 DEF SnapInv, Covers
<1> QED BY <1>3, <1>4, <1>6 DEF DumpInv

(* The dumper forgets all but the logs. *)
LEMMA DetachKeeps ==
  ASSUME IInv, DumpInv, Detach
  PROVE  DumpInv'
<1>1. /\ dpc = "detach" /\ stopped' = FALSE
      /\ tries' = 0 /\ pointers' = 0 /\ copiedMax' = 0 /\ next' = 1
      /\ held' = Chunk(FileOrder[1]) /\ atAttach' = [f \in Files |-> 0]
      /\ dpc' = "wait"
      /\ UNCHANGED <<bufferVars, collectorVars, output, waits, torn>>
  BY DEF Detach
<1>2. UNCHANGED <<chunks, maxChunk, pc, alive, sigterm>>
  BY <1>1 DEF bufferVars, chunkVars, callVars, collectorVars
<1>3. /\ MaxChunks \in Nat /\ Payload \in Nat /\ Len(FileOrder) \in Nat
      /\ 1 <= Len(FileOrder) /\ Len(FileOrder) < MaxChunks
      /\ \A i \in 1..Len(FileOrder) : FileOrder[i] \in Files
  BY Sizes, FirstChunks
<1>4. held' \in HeldSet /\ held'.length = 0
  BY <1>1, <1>3 DEF HeldSet, Chunk, ByteSet
<1>5. DumperType'
  <2>1. tries' \in 0..MaxTries
    BY <1>1, TriesAssumption
  <2>2. atAttach' \in [Files -> Nat]
    BY <1>1
  <2> QED BY <2>1, <2>2, <1>1, <1>2, <1>4 DEF DumpInv, DumperType
<1>6. FirstInv' /\ StopInv' /\ MapInv'
  BY <1>1, <1>2, <1>3 DEF DumpInv, FirstInv, StopInv, MapInv
<1>7. HeldInv' /\ OutInv' /\ SnapInv'
  BY <1>1, <1>4 DEF DumpInv, HeldInv, OutInv, SnapInv
<1> QED BY <1>5, <1>6, <1>7 DEF DumpInv

(* Waiting writes nothing. *)
LEMMA WaitKeeps ==
  ASSUME IInv, DumpInv, Wait
  PROVE  DumpInv'
<1>1. /\ dpc = "wait" /\ dpc' \in {"wait", "done"}
      /\ waits' = waits \/ (waits < MaxWaits /\ waits' = waits + 1)
      /\ UNCHANGED <<bufferVars, stopped, collectorVars, tries, pointers, copiedMax, next, held,
                     output, atAttach, torn>>
  BY DEF Wait
<1>2. UNCHANGED <<chunks, maxChunk, pc, alive, sigterm>>
  BY <1>1 DEF bufferVars, chunkVars, callVars, collectorVars
<1>3. waits' \in 0..MaxWaits
  <2>1. waits \in 0..MaxWaits /\ MaxWaits \in Nat
    BY TriesAssumption DEF DumpInv, DumperType
  <2> QED BY <2>1, <1>1
<1>4. FirstInv' /\ StopInv' /\ DumperType' /\ MapInv'
  BY <1>1, <1>2, <1>3 DEF DumpInv, FirstInv, StopInv, DumperType, MapInv
<1>5. HeldInv' /\ OutInv' /\ SnapInv'
  BY <1>1 DEF DumpInv, HeldInv, OutInv, SnapInv
<1> QED BY <1>4, <1>5 DEF DumpInv

(* A step that touches nothing keeps it all. *)
LEMMA StutterKeeps ==
  ASSUME DumpInv, UNCHANGED vars
  PROVE  DumpInv'
<1>1. UNCHANGED <<chunks, maxChunk, pc, cur, alive, sigterm, stopped, dumperVars>>
  BY DEF vars, bufferVars, chunkVars, callVars, collectorVars
<1>2. /\ dpc' = dpc /\ next' = next /\ copiedMax' = copiedMax /\ pointers' = pointers
      /\ held' = held /\ output' = output /\ torn' = torn /\ atAttach' = atAttach
      /\ tries' = tries /\ waits' = waits
  BY <1>1 DEF dumperVars
<1>3. FirstInv' /\ DumperType' /\ StopInv' /\ MapInv'
  BY <1>1, <1>2 DEF DumpInv, FirstInv, DumperType, StopInv, MapInv, Stored, Kept
<1>4. \A f, m : (Over(f, m)' <=> Over(f, m)) /\ (Covers(f, m)' <=> Covers(f, m))
  BY <1>1, <1>2 DEF Over, Covers, Kept
<1>5. HeldInv'
  BY <1>1, <1>2, <1>4 DEF DumpInv, HeldInv
<1>6. OutInv'
  BY <1>1, <1>2 DEF DumpInv, OutInv, Kept, Done
<1>7. SnapInv'
  <2>1. \A f, n : Counted(f, n)' = Counted(f, n)
    BY <1>1 DEF Counted
  <2>2. Base(next)' = Base(next) /\ Kept(maxChunk)' = Kept(maxChunk)
        /\ Kept(copiedMax)' = Kept(copiedMax)
    BY <1>1, <1>2 DEF Base, Earlier, Kept
  <2> QED BY <2>1, <2>2, <1>1, <1>2, <1>4 DEF DumpInv, SnapInv
<1> QED BY <1>3, <1>5, <1>6, <1>7 DEF DumpInv

(* The buffers' invariant and the dumper's together are inductive. *)
LEMMA DumpInvHolds == Spec => [](IInv /\ DumpInv)
<1>1. Init => IInv /\ DumpInv
  BY InitOK, DumpInit DEF Init
<1>2. IInv /\ DumpInv /\ [Next]_vars => IInv' /\ DumpInv'
  <2> SUFFICES ASSUME IInv, DumpInv, [Next]_vars PROVE IInv' /\ DumpInv'
    OBVIOUS
  <2>1. IInv'
    BY StepKeeps, BufferSteps
  <2>2. CASE Collector
    BY <2>1, <2>2, CollectorKeeps
  <2>3. CASE Terminate
    BY <2>1, <2>3, TerminateKeeps
  <2>4. CASE Dumper
    BY <2>1, <2>4, AttachKeeps, FailureKeeps, FindPointersKeeps, FindMaxKeeps, ReadHeaderKeeps,
       ReadDataKeeps, KillKeeps, DetachKeeps, WaitKeeps DEF Dumper
  <2>5. CASE UNCHANGED vars
    BY <2>1, <2>5, StutterKeeps
  <2> QED BY <2>1, <2>2, <2>3, <2>4, <2>5 DEF Next
<1> QED BY <1>1, <1>2, PTL DEF Spec

(* The dumper's own state is well formed whatever the listener does to the  *)
(* chunks while they are copied; a log holds bytes only, never a place of a *)
(* chunk that has not been written.                                         *)
THEOREM DumperTyped == Spec => []TypeOK
<1>1. IInv /\ DumpInv => DumperType /\ MapInv
  BY DEF DumpInv
<1>2. DumperType /\ MapInv /\ BufferTypeOK => TypeOK
  BY DEF DumperType, MapInv, TypeOK, HeldSet
<1>3. BufferSpec => []BufferTypeOK
  BY BufferTypeCorrect
<1> QED BY <1>1, <1>2, <1>3, DumpInvHolds, ImplementsBuffer, PTL

(* A log is a prefix of what was handed to its file, with the listener      *)
(* writing to the chunks while they are read and the map wrapping around,   *)
(* unless a chunk was published while the map was copied.                   *)
THEOREM LogsArePrefixes == Spec => []OutputIsPrefix
<1>1. IInv /\ DumpInv => OutputIsPrefix
  BY DEF DumpInv, OutInv, OutputIsPrefix
<1> QED BY <1>1, DumpInvHolds, PTL

(* When the collector has just been told to terminate the logs hold all     *)
(* that the chunks to be read held when the dumper attached, and of the     *)
(* main thread's files exactly that.                                        *)
THEOREM SnapshotIsTaken == Spec => []SnapshotTaken
<1>1. IInv /\ DumpInv => SnapshotTaken
  BY DEF DumpInv, SnapInv, SnapshotTaken, Covers
<1> QED BY <1>1, DumpInvHolds, PTL
=============================================================================
