--------------------------- MODULE ChunkWriterProofs ---------------------------
(***************************************************************************)
(* Theorems about the chunk writer and the session it leaves: its types,   *)
(* what a power loss may take, that a closed session is on the disk and    *)
(* its listing is never lost, and that the integrity check passes a        *)
(* recording without errors and notices what one error took.               *)
(***************************************************************************)
EXTENDS SessionFiles, ListFacts

(* Where a chunk is open, and where there is room in it.                   *)
Placed ==
  /\ chunks = << >> => pc \in {"open", "killed", "power_lost"}
  /\ chunkStream # "closed" => chunks # << >>
  /\ pc \in {"append", "index"} => chunkStream # "closed"
  /\ pc = "append" => chunks[last].packet_count < ChunkMaxFrames

ChunkSynced == chunks[last].disk = chunks[last].packet_count
IndexSynced == index.disk = index.lines

(* Frames and lines not yet on the disk are those counted since the last   *)
(* flush, and there is room for one more wherever one may come.            *)
Pending ==
  /\ chunks # << >> =>
       chunks[last].packet_count <= chunks[last].disk + sinceFlush + (IF pc = "index" THEN 1 ELSE 0)
  /\ index.lines <= index.disk + sinceFlush
  /\ sinceFlush <= LossBound
  /\ pc \in {"ready", "append", "index"} => sinceFlush + 1 <= LossBound

(* How far a Flush has come at each of its steps.                          *)
Progress ==
  /\ pc = "sync_chunk" => chunks[last].os = chunks[last].packet_count
  /\ pc \in FlushSteps \ {"flush_chunk", "sync_chunk"} => ChunkSynced
  /\ pc = "sync_index" => index.os = index.lines
  /\ pc \in FlushSteps \ {"flush_chunk", "sync_chunk", "flush_index", "sync_index"} =>
       IndexSynced /\ sinceFlush = 0
  /\ pc \in {"open", "closed"} =>
       (chunks # << >> => ChunkSynced) /\ IndexSynced /\ sinceFlush = 0

(* As long as no call of the system has failed, both streams are in order, *)
(* every rotated chunk is on the disk, and the current one is accounted    *)
(* for by Pending and Progress.                                            *)
StreamsInOrder ==
  /\ chunkStream # "bad" /\ indexStream # "bad"
  /\ pc \in Running \ {"open"} => chunkStream = "good" /\ indexStream = "good"
  /\ pc = "open" => chunkStream = "closed"

RotatedSynced == \A i \in 1..last : i # last => chunks[i].disk = chunks[i].packet_count

Undisturbed ==
  faults = 0 =>
    /\ StreamsInOrder /\ RotatedSynced
    /\ pc \in Running \cup {"closed"} => Pending /\ Progress

Durable == TypeOK /\ Placed /\ Undisturbed

-----------------------------------------------------------------------------
(* A step that replaces the last chunk leaves the others where they are.   *)
LEMMA LastReplaced ==
  ASSUME chunks \in Seq(Chunks), chunks # << >>, NEW c \in Chunks,
         chunks' = [chunks EXCEPT ![last] = c]
  PROVE  /\ chunks' \in Seq(Chunks) /\ chunks' # << >>
         /\ last' = last /\ last \in 1..last
         /\ \A i \in 1..last : chunks'[i] = IF i = last THEN c ELSE chunks[i]
<1>1. last \in 1..Len(chunks)
  BY EmptySeq, LenProperties DEF last
<1>2. /\ [chunks EXCEPT ![last] = c] \in Seq(Chunks)
      /\ Len([chunks EXCEPT ![last] = c]) = Len(chunks)
      /\ \A j \in 1..Len(chunks) :
           [chunks EXCEPT ![last] = c][j] = IF j = last THEN c ELSE chunks[j]
  BY <1>1, ExceptSeq
<1>3. last' = last /\ last' \in 1..last'
  BY <1>1, <1>2 DEF last
<1>4. chunks' # << >>
  BY <1>1, <1>2, <1>3 DEF last
<1> QED
  BY <1>1, <1>2, <1>3, <1>4 DEF last

LEMMA BothOneMore ==
  ASSUME NEW x \in Nat, NEW y \in Nat, NEW s \in Nat, x <= y + s
  PROVE  x + 1 <= y + s + 1
OBVIOUS

LEMMA NextInRange ==
  ASSUME NEW m \in Nat, NEW n \in 0..m, n < m PROVE n + 1 \in 0..m
OBVIOUS

(* The three kinds of step that change the chunks.                         *)
LEMMA ChunkOpened ==
  ASSUME chunks \in Seq(Chunks), WriterAssumption, chunks' = Append(chunks, NewChunk)
  PROVE  /\ chunks' \in Seq(Chunks) /\ chunks' # << >>
         /\ last' = last + 1 /\ last \in Nat
         /\ \A i \in 1..last : chunks'[i] = chunks[i]
         /\ chunks'[last'] = NewChunk
<1>1. NewChunk \in Chunks
  BY DEF NewChunk, Chunks, WriterAssumption
<1> QED
  BY <1>1, AppendProperties, LenProperties DEF last

LEMMA FrameAppended ==
  ASSUME chunks \in Seq(Chunks), chunks # << >>, WriterAssumption,
         chunks[last].packet_count < ChunkMaxFrames,
         chunks' = [chunks EXCEPT ![last].packet_count = @ + 1]
  PROVE  /\ chunks' \in Seq(Chunks) /\ chunks' # << >>
         /\ last' = last /\ last \in 1..last
         /\ \A i \in 1..last : i # last => chunks'[i] = chunks[i]
         /\ chunks'[last].packet_count = chunks[last].packet_count + 1
         /\ chunks'[last].os = chunks[last].os
         /\ chunks'[last].disk = chunks[last].disk
<1> DEFINE c == [chunks[last] EXCEPT !.packet_count = @ + 1]
<1>1. chunks[last] \in Chunks
  BY EmptySeq, LenProperties, ElementOfSeq DEF last
<1>0. chunks[last].packet_count + 1 \in 0..ChunkMaxFrames
  <2>1. chunks[last].packet_count \in 0..ChunkMaxFrames
    BY <1>1 DEF Chunks
  <2>2. ChunkMaxFrames \in Nat
    BY DEF WriterAssumption
  <2>3. chunks[last].packet_count < ChunkMaxFrames
    OBVIOUS
  <2> HIDE DEF c
  <2> QED
    BY <2>1, <2>2, <2>3, NextInRange
<1>2. /\ c \in Chunks /\ c.packet_count = chunks[last].packet_count + 1
      /\ c.os = chunks[last].os /\ c.disk = chunks[last].disk
  BY <1>0, <1>1 DEF Chunks
<1>3. chunks' = [chunks EXCEPT ![last] = c]
  OBVIOUS
<1> HIDE DEF c
<1> QED
  BY <1>2, <1>3, LastReplaced

LEMMA ChunkFlushed ==
  ASSUME chunks \in Seq(Chunks), chunks # << >>, NEW n \in Nat,
         chunks' = [chunks EXCEPT ![last].os = n]
  PROVE  /\ chunks' \in Seq(Chunks) /\ chunks' # << >>
         /\ last' = last /\ last \in 1..last
         /\ \A i \in 1..last : i # last => chunks'[i] = chunks[i]
         /\ chunks'[last].packet_count = chunks[last].packet_count
         /\ chunks'[last].os = n
         /\ chunks'[last].disk = chunks[last].disk
<1> DEFINE c == [chunks[last] EXCEPT !.os = n]
<1>1. chunks[last] \in Chunks
  BY EmptySeq, LenProperties, ElementOfSeq DEF last
<1>2. /\ c \in Chunks /\ c.packet_count = chunks[last].packet_count
      /\ c.os = n /\ c.disk = chunks[last].disk
  BY <1>1 DEF Chunks
<1>3. chunks' = [chunks EXCEPT ![last] = c]
  OBVIOUS
<1> HIDE DEF c
<1> QED
  BY <1>2, <1>3, LastReplaced

LEMMA ChunkSyncedTo ==
  ASSUME chunks \in Seq(Chunks), chunks # << >>, NEW n \in Nat,
         chunks' = [chunks EXCEPT ![last].disk = n]
  PROVE  /\ chunks' \in Seq(Chunks) /\ chunks' # << >>
         /\ last' = last /\ last \in 1..last
         /\ \A i \in 1..last : i # last => chunks'[i] = chunks[i]
         /\ chunks'[last].packet_count = chunks[last].packet_count
         /\ chunks'[last].os = chunks[last].os
         /\ chunks'[last].disk = n
<1> DEFINE c == [chunks[last] EXCEPT !.disk = n]
<1>1. chunks[last] \in Chunks
  BY EmptySeq, LenProperties, ElementOfSeq DEF last
<1>2. /\ c \in Chunks /\ c.packet_count = chunks[last].packet_count
      /\ c.os = chunks[last].os /\ c.disk = n
  BY <1>1 DEF Chunks
<1>3. chunks' = [chunks EXCEPT ![last] = c]
  OBVIOUS
<1> HIDE DEF c
<1> QED
  BY <1>2, <1>3, LastReplaced

-----------------------------------------------------------------------------
LEMMA CountsAreNumbers ==
  ASSUME WriterAssumption, chunks \in Seq(Chunks)
  PROVE  Counts \in Seq(Nat) /\ WholeFile \in Listings
<1>1. last \in Nat /\ \A i \in 1..last : chunks[i] \in Chunks
  BY LenProperties, ElementOfSeq DEF last
<1>2. \A i \in 1..last : chunks[i].packet_count \in Nat
  BY <1>1 DEF Chunks, WriterAssumption
<1>3. Counts \in Seq(Nat)
  BY <1>1, <1>2 DEF Counts
<1> QED
  BY <1>3 DEF WholeFile, Listings

LEMMA TypesStart == WriterAssumption /\ Init => TypeOK /\ Placed
BY DEF WriterAssumption, Init, TypeOK, ControlTypes, ChunkTypes, IndexTypes, ListingTypes,
       Placed, Places, Running, Listings, NoFile, Streams, last

LEMMA ControlKept ==
  ASSUME WriterAssumption, ControlTypes, [Next]_vars
  PROVE  ControlTypes'
<1> USE DEF ControlTypes, Places, Running, FlushSteps, Fault, NoFault, files, listing, bounds
<1>1. CASE OpenChunk
  BY <1>1 DEF OpenChunk, OpenIndex, Streams
<1>2. CASE WriteContractFrame
  BY <1>2 DEF WriteContractFrame, WriterAssumption
<1>3. CASE AppendFrame
  BY <1>3 DEF AppendFrame, Streams
<1>4. CASE AppendIndex
  BY <1>4 DEF AppendIndex, AppendContractIndex, Streams
<1>5. CASE Close
  BY <1>5 DEF Close
<1>6. CASE FlushChunk
  BY <1>6 DEF FlushChunk, Streams
<1>7. CASE SyncChunk
  BY <1>7 DEF SyncChunk
<1>8. CASE FlushIndex
  BY <1>8 DEF FlushIndex, Streams
<1>9. CASE SyncIndex
  BY <1>9 DEF SyncIndex
<1>10. CASE OpenTmp
  BY <1>10 DEF OpenTmp
<1>11. CASE WriteTmp
  BY <1>11 DEF WriteTmp
<1>12. CASE RemoveManifest
  BY <1>12 DEF RemoveManifest
<1>13. CASE RenameTmp
  BY <1>13 DEF RenameTmp
<1>14. CASE RewriteManifest \/ DropTmp \/ EndRewrite
  BY <1>14 DEF RewriteManifest, DropTmp, EndRewrite
<1>15. CASE FlushReturns
  BY <1>15 DEF FlushReturns, Streams
<1>16. CASE Kill
  BY <1>16 DEF Kill
<1>17. CASE PowerLoss
  BY <1>17 DEF PowerLoss
<1>18. CASE UNCHANGED vars
  BY <1>18 DEF vars
<1> QED
  BY <1>1, <1>2, <1>3, <1>4, <1>5, <1>6, <1>7, <1>8, <1>9,
     <1>10, <1>11, <1>12, <1>13, <1>14, <1>15, <1>16, <1>17, <1>18 DEF Next, FlushStep

LEMMA ChunksKept ==
  ASSUME WriterAssumption, ChunkTypes, Placed, [Next]_vars
  PROVE  ChunkTypes'
<1>1. CASE OpenChunk
  <2>1. CASE chunks' = Append(chunks, NewChunk)
    <3>1. /\ chunks' \in Seq(Chunks) /\ last' = last + 1 /\ last \in Nat
          /\ \A i \in 1..last : chunks'[i] = chunks[i]
          /\ chunks'[last'] = NewChunk
      BY <2>1, ChunkOpened DEF ChunkTypes
    <3>2. \A i \in 1..last' : i \in 1..last \/ i = last'
      BY <3>1
    <3> QED
      BY <3>1, <3>2 DEF ChunkTypes, NewChunk
  <2>2. CASE UNCHANGED chunks
    BY <2>2 DEF ChunkTypes, last
  <2> QED
    BY <1>1, <2>1, <2>2 DEF OpenChunk, files
<1>2. CASE AppendFrame
  <2>1. CASE chunks' = [chunks EXCEPT ![last].packet_count = @ + 1]
    <3>1. chunks # << >> /\ chunks[last].packet_count < ChunkMaxFrames
      BY <1>2 DEF AppendFrame, Placed
    <3>2. last \in 1..last /\ \A i \in 1..last : chunks[i] \in Chunks
      BY <3>1, EmptySeq, LenProperties, ElementOfSeq DEF ChunkTypes, last
    <3>8. /\ chunks' \in Seq(Chunks) /\ last' = last
          /\ \A i \in 1..last : i # last => chunks'[i] = chunks[i]
          /\ chunks'[last].packet_count = chunks[last].packet_count + 1
          /\ chunks'[last].os = chunks[last].os /\ chunks'[last].disk = chunks[last].disk
      BY <2>1, <3>1, FrameAppended DEF ChunkTypes
    <3>9. /\ chunks[last].packet_count \in Nat /\ chunks[last].os \in Nat /\ chunks[last].disk \in Nat
          /\ chunks[last].disk <= chunks[last].os /\ chunks[last].os <= chunks[last].packet_count
      BY <3>2 DEF ChunkTypes, Chunks, WriterAssumption
    <3>10. chunks'[last].disk <= chunks'[last].os /\ chunks'[last].os <= chunks'[last].packet_count
      BY <3>8, <3>9
    <3> QED
      BY <3>8, <3>10 DEF ChunkTypes
  <2>2. CASE UNCHANGED chunks
    BY <2>2 DEF ChunkTypes, last
  <2> QED
    BY <1>2, <2>1, <2>2 DEF AppendFrame
<1>3. CASE FlushChunk
  <2>1. CASE chunkStream = "good" /\ chunks' = [chunks EXCEPT ![last].os = chunks[last].packet_count]
    <3>1. chunks # << >>
      BY <2>1 DEF Placed
    <3>2. last \in 1..last /\ \A i \in 1..last : chunks[i] \in Chunks
      BY <3>1, EmptySeq, LenProperties, ElementOfSeq DEF ChunkTypes, last
    <3>3. chunks[last].packet_count \in Nat
      BY <3>2 DEF Chunks, WriterAssumption
    <3>8. /\ chunks' \in Seq(Chunks) /\ last' = last
          /\ \A i \in 1..last : i # last => chunks'[i] = chunks[i]
          /\ chunks'[last].packet_count = chunks[last].packet_count
          /\ chunks'[last].os = chunks[last].packet_count /\ chunks'[last].disk = chunks[last].disk
      BY <2>1, <3>1, <3>3, ChunkFlushed DEF ChunkTypes
    <3>9. /\ chunks[last].packet_count \in Nat /\ chunks[last].os \in Nat /\ chunks[last].disk \in Nat
          /\ chunks[last].disk <= chunks[last].os /\ chunks[last].os <= chunks[last].packet_count
      BY <3>2 DEF ChunkTypes, Chunks, WriterAssumption
    <3>10. chunks'[last].disk <= chunks'[last].os /\ chunks'[last].os <= chunks'[last].packet_count
      BY <3>8, <3>9
    <3> QED
      BY <3>8, <3>10 DEF ChunkTypes
  <2>2. CASE UNCHANGED chunks
    BY <2>2 DEF ChunkTypes, last
  <2> QED
    BY <1>3, <2>1, <2>2 DEF FlushChunk
<1>4. CASE SyncChunk
  <2>1. CASE chunkStream # "closed" /\ chunks' = [chunks EXCEPT ![last].disk = chunks[last].os]
    <3>1. chunks # << >>
      BY <2>1 DEF Placed
    <3>2. last \in 1..last /\ \A i \in 1..last : chunks[i] \in Chunks
      BY <3>1, EmptySeq, LenProperties, ElementOfSeq DEF ChunkTypes, last
    <3>3. chunks[last].os \in Nat
      BY <3>2 DEF Chunks
    <3>8. /\ chunks' \in Seq(Chunks) /\ last' = last
          /\ \A i \in 1..last : i # last => chunks'[i] = chunks[i]
          /\ chunks'[last].packet_count = chunks[last].packet_count
          /\ chunks'[last].os = chunks[last].os /\ chunks'[last].disk = chunks[last].os
      BY <2>1, <3>1, <3>3, ChunkSyncedTo DEF ChunkTypes
    <3>9. /\ chunks[last].packet_count \in Nat /\ chunks[last].os \in Nat /\ chunks[last].disk \in Nat
          /\ chunks[last].disk <= chunks[last].os /\ chunks[last].os <= chunks[last].packet_count
      BY <3>2 DEF ChunkTypes, Chunks, WriterAssumption
    <3>10. chunks'[last].disk <= chunks'[last].os /\ chunks'[last].os <= chunks'[last].packet_count
      BY <3>8, <3>9
    <3> QED
      BY <3>8, <3>10 DEF ChunkTypes
  <2>2. CASE UNCHANGED chunks
    BY <2>2 DEF ChunkTypes, last
  <2> QED
    BY <1>4, <2>1, <2>2 DEF SyncChunk
<1>5. CASE UNCHANGED chunks
  BY <1>5 DEF ChunkTypes, last
<1> QED
  BY <1>1, <1>2, <1>3, <1>4, <1>5
  DEF Next, FlushStep, WriteContractFrame, AppendIndex, AppendContractIndex, Close,
      FlushIndex, SyncIndex, OpenTmp, WriteTmp, RemoveManifest, RenameTmp,
      RewriteManifest, DropTmp, EndRewrite,
      FlushReturns, Kill, PowerLoss, vars, files, listing, bounds

LEMMA IndexKept ==
  ASSUME IndexTypes, [Next]_vars
  PROVE  IndexTypes'
<1>1. CASE OpenChunk
  BY <1>1 DEF OpenChunk, OpenIndex, IndexTypes, files
<1>2. CASE AppendIndex
  BY <1>2 DEF AppendIndex, AppendContractIndex, IndexTypes
<1>3. CASE FlushIndex
  BY <1>3 DEF FlushIndex, IndexTypes
<1>4. CASE SyncIndex
  BY <1>4 DEF SyncIndex, IndexTypes
<1>5. CASE UNCHANGED index
  BY <1>5 DEF IndexTypes
<1> QED
  BY <1>1, <1>2, <1>3, <1>4, <1>5
  DEF Next, FlushStep, WriteContractFrame, AppendFrame, Close, FlushChunk, SyncChunk,
      OpenTmp, WriteTmp, RemoveManifest, RenameTmp,
      RewriteManifest, DropTmp, EndRewrite, FlushReturns, Kill,
      PowerLoss, vars, files, listing, bounds

LEMMA ListingsKept ==
  ASSUME WriterAssumption, ChunkTypes, ListingTypes, [Next]_vars
  PROVE  ListingTypes'
<1>0. NoFile \in Listings /\ PartFile \in Listings /\ << >> \in Seq(Nat)
  BY DEF NoFile, PartFile, Listings
<1>00. Counts \in Seq(Nat) /\ WholeFile \in Listings
  BY CountsAreNumbers DEF ChunkTypes
<1>1. CASE OpenTmp \/ RemoveManifest
  BY <1>0, <1>1 DEF OpenTmp, RemoveManifest, ListingTypes, listing
<1>2. CASE WriteTmp
  BY <1>00, <1>2 DEF WriteTmp, ListingTypes
<1>3. CASE RenameTmp
  BY <1>0, <1>00, <1>3 DEF RenameTmp, ListingTypes, listing
<1>4. CASE RewriteManifest
  BY <1>0, <1>00, <1>4 DEF RewriteManifest, ListingTypes
<1>5. CASE DropTmp
  BY <1>0, <1>5 DEF DropTmp, ListingTypes
<1>6. CASE EndRewrite
  BY <1>00, <1>6 DEF EndRewrite, ListingTypes
<1>7. CASE FlushReturns
  BY <1>00, <1>7 DEF FlushReturns, ListingTypes, listing
<1>8. CASE UNCHANGED <<listing, flushed>>
  BY <1>8 DEF ListingTypes, listing
<1> QED
  BY <1>1, <1>2, <1>3, <1>4, <1>5, <1>6, <1>7, <1>8
  DEF Next, FlushStep, OpenChunk, WriteContractFrame, AppendFrame, AppendIndex,
      AppendContractIndex, Close, FlushChunk, SyncChunk, FlushIndex, SyncIndex, Kill,
      PowerLoss, vars, files, listing, bounds

LEMMA PlacedKept ==
  ASSUME WriterAssumption, ChunkTypes, Placed, [Next]_vars
  PROVE  Placed'
<1> USE DEF Placed, Running, FlushSteps, files
<1>1. CASE OpenChunk
  <2>1. CASE chunks' = Append(chunks, NewChunk)
    <3>1. chunks' # << >> /\ chunks'[last'].packet_count = 0 /\ chunks' # chunks
      BY <2>1, ChunkOpened DEF ChunkTypes, NewChunk, last
    <3>2. chunkStream' = "good" /\ pc' \in {"ready", "append"}
      BY <1>1, <3>1 DEF OpenChunk
    <3> QED
      BY <3>1, <3>2 DEF WriterAssumption
  <2>2. CASE UNCHANGED files
    BY <1>1, <2>2 DEF OpenChunk, last
  <2> QED
    BY <1>1, <2>1, <2>2 DEF OpenChunk
<1>2. CASE WriteContractFrame
  <2>1. chunks # << >>
    BY <1>2 DEF WriteContractFrame
  <2>2. chunks[last].packet_count \in Nat
    <3>1. last \in 1..last /\ \A i \in 1..last : chunks[i] \in Chunks
      BY <2>1, EmptySeq, LenProperties, ElementOfSeq DEF ChunkTypes, last
    <3> QED
      BY <3>1 DEF Chunks, WriterAssumption
  <2> QED
    BY <1>2, <2>1, <2>2 DEF WriteContractFrame, SizeLimit, WriterAssumption, last
<1>3. CASE AppendFrame
  <2>1. chunks = << >> <=> chunks' = << >>
    BY <1>3, ExceptSeq, EmptySeq DEF AppendFrame, ChunkTypes
  <2> QED
    BY <1>3, <2>1 DEF AppendFrame
<1>4. CASE AppendIndex
  BY <1>4 DEF AppendIndex, AppendContractIndex, last
<1>5. CASE Close
  BY <1>5 DEF Close, last
<1>6. CASE FlushChunk
  <2>1. chunks = << >> <=> chunks' = << >>
    BY <1>6, ExceptSeq, EmptySeq DEF FlushChunk, ChunkTypes
  <2> QED
    BY <1>6, <2>1 DEF FlushChunk
<1>7. CASE SyncChunk
  <2>1. chunks = << >> <=> chunks' = << >>
    BY <1>7, ExceptSeq, EmptySeq DEF SyncChunk, ChunkTypes
  <2> QED
    BY <1>7, <2>1 DEF SyncChunk
<1>8. CASE FlushIndex
  BY <1>8 DEF FlushIndex, last
<1>9. CASE SyncIndex
  BY <1>9 DEF SyncIndex, last
<1>10. CASE OpenTmp
  BY <1>10 DEF OpenTmp, last
<1>11. CASE WriteTmp
  BY <1>11 DEF WriteTmp, last
<1>12. CASE RemoveManifest
  BY <1>12 DEF RemoveManifest, last
<1>13. CASE RenameTmp
  BY <1>13 DEF RenameTmp, last
<1>14. CASE RewriteManifest \/ DropTmp \/ EndRewrite
  BY <1>14 DEF RewriteManifest, DropTmp, EndRewrite, last
<1>15. CASE FlushReturns
  BY <1>15 DEF FlushReturns, last
<1>16. CASE Kill
  BY <1>16 DEF Kill, last
<1>17. CASE PowerLoss
  BY <1>17 DEF PowerLoss, last
<1>18. CASE UNCHANGED vars
  BY <1>18 DEF vars, last
<1> QED
  BY <1>1, <1>2, <1>3, <1>4, <1>5, <1>6, <1>7, <1>8, <1>9,
     <1>10, <1>11, <1>12, <1>13, <1>14, <1>15, <1>16, <1>17, <1>18 DEF Next, FlushStep

LEMMA TypesKept ==
  ASSUME WriterAssumption, TypeOK, Placed, [Next]_vars
  PROVE  TypeOK' /\ Placed'
BY ControlKept, ChunksKept, IndexKept, ListingsKept, PlacedKept DEF TypeOK

(* The writer's state stays well typed: no file claims more than it was    *)
(* given, and no chunk exceeds its limit.                                  *)
THEOREM WriterTypes == Spec => []TypeOK
<1>1. Init => TypeOK /\ Placed
  BY TypesStart, WriterAssumption
<1>2. TypeOK /\ Placed /\ [Next]_vars => TypeOK' /\ Placed'
  BY TypesKept, WriterAssumption
<1> QED
  BY <1>1, <1>2, PTL DEF Spec


-----------------------------------------------------------------------------
LEMMA NoFaultBefore ==
  ASSUME ControlTypes, [Next]_vars, faults' = 0
  PROVE  faults = 0 /\ ~Fault
<1>1. faults \in Nat /\ (faults' = faults \/ faults' = faults + 1)
  BY DEF ControlTypes, Next, FlushStep, OpenChunk, WriteContractFrame, AppendFrame,
         AppendIndex, AppendContractIndex, Close, FlushChunk, SyncChunk, FlushIndex,
         SyncIndex, OpenTmp, WriteTmp, RemoveManifest, RenameTmp,
         RewriteManifest, DropTmp, EndRewrite,
         FlushReturns, Kill, PowerLoss,
         OpenIndex, Fault, NoFault, vars, bounds
<1> QED
  BY <1>1 DEF Fault

LEMMA StreamsKept ==
  ASSUME ControlTypes, StreamsInOrder, [Next]_vars, ~Fault
  PROVE  StreamsInOrder'
<1> USE DEF StreamsInOrder, Running, FlushSteps, files
<1>1. CASE OpenChunk
  BY <1>1 DEF OpenChunk, OpenIndex, ControlTypes, Streams
<1>2. CASE WriteContractFrame
  BY <1>2 DEF WriteContractFrame
<1>3. CASE AppendFrame
  BY <1>3 DEF AppendFrame
<1>4. CASE AppendIndex
  BY <1>4 DEF AppendIndex, AppendContractIndex
<1>5. CASE Close
  BY <1>5 DEF Close
<1>6. CASE FlushChunk
  BY <1>6 DEF FlushChunk
<1>7. CASE SyncChunk
  BY <1>7 DEF SyncChunk
<1>8. CASE FlushIndex
  BY <1>8 DEF FlushIndex
<1>9. CASE SyncIndex
  BY <1>9 DEF SyncIndex
<1>10. CASE OpenTmp
  BY <1>10 DEF OpenTmp
<1>11. CASE WriteTmp
  BY <1>11 DEF WriteTmp
<1>12. CASE RemoveManifest
  BY <1>12 DEF RemoveManifest
<1>13. CASE RenameTmp
  BY <1>13 DEF RenameTmp
<1>14. CASE RewriteManifest \/ DropTmp \/ EndRewrite
  BY <1>14 DEF RewriteManifest, DropTmp, EndRewrite
<1>15. CASE FlushReturns
  BY <1>15 DEF FlushReturns, ControlTypes, Streams
<1>16. CASE Kill
  BY <1>16 DEF Kill
<1>17. CASE PowerLoss
  BY <1>17 DEF PowerLoss
<1>18. CASE UNCHANGED vars
  BY <1>18 DEF vars
<1> QED
  BY <1>1, <1>2, <1>3, <1>4, <1>5, <1>6, <1>7, <1>8, <1>9,
     <1>10, <1>11, <1>12, <1>13, <1>14, <1>15, <1>16, <1>17, <1>18 DEF Next, FlushStep

LEMMA NumbersOfFiles ==
  ASSUME WriterAssumption, TypeOK
  PROVE  /\ index.lines \in Nat /\ index.os \in Nat /\ index.disk \in Nat
         /\ sinceFlush \in Nat /\ last \in Nat
         /\ chunks # << >> => /\ last \in 1..last
                              /\ chunks[last].packet_count \in Nat
                              /\ chunks[last].os \in Nat /\ chunks[last].disk \in Nat
<1>1. last \in Nat /\ \A i \in 1..last : chunks[i] \in Chunks
  BY LenProperties, ElementOfSeq DEF TypeOK, ChunkTypes, last
<1>2. chunks # << >> => last \in 1..last
  BY <1>1, EmptySeq DEF TypeOK, ChunkTypes, last
<1>3. \A i \in 1..last : chunks[i].packet_count \in Nat /\ chunks[i].os \in Nat /\ chunks[i].disk \in Nat
  BY <1>1 DEF Chunks, WriterAssumption
<1> QED
  BY <1>1, <1>2, <1>3 DEF TypeOK, IndexTypes, ControlTypes

(* A chunk is synced before the next one is opened, so the rotated chunks  *)
(* stay on the disk.                                                       *)
LEMMA RotatedKept ==
  ASSUME WriterAssumption, TypeOK, Placed, RotatedSynced, Progress, [Next]_vars
  PROVE  RotatedSynced'
<1>0. chunks \in Seq(Chunks) /\ (chunks # << >> => last \in 1..last) /\ last \in Nat
  BY NumbersOfFiles DEF TypeOK, ChunkTypes
<1>1. CASE UNCHANGED chunks
  BY <1>1 DEF RotatedSynced, last
<1>2. CASE OpenChunk /\ chunks' = Append(chunks, NewChunk)
  <2>1. last' = last + 1 /\ \A i \in 1..last : chunks'[i] = chunks[i]
    BY <1>0, <1>2, ChunkOpened
  <2>2. chunks # << >> => chunks[last].disk = chunks[last].packet_count
    BY <1>2 DEF OpenChunk, Progress, ChunkSynced
  <2>3. \A i \in 1..last' : i # last' => i \in 1..last
    BY <1>0, <2>1
  <2>4. \A i \in 1..last : chunks # << >>
    BY <1>0 DEF last
  <2> QED
    BY <2>1, <2>2, <2>3, <2>4 DEF RotatedSynced
<1>3. CASE AppendFrame /\ chunks' = [chunks EXCEPT ![last].packet_count = @ + 1]
  <2>1. chunks # << >> /\ chunks[last].packet_count < ChunkMaxFrames
    BY <1>3 DEF AppendFrame, Placed
  <2> QED
    BY <1>0, <1>3, <2>1, FrameAppended DEF RotatedSynced
<1>4. CASE FlushChunk /\ chunkStream = "good" /\ chunks' = [chunks EXCEPT ![last].os = chunks[last].packet_count]
  BY <1>0, <1>4, NumbersOfFiles, ChunkFlushed DEF RotatedSynced, Placed
<1>5. CASE SyncChunk /\ chunkStream # "closed" /\ chunks' = [chunks EXCEPT ![last].disk = chunks[last].os]
  BY <1>0, <1>5, NumbersOfFiles, ChunkSyncedTo DEF RotatedSynced, Placed
<1> QED
  BY <1>1, <1>2, <1>3, <1>4, <1>5
  DEF Next, FlushStep, OpenChunk, WriteContractFrame, AppendFrame, AppendIndex,
      AppendContractIndex, Close, FlushChunk, SyncChunk, FlushIndex, SyncIndex, OpenTmp,
      WriteTmp, RemoveManifest, RenameTmp,
      RewriteManifest, DropTmp, EndRewrite, FlushReturns, Kill, PowerLoss,
      vars, files


-----------------------------------------------------------------------------
(* The frames and lines at risk: each step of a Flush takes some off, and  *)
(* between flushes there is always room for one more.                      *)
LEMMA AtRiskKept ==
  ASSUME WriterAssumption, TypeOK, Placed, StreamsInOrder,
         pc \in Running \cup {"closed"} => Pending /\ Progress,
         [Next]_vars, ~Fault, pc' \in Running \cup {"closed"}
  PROVE  Pending' /\ Progress'
<1>0. /\ index.lines \in Nat /\ index.os \in Nat /\ index.disk \in Nat
      /\ sinceFlush \in Nat /\ last \in Nat /\ chunks \in Seq(Chunks)
      /\ chunks # << >> => /\ last \in 1..last
                           /\ chunks[last].packet_count \in Nat
                           /\ chunks[last].os \in Nat /\ chunks[last].disk \in Nat
      /\ LossBound \in Nat /\ LossBound >= 1 /\ FlushPackets <= LossBound
      /\ FlushPackets \in Nat /\ (LossBound > FlushPackets => FlushPackets = 0)
  BY NumbersOfFiles DEF TypeOK, ChunkTypes, LossBound, WriterAssumption
<1>00. Pending /\ Progress
  BY DEF Next, FlushStep, OpenChunk, WriteContractFrame, AppendFrame, AppendIndex,
         AppendContractIndex, Close,
         FlushChunk, SyncChunk, FlushIndex, SyncIndex, OpenTmp, WriteTmp, RemoveManifest,
         RenameTmp,
         RewriteManifest, DropTmp, EndRewrite, FlushReturns, Kill, PowerLoss, vars, Running, FlushSteps
<1> USE DEF Pending, Progress, ChunkSynced, IndexSynced, FlushSteps
<1>1. CASE OpenChunk
  <2>1. /\ OpenIndex /\ chunks' = Append(chunks, NewChunk)
        /\ pc = "open" /\ pc' \in {"ready", "append"} /\ sinceFlush' = sinceFlush
    BY <1>1 DEF OpenChunk
  <2>2. chunks' # << >> /\ chunks'[last'] = NewChunk
    BY <1>0, <2>1, ChunkOpened
  <2>3. index'.lines = index.lines /\ index'.disk = index.disk
    BY <2>1 DEF OpenIndex, TypeOK, IndexTypes
  <2>4. chunks'[last'].packet_count = 0 /\ chunks'[last'].disk = 0
    BY <2>2 DEF NewChunk
  <2>5. index'.lines = index'.disk /\ index'.disk \in Nat /\ sinceFlush' = 0
    BY <1>0, <1>00, <2>1, <2>3
  <2>6. Pending'
    BY <1>0, <2>1, <2>4, <2>5
  <2>7. Progress'
    BY <2>1
  <2> QED
    BY <2>6, <2>7
<1>2. CASE WriteContractFrame
  BY <1>0, <1>00, <1>2 DEF WriteContractFrame, files, last, StreamsInOrder, Running
<1>3. CASE AppendFrame
  <2>1. /\ chunks' = [chunks EXCEPT ![last].packet_count = @ + 1]
        /\ pc = "append" /\ pc' = "index" /\ UNCHANGED <<index, sinceFlush>>
    BY <1>3 DEF AppendFrame, StreamsInOrder, Running
  <2>2. chunks # << >> /\ chunks[last].packet_count < ChunkMaxFrames
    BY <2>1 DEF Placed
  <2>3. /\ last' = last /\ chunks'[last].packet_count = chunks[last].packet_count + 1
        /\ chunks'[last].disk = chunks[last].disk
    BY <1>0, <2>1, <2>2, FrameAppended
  <2>4. chunks[last].packet_count <= chunks[last].disk + sinceFlush
    <3>1. chunks[last].packet_count <= chunks[last].disk + sinceFlush + 0
      BY <1>00, <2>1, <2>2
    <3> QED
      BY <1>0, <2>2, <3>1
  <2>5. chunks'[last'].packet_count <= chunks'[last'].disk + sinceFlush' + 1
    BY <1>0, <2>1, <2>2, <2>3, <2>4, BothOneMore
  <2>6. Pending'
    BY <1>00, <2>1, <2>5
  <2>7. Progress'
    BY <2>1
  <2> QED
    BY <2>6, <2>7
<1>4. CASE AppendIndex
  <2>1. /\ index' = [index EXCEPT !.lines = @ + 1]
        /\ pc = "index" /\ sinceFlush' = sinceFlush + 1 /\ UNCHANGED chunks
        /\ (pc' = "flush_chunk" \/ (pc' = "ready" /\ sinceFlush' < FlushPackets))
    BY <1>4 DEF AppendIndex, AppendContractIndex, StreamsInOrder, Running
  <2>2. index'.lines = index.lines + 1 /\ index'.disk = index.disk /\ last' = last
    BY <2>1 DEF TypeOK, IndexTypes, last
  <2>3. chunks # << >>
    BY <2>1 DEF Placed
  <2>4. chunks[last].packet_count <= chunks[last].disk + sinceFlush + 1
    BY <1>00, <2>1, <2>3
  <2>5. sinceFlush + 1 <= LossBound /\ index.lines <= index.disk + sinceFlush
    BY <1>00, <2>1
  <2>6. /\ chunks'[last'].packet_count <= chunks'[last'].disk + sinceFlush'
        /\ chunks'[last'].disk \in Nat /\ sinceFlush' \in Nat
    <3>1. chunks'[last'] = chunks[last]
      BY <2>1, <2>2
    <3>2. chunks[last].disk \in Nat /\ sinceFlush \in Nat /\ chunks[last].packet_count \in Nat
      BY <1>0, <2>3
    <3>3. sinceFlush' = sinceFlush + 1
      BY <2>1
    <3>4. chunks[last].packet_count <= chunks[last].disk + (sinceFlush + 1)
      BY <2>4, <3>2
    <3> QED
      BY <3>1, <3>2, <3>3, <3>4
  <2>7. index'.lines <= index'.disk + sinceFlush' /\ sinceFlush' <= LossBound
    <3>1. sinceFlush' = sinceFlush + 1 /\ index.lines \in Nat /\ index.disk \in Nat
          /\ sinceFlush \in Nat
      BY <1>0, <2>1
    <3>2. index.lines + 1 <= index.disk + (sinceFlush + 1)
      BY <2>5, <3>1
    <3> QED
      BY <2>2, <2>5, <3>1, <3>2
  <2>8. pc' = "ready" => sinceFlush' + 1 <= LossBound
    BY <1>0, <2>1
  <2>9. Pending'
    BY <2>1, <2>6, <2>7, <2>8
  <2>10. Progress'
    BY <2>1
  <2> QED
    BY <2>9, <2>10
<1>5. CASE Close
  BY <1>0, <1>00, <1>5 DEF Close, files, last, Running
<1>6. CASE FlushChunk
  <2>1. /\ chunks' = [chunks EXCEPT ![last].os = chunks[last].packet_count]
        /\ pc = "flush_chunk" /\ pc' = "sync_chunk" /\ UNCHANGED <<index, sinceFlush>>
        /\ chunks # << >>
    BY <1>6 DEF FlushChunk, StreamsInOrder, Running, Placed
  <2>2. /\ last' = last /\ chunks'[last].packet_count = chunks[last].packet_count
        /\ chunks'[last].os = chunks[last].packet_count
        /\ chunks'[last].disk = chunks[last].disk
    BY <1>0, <2>1, ChunkFlushed
  <2> QED
    BY <1>0, <1>00, <2>1, <2>2
<1>7. CASE SyncChunk
  <2>1. /\ chunks' = [chunks EXCEPT ![last].disk = chunks[last].os]
        /\ pc = "sync_chunk" /\ pc' = "flush_index" /\ UNCHANGED <<index, sinceFlush>>
        /\ chunks # << >>
    BY <1>7 DEF SyncChunk, StreamsInOrder, Running, Placed
  <2>2. /\ last' = last /\ chunks'[last].packet_count = chunks[last].packet_count
        /\ chunks'[last].disk = chunks[last].os
    BY <1>0, <2>1, ChunkSyncedTo
  <2> QED
    BY <1>0, <1>00, <2>1, <2>2
<1>8. CASE FlushIndex
  <2>1. /\ index' = [index EXCEPT !.os = index.lines]
        /\ pc = "flush_index" /\ pc' = "sync_index" /\ UNCHANGED <<chunks, sinceFlush>>
    BY <1>8 DEF FlushIndex, StreamsInOrder, Running
  <2>2. /\ index'.lines = index.lines /\ index'.os = index.lines
        /\ index'.disk = index.disk /\ last' = last
    BY <2>1 DEF TypeOK, IndexTypes, last
  <2> QED
    BY <1>0, <1>00, <2>1, <2>2
<1>9. CASE SyncIndex
  <2>1. /\ index' = [index EXCEPT !.disk = index.os]
        /\ pc = "sync_index" /\ pc' = "tmp_open" /\ sinceFlush' = 0 /\ UNCHANGED chunks
    BY <1>9 DEF SyncIndex, StreamsInOrder, Running
  <2>2. index'.lines = index.lines /\ index'.disk = index.os /\ last' = last
    BY <2>1 DEF TypeOK, IndexTypes, last
  <2> QED
    BY <1>0, <1>00, <2>1, <2>2
<1>10. CASE OpenTmp
  BY <1>0, <1>00, <1>10 DEF OpenTmp, files, last
<1>11. CASE WriteTmp
  BY <1>0, <1>00, <1>11 DEF WriteTmp, files, last
<1>12. CASE RemoveManifest
  BY <1>0, <1>00, <1>12 DEF RemoveManifest, files, last
<1>13. CASE RenameTmp
  BY <1>0, <1>00, <1>13 DEF RenameTmp, files, last
<1>14. CASE RewriteManifest \/ DropTmp \/ EndRewrite
  BY <1>0, <1>00, <1>14 DEF RewriteManifest, DropTmp, EndRewrite, files, last
<1>15. CASE FlushReturns
  BY <1>0, <1>00, <1>15 DEF FlushReturns, files, last
<1>16. CASE UNCHANGED vars
  BY <1>0, <1>00, <1>16 DEF vars, files, last
<1> QED
  BY <1>1, <1>2, <1>3, <1>4, <1>5, <1>6, <1>7, <1>8, <1>9, <1>10, <1>11, <1>12,
     <1>13, <1>14, <1>15, <1>16 DEF Next, FlushStep, Kill, PowerLoss, Running


-----------------------------------------------------------------------------
LEMMA DurableStart == WriterAssumption /\ Init => Durable
<1>1. WriterAssumption /\ Init => TypeOK /\ Placed
  BY TypesStart
<1>2. WriterAssumption /\ Init => Undisturbed
  BY DEF WriterAssumption, Init, Undisturbed, StreamsInOrder, RotatedSynced, Pending,
         Progress,
         Running, FlushSteps, LossBound, IndexSynced, last
<1> QED
  BY <1>1, <1>2 DEF Durable

LEMMA DurableKept ==
  ASSUME WriterAssumption, Durable, [Next]_vars
  PROVE  Durable'
<1>1. TypeOK' /\ Placed'
  BY TypesKept DEF Durable
<1>2. ASSUME faults' = 0
      PROVE  /\ StreamsInOrder' /\ RotatedSynced'
             /\ pc' \in Running \cup {"closed"} => Pending' /\ Progress'
  <2>1. faults = 0 /\ ~Fault
    BY <1>2, NoFaultBefore DEF Durable, TypeOK
  <2>2. /\ StreamsInOrder /\ RotatedSynced
        /\ pc \in Running \cup {"closed"} => Pending /\ Progress
    BY <2>1 DEF Durable, Undisturbed
  <2>3. StreamsInOrder'
    BY <2>1, <2>2, StreamsKept DEF Durable, TypeOK
  <2>4. pc' \in Running \cup {"closed"} => Pending' /\ Progress'
    BY <2>1, <2>2, AtRiskKept DEF Durable
  <2>5. CASE pc \in Running \cup {"closed"}
    BY <2>2, <2>3, <2>4, <2>5, RotatedKept DEF Durable
  <2>6. CASE pc \notin Running \cup {"closed"}
    <3>1. UNCHANGED chunks
      BY <2>6 DEF Next, FlushStep, OpenChunk, WriteContractFrame, AppendFrame,
             AppendIndex, AppendContractIndex, Close,
         FlushChunk, SyncChunk, FlushIndex, SyncIndex, OpenTmp, WriteTmp, RemoveManifest,
         RenameTmp,
         RewriteManifest, DropTmp, EndRewrite, FlushReturns, Kill, PowerLoss, vars, files, Running, FlushSteps
    <3> QED
      BY <2>2, <2>3, <2>4, <3>1 DEF RotatedSynced, last
  <2> QED
    BY <2>5, <2>6
<1> QED
  BY <1>1, <1>2 DEF Durable, Undisturbed

LEMMA AlwaysDurable == Spec => []Durable
<1>1. Init => Durable
  BY DurableStart, WriterAssumption
<1>2. Durable /\ [Next]_vars => Durable'
  BY DurableKept, WriterAssumption
<1> QED
  BY <1>1, <1>2, PTL DEF Spec

(* What is found after a power loss is at least what was synced, so the    *)
(* frames at risk are the ones Pending bounds.                             *)
LEMMA LossBounded ==
  ASSUME WriterAssumption, Durable, BoundedLoss, [Next]_vars
  PROVE  BoundedLoss'
<1>0. /\ index.lines \in Nat /\ index.os \in Nat /\ index.disk \in Nat
      /\ sinceFlush \in Nat /\ last \in Nat /\ LossBound \in Nat /\ LossBound >= 1
      /\ chunks # << >> => /\ last \in 1..last
                           /\ chunks[last].packet_count \in Nat /\ chunks[last].disk \in Nat
  BY NumbersOfFiles DEF Durable, LossBound, WriterAssumption
<1>1. CASE PowerLoss /\ faults' = 0
  <2>1. /\ faults = 0 /\ pc \in Running \cup {"closed"}
        /\ UNCHANGED <<chunks, index>> /\ last' = last
    BY <1>1 DEF PowerLoss, bounds, files, last
  <2>2. PICK frames \in Found([i \in 1..last |-> chunks[i].disk]), n \in index.disk..index.lines :
           left' = [frames |-> frames, index |-> n]
    BY <1>1 DEF PowerLoss
  <2>3. /\ \A i \in 1..last : frames[i] \in chunks[i].disk..chunks[i].packet_count
        /\ n \in index.disk..index.lines
        /\ left'.frames = frames /\ left'.index = n
    BY <2>2 DEF Found
  <2>4. RotatedSynced /\ Pending /\ Progress
    BY <2>1 DEF Durable, Undisturbed
  <2>5. \A i \in 1..last : chunks[i] \in Chunks
    BY ElementOfSeq, <1>0 DEF Durable, TypeOK, ChunkTypes, last
  <2>6. \A i \in 1..last : chunks[i].packet_count \in Nat /\ chunks[i].disk \in Nat
    BY <2>5 DEF Chunks, WriterAssumption
  <2>7. \A i \in 1..last : i # last => chunks[i].packet_count <= frames[i] + 0
    BY <2>3, <2>4, <2>6 DEF RotatedSynced
  <2>8. sinceFlush <= LossBound /\ (pc = "index" => sinceFlush + 1 <= LossBound)
    BY <2>4 DEF Pending
  <2>9. last \in 1..last => chunks[last].packet_count <= frames[last] + LossBound
    <3>1. SUFFICES ASSUME last \in 1..last
                   PROVE  chunks[last].packet_count <= frames[last] + LossBound
      OBVIOUS
    <3>2. chunks # << >>
      BY <3>1 DEF last
    <3>a. chunks[last].packet_count <= chunks[last].disk + sinceFlush
                                         + (IF pc = "index" THEN 1 ELSE 0)
      BY <2>4, <3>2 DEF Pending
    <3>3. chunks[last].packet_count <= chunks[last].disk + LossBound
      BY <1>0, <2>8, <3>2, <3>a
    <3> QED
      BY <1>0, <2>3, <2>6, <3>1, <3>3
  <2>10. index.lines <= n + LossBound
    BY <1>0, <2>3, <2>4, <2>8 DEF Pending
  <2> QED
    BY <2>1, <2>3, <2>7, <2>9, <2>10 DEF BoundedLoss, LossBound
<1>2. CASE UNCHANGED <<pc, chunks, index, faults, left>>
  BY <1>2 DEF BoundedLoss, last, LossBound
<1>3. CASE pc' # "power_lost" \/ faults' # 0
  BY <1>3 DEF BoundedLoss
<1> QED
  BY <1>1, <1>2, <1>3
  DEF Next, FlushStep, OpenChunk, WriteContractFrame, AppendFrame, AppendIndex,
      AppendContractIndex, Close,
      FlushChunk, SyncChunk, FlushIndex, SyncIndex, OpenTmp, WriteTmp, RemoveManifest,
      RenameTmp,
      RewriteManifest, DropTmp, EndRewrite, FlushReturns, Kill, vars, files, bounds

(* A power loss takes at most the last flush_packets frames of the current *)
(* chunk, whatever the limits and whenever it comes.                       *)
THEOREM PowerLossIsBounded == Spec => []BoundedLoss
<1>1. Init => BoundedLoss
  BY DEF Init, BoundedLoss
<1>2. Durable /\ BoundedLoss /\ [Next]_vars => BoundedLoss'
  BY LossBounded, WriterAssumption
<1> QED
  BY <1>1, <1>2, AlwaysDurable, PTL DEF Spec

(* After Close every frame and every index line is on the disk.            *)
THEOREM ClosedIsOnDisk == Spec => []ClosedIsDurable
<1>1. Durable => ClosedIsDurable
  <2>1. SUFFICES ASSUME Durable, pc = "closed", faults = 0
                 PROVE  /\ \A i \in 1..last : chunks[i].disk = chunks[i].packet_count
                        /\ index.disk = index.lines
    BY DEF ClosedIsDurable
  <2>2. RotatedSynced /\ Progress
    BY <2>1 DEF Durable, Undisturbed
  <2>3. chunks # << >>
    BY <2>1 DEF Durable, Placed
  <2> QED
    BY <2>1, <2>2, <2>3 DEF RotatedSynced, Progress, ChunkSynced, IndexSynced
<1> QED
  BY <1>1, AlwaysDurable, PTL

-----------------------------------------------------------------------------
(* The listing of the chunks.  Without a fault the manifest is whole when  *)
(* a Flush returns and, between remove and rename, the temporary file is.  *)
ListedIn(file) == Covers(file, flushed)

Fallback == {"rewrite", "drop_tmp", "rewrite_end", "give_up"}

Listed ==
  /\ Len(flushed) <= last
  /\ \A i \in 1..Len(flushed) : flushed[i] <= chunks[i].packet_count
  /\ pc \notin Fallback
  /\ pc \in {"remove", "rename"} => tmp = WholeFile
  /\ pc \in {"flushed", "closed"} => manifest = WholeFile
  /\ pc \in (Running \cup {"closed"}) \ {"tmp_write", "remove", "rename"} => tmp = NoFile
  /\ flushed # << >> =>
       ListedIn(manifest) \/ (ListedIn(tmp) /\ pc \in {"rename", "killed", "power_lost"})

(* How the counts of the chunks grow.                                      *)
LEMMA CountsGrow ==
  ASSUME WriterAssumption, TypeOK, Placed, [Next]_vars
  PROVE  /\ last \in Nat /\ last' \in Nat /\ last <= last'
         /\ \A i \in 1..last : /\ chunks[i].packet_count \in Nat
                               /\ chunks'[i].packet_count \in Nat
                               /\ chunks[i].packet_count <= chunks'[i].packet_count
<1>0. chunks \in Seq(Chunks) /\ (chunks # << >> => last \in 1..last) /\ last \in Nat
  BY NumbersOfFiles DEF TypeOK, ChunkTypes
<1>a. \A i \in 1..last : chunks[i] \in Chunks
  BY <1>0, ElementOfSeq DEF last
<1>1. \A i \in 1..last : chunks[i] \in Chunks /\ chunks[i].packet_count \in Nat
  BY <1>a DEF Chunks, WriterAssumption
<1>2. CASE UNCHANGED chunks
  BY <1>0, <1>1, <1>2 DEF last
<1>3. CASE OpenChunk /\ chunks' = Append(chunks, NewChunk)
  <2>1. last' = last + 1 /\ \A i \in 1..last : chunks'[i] = chunks[i]
    BY <1>0, <1>3, ChunkOpened
  <2> QED BY <1>0, <1>1, <2>1
<1>4. CASE AppendFrame /\ chunks' = [chunks EXCEPT ![last].packet_count = @ + 1]
  <2>1. chunks # << >> /\ chunks[last].packet_count < ChunkMaxFrames
    BY <1>4 DEF AppendFrame, Placed
  <2>2. /\ last' = last /\ \A i \in 1..last : i # last => chunks'[i] = chunks[i]
        /\ chunks'[last].packet_count = chunks[last].packet_count + 1
    BY <1>0, <1>4, <2>1, FrameAppended
  <2> QED BY <1>0, <1>1, <2>1, <2>2
<1>5. CASE FlushChunk /\ chunkStream = "good" /\ chunks' = [chunks EXCEPT ![last].os = chunks[last].packet_count]
  <2>1. chunks # << >> /\ chunks[last].packet_count \in Nat
    BY <1>0, <1>1, <1>5 DEF Placed
  <2>2. /\ last' = last /\ \A i \in 1..last : i # last => chunks'[i] = chunks[i]
        /\ chunks'[last].packet_count = chunks[last].packet_count
    BY <1>0, <1>5, <2>1, ChunkFlushed
  <2> QED BY <1>0, <1>1, <2>1, <2>2
<1>6. CASE SyncChunk /\ chunkStream # "closed" /\ chunks' = [chunks EXCEPT ![last].disk = chunks[last].os]
  <2>1. chunks # << >> /\ chunks[last].os \in Nat
    BY <1>0, <1>1, <1>6 DEF Placed, Chunks
  <2>2. /\ last' = last /\ \A i \in 1..last : i # last => chunks'[i] = chunks[i]
        /\ chunks'[last].packet_count = chunks[last].packet_count
    BY <1>0, <1>6, <2>1, ChunkSyncedTo
  <2> QED BY <1>0, <1>1, <2>1, <2>2
<1> QED
  BY <1>2, <1>3, <1>4, <1>5, <1>6
  DEF Next, FlushStep, OpenChunk, WriteContractFrame, AppendFrame, AppendIndex,
      AppendContractIndex, Close, FlushChunk, SyncChunk, FlushIndex, SyncIndex, OpenTmp,
      WriteTmp, RemoveManifest, RenameTmp,
      RewriteManifest, DropTmp, EndRewrite, FlushReturns, Kill, PowerLoss,
      vars, files

(* A whole file covers every earlier listing, since the counts only grow.  *)
LEMMA WholeFileLists ==
  ASSUME NEW counts \in Seq(Nat), Len(counts) <= last, last \in Nat,
         \A i \in 1..Len(counts) : counts[i] <= chunks[i].packet_count
  PROVE  Covers(WholeFile, counts)
<1>1. Len(counts) \in Nat
  BY LenProperties
<1>2. WholeFile.state = "whole" /\ WholeFile.lists = Counts
  BY DEF WholeFile
<1>3. Len(Counts) = last /\ \A i \in 1..last : Counts[i] = chunks[i].packet_count
  BY DEF Counts
<1>4. \A i \in 1..Len(counts) : i \in 1..last
  BY <1>1
<1> QED BY <1>2, <1>3, <1>4 DEF Covers

LEMMA ListedStart == Init => Listed
<1> SUFFICES ASSUME Init PROVE Listed
  OBVIOUS
<1>1. flushed = << >> /\ chunks = << >> /\ tmp = NoFile /\ pc = "open" /\ Len(<< >>) = 0
  BY DEF Init
<1> QED BY <1>1 DEF Listed, Fallback, last

LEMMA ListedKept ==
  ASSUME WriterAssumption, TypeOK, Placed, Listed, [Next]_vars, ~Fault
  PROVE  Listed'
<1>0. /\ last \in Nat /\ last' \in Nat /\ last <= last'
      /\ \A i \in 1..last : /\ chunks[i].packet_count \in Nat
                            /\ chunks'[i].packet_count \in Nat
                            /\ chunks[i].packet_count <= chunks'[i].packet_count
  BY CountsGrow
<1>1. flushed \in Seq(Nat) /\ Len(flushed) \in Nat
  BY LenProperties DEF TypeOK, ListingTypes
<1>2. \A i \in 1..Len(flushed) : flushed[i] \in Nat
  BY <1>1, ElementOfSeq
<1>a. UNCHANGED flushed => /\ Len(flushed') <= last'
                           /\ \A i \in 1..Len(flushed') : flushed'[i] <= chunks'[i].packet_count
  <2> SUFFICES ASSUME UNCHANGED flushed
               PROVE  /\ Len(flushed) <= last'
                      /\ \A i \in 1..Len(flushed) : flushed[i] <= chunks'[i].packet_count
    OBVIOUS
  <2>1. Len(flushed) <= last'
    BY <1>0, <1>1 DEF Listed
  <2>2. ASSUME NEW i \in 1..Len(flushed) PROVE flushed[i] <= chunks'[i].packet_count
    <3>1. i \in 1..last
      BY <1>0, <1>1 DEF Listed
    <3>2. flushed[i] <= chunks[i].packet_count
      BY DEF Listed
    <3> QED BY <1>0, <1>2, <3>1, <3>2
  <2> QED BY <2>1, <2>2
<1>b. ListedIn(WholeFile)
  BY <1>0, <1>1, WholeFileLists DEF Listed, ListedIn
<1>c. UNCHANGED <<flushed, manifest>> => (ListedIn(manifest) => ListedIn(manifest)')
  BY DEF ListedIn, Covers
<1>d. UNCHANGED <<flushed, tmp>> => (ListedIn(tmp) => ListedIn(tmp)')
  BY DEF ListedIn, Covers
<1> USE DEF Running, FlushSteps, Fallback
<1>3. CASE /\ UNCHANGED <<manifest, tmp, flushed>>
           /\ pc' \notin {"remove", "rename", "flushed", "tmp_write"} \cup Fallback
           /\ pc \notin {"tmp_write", "remove", "rename"}
           /\ pc' # "closed" /\ pc \in Running
  BY <1>3, <1>a, <1>c DEF Listed
<1>4. CASE OpenTmp
  BY <1>4, <1>a, <1>c DEF OpenTmp, Listed
<1>5. CASE WriteTmp
  <2>1. /\ tmp' = WholeFile /\ pc = "tmp_write" /\ pc' = "remove"
        /\ UNCHANGED <<chunks, flushed, manifest>>
    BY <1>5 DEF WriteTmp, files
  <2>2. WholeFile' = WholeFile
    BY <2>1 DEF WholeFile, Counts, last
  <2> QED BY <2>1, <2>2, <1>a, <1>c DEF Listed
<1>6. CASE RemoveManifest
  <2>1. /\ tmp = WholeFile /\ pc = "remove" /\ pc' = "rename"
        /\ UNCHANGED <<chunks, flushed, tmp>>
    BY <1>6 DEF RemoveManifest, files, Listed
  <2>2. WholeFile' = WholeFile
    BY <2>1 DEF WholeFile, Counts, last
  <2>3. ListedIn(tmp)'
    BY <2>1, <1>b, <1>d
  <2> QED BY <2>1, <2>2, <2>3, <1>a DEF Listed
<1>7. CASE RenameTmp
  <2>1. /\ manifest' = WholeFile /\ tmp' = NoFile /\ pc = "rename" /\ pc' = "flushed"
        /\ UNCHANGED <<chunks, flushed>>
    BY <1>7 DEF RenameTmp, files, Listed
  <2>2. WholeFile' = WholeFile
    BY <2>1 DEF WholeFile, Counts, last
  <2>3. ListedIn(manifest)'
    BY <2>1, <1>b DEF ListedIn, Covers
  <2> QED BY <2>1, <2>2, <2>3, <1>a DEF Listed
<1>8. CASE RewriteManifest \/ DropTmp \/ EndRewrite
  BY <1>8 DEF RewriteManifest, DropTmp, EndRewrite, Listed
<1>9. CASE FlushReturns
  <2>1. /\ flushed' = Counts /\ manifest = WholeFile /\ tmp = NoFile
        /\ pc' \in {"ready", "open", "closed"} /\ UNCHANGED <<chunks, manifest, tmp>>
    BY <1>9 DEF FlushReturns, Listed, listing
  <2>2. WholeFile' = WholeFile /\ last' = last
    BY <2>1 DEF WholeFile, Counts, last
  <2>3. Len(Counts) = last /\ \A i \in 1..last : Counts[i] = chunks[i].packet_count
    BY <1>0 DEF Counts
  <2>4. /\ Len(flushed') <= last'
        /\ \A i \in 1..Len(flushed') : flushed'[i] <= chunks'[i].packet_count
    BY <1>0, <2>1, <2>2, <2>3
  <2>5. WholeFile.state = "whole" /\ WholeFile.lists = Counts
    BY DEF WholeFile
  <2>6. ListedIn(manifest)'
    <3>1. manifest'.state = "whole" /\ manifest'.lists = Counts
      BY <2>1, <2>5
    <3>2. \A i \in 1..Len(flushed') : flushed'[i] <= manifest'.lists[i]
      BY <1>0, <2>1, <2>3, <3>1
    <3>3. Len(flushed') <= Len(manifest'.lists)
      BY <1>0, <2>1, <2>3, <3>1
    <3> QED BY <3>1, <3>2, <3>3 DEF ListedIn, Covers
  <2> QED BY <2>1, <2>2, <2>4, <2>6 DEF Listed
<1>10. CASE Kill \/ PowerLoss
  <2>1. UNCHANGED <<chunks, flushed, manifest, tmp>> /\ pc' \in {"killed", "power_lost"}
        /\ pc \in Running \cup {"closed"}
    BY <1>10 DEF Kill, PowerLoss, files, listing
  <2> QED BY <2>1, <1>a, <1>c, <1>d DEF Listed
<1>11. CASE UNCHANGED vars
  <2>1. UNCHANGED <<pc, chunks, flushed, manifest, tmp>>
    BY <1>11 DEF vars, files, listing
  <2>2. WholeFile' = WholeFile
    BY <2>1 DEF WholeFile, Counts, last
  <2> QED BY <2>1, <2>2, <1>a, <1>c, <1>d DEF Listed
<1>12. CASE \/ OpenChunk \/ WriteContractFrame \/ AppendFrame \/ AppendIndex \/ Close
            \/ FlushChunk \/ SyncChunk \/ FlushIndex \/ SyncIndex
  BY <1>12, <1>3
  DEF OpenChunk, WriteContractFrame, AppendFrame, AppendIndex, Close, FlushChunk, SyncChunk,
      FlushIndex, SyncIndex, listing
<1> QED
  BY <1>4, <1>5, <1>6, <1>7, <1>8, <1>9, <1>10, <1>11, <1>12 DEF Next, FlushStep

(* Whatever calls fail, what the last update put in place is covered by    *)
(* the manifest or by the temporary file of the next update, until the     *)
(* fallback gives that file up.                                            *)
Spare == {"rename", "rewrite", "drop_tmp", "give_up"}

ListingKept ==
  /\ Len(listed) <= last
  /\ \A i \in 1..Len(listed) : listed[i] <= chunks[i].packet_count
  /\ pc \in Spare \cup {"remove"} => tmp = WholeFile
  /\ pc = "rewrite_end" => listed = << >>
  /\ listed # << >> =>
       \/ Covers(manifest, listed)
       \/ Covers(tmp, listed) /\ pc \in Spare \cup {"killed", "power_lost"}

LEMMA ListingStart == Init => ListingKept
<1> SUFFICES ASSUME Init PROVE ListingKept
  OBVIOUS
<1>1. listed = << >> /\ chunks = << >> /\ pc = "open" /\ Len(<< >>) = 0
  BY DEF Init
<1> QED BY <1>1 DEF ListingKept, Spare, last

(* A listing just put in place has the counts of the chunks as they are.   *)
LEMMA JustListed ==
  ASSUME WriterAssumption, TypeOK, UNCHANGED chunks, listed' = Counts, manifest' = WholeFile
  PROVE  /\ Len(listed') <= last'
         /\ \A i \in 1..Len(listed') : listed'[i] <= chunks'[i].packet_count
         /\ Covers(manifest', listed')
<1>1. Counts \in Seq(Nat) /\ last \in Nat /\ last' = last
  BY CountsAreNumbers, NumbersOfFiles DEF TypeOK, ChunkTypes, last
<1>2. Len(Counts) = last /\ \A i \in 1..last : Counts[i] = chunks[i].packet_count
  BY <1>1 DEF Counts
<1>3. \A i \in 1..last : chunks[i].packet_count \in Nat
  BY <1>1, <1>2, ElementOfSeq
<1>4. Covers(WholeFile, Counts)
  BY <1>1, <1>2, <1>3, WholeFileLists
<1> QED BY <1>1, <1>2, <1>3, <1>4

LEMMA ListingStays ==
  ASSUME WriterAssumption, TypeOK, Placed, ListingKept, [Next]_vars
  PROVE  ListingKept'
<1>0. /\ last \in Nat /\ last' \in Nat /\ last <= last'
      /\ \A i \in 1..last : /\ chunks[i].packet_count \in Nat
                            /\ chunks'[i].packet_count \in Nat
                            /\ chunks[i].packet_count <= chunks'[i].packet_count
  BY CountsGrow
<1>1. listed \in Seq(Nat) /\ Len(listed) \in Nat /\ \A i \in 1..Len(listed) : listed[i] \in Nat
  BY LenProperties, ElementOfSeq DEF TypeOK, ListingTypes
<1>a. UNCHANGED listed => /\ Len(listed') <= last'
                          /\ \A i \in 1..Len(listed') : listed'[i] <= chunks'[i].packet_count
  <2> SUFFICES ASSUME UNCHANGED listed
               PROVE  /\ Len(listed) <= last'
                      /\ \A i \in 1..Len(listed) : listed[i] <= chunks'[i].packet_count
    OBVIOUS
  <2>1. Len(listed) <= last'
    BY <1>0, <1>1 DEF ListingKept
  <2>2. ASSUME NEW i \in 1..Len(listed) PROVE listed[i] <= chunks'[i].packet_count
    <3>1. i \in 1..last
      BY <1>0, <1>1 DEF ListingKept
    <3>2. listed[i] <= chunks[i].packet_count
      BY DEF ListingKept
    <3> QED BY <1>0, <1>1, <3>1, <3>2
  <2> QED BY <2>1, <2>2
<1>b. Covers(WholeFile, listed)
  BY <1>0, <1>1, WholeFileLists DEF ListingKept
<1>c. UNCHANGED chunks => WholeFile' = WholeFile
  BY DEF WholeFile, Counts, last
<1> USE DEF Spare
<1>2. CASE /\ UNCHANGED <<manifest, listed>> /\ pc \notin Spare
           /\ pc \notin {"killed", "power_lost"}
           /\ pc' \notin Spare \cup {"remove", "rewrite_end"}
  BY <1>2, <1>a DEF ListingKept
<1>3. CASE WriteTmp
  <2>1. /\ UNCHANGED <<chunks, manifest, listed>> /\ pc = "tmp_write"
        /\ (pc' = "remove" /\ tmp' = WholeFile) \/ pc' = "flushed"
    BY <1>3 DEF WriteTmp, files
  <2> QED BY <2>1, <1>a, <1>c DEF ListingKept
<1>4. CASE RemoveManifest
  <2>1. /\ UNCHANGED <<chunks, tmp, listed>> /\ pc = "remove" /\ pc' = "rename"
    BY <1>4 DEF RemoveManifest, files
  <2> QED BY <2>1, <1>a, <1>b, <1>c DEF ListingKept
<1>5. CASE RenameTmp /\ pc' = "flushed"
  <2>1. UNCHANGED chunks /\ manifest' = WholeFile /\ listed' = Counts
    BY <1>5 DEF RenameTmp, files, ListingKept
  <2> QED BY <1>5, <2>1, JustListed DEF ListingKept
<1>6. CASE RenameTmp /\ pc' = "rewrite"
  <2>1. UNCHANGED <<chunks, tmp, manifest, listed>> /\ pc = "rename"
    BY <1>6 DEF RenameTmp, files, listing
  <2> QED BY <1>6, <2>1, <1>a, <1>b, <1>c DEF ListingKept
<1>7. CASE RewriteManifest
  <2>1. /\ UNCHANGED <<chunks, tmp, listed>> /\ pc = "rewrite"
        /\ pc' \in {"drop_tmp", "give_up"}
    BY <1>7 DEF RewriteManifest, files
  <2> QED BY <2>1, <1>a, <1>b, <1>c DEF ListingKept
<1>8. CASE DropTmp
  <2>1. listed' = << >> /\ pc' \in {"rewrite_end", "flushed"} /\ Len(<< >>) = 0
    BY <1>8 DEF DropTmp
  <2> QED BY <1>0, <2>1 DEF ListingKept
<1>9. CASE EndRewrite
  <2>1. /\ UNCHANGED chunks /\ pc = "rewrite_end" /\ pc' = "flushed"
        /\ \/ manifest' = WholeFile /\ listed' = Counts
           \/ UNCHANGED <<manifest, listed>>
    BY <1>9 DEF EndRewrite, files
  <2>2. CASE manifest' = WholeFile /\ listed' = Counts
    BY <2>1, <2>2, JustListed DEF ListingKept
  <2>3. CASE UNCHANGED <<manifest, listed>>
    BY <2>1, <2>3, <1>a DEF ListingKept
  <2> QED BY <2>1, <2>2, <2>3
<1>10. CASE Kill \/ PowerLoss
  <2>1. UNCHANGED <<chunks, listed, manifest, tmp>> /\ pc' \in {"killed", "power_lost"}
    BY <1>10 DEF Kill, PowerLoss, files, listing
  <2>2. pc \in Running \cup {"closed"}
    BY <1>10 DEF Kill, PowerLoss
  <2> QED BY <2>1, <2>2, <1>a DEF ListingKept
<1>11. CASE UNCHANGED vars
  <2>1. UNCHANGED <<pc, chunks, listed, manifest, tmp>>
    BY <1>11 DEF vars, files, listing
  <2> QED BY <2>1, <1>a, <1>c DEF ListingKept
<1>12. CASE \/ OpenChunk \/ WriteContractFrame \/ AppendFrame \/ AppendIndex \/ Close
            \/ FlushChunk \/ SyncChunk \/ FlushIndex \/ SyncIndex \/ OpenTmp \/ FlushReturns
  BY <1>12, <1>2
  DEF OpenChunk, WriteContractFrame, AppendFrame, AppendIndex, Close, FlushChunk, SyncChunk,
      FlushIndex, SyncIndex, OpenTmp, FlushReturns, listing
<1>13. RenameTmp => pc' \in {"flushed", "rewrite"}
  BY DEF RenameTmp
<1> QED
  BY <1>3, <1>4, <1>5, <1>6, <1>7, <1>8, <1>9, <1>10, <1>11, <1>12, <1>13
  DEF Next, FlushStep

(* However the process is killed, a whole listing is there under one of    *)
(* its two names.  Whatever calls fail, it covers the listing last put in  *)
(* place, until the fallback of a failed rename gives the temporary file   *)
(* up; if no call fails it covers the last completed Flush                 *)
(* (util.hpp:73-99).                                                       *)
THEOREM ListingIsNeverLost == Spec => []ManifestRecoverable
<1> DEFINE I == TypeOK /\ Placed /\ ListingKept /\ (faults = 0 => Listed)
<1>1. Init => I
  BY TypesStart, ListingStart, ListedStart, WriterAssumption
<1>2. I /\ [Next]_vars => I'
  <2> SUFFICES ASSUME I, [Next]_vars PROVE I'
    OBVIOUS
  <2>1. TypeOK' /\ Placed' /\ ListingKept'
    BY TypesKept, ListingStays, WriterAssumption
  <2>2. ASSUME faults' = 0 PROVE Listed'
    <3>1. faults = 0 /\ ~Fault
      BY <2>2, NoFaultBefore DEF TypeOK
    <3> QED BY <3>1, ListedKept, WriterAssumption
  <2> QED BY <2>1, <2>2
<1>3. I => ManifestRecoverable
  BY DEF ListingKept, Listed, ListedIn, Recoverable, ManifestRecoverable
<1> QED BY <1>1, <1>2, <1>3, PTL DEF Spec

-----------------------------------------------------------------------------
(* What one fault can do.  It strikes the chunks or the index, never both: *)
(* the one that is still in order convicts the other.                      *)
Alive == pc \in Running \cup {"closed"}

Handed(i) == chunks[i].os = chunks[i].packet_count

(* Every frame accepted so far reaches the system at the next flush.       *)
ChunksInOrder ==
  /\ chunkStream # "bad"
  /\ \A i \in 1..last :
       (i # last \/ chunkStream = "closed" \/ pc \in FlushSteps \ {"flush_chunk"}) => Handed(i)

(* The index has one line for each accepted frame.                         *)
IndexInOrder ==
  /\ indexStream # "bad" /\ (indexStream = "good" => index.exists)
  /\ chunks # << >> => index.exists /\ (pc # "closed" => indexStream = "good")
  /\ SumSeq(Counts) = index.lines + (IF pc = "index" THEN 1 ELSE 0)
  /\ pc \in (FlushSteps \ {"flush_chunk", "sync_chunk", "flush_index"}) \cup {"closed"} =>
       index.os = index.lines

StreamClosed == pc \in {"open", "closed"} => chunkStream = "closed"

OneInOrder ==
  /\ StreamClosed
  /\ Alive /\ faults = 0 => ChunksInOrder /\ IndexInOrder
  /\ Alive /\ faults <= 1 => ChunksInOrder \/ IndexInOrder

LEMMA StreamClosedKept ==
  ASSUME ControlTypes, StreamClosed, [Next]_vars
  PROVE  StreamClosed'
BY DEF StreamClosed, Next, FlushStep, OpenChunk, WriteContractFrame, AppendFrame, AppendIndex,
       AppendContractIndex, Close, FlushChunk, SyncChunk, FlushIndex, SyncIndex, OpenTmp,
       WriteTmp, RemoveManifest, RenameTmp,
       RewriteManifest, DropTmp, EndRewrite, FlushReturns, Kill, PowerLoss,
       vars, files

(* No step revives a dead process, and a step fails at most once.          *)
LEMMA StaysDead ==
  ASSUME ControlTypes, [Next]_vars
  PROVE  /\ Alive' => Alive
         /\ faults \in Nat /\ (faults' = faults \/ faults' = faults + 1)
<1>1. faults \in Nat /\ (faults' = faults \/ faults' = faults + 1)
  BY DEF ControlTypes, Next, FlushStep, OpenChunk, WriteContractFrame, AppendFrame,
         AppendIndex, AppendContractIndex, Close, FlushChunk, SyncChunk, FlushIndex,
         SyncIndex, OpenTmp, WriteTmp, RemoveManifest, RenameTmp,
         RewriteManifest, DropTmp, EndRewrite,
         FlushReturns, Kill, PowerLoss,
         OpenIndex, Fault, NoFault, vars, bounds
<1>2. Alive' => Alive
  BY DEF Alive, Running, FlushSteps, Next, FlushStep, OpenChunk, WriteContractFrame, AppendFrame,
         AppendIndex, AppendContractIndex, Close, FlushChunk, SyncChunk, FlushIndex,
         SyncIndex, OpenTmp, WriteTmp, RemoveManifest, RenameTmp,
         RewriteManifest, DropTmp, EndRewrite,
         FlushReturns, Kill, PowerLoss, vars
<1> QED BY <1>1, <1>2

(* Only a failing write or flush of the chunk disturbs the chunks.         *)
LEMMA ChunksStayInOrder ==
  ASSUME WriterAssumption, TypeOK, Placed, StreamClosed, ChunksInOrder, [Next]_vars,
         faults' = faults \/ pc \notin {"append", "flush_chunk"}, Alive'
  PROVE  ChunksInOrder'
<1>0. /\ chunks \in Seq(Chunks) /\ (chunks # << >> => last \in 1..last) /\ last \in Nat
      /\ faults \in Nat
  BY NumbersOfFiles DEF TypeOK, ChunkTypes, ControlTypes
<1>f. faults + 1 # faults
  BY <1>0
<1> USE DEF FlushSteps
<1>1. CASE OpenChunk
  <2>1. \A i \in 1..last : Handed(i)
    BY <1>1 DEF OpenChunk, StreamClosed, ChunksInOrder
  <2>2. CASE chunks' = Append(chunks, NewChunk)
    <3>1. chunkStream' = "good" /\ pc' \in {"ready", "append"}
      <4>1. chunks' # chunks
        BY <1>0, <2>2, ChunkOpened DEF last
      <4> QED BY <1>1, <4>1 DEF OpenChunk, files
    <3>2. last' = last + 1 /\ \A i \in 1..last : chunks'[i] = chunks[i]
      BY <1>0, <2>2, ChunkOpened
    <3>3. \A i \in 1..last' : i # last' => i \in 1..last
      BY <1>0, <3>2
    <3> QED BY <2>1, <3>1, <3>2, <3>3 DEF ChunksInOrder, Handed
  <2>3. CASE UNCHANGED files
    <3>1. UNCHANGED <<chunks, chunkStream>> /\ last' = last
      BY <2>3 DEF files, last
    <3> QED BY <2>1, <3>1 DEF ChunksInOrder, Handed
  <2> QED BY <1>1, <2>2, <2>3 DEF OpenChunk
<1>2. CASE AppendFrame
  <2>1. /\ chunkStream = "good" /\ chunkStream' = "good" /\ pc = "append" /\ pc' = "index"
        /\ chunks' = [chunks EXCEPT ![last].packet_count = @ + 1]
    BY <1>2, <1>f DEF AppendFrame, ChunksInOrder, Fault, Placed
  <2>2. chunks # << >> /\ chunks[last].packet_count < ChunkMaxFrames
    BY <2>1 DEF Placed
  <2>3. last' = last /\ \A i \in 1..last : i # last => chunks'[i] = chunks[i]
    BY <1>0, <2>1, <2>2, FrameAppended
  <2> QED BY <2>1, <2>3 DEF ChunksInOrder, Handed
<1>3. CASE FlushChunk
  <2>1. CASE chunkStream = "good"
    <3>1. /\ chunkStream' = "good" /\ pc' = "sync_chunk"
          /\ chunks' = [chunks EXCEPT ![last].os = chunks[last].packet_count]
      BY <1>3, <1>f, <2>1 DEF FlushChunk, Fault
    <3>2. chunks # << >> /\ chunks[last].packet_count \in Nat
      BY <1>0, <2>1, NumbersOfFiles DEF Placed
    <3>3. /\ last' = last /\ \A i \in 1..last : i # last => chunks'[i] = chunks[i]
          /\ chunks'[last].os = chunks[last].packet_count
          /\ chunks'[last].packet_count = chunks[last].packet_count
      BY <1>0, <3>1, <3>2, ChunkFlushed
    <3> QED BY <3>1, <3>3 DEF ChunksInOrder, Handed
  <2>2. CASE chunkStream = "closed"
    <3>1. UNCHANGED <<chunks, chunkStream>> /\ last' = last
      BY <1>3, <2>2 DEF FlushChunk, last
    <3> QED BY <2>2, <3>1 DEF ChunksInOrder, Handed
  <2> QED BY <2>1, <2>2 DEF ChunksInOrder, TypeOK, ControlTypes, Streams
<1>4. CASE SyncChunk
  <2>1. chunkStream' = chunkStream /\ \A i \in 1..last : Handed(i)
    BY <1>4 DEF SyncChunk, ChunksInOrder
  <2>2. CASE UNCHANGED chunks
    BY <2>1, <2>2 DEF ChunksInOrder, Handed, last
  <2>3. CASE chunkStream # "closed" /\ chunks' = [chunks EXCEPT ![last].disk = chunks[last].os]
    <3>1. chunks # << >> /\ chunks[last].os \in Nat
      BY <1>0, <2>3, NumbersOfFiles DEF Placed
    <3>2. /\ last' = last /\ \A i \in 1..last : i # last => chunks'[i] = chunks[i]
          /\ chunks'[last].os = chunks[last].os
          /\ chunks'[last].packet_count = chunks[last].packet_count
      BY <1>0, <2>3, <3>1, ChunkSyncedTo
    <3> QED BY <2>1, <3>2 DEF ChunksInOrder, Handed
  <2> QED BY <1>4, <2>2, <2>3 DEF SyncChunk
<1>5. CASE FlushReturns
  <2>1. UNCHANGED chunks /\ \A i \in 1..last : Handed(i)
    BY <1>5 DEF FlushReturns, ChunksInOrder
  <2>2. chunkStream' # "bad"
    BY <1>5 DEF FlushReturns, ChunksInOrder
  <2> QED BY <2>1, <2>2 DEF ChunksInOrder, Handed, last
<1>6. CASE /\ UNCHANGED <<chunks, chunkStream>>
           /\ pc' \in FlushSteps \ {"flush_chunk"} => pc \in FlushSteps \ {"flush_chunk"}
  BY <1>6 DEF ChunksInOrder, Handed, last
<1>7. CASE \/ WriteContractFrame \/ AppendIndex \/ Close \/ FlushIndex \/ SyncIndex
           \/ OpenTmp \/ WriteTmp \/ RemoveManifest \/ RenameTmp \/ RewriteManifest
           \/ DropTmp \/ EndRewrite
           \/ UNCHANGED vars
  BY <1>6, <1>7
  DEF WriteContractFrame, AppendIndex, Close, FlushIndex, SyncIndex, OpenTmp, WriteTmp,
      RemoveManifest, RenameTmp, RewriteManifest, DropTmp, EndRewrite, vars, files
<1> QED
  BY <1>1, <1>2, <1>3, <1>4, <1>5, <1>7
  DEF Next, FlushStep, Kill, PowerLoss, Alive, Running

(* The total of the counts: a new chunk adds nothing, a frame adds one.    *)
LEMMA CountsAreIntegers ==
  ASSUME WriterAssumption, chunks \in Seq(Chunks)
  PROVE  Counts \in Seq(Int) /\ Len(Counts) = last /\ SumSeq(Counts) \in Nat
<1>1. Counts \in Seq(Nat)
  BY CountsAreNumbers
<1>2. last \in Nat
  BY LenProperties DEF last
<1>3. Len(Counts) = last
  BY <1>2 DEF Counts
<1> QED BY <1>1, <1>3, NatSeqIsIntSeq, SumNat

LEMMA TotalOfOpened ==
  ASSUME WriterAssumption, chunks \in Seq(Chunks), chunks' = Append(chunks, NewChunk)
  PROVE  SumSeq(Counts') = SumSeq(Counts)
<1>1. /\ last' = last + 1 /\ last \in Nat
      /\ \A i \in 1..last : chunks'[i] = chunks[i]
      /\ chunks'[last'] = NewChunk
  BY ChunkOpened
<1>2. Counts \in Seq(Int) /\ Len(Counts) = last /\ SumSeq(Counts) \in Nat
  BY CountsAreIntegers
<1>3. Counts' = [i \in 1..(last + 1) |-> IF i <= last THEN Counts[i] ELSE 0]
  <2>1. Counts' = [i \in 1..last' |-> chunks'[i].packet_count]
    BY DEF Counts
  <2>2. \A i \in 1..(last + 1) :
          chunks'[i].packet_count = IF i <= last THEN Counts[i] ELSE 0
    <3>1. TAKE i \in 1..(last + 1)
    <3>2. CASE i \in 1..last
      <4>1. Counts[i] = chunks[i].packet_count
        BY <3>2, Zenon DEF Counts
      <4>2. chunks'[i] = chunks[i]
        BY <1>1, <3>2, Zenon
      <4>3. i <= last
        BY <1>1, <3>2
      <4> QED BY <4>1, <4>2, <4>3, Zenon
    <3>3. CASE i = last + 1
      <4>1. chunks'[i] = NewChunk
        BY <1>1, <3>3, Zenon
      <4>2. NewChunk.packet_count = 0
        BY DEF NewChunk
      <4>3. ~(i <= last)
        BY <1>1, <3>3
      <4> QED BY <4>1, <4>2, <4>3, Zenon
    <3>4. i \in 1..last \/ i = last + 1
      BY <1>1
    <3> QED BY <3>2, <3>3, <3>4, Zenon
  <2> QED BY <1>1, <2>1, <2>2
<1>4. Append(Counts, 0) = [i \in 1..(last + 1) |-> IF i <= last THEN Counts[i] ELSE 0]
  <2> DEFINE c == Counts
  <2>1. c \in Seq(Int) /\ Len(c) = last /\ last \in Nat
    BY <1>1, <1>2
  <2> HIDE DEF c
  <2> DEFINE b == [i \in 1..(last + 1) |-> IF i <= last THEN c[i] ELSE 0]
             e == Append(c, 0)
  <2>3. /\ e \in Seq(Int) /\ Len(e) = last + 1
        /\ \A i \in 1..last : e[i] = c[i] /\ c[i] \in Int
        /\ e[last + 1] = 0
    BY <2>1, AppendProperties, ElementOfSeq
  <2>4. b \in Seq(Int) /\ Len(b) = last + 1
    BY <2>1, <2>3
  <2>5. \A i \in 1..(last + 1) : e[i] = b[i]
    BY <2>1, <2>3
  <2> HIDE DEF b, e
  <2>6. e = b
    BY <2>3, <2>4, <2>5, SeqEqual
  <2>2. Append(c, 0) = [i \in 1..(last + 1) |-> IF i <= last THEN c[i] ELSE 0]
    BY <2>6 DEF b, e
  <2> QED BY <2>2 DEF c
<1>5. SumSeq(Append(Counts, 0)) = SumSeq(Counts) + 0
  BY <1>2, SumAppend
<1>6. SumSeq(Counts) + 0 = SumSeq(Counts)
  BY <1>2
<1> QED BY <1>3, <1>4, <1>5, <1>6, Zenon

LEMMA TotalOfReplaced ==
  ASSUME NEW c \in Seq(Int), NEW d \in Seq(Int), c # << >>, Len(d) = Len(c),
         \A i \in 1..Len(c) : i # Len(c) => d[i] = c[i],
         d[Len(c)] = c[Len(c)] + 1
  PROVE  SumSeq(d) = SumSeq(c) + 1
<1>1. PICK a \in Seq(Int), x \in Int : c = Append(a, x)
  BY SequenceEmptyOrAppend
<1>2. /\ Len(a) \in Nat /\ Len(c) = Len(a) + 1
      /\ \A i \in 1..Len(a) : c[i] = a[i]
      /\ c[Len(a) + 1] = x
  BY <1>1, AppendProperties, LenProperties
<1>3. /\ Append(a, x + 1) \in Seq(Int) /\ Len(Append(a, x + 1)) = Len(a) + 1
      /\ \A i \in 1..Len(a) : Append(a, x + 1)[i] = a[i]
      /\ Append(a, x + 1)[Len(a) + 1] = x + 1
  BY AppendProperties
<1>4. d = Append(a, x + 1)
  <2>1. \A i \in 1..Len(d) : d[i] = Append(a, x + 1)[i]
    <3>1. TAKE i \in 1..Len(d)
    <3>2. CASE i \in 1..Len(a)
      BY <1>2, <1>3, <3>2
    <3>3. CASE i = Len(a) + 1
      BY <1>2, <1>3, <3>3
    <3> QED BY <1>2, <3>2, <3>3
  <2> QED BY <1>2, <1>3, <2>1, SeqEqual
<1>5. SumSeq(d) = SumSeq(a) + (x + 1) /\ SumSeq(c) = SumSeq(a) + x /\ SumSeq(a) \in Int
  <2>1. SumSeq(Append(a, x)) = SumSeq(a) + x
    BY SumAppend
  <2>2. x + 1 \in Int
    OBVIOUS
  <2>3. SumSeq(Append(a, x + 1)) = SumSeq(a) + (x + 1)
    BY <2>2, SumAppend
  <2> QED BY <1>1, <1>4, <2>1, <2>3, SumInt
<1> QED BY <1>5

LEMMA TotalOfAppended ==
  ASSUME WriterAssumption, chunks \in Seq(Chunks), chunks # << >>,
         chunks[last].packet_count < ChunkMaxFrames,
         chunks' = [chunks EXCEPT ![last].packet_count = @ + 1]
  PROVE  SumSeq(Counts') = SumSeq(Counts) + 1
<1>1. /\ last' = last /\ last \in 1..last
      /\ chunks' \in Seq(Chunks)
      /\ \A i \in 1..last : i # last => chunks'[i] = chunks[i]
      /\ chunks'[last].packet_count = chunks[last].packet_count + 1
  BY FrameAppended
<1>2. /\ Counts \in Seq(Int) /\ Len(Counts) = last
      /\ Counts = [i \in 1..last |-> chunks[i].packet_count]
  BY CountsAreIntegers DEF Counts
<1>3. /\ Counts' = [i \in 1..last |-> chunks'[i].packet_count]
      /\ last \in Nat
  BY <1>1, LenProperties DEF Counts, last
<1>4. \A i \in 1..last : chunks'[i].packet_count \in Int
  <2>1. \A i \in 1..last : chunks'[i] \in Chunks
    BY <1>1, ElementOfSeq DEF last
  <2>2. 0..ChunkMaxFrames \subseteq Int
    OBVIOUS
  <2>3. \A c \in Chunks : c.packet_count \in 0..ChunkMaxFrames
    BY DEF Chunks
  <2> QED BY <2>1, <2>2, <2>3
<1>5. Counts' \in Seq(Int) /\ Len(Counts') = last
  BY SMTT(20), <1>3, <1>4
<1> DEFINE c == Counts
           d == Counts'
<1>6. /\ c \in Seq(Int) /\ d \in Seq(Int) /\ Len(c) = last /\ Len(d) = last
      /\ \A i \in 1..last : i # last => d[i] = c[i]
      /\ d[last] = c[last] + 1
  BY <1>1, <1>2, <1>3, <1>5
<1> HIDE DEF c, d
<1>7. c # << >>
  BY <1>1, <1>6, EmptySeq
<1>8. SumSeq(d) = SumSeq(c) + 1
  BY <1>6, <1>7, TotalOfReplaced
<1> QED BY <1>8 DEF c, d

LEMMA FlushKeepsCounts ==
  ASSUME WriterAssumption, TypeOK, Placed, FlushChunk \/ SyncChunk
  PROVE  Counts' = Counts /\ (chunks' = << >> <=> chunks = << >>)
<1>0. chunks \in Seq(Chunks) /\ (chunks # << >> => last \in 1..last)
  BY NumbersOfFiles DEF TypeOK, ChunkTypes
<1>1. CASE UNCHANGED chunks
  BY <1>1 DEF Counts, last
<1>2. CASE FlushChunk /\ chunkStream = "good" /\ chunks' = [chunks EXCEPT ![last].os = chunks[last].packet_count]
  <2>1. chunks # << >> /\ chunks[last].packet_count \in Nat
    BY <1>2, NumbersOfFiles DEF Placed
  <2>2. /\ chunks' # << >> /\ last' = last
        /\ \A i \in 1..last : chunks'[i].packet_count = chunks[i].packet_count
    <3>1. /\ chunks' # << >> /\ last' = last
          /\ \A i \in 1..last : i # last => chunks'[i] = chunks[i]
          /\ chunks'[last].packet_count = chunks[last].packet_count
      BY <1>0, <1>2, <2>1, ChunkFlushed
    <3> QED BY <3>1
  <2> QED BY <2>1, <2>2 DEF Counts
<1>3. CASE SyncChunk /\ chunkStream # "closed" /\ chunks' = [chunks EXCEPT ![last].disk = chunks[last].os]
  <2>1. chunks # << >> /\ chunks[last].os \in Nat
    BY <1>3, NumbersOfFiles DEF Placed
  <2>2. /\ chunks' # << >> /\ last' = last
        /\ \A i \in 1..last : chunks'[i].packet_count = chunks[i].packet_count
    <3>1. /\ chunks' # << >> /\ last' = last
          /\ \A i \in 1..last : i # last => chunks'[i] = chunks[i]
          /\ chunks'[last].packet_count = chunks[last].packet_count
      BY <1>0, <1>3, <2>1, ChunkSyncedTo
    <3> QED BY <3>1
  <2> QED BY <2>1, <2>2 DEF Counts
<1> QED BY <1>1, <1>2, <1>3 DEF FlushChunk, SyncChunk

(* Only a failing open, write or flush of the index disturbs the index.    *)
LEMMA IndexStaysInOrder ==
  ASSUME WriterAssumption, TypeOK, Placed, IndexInOrder, [Next]_vars,
         faults' = faults \/ pc \notin {"open", "index", "flush_index"}, Alive'
  PROVE  IndexInOrder'
<1>0. /\ chunks \in Seq(Chunks) /\ (chunks # << >> => last \in 1..last) /\ last \in Nat
      /\ faults \in Nat /\ index.lines \in Nat /\ SumSeq(Counts) \in Nat
  BY NumbersOfFiles, CountsAreIntegers DEF TypeOK, ChunkTypes, ControlTypes, IndexTypes
<1>f. faults + 1 # faults
  BY <1>0
<1>t. index \in [exists : BOOLEAN, lines : Nat, os : Nat, disk : Nat]
  BY DEF TypeOK, IndexTypes
<1> USE DEF FlushSteps, Running
<1>1. CASE OpenChunk
  <2>0. pc = "open" /\ pc' \in {"ready", "append"}
    BY <1>1 DEF OpenChunk
  <2>1. CASE OpenIndex /\ chunks' = Append(chunks, NewChunk)
    <3>1. /\ index'.exists /\ indexStream' = "good" /\ index'.lines = index.lines
      <4>1. CASE indexStream # "closed"
        <5>2. UNCHANGED <<index, indexStream>>
          BY <2>1, <4>1 DEF OpenIndex
        <5>3. indexStream = "good"
          BY <4>1 DEF IndexInOrder, TypeOK, ControlTypes, Streams
        <5> QED BY <5>2, <5>3 DEF IndexInOrder
      <4>2. CASE indexStream = "closed"
        BY <1>1, <1>f, <1>t, <2>0, <2>1, <4>2 DEF OpenIndex, Fault
      <4> QED BY <4>1, <4>2
    <3>2. SumSeq(Counts') = SumSeq(Counts)
      BY <1>0, <2>1, TotalOfOpened
    <3> QED BY <2>0, <3>1, <3>2 DEF IndexInOrder, Counts
  <2>2. CASE UNCHANGED files
    BY <1>0, <2>0, <2>2 DEF files, IndexInOrder, Counts, last
  <2> QED BY <1>1, <2>1, <2>2 DEF OpenChunk
<1>2. CASE AppendFrame
  <2>1. CASE chunkStream = "good" /\ chunks' = [chunks EXCEPT ![last].packet_count = @ + 1]
    <3>1. /\ chunks # << >> /\ chunks[last].packet_count < ChunkMaxFrames
          /\ pc = "append" /\ UNCHANGED <<index, indexStream>>
      BY <1>2, <2>1 DEF AppendFrame, Placed
    <3>2. SumSeq(Counts') = SumSeq(Counts) + 1
      BY <1>0, <2>1, <3>1, TotalOfAppended
    <3>3. pc' = "index"
      <4>1. chunks' # chunks
        <5>1. chunks'[last].packet_count = chunks[last].packet_count + 1
          BY <1>0, <2>1, <3>1, FrameAppended
        <5>2. chunks[last].packet_count \in Nat
          BY <3>1, NumbersOfFiles
        <5> QED BY <5>1, <5>2
      <4> QED BY <1>2, <4>1 DEF AppendFrame
    <3> QED BY <1>0, <3>1, <3>2, <3>3 DEF IndexInOrder
  <2>2. CASE UNCHANGED chunks /\ pc' = "ready"
    BY <1>2, <2>2 DEF AppendFrame, IndexInOrder, Counts, last
  <2> QED BY <1>2, <2>1, <2>2 DEF AppendFrame
<1>3. CASE AppendIndex
  <2>1. /\ pc = "index" /\ indexStream = "good" /\ chunks # << >> /\ UNCHANGED chunks
        /\ pc' \in {"flush_chunk", "ready"}
    BY <1>3 DEF AppendIndex, IndexInOrder, Placed
  <2>2. index' = [index EXCEPT !.lines = @ + 1] /\ UNCHANGED indexStream
    BY <1>3, <1>f, <2>1 DEF AppendIndex, AppendContractIndex, Fault
  <2>3. index'.lines = index.lines + 1 /\ index'.exists = index.exists
    BY <1>t, <2>2
  <2>4. SumSeq(Counts') = SumSeq(Counts)
    BY <2>1 DEF Counts, last
  <2>5. SumSeq(Counts) = index.lines + 1
    BY <2>1 DEF IndexInOrder
  <2>6. SumSeq(Counts') = index'.lines + 0
    BY <1>0, <2>3, <2>4, <2>5
  <2> QED BY <2>1, <2>2, <2>3, <2>6 DEF IndexInOrder
<1>4. CASE FlushChunk \/ SyncChunk
  <2>1. /\ UNCHANGED <<index, indexStream>> /\ pc \in {"flush_chunk", "sync_chunk"}
        /\ pc' \in {"sync_chunk", "flush_index"}
    BY <1>4 DEF FlushChunk, SyncChunk
  <2>2. Counts' = Counts /\ (chunks' = << >> <=> chunks = << >>)
    BY <1>4, FlushKeepsCounts
  <2> QED BY <2>1, <2>2 DEF IndexInOrder
<1>5. CASE FlushIndex
  <2>1. /\ pc = "flush_index" /\ pc' = "sync_index" /\ indexStream' = indexStream
        /\ UNCHANGED chunks /\ chunks # << >>
    BY <1>5, <1>f DEF FlushIndex, Fault, Placed
  <2>2. index' = [index EXCEPT !.os = index.lines]
    BY <1>5, <1>f, <2>1 DEF FlushIndex, Fault, IndexInOrder
  <2>3. index'.lines = index.lines /\ index'.os = index.lines /\ index'.exists = index.exists
    BY <1>t, <2>2
  <2>4. Counts' = Counts
    BY <2>1 DEF Counts, last
  <2> QED BY <2>1, <2>3, <2>4 DEF IndexInOrder
<1>6. CASE SyncIndex
  <2>1. /\ pc = "sync_index" /\ pc' = "tmp_open" /\ indexStream' = indexStream
        /\ UNCHANGED chunks
        /\ (index' = index \/ index' = [index EXCEPT !.disk = index.os])
    BY <1>6 DEF SyncIndex
  <2>2. index'.lines = index.lines /\ index'.os = index.os /\ index'.exists = index.exists
    BY <1>t, <2>1
  <2>3. Counts' = Counts
    BY <2>1 DEF Counts, last
  <2> QED BY <2>1, <2>2, <2>3 DEF IndexInOrder
<1>7. CASE FlushReturns
  <2>1. /\ UNCHANGED <<chunks, index>> /\ pc = "flushed" /\ pc' \in {"ready", "open", "closed"}
        /\ (pc' # "closed" => indexStream' = indexStream)
        /\ (pc' = "closed" => indexStream' = "closed")
    BY <1>7 DEF FlushReturns
  <2>2. Counts' = Counts
    BY <2>1 DEF Counts, last
  <2> QED BY <2>1, <2>2 DEF IndexInOrder
<1>8. CASE /\ UNCHANGED <<chunks, index, indexStream>>
           /\ (pc = "index" <=> pc' = "index") /\ (pc = "closed" <=> pc' = "closed")
           /\ pc' \in (FlushSteps \ {"flush_chunk", "sync_chunk", "flush_index"})
                => pc \in (FlushSteps \ {"flush_chunk", "sync_chunk", "flush_index"})
  <2>1. Counts' = Counts
    BY <1>8 DEF Counts, last
  <2> QED BY <1>8, <2>1 DEF IndexInOrder
<1>9. CASE \/ WriteContractFrame \/ Close \/ OpenTmp \/ WriteTmp \/ RemoveManifest
           \/ RenameTmp \/ RewriteManifest
           \/ DropTmp \/ EndRewrite \/ UNCHANGED vars
  BY <1>8, <1>9
  DEF WriteContractFrame, Close, OpenTmp, WriteTmp, RemoveManifest, RenameTmp,
      RewriteManifest, DropTmp, EndRewrite, vars, files
<1> QED
  BY <1>1, <1>2, <1>3, <1>4, <1>5, <1>6, <1>7, <1>9
  DEF Next, FlushStep, Kill, PowerLoss, Alive

LEMMA OneStart == Init => OneInOrder
<1> SUFFICES ASSUME Init PROVE OneInOrder
  OBVIOUS
<1>1. /\ chunks = << >> /\ chunkStream = "closed" /\ indexStream = "closed"
      /\ pc = "open" /\ faults = 0 /\ index.lines = 0 /\ last = 0
  BY DEF Init, last
<1>2. Counts = << >>
  <2>1. << >> \in Seq(Chunks)
    OBVIOUS
  <2>2. Counts \in Seq(Int) /\ Len(Counts) = 0
    BY <1>1, <2>1, CountsAreIntegers, WriterAssumption
  <2> QED BY <2>2, EmptySeq
<1>3. ChunksInOrder
  BY <1>1 DEF ChunksInOrder
<1>4. IndexInOrder
  BY <1>1, <1>2, SumEmpty DEF IndexInOrder, FlushSteps
<1> QED BY <1>1, <1>3, <1>4 DEF OneInOrder, StreamClosed

(* A step that fails at the chunk leaves the index alone, and the other    *)
(* way round.                                                              *)
LEMMA OneKept ==
  ASSUME WriterAssumption, TypeOK, Placed, OneInOrder, [Next]_vars
  PROVE  OneInOrder'
<1>1. /\ Alive' => Alive
      /\ faults \in Nat /\ (faults' = faults \/ faults' = faults + 1)
  BY StaysDead DEF TypeOK
<1>2. StreamClosed'
  BY StreamClosedKept DEF OneInOrder, TypeOK
<1>3. ASSUME Alive', ChunksInOrder, faults' = faults \/ pc \notin {"append", "flush_chunk"}
      PROVE  ChunksInOrder'
  BY <1>3, ChunksStayInOrder DEF OneInOrder
<1>4. ASSUME Alive', IndexInOrder, faults' = faults \/ pc \notin {"open", "index", "flush_index"}
      PROVE  IndexInOrder'
  BY <1>4, IndexStaysInOrder
<1>5. ASSUME Alive', faults' = 0 PROVE ChunksInOrder' /\ IndexInOrder'
  <2>1. faults' = faults /\ faults = 0
    BY <1>1, <1>5
  <2> QED BY <1>1, <1>3, <1>4, <1>5, <2>1 DEF OneInOrder
<1>6. ASSUME Alive', faults' <= 1 PROVE ChunksInOrder' \/ IndexInOrder'
  <2>1. CASE faults' = faults
    BY <1>1, <1>3, <1>4, <1>6, <2>1 DEF OneInOrder
  <2>2. CASE faults' = faults + 1
    <3>1. faults = 0
      BY <1>1, <1>6, <2>2
    <3>2. ChunksInOrder /\ IndexInOrder
      BY <1>1, <1>6, <3>1 DEF OneInOrder
    <3>3. CASE pc \in {"append", "flush_chunk"}
      BY <1>4, <1>6, <3>2, <3>3
    <3>4. CASE pc \notin {"append", "flush_chunk"}
      BY <1>3, <1>6, <3>2, <3>4
    <3> QED BY <3>3, <3>4
  <2> QED BY <1>1, <2>1, <2>2
<1> QED BY <1>2, <1>5, <1>6 DEF OneInOrder

-----------------------------------------------------------------------------
(* The session: the writer's invariant, beside what the verdict says.      *)
WriterInv ==
  /\ TypeOK /\ Placed /\ OneInOrder
  /\ faults = 0 => Listed

SessionInv ==
  /\ WriterInv
  /\ CleanSessionIsOk
  /\ LossIsNoticed

LEMMA WriterKept ==
  ASSUME WriterInv, [Next]_vars
  PROVE  WriterInv'
<1>1. TypeOK' /\ Placed' /\ OneInOrder'
  BY TypesKept, OneKept, WriterAssumption DEF WriterInv
<1>2. ASSUME faults' = 0 PROVE Listed'
  <2>1. faults = 0 /\ ~Fault
    BY <1>2, NoFaultBefore DEF WriterInv, TypeOK
  <2> QED BY <2>1, ListedKept, WriterAssumption DEF WriterInv
<1> QED BY <1>1, <1>2 DEF WriterInv

LEMMA WriterIgnoresLeft ==
  ASSUME WriterInv, UNCHANGED <<pc, after, files, sinceFlush, listing, bounds, flushed>>
  PROVE  WriterInv'
<1>1. UNCHANGED <<pc, after, chunks, chunkStream, index, indexStream, sinceFlush, manifest, tmp,
                  listed, calls, faults, flushed>>
  BY DEF files, listing, bounds
<1>2. last' = last /\ Counts' = Counts /\ WholeFile' = WholeFile /\ Alive' = Alive
  BY <1>1 DEF last, Counts, WholeFile, Alive
<1>3. TypeOK'
  BY <1>1, <1>2 DEF WriterInv, TypeOK, ControlTypes, ChunkTypes, IndexTypes, ListingTypes
<1>4. Placed'
  BY <1>1, <1>2 DEF WriterInv, Placed
<1>5. (ChunksInOrder => ChunksInOrder') /\ (IndexInOrder => IndexInOrder')
  BY <1>1, <1>2 DEF ChunksInOrder, Handed, IndexInOrder
<1>6. OneInOrder'
  BY <1>1, <1>2, <1>5 DEF WriterInv, OneInOrder, StreamClosed
<1>7. Listed => Listed'
  BY <1>1, <1>2 DEF Listed, ListedIn, Covers
<1> QED BY <1>1, <1>3, <1>4, <1>6, <1>7 DEF WriterInv

(* The check of a closed session.                                          *)
LEMMA CheckTells ==
  ASSUME WriterInv, CheckClosedSession
  PROVE  CleanSessionIsOk' /\ LossIsNoticed'
<1>1. PICK frames \in Found([i \in 1..last |-> chunks[i].os]),
           lines \in index.os..index.lines :
       \E torn \in SUBSET {i \in 1..last : frames[i] < chunks[i].packet_count} :
         /\ left' = [frames |-> frames, index |-> lines]
         /\ verdict' = CheckSessionIntegrity(
              [tmp      |-> tmp.state # "none",
               manifest |-> manifest.state # "none",
               index    |-> index.exists,
               lines    |-> lines,
               chunks   |-> [i \in 1..last |-> [frames |-> frames[i], torn |-> i \in torn]]])
  BY DEF CheckClosedSession
<1>2. PICK torn \in SUBSET {i \in 1..last : frames[i] < chunks[i].packet_count} :
         /\ left' = [frames |-> frames, index |-> lines]
         /\ verdict' = CheckSessionIntegrity(
              [tmp      |-> tmp.state # "none",
               manifest |-> manifest.state # "none",
               index    |-> index.exists,
               lines    |-> lines,
               chunks   |-> [i \in 1..last |-> [frames |-> frames[i], torn |-> i \in torn]]])
  BY <1>1
<1> DEFINE files0 == [tmp      |-> tmp.state # "none",
                      manifest |-> manifest.state # "none",
                      index    |-> index.exists,
                      lines    |-> lines,
                      chunks   |-> [i \in 1..last |-> [frames |-> frames[i], torn |-> i \in torn]]]
<1>3. /\ pc = "closed" /\ UNCHANGED <<chunks, faults, manifest>> /\ verdict = "none"
      /\ last \in Nat /\ chunks \in Seq(Chunks) /\ chunks # << >>
      /\ Counts \in Seq(Int) /\ Len(Counts) = last
  BY LenProperties, CountsAreIntegers, WriterAssumption
  DEF CheckClosedSession, files, bounds, listing, WriterInv, TypeOK, ChunkTypes, Placed, last
<1>4. Counts' = Counts /\ WholeFile' = WholeFile
  BY <1>3 DEF WholeFile, Counts, last
<1>5. /\ frames \in [1..last -> 0..ChunkMaxFrames]
      /\ \A i \in 1..last : frames[i] \in chunks[i].os..chunks[i].packet_count
  BY DEF Found
<1>6. \A i \in 1..last : /\ chunks[i].packet_count \in Nat /\ chunks[i].os \in Nat
                          /\ frames[i] \in Nat /\ frames[i] <= chunks[i].packet_count
                          /\ chunks[i].os <= frames[i]
  <2>1. \A i \in 1..last : chunks[i] \in Chunks
    BY <1>3, ElementOfSeq DEF last
  <2>2. \A i \in 1..last : chunks[i].packet_count \in Nat /\ chunks[i].os \in Nat
    BY <2>1 DEF Chunks, WriterAssumption
  <2> QED BY <1>5, <2>2
<1>7. frames \in Seq(Int) /\ Len(frames) = last
  BY <1>3, <1>5, WriterAssumption DEF WriterAssumption
<1>8. Counts = [i \in 1..last |-> chunks[i].packet_count]
  BY DEF Counts
<1>9. FramesInChunks(files0) = SumSeq(frames)
  <2>1. [i \in DOMAIN files0.chunks |-> CountContractFrames(files0.chunks[i])] = frames
    BY <1>5 DEF CountContractFrames
  <2> QED BY <2>1, Zenon DEF FramesInChunks
<1>10. Alive
  BY <1>3 DEF Alive
<1>11. ASSUME ChunksInOrder PROVE frames = Counts
  <2>1. \A i \in 1..last : chunks[i].os = chunks[i].packet_count
    BY <1>3, <1>11 DEF ChunksInOrder, Handed, WriterInv, OneInOrder, StreamClosed
  <2>2. \A i \in 1..last : frames[i] = chunks[i].packet_count
    BY <1>6, <2>1
  <2> QED BY <1>5, <1>8, <2>2
<1>12. ASSUME IndexInOrder PROVE lines = SumSeq(Counts) /\ index.exists
  <2>1. index.os = index.lines /\ index.lines \in Nat /\ SumSeq(Counts) = index.lines + 0
        /\ index.exists
    BY <1>3, <1>12 DEF IndexInOrder, WriterInv, TypeOK, IndexTypes
  <2> QED BY <2>1
<1>13. verdict' = CheckSessionIntegrity(files0)
  BY <1>2
<1>14. /\ files0.tmp = (tmp.state # "none") /\ files0.manifest = (manifest.state # "none")
       /\ files0.index = index.exists /\ files0.lines = lines
       /\ DOMAIN files0.chunks = 1..last
       /\ \A i \in 1..last : files0.chunks[i].torn <=> i \in torn
  OBVIOUS
<1> HIDE DEF files0
<1>15. LossIsNoticed'
  <2> SUFFICES ASSUME verdict' = "ok", faults <= 1 PROVE left'.frames = Counts
    BY <1>3, <1>4 DEF LossIsNoticed
  <2>1. left'.frames = frames
    BY <1>2
  <2>2. ChunksInOrder \/ IndexInOrder
    BY <1>10 DEF WriterInv, OneInOrder
  <2>3. CASE ChunksInOrder
    BY <1>11, <2>1, <2>3
  <2>4. CASE IndexInOrder
    <3>1. files0.lines = FramesInChunks(files0)
      BY <1>13 DEF CheckSessionIntegrity
    <3>2. SumSeq(frames) = SumSeq(Counts)
      BY <1>9, <1>12, <1>14, <2>4, <3>1
    <3>3. \A i \in 1..Len(frames) : frames[i] <= Counts[i]
      BY <1>6, <1>7, <1>8
    <3>4. frames = Counts
      BY <1>3, <1>7, <3>2, <3>3, SumCompare
    <3> QED BY <2>1, <3>4
  <2> QED BY <2>2, <2>3, <2>4
<1>16. CleanSessionIsOk'
  <2> SUFFICES ASSUME faults = 0
               PROVE  verdict' = "ok" /\ manifest = WholeFile /\ left'.frames = Counts
    BY <1>3, <1>4 DEF CleanSessionIsOk
  <2>1. ChunksInOrder /\ IndexInOrder /\ Listed
    BY <1>10 DEF WriterInv, OneInOrder
  <2>2. frames = Counts /\ lines = SumSeq(Counts) /\ index.exists
    BY <1>11, <1>12, <2>1
  <2>3. manifest = WholeFile /\ tmp = NoFile
    BY <1>3, <2>1 DEF Listed
  <2>4. manifest.state # "none" /\ tmp.state = "none"
    BY <2>3 DEF WholeFile, NoFile
  <2>5. torn = {}
    <3>1. \A i \in 1..last : ~(frames[i] < chunks[i].packet_count)
      BY <1>6, <1>8, <2>2
    <3> QED BY <3>1
  <2>6. \A i \in DOMAIN files0.chunks : ~Unreadable(files0.chunks[i])
    BY <1>14, <2>5 DEF Unreadable
  <2>7. files0.lines = FramesInChunks(files0)
    BY <1>9, <1>14, <2>2
  <2>8. verdict' = "ok"
    BY <1>13, <1>14, <2>2, <2>4, <2>6, <2>7 DEF CheckSessionIntegrity
  <2> QED BY <1>2, <2>2, <2>3, <2>8
<1> QED BY <1>15, <1>16

LEMMA SessionStart == InitSession => SessionInv
<1> SUFFICES ASSUME InitSession PROVE SessionInv
  OBVIOUS
<1>1. Init /\ verdict = "none"
  BY DEF InitSession
<1> QED
  BY <1>1, TypesStart, OneStart, ListedStart, WriterAssumption
  DEF SessionInv, WriterInv, CleanSessionIsOk, LossIsNoticed

LEMMA SessionKept == SessionInv /\ [NextSession]_sessionVars => SessionInv'
<1> SUFFICES ASSUME SessionInv, [NextSession]_sessionVars PROVE SessionInv'
  OBVIOUS
<1>1. CASE Next /\ verdict = "none" /\ UNCHANGED verdict
  <2>1. WriterInv'
    BY <1>1, WriterKept DEF SessionInv
  <2> QED BY <1>1, <2>1 DEF SessionInv, CleanSessionIsOk, LossIsNoticed
<1>2. CASE CheckClosedSession
  <2>1. CleanSessionIsOk' /\ LossIsNoticed'
    BY <1>2, CheckTells DEF SessionInv
  <2>2. WriterInv'
    <3>1. UNCHANGED <<pc, after, files, sinceFlush, listing, bounds, flushed>>
      BY <1>2 DEF CheckClosedSession
    <3> QED BY <3>1, WriterIgnoresLeft DEF SessionInv
  <2> QED BY <2>1, <2>2 DEF SessionInv
<1>3. CASE UNCHANGED sessionVars
  <2>1. UNCHANGED vars /\ UNCHANGED verdict
    BY <1>3 DEF sessionVars
  <2>2. WriterInv'
    BY <2>1, WriterKept DEF SessionInv
  <2>3. UNCHANGED <<faults, manifest, left, verdict, chunks>>
    BY <2>1 DEF vars, files, listing, bounds
  <2> QED
    BY <2>2, <2>3
    DEF SessionInv, CleanSessionIsOk, LossIsNoticed, WholeFile, Counts, last
<1> QED BY <1>1, <1>2, <1>3 DEF NextSession

LEMMA SessionInvariant == SessionSpec => []SessionInv
BY SessionStart, SessionKept, PTL DEF SessionSpec

(* A recording that met no error ends with integrity ok, and its manifest  *)
(* lists each chunk with the frames in it (session_integrity.cpp:38-80).   *)
THEOREM CleanSessionPasses == SessionSpec => []CleanSessionIsOk
<1>1. SessionInv => CleanSessionIsOk BY DEF SessionInv
<1> QED BY <1>1, SessionInvariant, PTL

(* A session with one failing system call passes the check only if every   *)
(* accepted frame is in its chunks (session_integrity.cpp:66-72).          *)
THEOREM OneLossIsNoticed == SessionSpec => []LossIsNoticed
<1>1. SessionInv => LossIsNoticed BY DEF SessionInv
<1> QED BY <1>1, SessionInvariant, PTL
=============================================================================
