----------------------------- MODULE ChunkWriter -----------------------------
(***************************************************************************)
(* The chunk writer of one session (chunk_writer.cpp) and the files it     *)
(* leaves: ego_N.bin, ego.index and ego_manifest.json.  Its operations     *)
(* hold mu_, so there is one sequence of calls; the steps of a call are    *)
(* separate because the process may be killed, and the power may fail,     *)
(* between any two of them.                                                *)
(*                                                                         *)
(* A file is known by how many of its records have certainly come how far: *)
(* handed to the stream, to the operating system (os: survives a killed    *)
(* process), to the disk (disk: survives a power loss).  Stream buffers    *)
(* and the system write more back whenever they like, so a crash leaves    *)
(* any number between what is certain and what was handed over, possibly   *)
(* followed by a piece of the next record.  A frame counts as one unit of  *)
(* size.  After a first failed Open the session has no writer; that case   *)
(* is in RuntimeService.  Both clocks are read as "expired or not".        *)
(***************************************************************************)
EXTENDS Naturals, Sequences

CONSTANTS
  ChunkMaxFrames,  (* chunk_max_bytes, in frames                           *)
  FlushPackets,    (* flush_packets                                        *)
  MaxCalls,        (* bound of the model: calls of WriteContractFrame      *)
  MaxFaults        (* bound of the model: failing calls of the system      *)

ASSUME WriterAssumption ==
  /\ ChunkMaxFrames \in Nat \ {0}
  /\ FlushPackets \in Nat
  /\ MaxCalls \in Nat /\ MaxFaults \in Nat

VARIABLES
  pc,          (* where the current call is; ready between two calls       *)
  after,       (* what the caller of Flush does next                       *)
  chunks,      (* chunks_ with the state of their files                    *)
  chunkStream, (* chunk_stream_                                            *)
  index,       (* ego.index                                                *)
  indexStream, (* index_stream_                                            *)
  sinceFlush,  (* packets_since_flush_                                     *)
  manifest,    (* ego_manifest.json                                        *)
  tmp,         (* ego_manifest.json.tmp                                    *)
  calls,       (* calls so far                                             *)
  faults,      (* system calls that failed so far                          *)
  flushed,     (* history: packet counts when the last Flush returned      *)
  listed,      (* history: those of the listing last put in place, until   *)
               (* the temporary file of a later one is given up            *)
  left         (* what a reader finds after a crash or after Close         *)

files   == <<chunks, chunkStream, index, indexStream>>
listing == <<manifest, tmp, listed>>
bounds  == <<calls, faults>>
vars    == <<pc, after, files, sinceFlush, listing, bounds, flushed, left>>

FlushSteps == {"flush_chunk", "sync_chunk", "flush_index", "sync_index",
               "tmp_open", "tmp_write", "remove", "rename",
               "rewrite", "drop_tmp", "rewrite_end", "give_up", "flushed"}
Running    == {"open", "ready", "append", "index"} \cup FlushSteps
Places     == Running \cup {"closed", "killed", "power_lost"}

NewChunk  == [packet_count |-> 0, os |-> 0, disk |-> 0]
NoFile    == [state |-> "none", lists |-> << >>]
PartFile  == [state |-> "part", lists |-> << >>]
NothingLeft == [frames |-> << >>, index |-> 0]

last   == Len(chunks)
Counts == [i \in 1..last |-> chunks[i].packet_count]
WholeFile == [state |-> "whole", lists |-> Counts]

(* A call of the operating system fails and the code goes on as it does.   *)
Fault   == faults < MaxFaults /\ faults' = faults + 1
NoFault == faults' = faults

Init ==
  /\ pc = "open" /\ after = "ready"
  /\ chunks = << >> /\ chunkStream = "closed"
  /\ index = [exists |-> FALSE, lines |-> 0, os |-> 0, disk |-> 0] /\ indexStream = "closed"
  /\ sinceFlush = 0
  /\ manifest = NoFile /\ tmp = NoFile
  /\ calls = 0 /\ faults = 0
  /\ flushed = << >> /\ listed = << >>
  /\ left = NothingLeft

-----------------------------------------------------------------------------
(* Deviation: the index is opened, and cut, with each chunk. *)
ReopenIndex ==
  /\ NoFault
  /\ indexStream' = "good"
  /\ index' = [exists |-> TRUE, lines |-> 0, os |-> 0, disk |-> 0]

(* OpenChunk: the new file is empty.  The index is opened once; if that    *)
(* fails nobody notices, and the next chunk tries again.                   *)
OpenIndex ==
  \/ /\ indexStream # "closed" /\ NoFault
     /\ UNCHANGED <<index, indexStream>>
  \/ /\ indexStream = "closed" /\ NoFault
     /\ indexStream' = "good" /\ index' = [index EXCEPT !.exists = TRUE]
  \/ /\ indexStream = "closed" /\ Fault
     /\ UNCHANGED <<index, indexStream>>

OpenChunk ==
  /\ pc = "open"
  /\ \/ /\ OpenIndex
        /\ chunks' = Append(chunks, NewChunk)
        /\ chunkStream' = "good"
        /\ pc' = IF chunks = << >> THEN "ready" ELSE "append"
     \/ /\ Fault /\ chunks # << >>
        /\ pc' = "ready"
        /\ UNCHANGED files
  /\ UNCHANGED <<after, sinceFlush, listing, calls, flushed, left>>

(* Deviation: one frame too late. *)
SizeLimitPassed == chunks[last].packet_count > ChunkMaxFrames

(* RotateIfNeeded, at the head of WriteContractFrame.                      *)
SizeLimit == chunks[last].packet_count >= ChunkMaxFrames

WriteContractFrame ==
  /\ pc = "ready" /\ calls < MaxCalls
  /\ calls' = calls + 1
  /\ \/ chunkStream = "closed" /\ pc' = "open" /\ after' = after
     \/ chunkStream # "closed" /\ pc' = "flush_chunk" /\ after' = "rotate"
     \/ chunkStream # "closed" /\ ~SizeLimit /\ pc' = "append" /\ after' = after
  /\ UNCHANGED <<files, sinceFlush, listing, faults, flushed, left>>

(* The frame goes to the stream.  A stream that failed stays bad, and      *)
(* refuses every frame, until the next rotation opens another file.        *)
AppendFrame ==
  /\ pc = "append"
  /\ \/ /\ chunkStream = "good" /\ NoFault
        /\ chunks' = [chunks EXCEPT ![last].packet_count = @ + 1]
        /\ pc' = "index"
        /\ UNCHANGED chunkStream
     \/ /\ chunkStream = "good" /\ Fault
        /\ chunkStream' = "bad" /\ pc' = "ready"
        /\ UNCHANGED chunks
     \/ /\ chunkStream = "bad" /\ NoFault
        /\ pc' = "ready"
        /\ UNCHANGED <<chunks, chunkStream>>
  /\ UNCHANGED <<after, index, indexStream, sinceFlush, listing, calls, flushed, left>>

(* A bad index stream is passed over in silence.                           *)
AppendContractIndex ==
  \/ /\ indexStream = "good" /\ NoFault
     /\ index' = [index EXCEPT !.lines = @ + 1]
     /\ UNCHANGED indexStream
  \/ /\ indexStream = "good" /\ Fault
     /\ indexStream' = "bad"
     /\ UNCHANGED index
  \/ /\ indexStream # "good" /\ NoFault
     /\ UNCHANGED <<index, indexStream>>

(* Deviation: the flush is due one frame too late. *)
AppendIndexFlushLate ==
  /\ pc = "index" /\ AppendContractIndex
  /\ sinceFlush' = sinceFlush + 1
  /\ \/ pc' = "flush_chunk" /\ after' = "ready"
     \/ sinceFlush' <= FlushPackets /\ pc' = "ready" /\ after' = after
  /\ UNCHANGED <<chunks, chunkStream, listing, calls, flushed, left>>

(* The rest of the call: the index line, the counters and the decision to  *)
(* flush, by count or by time.                                             *)
AppendIndex ==
  /\ pc = "index" /\ AppendContractIndex
  /\ sinceFlush' = sinceFlush + 1
  /\ \/ pc' = "flush_chunk" /\ after' = "ready"
     \/ sinceFlush' < FlushPackets /\ pc' = "ready" /\ after' = after
  /\ UNCHANGED <<chunks, chunkStream, listing, calls, flushed, left>>

Close ==
  /\ pc = "ready"
  /\ pc' = "flush_chunk" /\ after' = "close"
  /\ UNCHANGED <<files, sinceFlush, listing, bounds, flushed, left>>

-----------------------------------------------------------------------------
(* Flush(true): the results of flush and fsync are not looked at.          *)
FlushChunk ==
  /\ pc = "flush_chunk" /\ pc' = "sync_chunk"
  /\ \/ /\ chunkStream = "good" /\ NoFault
        /\ chunks' = [chunks EXCEPT ![last].os = chunks[last].packet_count]
        /\ UNCHANGED chunkStream
     \/ /\ chunkStream = "good" /\ Fault
        /\ chunkStream' = "bad"
        /\ UNCHANGED chunks
     \/ /\ chunkStream # "good" /\ NoFault
        /\ UNCHANGED <<chunks, chunkStream>>
  /\ UNCHANGED <<after, index, indexStream, sinceFlush, listing, calls, flushed, left>>

SyncChunk ==
  /\ pc = "sync_chunk" /\ pc' = "flush_index"
  /\ \/ /\ chunkStream # "closed" /\ NoFault
        /\ chunks' = [chunks EXCEPT ![last].disk = chunks[last].os]
     \/ /\ chunkStream # "closed" /\ Fault
        /\ UNCHANGED chunks
     \/ /\ chunkStream = "closed" /\ NoFault
        /\ UNCHANGED chunks
  /\ UNCHANGED <<after, chunkStream, index, indexStream, sinceFlush, listing, calls, flushed, left>>

FlushIndex ==
  /\ pc = "flush_index" /\ pc' = "sync_index"
  /\ \/ /\ indexStream = "good" /\ NoFault
        /\ index' = [index EXCEPT !.os = index.lines]
        /\ UNCHANGED indexStream
     \/ /\ indexStream = "good" /\ Fault
        /\ indexStream' = "bad"
        /\ UNCHANGED index
     \/ /\ indexStream # "good" /\ NoFault
        /\ UNCHANGED <<index, indexStream>>
  /\ UNCHANGED <<after, chunks, chunkStream, sinceFlush, listing, calls, flushed, left>>

(* Deviation: only the chunk is synced, as in an earlier version. *)
FlushIndexOnly ==
  /\ pc = "sync_index" /\ pc' = "tmp_open"
  /\ sinceFlush' = 0 /\ NoFault
  /\ UNCHANGED <<after, files, listing, calls, flushed, left>>

SyncIndex ==
  /\ pc = "sync_index" /\ pc' = "tmp_open"
  /\ \/ indexStream # "closed" /\ NoFault /\ index' = [index EXCEPT !.disk = index.os]
     \/ indexStream # "closed" /\ Fault /\ UNCHANGED index
     \/ indexStream = "closed" /\ NoFault /\ UNCHANGED index
  /\ sinceFlush' = 0
  /\ UNCHANGED <<after, chunks, chunkStream, indexStream, listing, calls, flushed, left>>

-----------------------------------------------------------------------------
(* Deviation: the old manifest is removed before the new one is written. *)
OpenTmpAfterRemove ==
  /\ pc = "tmp_open" /\ pc' = "tmp_write"
  /\ NoFault
  /\ tmp' = PartFile /\ manifest' = NoFile
  /\ UNCHANGED <<after, files, sinceFlush, listed, calls, flushed, left>>

(* UpdateManifest through WriteTextAtomic: a temporary file, not synced,   *)
(* then remove and rename.  A failure here is not reported either.         *)
OpenTmp ==
  /\ pc = "tmp_open"
  /\ \/ NoFault /\ tmp' = PartFile /\ pc' = "tmp_write"
     \/ Fault /\ tmp' = tmp /\ pc' = "flushed"
  /\ UNCHANGED <<after, files, sinceFlush, manifest, listed, calls, flushed, left>>

WriteTmp ==
  /\ pc = "tmp_write"
  /\ \/ NoFault /\ tmp' = WholeFile /\ pc' = "remove"
     \/ Fault /\ tmp' = tmp /\ pc' = "flushed"
  /\ UNCHANGED <<after, files, sinceFlush, manifest, listed, calls, flushed, left>>

(* A remove that fails leaves the old file, which rename then replaces.    *)
RemoveManifest ==
  /\ pc = "remove" /\ pc' = "rename"
  /\ \/ NoFault /\ manifest' = NoFile
     \/ Fault /\ manifest' = manifest
  /\ UNCHANGED <<after, files, sinceFlush, tmp, listed, calls, flushed, left>>

(* Deviation: the temporary file is copied and stays. *)
CopyTmp ==
  /\ pc = "rename" /\ pc' = "flushed"
  /\ NoFault
  /\ manifest' = tmp /\ listed' = Counts
  /\ UNCHANGED <<after, files, sinceFlush, tmp, calls, flushed, left>>

RenameTmp ==
  /\ pc = "rename"
  /\ \/ NoFault /\ manifest' = tmp /\ tmp' = NoFile /\ listed' = Counts /\ pc' = "flushed"
     \/ Fault /\ UNCHANGED listing /\ pc' = "rewrite"
  /\ UNCHANGED <<after, files, sinceFlush, calls, flushed, left>>

(* The fallback writes the file in place, and gives the temporary one up   *)
(* before the stream is closed: until then what was written may be in its  *)
(* buffer.  Only a file that cannot be opened is noticed.                  *)
RewriteManifest ==
  /\ pc = "rewrite"
  /\ \/ NoFault /\ manifest' \in {PartFile, WholeFile} /\ pc' = "drop_tmp"
     \/ Fault /\ manifest' \in {manifest, PartFile} /\ pc' = "give_up"
  /\ UNCHANGED <<after, files, sinceFlush, tmp, listed, calls, flushed, left>>

DropTmp ==
  /\ \/ pc = "drop_tmp" /\ pc' = "rewrite_end"
     \/ pc = "give_up" /\ pc' = "flushed"
  /\ \/ NoFault /\ tmp' = NoFile
     \/ Fault /\ tmp' = tmp
  /\ listed' = << >>
  /\ UNCHANGED <<after, files, sinceFlush, manifest, calls, flushed, left>>

EndRewrite ==
  /\ pc = "rewrite_end" /\ pc' = "flushed"
  /\ \/ NoFault /\ manifest' = WholeFile /\ listed' = Counts
     \/ Fault /\ manifest = PartFile /\ UNCHANGED <<manifest, listed>>
  /\ UNCHANGED <<after, files, sinceFlush, tmp, calls, flushed, left>>

(* Flush returns to WriteContractFrame, RotateIfNeeded or Close.           *)
FlushReturns ==
  /\ pc = "flushed"
  /\ flushed' = Counts
  /\ \/ after = "ready" /\ pc' = "ready" /\ UNCHANGED <<chunkStream, indexStream>>
     \/ after = "rotate" /\ pc' = "open" /\ chunkStream' = "closed" /\ UNCHANGED indexStream
     \/ after = "close" /\ pc' = "closed" /\ chunkStream' = "closed" /\ indexStream' = "closed"
  /\ UNCHANGED <<after, chunks, index, sinceFlush, listing, bounds, left>>

-----------------------------------------------------------------------------
(* What may be found of files of which certain[i] records are safe.        *)
Found(certain) ==
  {frames \in [1..last -> 0..ChunkMaxFrames] :
     \A i \in 1..last : frames[i] \in certain[i]..chunks[i].packet_count}

(* The process dies: kill, std::terminate, or the writer is destroyed      *)
(* without Close.  The power fails: only synced data is certain.           *)
Kill ==
  /\ pc \in Running /\ pc' = "killed"
  /\ \E frames \in Found([i \in 1..last |-> chunks[i].os]), n \in index.os..index.lines :
       left' = [frames |-> frames, index |-> n]
  /\ UNCHANGED <<after, files, sinceFlush, listing, bounds, flushed>>

PowerLoss ==
  /\ pc \in Running \cup {"closed"} /\ pc' = "power_lost"
  /\ \E frames \in Found([i \in 1..last |-> chunks[i].disk]), n \in index.disk..index.lines :
       left' = [frames |-> frames, index |-> n]
  /\ UNCHANGED <<after, files, sinceFlush, listing, bounds, flushed>>

FlushStep ==
  \/ FlushChunk \/ SyncChunk \/ FlushIndex \/ SyncIndex
  \/ OpenTmp \/ WriteTmp \/ RemoveManifest \/ RenameTmp
  \/ RewriteManifest \/ DropTmp \/ EndRewrite
  \/ FlushReturns

Next ==
  \/ OpenChunk \/ WriteContractFrame \/ AppendFrame \/ AppendIndex \/ Close
  \/ FlushStep
  \/ Kill \/ PowerLoss

Spec == Init /\ [][Next]_vars

-----------------------------------------------------------------------------
Streams       == {"closed", "good", "bad"}
Chunks        == [packet_count : 0..ChunkMaxFrames, os : Nat, disk : Nat]
Listings      == [state : {"none", "part", "whole"}, lists : Seq(Nat)]

ControlTypes ==
  /\ pc \in Places /\ after \in {"ready", "rotate", "close"}
  /\ chunkStream \in Streams /\ indexStream \in Streams
  /\ sinceFlush \in Nat
  /\ calls \in 0..MaxCalls /\ faults \in 0..MaxFaults

ChunkTypes ==
  /\ chunks \in Seq(Chunks)
  /\ \A i \in 1..last : chunks[i].disk <= chunks[i].os /\ chunks[i].os <= chunks[i].packet_count

IndexTypes ==
  /\ index \in [exists : BOOLEAN, lines : Nat, os : Nat, disk : Nat]
  /\ index.disk <= index.os /\ index.os <= index.lines

ListingTypes ==
  /\ manifest \in Listings /\ tmp \in Listings
  /\ flushed \in Seq(Nat) /\ listed \in Seq(Nat)

(* Type invariant; what is certain of a file never exceeds what was        *)
(* handed to it, and no chunk grows past chunk_max_bytes.                  *)
TypeOK == ControlTypes /\ ChunkTypes /\ IndexTypes /\ ListingTypes

(* The most frames a power loss may take: flush_packets, and the one just  *)
(* written if that is zero.                                                *)
LossBound == IF FlushPackets = 0 THEN 1 ELSE FlushPackets

(* Whenever the power fails, and unless the system itself reported errors, *)
(* the disk holds every rotated chunk in full and all but the last         *)
(* flush_packets frames of the current one, and as much of the index       *)
(* (Flush(true) at chunk_writer.cpp:80 and 139, fsync at 152 and 160).     *)
BoundedLoss ==
  (pc = "power_lost" /\ faults = 0) =>
    /\ \A i \in 1..last :
         chunks[i].packet_count <= left.frames[i] + (IF i = last THEN LossBound ELSE 0)
    /\ index.lines <= left.index + LossBound

(* A closed session is on the disk: the last fsync of Close has covered    *)
(* every frame of every chunk and every line of the index                  *)
(* (chunk_writer.cpp:187-196).                                             *)
ClosedIsDurable ==
  (pc = "closed" /\ faults = 0) =>
    /\ \A i \in 1..last : chunks[i].disk = chunks[i].packet_count
    /\ index.disk = index.lines

(* The file is whole and lists each chunk with these counts or more.       *)
Covers(file, counts) ==
  /\ file.state = "whole"
  /\ Len(counts) <= Len(file.lists)
  /\ \A i \in 1..Len(counts) : counts[i] <= file.lists[i]

Recoverable(counts) ==
  counts # << >> => \E file \in {manifest, tmp} : Covers(file, counts)

(* However the process is killed, and although the old file is removed     *)
(* first, a whole listing is there, as ego_manifest.json or still under    *)
(* its temporary name (util.hpp:73-99).  Whatever calls fail, it covers    *)
(* the listing last put in place, until the fallback of a failed rename    *)
(* has given the temporary file up (line 96); if none fails it covers the  *)
(* last completed Flush.  Nothing is synced, so a power loss may take it.  *)
ManifestRecoverable ==
  pc # "power_lost" =>
    /\ Recoverable(listed)
    /\ faults = 0 => Recoverable(flushed)
=============================================================================
