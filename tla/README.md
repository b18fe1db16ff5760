# Specifications of LocalPC

LocalPC records the measurement frames of a vehicle's EGO unit and processes
the recordings afterwards. `runtimepc` is the recorder daemon (`ego-runtime`),
`offline` the post-processing program it starts on each finished session
(`ego-offline`), `common/ego_v1` the frame contract both share. The modules here specify both programs:
of the recorder its threads, its session life cycle, its buffer and its files; of the
offline program what each stage computes from the logs, the files it leaves, and their
upload. Source paths are relative to `src/`.

## Inventory

| Component | State | Operations | Hard because |
|---|---|---|---|
| Packet buffer (`packet_buffer.hpp`) | queue, byte count, drop count | Push, Pop | two limits at once, unsigned byte count, drop-oldest |
| Recorder orchestration (`runtime_service.cpp`, `main.cpp`) | buffer, writer, thread handles, `stop_threads_`, `daemon_running_`, `finalize_in_progress_` | StartDaemon, StartRecording, StopRecording, FinalizeActiveSession, WriterLoop, ReportLoop, OnContractFrame, StopDaemon | six threads, objects replaced under running threads, one stop flag with several owners |
| Session manager (`session_manager.cpp`) | active session and its state | Start, Stop, MarkStopped, SetError | transitions come from any thread |
| Contract TCP client (`contract_tcp_client.cpp`) | socket, thread, stop flag | Start, Stop, ReceiveLoop | blocking reads, no reconnect |
| Chunk writer (`chunk_writer.cpp`, `WriteTextAtomic`) | chunk file, index, manifest, flush counters | Open, WriteContractFrame, rotation, Flush, Close | power loss, partial flush, reopening truncates |
| Session integrity (`session_integrity.cpp`) | none | CheckSessionIntegrity | judges files other steps are writing |
| Storage monitor (`storage_monitor.cpp`) | last level | MonitorLoop | reports changes only |
| Control IPC (`control_ipc.cpp`) | listening socket, thread | ServeLoop, Stop, SendCommand | stop races the accept loop |
| Shutdown, offline trigger, diagnostics, configuration | flags, counters | | |
| Offline driver (`main.cpp`, `pipeline.cpp`) | list of errors, status of each stage, output directory | process, validate, export-mdf4, upload | early returns beside old files, any write may fail |
| Log loading and demultiplexing (`load`, `parse`, `demux`) | none | chunk list, format detection, the scan of both logs | chunks cut, missing, or of another format |
| Validation (`log_validator.cpp`, accumulator in `pipeline.cpp`) | last sequence number and time of each stream | feed a frame, valid ranges, verdict | frames late, damaged or lost, twice implemented |
| Synchronisation and alignment (`sync`, `align`) | none | search by GNSS, search by sirens, apply, grid, interpolation | two clocks, signs, gaps of the fix |
| Scenes (`scene`, `finalize`) | pending siren | geometry, segments, classes, links | switches out of step, invalid geometry |
| Measurement file (`mdf4`) | write position, block addresses | prepare, build, write, validate, checksum | links and lengths patched in later |
| Reports (`reports`) | none | scores, status, tables | verdicts over verdicts |
| Upload (`upload`) | next file, attempts | gate, put with retries, manifest, report | one file of several fails, old files |

`PROJECT.json` lists every component with its status, and under `hazards` what
can go wrong in each, at its line.

The parts interact by calls and shared objects. The receive thread calls
`OnContractFrame`, which may start or stop a session and pushes frames into the
packet buffer; the writer thread pops them into the chunk writer; the control
thread (operator), the storage thread (disk full) and the main thread (signal)
call `StopRecording`. Whoever stops a session finalises it: it joins the writer
and report threads, drains the buffer, closes the files, writes metadata and
summary, destroys buffer and writer, starts the offline pipeline, and starts the
two threads again. `service_mu_` serialises start and stop; nothing else holds
it, so frames and the writer thread run against every intermediate state.

The offline program is one thread. It meets the recorder only in the files of a
session, which it reads, and its own earlier runs in the output directory, which is
never emptied: a run that returns early, fails or is killed leaves files of
several runs side by side, and `upload` later sends what it finds.

## Modules

| Module | What it is |
|---|---|
| `Lists` | the loops over lists that several parts share: sums, selection, sorting |
| `PacketBuffer` | the buffer as a value: `Push`, `Pop` and the drop loop as operators |
| `PacketBufferSpec` | the buffer used concurrently, with histories of what was pushed, popped and dropped |
| `RuntimeService` | the daemon: threads main, client, control, storage with a program counter each, the writer and report threads, session state, buffer, files |
| `RecordingSession` | the abstract promise: each frame logged once, in order; sealed, then published, then unchanged |
| `RuntimeServiceProperties` | the properties of the daemon and the refinement mapping to `RecordingSession` |
| `ChunkWriter` | the files of one session, step by step: write, rotate, flush, sync, manifest, close; kill and power loss between any two steps |
| `SessionIntegrity` | frame counting and `CheckSessionIntegrity` as operators |
| `SessionFiles` | a session that is closed and then judged |
| `PacketBufferProofs` | theorems about the buffer |
| `ChunkWriterProofs` | theorems about the chunk writer |
| `RuntimeServiceProofs` | theorems about the daemon: its sessions and threads, then its frames |
| `EgoLog` | reading the logs back: chunks, formats, scans, streams |
| `LogValidation` | the accumulator, the two-pass validator, valid ranges, the validation report |
| `TimeSync` | the two searches for the clock offset and the choice between them |
| `SceneBuilding` | grid, alignment, geometry, segments, classes, links |
| `Mdf4File` | the channel groups and the blocks they are written as |
| `Reports` | scores, the usable verdict, the table of events |
| `OfflineDriver` | runs over one output directory: stages, early returns, files, upload, faults, kills; what the stages find is arbitrary |
| `OfflinePipeline` | the same stages with what they compute from a session; implements `OfflineDriver` |
| `OfflineProperties` | the properties of the computed results |
| `OfflinePipelineProofs` | theorems about the offline program: the driver, its refinement, loading and validation |
| `SceneProofs` | theorems about the offset, the segments and their classes |
| `Mdf4Proofs` | the theorem about the measurement file |
| `FoldFacts` | induction over numbers and over the prefixes of a fold, for an operator that is a constant |
| `ListFacts` | lemmas about sums, selections, flattened lists, largest and smallest elements |
| `MCPacketBuffer`, `MCRuntimeService`, `MCOffline` | constants for TLC |

### How `RuntimeService` corresponds to the code

Each variable carries the name of the member it models (`buffer_` is `buffer`,
`sessions_.State()` is `state`), and each action is one call on an object that
locks itself, or one access to a shared member that is not locked. `pc[t]` says
where thread `t` is in `StartRecording` (`start` .. `start_open`),
`StopRecording` (`stop` .. `restart`) or its own loop. `wthread` and `rthread`
are the handles of the two worker threads: `none` when not joinable, `done` when
the function returned and the handle waits to be joined.

* Frames are numbers in order of arrival; a frame is recorded, or starts or ends a session.
* The files of a session are one log, `disk[s]`, and the state of its stream, `chunk[s]`.
  A write through a closed writer truncates, as `OpenChunk` does. Rotation and
  flushing are invisible here.
* The wait of five seconds in `StopRecording` may end at any time.
* A call on a null or destroyed object, and the assignment of a thread over a
  joinable one, either terminate the process (`Crash`) or pass without effect.
* Data races on the unique pointers themselves are read as one of the two values.
* A blocked read of the receive thread is ended by the peer only
  (`ClientDisconnect`), as `ContractTcpClient::Stop` joins before it closes the socket.
* `ControlServer::Stop` raises its flag, sends a PING to its own socket to wake the
  accept loop, waits for the answer, and joins. While the main thread is there
  (`d_control`) the loop takes no further command (`NextCommand`): either it answers the
  PING and leaves (`JoinCaller`), or it saw the flag before the PING came and leaves
  without (`ControlLeaves`). In the second case the PING sits in the
  backlog of a socket that is closed only after the wait: `Stranded`, where the daemon
  stays (control_ipc.cpp:137 and 158).
* The `--input` mode (one thread, no buffer) is not modelled.

### How `ChunkWriter` corresponds to the code

`pc` is the place within a call; `after` is what the caller of `Flush` does next
(return, rotate, close). `chunks[i]` is the entry of `chunks_` together with its
file: `packet_count` frames were handed to the stream, `os` of them have
certainly reached the system, `disk` have certainly been synced. `index` is
the same for `ego.index`. The stream and the system may write more at any time,
which shows only in what a crash leaves (`Found`): any number between the
certain one and the whole. A listing is the manifest's packet counts. Two histories
serve the properties only: `flushed`, the counts when the last `Flush` returned, and
`listed`, those of the listing that was last put in place.

* A frame is one unit of size. Both clocks may have expired at any frame.
* A failing call of the system uses up one of `MaxFaults`; the code then goes on
  as written, mostly without noticing. A stream that failed may still write
  some of its buffer, never more than it was given.
* A file synced by `fsync` is assumed to survive with its directory entry. The
  manifest is never synced, so nothing is claimed of it after a power loss.
* Frames are validated before they are written, so the checks of size and magic
  never refuse one.
* When the rename fails, `WriteTextAtomic` writes the manifest in place and removes the
  temporary file before the stream is closed. Until then what was written may be in the
  stream's buffer, so `RewriteManifest` leaves a whole file or a part of one, `DropTmp`
  follows, and only `EndRewrite` makes it whole for certain.

### How the offline modules correspond to the code

`stage` of `OfflineDriver` names what `run_full` does next, mostly by the file it
is about to write. A file in `out` is the number of the run that wrote it and whether it was
written to its end; a file in `bucket` is a run number. A command line is one
record with the settings it reads from the configuration.

* A file written by an `ofstream` has four outcomes: whole; cut, which nobody notices
  (`Short`); not opened, which throws and ends the run (`NotOpened`); cut by the end of the program
  (`Torn`). The measurement file is written beside its place and renamed, so a failure
  that the stream reports leaves the old one. Failures, failed uploads and kills
  share the budget `MaxFaults`.
* A kill may come at any stage; a power loss is not modelled, since the program never syncs a
  file and nothing could be claimed. The gate's check for `session.mf4.placeholder`
  (s3_uploader.cpp:137) is left out: nothing in the repository writes that file.
* A session report that was cut may or may not still show its status to the gate; a cut
  measurement file may be empty, which the gate takes for a missing one.
* A request of the S3 client is one step that succeeds or fails, and the object then
  equals the file. Two places of the code can break that, and `UploadComplete` does not
  cover them: `s3_client.cpp` writes its temporary body unchecked, and `read_file_bytes`
  (s3_uploader.cpp:58) returns an empty body for a file it cannot open, and does not notice
  a short read, so an empty or cut object is put and counted as ok. An answer 403 or 404 gives up at
  once, others may be tried `MaxRetries` more times. `include_session_files` keeps its
  default, off.
* In `OfflinePipeline` a session is its files, as frames and packets, and the commands
  run on it. `stage` and all files are those of the driver; the
  further variables are the results of the latest run that computed them.
* Frames carry what the stages look at: format, readable or not, checksum, sequence
  number, time, kind, and for a GPS sample the fix, the speed and a place.
* A unit of time is the step of the offset search (0.1 s); the other durations are
  constants in this unit. Places are on a line, a range is a distance on it, divisions
  round down. Correlations and confidences are compared as squared fractions, without
  roots. Azimuths, the ellipsoid and velocity vectors are left out.
* `interpolate_gnss` keeps the fix of the earlier sample; `Interpolate` does the same.
  `std::sort` may order equal times either way; the sessions have none among GPS samples.
* Contract frames carry no fix quality after demultiplexing, so their GPS never has a
  fix here (`GpsPoint`).
* A measurement file is its blocks by address, each with the length it states, its
  links and its data. Texts have one length, padded as the code pads them.

Operators named after an action with a different verb, each under a comment
"Deviation", are mistakes of the kind the properties are there to catch; no
specification uses them.

## Runs

| Run | Instance | Shows |
|---|---|---|
| `buffer` | capacity 3, 4 bytes, packets of 1, 2 and 5 bytes, 5 pushes | order, accounting and both limits of the buffer |
| `service_stop` | 3 frames, capacity 2, one STOP, one alert, one file error | stops from four threads race: one finalises, alone; no silent loss |
| `service_auto` | 4 frames of all kinds, capacity 2, one alert | sessions started and ended by the peer while the daemon starts; implements `RecordingSession` |
| `service_restart` | 2 frames, capacity 1, three START or STOP commands, one file error | sessions after sessions, also over a failed one; implements `RecordingSession` |
| `service_liveness` | 1 frame, capacity 1, one START or STOP, one alert, one file error | stops return, the buffer drains, and a signal ends the process or one of two named things happened |
| `session_files` | chunks of 3 frames, a flush every 2, 4 calls, 2 faults | rotation and flush against kill, power loss and failing calls; the verdict on what is left |
| `offline_runs` | logs of up to 9 frames and 2 chunks, source logs of up to 10 packets; two runs, 2 faults, 1 retry | the data of every stage on damaged, lossy and synchronised sessions; stages, files and upload under faults |
| `equal_clocks` | a drive whose two clocks agree | events stay at time 0 when the offset is 0 |
| `late_frame`, `error_stop`, `auto_shutdown`, `silent_peer` | one or two frames | four places where the code does not do what its documents say |

Bounds. A frame lost, duplicated or out of order needs two frames in flight and
one already written; three frames with capacity two also make the buffer drop.
Two finalisers and a third caller cover the contention for `service_mu_`; three
commands are needed to reach a START over a writer that is in use. One file
error is enough because the first one already changes the session's state.

Four calls fill a chunk by size and more by time, so count, size and time limits
meet at the same frame; after two faults each error path has been taken, alone
and after another. The properties with a premise on `faults` say
what holds without a fault (`BoundedLoss`, `ClosedIsDurable`, `CleanSessionIsOk`) or with
at most one (`LossIsNoticed`). `ManifestRecoverable` has two parts: whatever calls fail, the
listing last put in place is not lost, until the fallback of a failed rename gives the
temporary file up; and without a fault the listing found covers the last completed flush.
After that removal a kill before the stream is closed leaves no whole listing at all, so
the first part cannot go on. Neither part speaks of a power loss.

In `service_liveness` the operator may start a session after the main thread's own stop,
and the peer, the operator or an alert may have it finalised while `StopDaemon` waits. Without
the exception `TakesFlagBack` TLC finds the process hanging there. One frame, one command
and one alert give every pair of a start and a later stop. The same properties hold with
sessions that the peer starts, and with two frames and no file error; these instances
need most of the time a run may take.

The sessions of `offline_runs` are five families (`MCOffline`), each for one
kind of trouble:

* `DamagedLogs`: every log of three frames over two small sets of frames, one of audio with
  damage, one of audio and IMU. Loss, lateness, a jump, a pause and damage each need two frames; three
  make one fall between two others.
* `Layed`: the same few frames over two chunks, one of which may be missing, empty, cut
  or of the other format, with and without a list of chunks.
* `Usable`: every way four frames can lose up to three, with a source log that overlaps
  or not, for the scores.
* `Drives`: five seconds of GPS with or without a lost fix, five tracks (approach, pass, recede, stand,
  jitter) and the sequences of up to three siren switches (of three, those that begin with a siren_on), with a
  source clock that is before, equal or behind. The search window of one
  second each way holds every offset used.
* `Pairs` and `Spoilt`: a short session on which two commands follow each other, of which
  the first writes and the second may return early, fail or upload, with two faults at any
  writes, requests or moments of a kill. A stale file needs two runs; a fault that
  covers another needs two faults; one retry shows both ends of the retry loop.

The other families run without faults (`steady`), since the data of a stage does
not depend on whether its file was written.

Fairness. Every thread of the process keeps running (`Fairness`: weak fairness
of each thread's own steps). Nothing is assumed of the peer, the operator, the
disk or the sender of signals. `GracefulExit` has one more hypothesis,
`PeerEndsRead`: the peer eventually sends or closes while the client is being
stopped; `silent_peer` shows that it is needed. Two ways not to end are allowed for,
because no scheduling excludes them: `Stranded`, and `TakesFlagBack`, where the main
thread is inside `StopDaemon` and a finaliser is about to take the stop flag back
(`auto_shutdown` shows where that leads). What `GracefulExit` claims is
that there is no third way: whatever starts, stops and fails meanwhile, a stop never waits for
ever on the mutex, on a join or on the buffer. That the operator's commands are bounded means that
nobody keeps `service_mu_` busy for ever. Nothing is claimed of the offline program under
fairness: its loops are bounded and each step is its own, and whether a request of the S3
client returns is up to the network (it sets no time limit).

Deadlock is checked in the service runs: a process that has not ended can
always take a step, or waits for one of the threads above. In `buffer` the
behaviour ends when all pushes are used up, in `session_files` when the session is
closed and judged, killed or without power, in `offline_runs` when the last command has
exited. A daemon that is `Stranded` counts as ended there: the sentence above names
the place.

### Where the code and its documents disagree

* `late_frame`: `OnContractFrame` reads the state (line 240) and pushes later
  (255); a stop that drains in between loses the frame without a trace.
* `error_stop`: after a failed write the state is Error, `StopRecording`
  refuses, and the session is never closed, saved or published.
* `auto_shutdown`: a finaliser running during `StopDaemon` takes back
  `stop_threads_` and starts the threads that `StopDaemon` joins: the process hangs.
* `silent_peer`: SIGTERM does not end the process while the peer is connected and silent.
* `equal_clocks`: the pipeline applies the offset unless it is 0 (pipeline.cpp:443), but only
  the application sets `ts_ego_ns` of an event. With clocks that agree, or after a failed
  synchronisation, all events sit at time 0 and no segment is found, while
  `scene_builder.cpp:136` takes them as "already in ego clock".

More, without a run of their own. In the recorder:

* `ControlServer::Stop` raises its flag, sends itself a PING and waits for the answer
  (control_ipc.cpp:136-139). A loop that saw the flag first has left, and the listening
  socket, in whose backlog the PING sits, is closed only after the wait: the main thread
  stays in `recv`. This is `Stranded`.
* The receive thread runs before the worker threads exist. A session the peer starts and ends
  meanwhile makes `FinalizeActiveSession` and `StartDaemon` both create them
  (runtime_service.cpp:133, 393), and assigning over a joinable thread ends the process
  (`Crash`). `service_auto` reaches it and shows that what was published is right even then.
* TZ_ego_runtime_rpi5.md:200 asks for an atomic update of `ego_manifest.json`;
  `WriteTextAtomic` removes the old file first, so there is a moment without one.
  `ManifestRecoverable` states what is true instead.
* RUNTIMEPC_GUIDE.md:250 describes the integrity check as comparing manifest, index and
  files; the manifest only has to exist. After one failed update it is stale and
  the verdict is still `ok`.
* With two faults a lost frame goes unnoticed by the integrity check (chunk and
  index lose the same number), so `LossIsNoticed` speaks of one.
* The fallback of `WriteTextAtomic` removes the temporary file before the stream of the new
  manifest is closed (util.hpp:96): one failed rename and a kill there lose the listing.
* The interval of `flush_interval_sec` is looked at when a frame is written: when
  no frame follows, the last ones stay unsynced until Close.
* A local client that connects and sends nothing holds the accept loop in `recv` (control_ipc.cpp:196).

In the offline program:

* PIPELINE_GUIDE.md:66-80 says that nothing is uploaded without `--upload-s3`. There is no such
  option: `process` uploads unless `--skip-s3` is given, if `s3.enabled`
  (pipeline.cpp:537, main.cpp:84). `WantsUpload` is the code's condition.
* PIPELINE_GUIDE.md:131 lists `--only mdf4` as stopping after that stage; the run goes on
  to the reports, without the upload. `--only scenes` rewrites the session report and leaves a
  measurement file of an earlier run beside it; `NamedFileStays` and `SuccessIsFresh`
  say what holds then.
* The accumulator replaced the two-pass validator and does not compare the
  frame count of the manifest: a log cut at the end of its last chunk loses no frame by
  its count. It marks no gap at a damaged frame, so a range reaches across it, and it
  takes a missing chunk for an empty one. A legacy frame of another version with a wrong checksum
  it counts as damaged (pipeline.cpp:49); the two-pass validator skips it first
  (log_validator.cpp:91). `SinglePassAgrees` states the agreement without these. The last
  one was found by trying to prove it.
* A late frame moves the expected number back and the loss is counted again:
  `LossNeverUnderstated` states one direction only.
* Sessions of contract frames have no fix (above): their offset never comes from
  GNSS and no geometry of theirs is valid. The fallback takes every audio block as an onset
  and stops at the first offset with the most matches, at a confidence of 0.8.
* Valid ranges intersect ranges of two clocks before the offset is known, and the search
  filters the source's points by ego time.
* The checks for pauses of audio and IMU look for types 1 and 3; in the contract format these
  streams are types 100 and 101, and type 1 starts a session, whose payload is then read as
  the header of an audio block and may divide by zero (pipeline.cpp:105).
* In a log of less than 200 frames one gap of the audio or telemetry gives its stream
  the score 0; two clean source streams carry an ego log that lost half of its frames over the
  limit. `UsableIsSound` states the half.
* The trajectory never has a solution and the speeds of `Scene.Metrics` are never
  computed: their channels hold no value, or 0.
* The checksum of the sidecar ignores what follows the last full 64 bytes
  (mdf4_lib_adapter.cpp:78-98), and its failure leaves an older one: `SuccessIsFresh`
  excepts it.
* A second siren_on before the siren_off replaces the first; a siren_on at
  a negative ego time is forgotten. `SegmentsMatchSiren` says so.
* A session without a source log has pipeline status "failed" and exit code 0.

## Proofs

The theorems hold for every value of the constants that meets the assumptions named
where the constants are declared (`BufferAssumption`, `PushesAssumption`, `ServiceAssumption`,
`WriterAssumption`, `DriverAssumption`, `SessionsAssumption`, `ValidationAssumption`,
`SyncAssumption`, `SceneAssumption`, `TextAssumption`): limits are positive, durations are not
negative, sessions are made of frames and packets. Two theorems have a hypothesis of their own,
named below. The theorems about data hold for logs of any length.

Much of the code is a loop over a list, modelled as a fold or a recursive function. The induction
these proofs need is stated over a set of numbers (`Induction` of `FoldFacts`); what a fold
computes from a prefix is proved once for an operator that is a constant of `FoldFacts`, and the
proofs instantiate that module with the body of each loop (`Feed`, `Best`, `Switch`,
`InTime`). Loops that only select or sort use `Keep` and `Ascending` of `Lists`, which the
proofs can expand, where the library has operators that they cannot.

* Buffer: `QueueStaysNewest`, `NothingLeavesUnaccounted`, `PacketLimitHolds`. One
  invariant, that the queue is the end of the pushed sequence and the three
  lengths add up, carries all three. The byte count is the sum of the sizes in the queue
  (`ByteInv`: `BytesStayExact`, `ByteLimitHolds`), and the packets that left are the first ones
  pushed, split in two increasing sequences (`LeavesInv`: `PacketsLeaveOnce`);
  `BufferTypeCorrect` and `NothingDroppedWithoutNeed` follow.
* `FinaliserIsAlone` (`[]FinalizeAlone`). `FinalizeAlone` is not inductive: it says
  nothing of how the worker threads came to be out of the way. The invariant
  `Exclusive` adds that whoever is inside `StartRecording` or `StopRecording` holds
  `service_mu_` (`LockOrder`), that from the first join to the reset the stop flag
  is up (`WorkersOut`) - so a worker that `StartDaemon` creates meanwhile
  leaves without touching the session - and that a thread moves only after it was created
  and before the process ended (`LifeCycle`).
* `ClosedIsFinal` (`ClosedStaysClosed`) and `PublishedIsComplete`
  (`[]PublishedComplete`). The invariant `Orderly` adds what the holder of the mutex
  knows of the active session at each place (`Knows`: its writer is the one in
  place, its chunks are closed from `mark` on, its metadata is written from `summary` on,
  it was not published before), what is true when nobody holds the mutex
  (`AtRest`), and that the writer in place is closed only while a finaliser is
  about to reset it (`WriterOpen`). With `Exclusive` this excludes a write by
  the writer thread, or by a second finaliser, to a closed file.
* `TypeCorrectness` (`[]TypeOK`). The invariant `Seats` counts the starts that are still
  to come: the main thread has one, the client thread one while the state is Idle,
  and the operator one per command, so `sid` never leaves `Sessions`. The other
  theorems therefore speak of every session there is.
* `NothingIsLost` (`[]NoSilentLoss`). The property speaks of published sessions; the
  invariant `Accounted` follows the frame until then. While its session is the active one
  the frame is dropped, on disk, in the buffer or in the writer's hands (`InFlight`). For
  that the buffer and the writer in place must be those of the session, which holds because
  a session that was finished leaves nothing in place (`Clear`, `WriterInPlace`): this is
  where the property's exception for sessions started over an unfinished one comes from.
  The drain ends with an empty buffer and idle hands (`Tidy`), so what is left is on disk.
* `WriterIsAlive` (`[]WriterAlive`). The invariant `Manned` says who may have raised the
  stop flag or left the writer thread gone: only somebody inside the finalisation, or the
  main thread before it created the threads or after it began to stop the daemon.
* `PromiseIsKept` (`KeepsPromise`): the daemon implements `RecordingSession`. Every step is a
  stutter but `StartSession` (`Begin`), `CloseWriter` (`Seal`), `TriggerOffline` (`Publish`)
  and a successful write of either thread (`Record`). That a write records a frame behind
  all the others needs the invariant `Ordered`: disk, the writer's hands, the buffer and the
  client's hands hold frames in the order of their arrival, with nothing twice.

* `WriterTypes` (`[]TypeOK` of `ChunkWriter`), `PowerLossIsBounded` (`[]BoundedLoss`) and
  `ClosedIsOnDisk` (`[]ClosedIsDurable`). `BoundedLoss` speaks of the state after the
  power loss only. The invariant `Durable` says what was at risk before it: rotated
  chunks are synced (`RotatedSynced`), the unsynced frames and lines are at most those
  counted in `packets_since_flush_`, with room for one more wherever one may come
  (`Pending`), each step of a flush has done its part (`Progress`), and without a fault
  no stream is bad (`StreamsInOrder`).
* `ListingIsNeverLost` (`[]ManifestRecoverable`), for any number of failing calls. Between the
  removal of the manifest and the renaming there is none; the invariant `ListingKept` says
  that from the removal on until the renaming, or until the fallback gives it up, the temporary
  file is whole and lists the chunks as they are, which covers every earlier listing because
  counts only grow. For the second part of the property `Listed` adds that without a fault
  the fallback is never reached and the manifest is whole when a flush returns. Nothing is
  claimed after a power loss, nor after the fallback's removal until a new listing is in place.
* `CleanSessionPasses` (`[]CleanSessionIsOk`) and `OneLossIsNoticed` (`[]LossIsNoticed`). The
  verdict compares the sum over the chunks with the lines of the index. One fault strikes
  the chunks or the index but not both (`OneInOrder`), so the other convicts it; that the
  two sums agree before (`IndexInOrder`) is an induction over the frames.

* Offline: `DriverTypes` (`[]DriverTypeOK`) and `NamedFileKept`
  (`[]NamedFileStays`), both inductive with the types.
* `SuccessMeansFresh` (`[]SuccessIsFresh`). The property speaks of the end of a run only.
  The invariant `Progress` says of every stage which files of this run are behind it
  (`Reached`), so that a stage which is skipped, or an error that is not put in the list,
  breaks it where it happens.
* `UploadIsComplete` (`[]UploadComplete`). The invariant `Puts` says that as long as
  `all_ok` holds, each file that was passed is in the bucket as it is in the directory
  (`Owed`), and that only a gate that is not a dry run leads to the requests.
* `PipelineIsDriver`: `OfflinePipeline` implements `OfflineDriver`. The data only narrow the
  choice of the driver; the bound on runs is the number of commands.
  `PipelinePromises` carries the three properties over to every set of sessions.

* `ResultsAreOfTheLogs` (`[]DataInv`): at each stage, what earlier stages handed on is
  what they compute from the logs of this session, never a result of the run before. The
  theorems below speak of a moment when a report is there, and start from this.
* `LossIsReported` (`[]LossNeverUnderstated`): each number missing between two accepted
  frames is counted by the accumulator, by induction over the log.
* `RangesHold` (`[]RangesAreSound`), if `MinValid > 0`: otherwise a range may be empty. The cuts of
  the range of the log are sorted, so no range contains one, and the total cannot exceed the
  whole.
* `UsableHolds` (`[]UsableIsSound`): the score is a weighted sum; below the stated share of
  frames no scores of the other streams reach the limit.
* `SinglePassHolds` (`[]SinglePassAgrees`). The second pass is restated as sets of positions
  (lost, late, repeated, jumping, pausing); each frame that the accumulator is fed adds
  to its counters exactly what it adds to these sets, given what the accumulator `Remembers` of the
  frames before: the last number and time of each stream.
* `SyncHolds` (`[]SyncIsApplied`): a search is a fold that takes the better of two
  offsets, so its result is one of the window and beats all others; the times of the samples are
  shifted by it once.
* `SegmentsHold` (`[]SegmentsMatchSiren`): the fold over the switches pairs a siren_on with
  the siren_off after it; by induction the periods paired so far follow each other, and each
  switch on that was answered has its period. The selection of the long ones keeps the order.
* `ClassesHold` (`[]ClassesAreTrue`), if `Metre >= 2` or `Second % GridStep = 0`. The closing speeds
  of consecutive samples add up to the difference of the ranges at the ends (they telescope).
  The hypothesis is about the model's whole numbers: a closing speed is rounded down there and a
  double in the code.
* `MeasurementHolds` (`[]Mdf4Readable`): reading `session.mf4` back gives the groups that were
  prepared, for any logs and any length of a text. The proof follows the writer.
  - `Put` appends a block at the end of the file, `Patch` changes one link (`PutHolds`,
    `PatchHolds`); both keep the file full (`IsFile`: finitely many blocks, each ending where
    another begins or the file ends) and leave alone every other block (`Keeps`).
  - A group's blocks are at addresses that depend only on where the group begins and on its
    channels (`DgAt`, `CnAt`, `DtAt`, `TextAt`). The texts are there; the channels are chained from
    the group, by induction over the loop of `write_cn`; `GroupIs` puts this together, with
    the one link of an older block that changes: the next link of the last data group.
  - The bytes of the records add up to the product that the header of DT states, because
    the offsets of `make_layout` are sums of the same widths.
  - By induction over the groups those written so far are linked from the header, in order.
    `Chain` follows them: its depth is the number of blocks, which the chain cannot exceed as
    its addresses grow. At the offset the channel states, each record holds its value.
  - `DataInv` says that the file and the samples it is compared with are of the same session.

Model-checked only: everything under fairness (`StopReturns`, `BufferDrains`,
`GracefulExit`), which the provers cannot treat. Every other property of a passing run is
stated by a theorem. The five disagreements above are counterexamples and stay with TLC.

## Not modelled

* Detection of the storage level: the alert may come at any time or never. A session
  that starts while the level is already critical gets no alert (storage_monitor.cpp:66).
* Tracking of sequence numbers and the other counters of the recorder's diagnostics: nothing
  but status texts reads them. A SESSION_ENDED frame is not tracked, so the next one
  counts as a gap (runtime_service.cpp:224).
* Configuration, JSON, metadata, versions: parsed once into what are constants here.
* The layout of frames and payloads, and their decoding: data without behaviour.
* Connecting and reading bytes of the contract client; the `--input` mode.
* The legacy UDP receiver and the transport guard: not part of the build.
* The drift estimate (reported, not used), azimuths, conversion of coordinates, the trajectory.
* Signing of requests and the HTTP client.
* `build_index`, `read_range`, `verify_packet_count`, `validate_source`, `demux_all`:
  called by nobody.

## Plan

1. Done: buffer, service, their runs and first theorems.
2. Done: chunk writer, integrity check, their run and first theorems.
3. Done: the stop of the control server.
4. Done: the offline program, its run, the refinement of the driver and its theorems.
5. Done: proofs of `NoSilentLoss`, `WriterAlive` and the refinement of `RecordingSession`.
6. Done: `ManifestRecoverable` from the single steps of `WriteTextAtomic`, the byte accounting of the
   buffer, the verdict on a session, the data of the offline stages.
7. Done: `Mdf4Readable` as a theorem.
8. Open: a client that sends nothing to the control server.
