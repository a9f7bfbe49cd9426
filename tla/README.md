# A TLA+ verification of Gambit Record

Gambit Record records a game window as evidence and uploads the video to a shared
YouTube channel. Three programs take part:

- the **plugin** (`grecord/`), an ASI module in the game: it follows the game's
  messages and commands, and tells the worker when to record;
- the **worker** (`recorder/`, `GambitRecord.exe`): it captures the window, encodes
  H.264, keeps a replay buffer, writes MP4 files and uploads them from a persistent
  queue;
- the **broker** (`broker/`), a Cloudflare Worker with Durable Objects: it holds the
  YouTube credentials and passes chunks on to a resumable upload.

The modules here model the parts of it that have a protocol, and say what TLC and
TLAPS show of them. `PROJECT.json` maps every definition to the lines it stands for and
lists the runs, the hazards, the findings and the theorems.

## 1. Inventory

### Broker

| component | state | operations | what makes it correct |
|---|---|---|---|
| `UploadSession` (index.ts:104-139) | stored `UploadState` (url of the YouTube session, total, `nextOffset`, result), an alarm | `/init`, `/status`, `/cancel`, `/chunk`, `alarm` | offsets never beyond what YouTube has; a url only for a full video; progress is not lost; it is deleted at last |
| `DailyLimiter` (141-152) | a counter per day, and per day and address | consume | the quotas, and counters that are the charges made |
| `createUpload` (47-71) | none of its own | limiter, then YouTube, then `/init`, then the reply | an id that is known is ready; nothing is opened uncharged |
| router, token (31-45, 73-102) | a cached access token | authentication, routing, errors as 5xx | an error is one the client retries |

Requests of one session interleave at the upstream `fetch` of a PUT, where the object's
input gate is open; at its storage operations it is closed.

### Worker: upload side

| component | state | operations | what makes it correct |
|---|---|---|---|
| `BrokerUploader::upload` | offset, upload id, result | GET to resume, POST to create, a loop of PUTs, each with network retries | never goes on behind a missing byte; success only with a url; a job is dropped only for a reason |
| `UploadQueue` | `jobs_`, the state file, the active job | `enqueue`, `run`, `enforce_archive_limit`, `load`, `stop` | no job lost at a crash, no queued file evicted, the queue drains, the archive stays within its limit |

### Worker: recording side

| component | state | operations | what makes it correct |
|---|---|---|---|
| `Application` | stream description, save future, settings, counters of failures | `encoder_loop`, `recover_pipeline`, `handle_command` | the encoder, the session and the published description agree |
| `RecordingSession`, `Mp4Muxer` | `state_`, `path_`, pending metadata and description, the file | `start`, `on_sample`, `stop` | what is reported is closed and of the command that asked for it; frames fit the file |
| `MediaFoundationEncoder` | its size, the frames it holds, `force_keyframe_` | `encode`, `stop`, `request_keyframe` | frames come out in order, a requested keyframe comes |
| `ReplayBuffer`, `SegmentStore` | segments in memory or on disk, a state, a save | `on_sample`, `save`, `stop`, `reset` | a replay holds the time asked for; the buffer is bounded; a save ends |
| `CaptureManager`, backends | window, backend, state | `monitor`, `connect`, callbacks | the capture follows the window and recovers; a failure is not overlooked |
| `BoundedQueue` | the frames | push, pop, clear, close | no frame of a replaced device gets through |
| `IpcServer`, `wmain` | the pipe, the watcher of the game | `run`, `stop`, the end of the process | it listens again and again, no client waits for ever, the worker ends with the game |
| `WasapiCapture`, audio part of `encoder_loop` | the source, `audio_failed_` | start, stop, loss of the device | the sound follows the setting |
| `Config` | `config.json` | `load`, `save` | a crash in a save does not shut the worker out |
| `VideoProcessor`, `D3DDevice`, `Logger`, files | devices | | I/O, left out except for how it can fail |

Four threads meet here: the capture (it pushes frames), the encoder thread (it pops
them, encodes, and calls the session and the replay buffer from inside `encode()`), the
IPC thread (commands) and the upload thread; saves run on a thread of their own, and
audio samples come on WASAPI's.

### Plugin

| component | state | operations | what makes it correct |
|---|---|---|---|
| `Plugin.cpp` | `g_recording`, `g_start_pending`, prompts, announcements | hooks of commands and RPCs, `status_loop`, relaunch | what it shows becomes what the worker does; a start that was asked for is made once; every last upload is announced, none twice or before one that ended earlier |
| `Logic.cpp` | the pending punishment, whom the player watches, the names | commands, server messages, spectating | a command leads to one prompt at most, and not after its time |
| `BitReader`, `UiConfig`, `ThemeReader` | a cursor; settings | reads, polls | no read past the end; a bad file keeps the last good theme |
| user interface | the open prompt, Escape, drawing | clicks, keys | a prompt is closed once; drawing is left out |

### What is hard

Interleavings at the upstream `fetch`; lost replies and repeated requests; a worker that
dies anywhere; deletion of a session under a running request; the day that changes between
two storage operations; a change of window size or a recovery while a command is served;
frames the encoder still holds; disk and encoder errors in the middle; segments cut by
saves; a state that is loaded twice; polls overtaken by commands; a stop that comes when
nobody can be woken; a body that is cut off, a file that cannot be read or removed; a retry
that lets another job pass. `PROJECT.json` lists each at its line, with the properties that
would catch it.

## 2. Modules

```
Protocol            pure functions of protocol.ts
  UploadSession     the Durable Object and YouTube             UploadSessionProofs
    UploadPipeline  one job: client loop, sessions, network    UploadPipelineProofs
                                        --implements--> UploadSession, UploadLedger
  CreateUpload      POST /v1/uploads and the limiter           CreateUploadProofs
UploadQueue         queue, state file, archive, crashes        UploadQueueProofs
                                        --implements--> UploadLedger
SegmentStore        ring buffer and choice of a replay         ReplayProofs
Recorder            encoder thread, session, muxer, IPC thread RecorderProofs
ReplayBuffer        state machine of the buffer, thread of a save
  ReplayPath        the encoder thread and the IPC thread      ReplayProofs
                    that drive it
AudioSource         the source that is captured and the one that is asked for
  Capture           monitor, backend, queue of frames, recovery
    WorkerLife      process, pipe, client, config; the whole worker beside the game
                                                               WorkerLifeProofs
Evidence            punishment commands, spectating, prompts
  Plugin            commands, polls, announcements, restarts   PluginProofs
```

`MC<module>` instantiates a module for TLC. Definitions called *Variant* are what a
plausible mistake would make of the definition after them; a property of a run is
violated when its variant takes the place of the original (`mutants` in `PROJECT.json`).
Variables and definitions commented *history* are not in the program: they record what a
property has to refer to.

**Protocol** has `parseContentRange`, `classifyChunk`, `nextOffsetFromRange` and
`canConsume`. A header is a record, or `NoRange` for anything that does not parse.

**UploadSession.** `store[s]`, `alarm[s]` are the object's storage; `handler[h]` is a
request in progress with the state it has read, which is what makes stale writes
possible. `Initialize`, `Status`, `Cancel`, `Expired`, `AnswerChunk` run to their reply;
`ForwardChunk` ends at the `fetch` of line 125, and `FinishIncomplete`, `FinishComplete`,
`FinishFailed` go on from its answer. `YouTubeAnswers` is the environment: it stores any
part of a chunk that continues what it has, answers 200 when it has all, 308 with a
Range, or an error, also after it has stored. With `MayStoreNothing` it may answer 308
having stored nothing at all. `Alarm` and `Restart` come at any time. A byte is a unit
of the model; the length of a header may differ from its range. `Initialize` is the put and the
`setAlarm` of line 110 in one step: the id leaves `createUpload` only after `/init` has
answered (line 69-70), so that nobody can reach an object that has the one and not the other.

**CreateUpload.** A request goes through the awaits of `createUpload`; `gate` is the
limiter's input gate between its read and its write. Every await may fail (`Fail`), the
POST to YouTube may do so after a session was opened.

**UploadQueue.** An action is a critical section of `mutex_`. `disk` is the state file;
`active` is the copy of the job that the thread uploads, `UploadReturns` stands for the
whole of `upload()`, with every result it can have, and `Commit` for line 75. `keep` is
the recording of the `record_stop` that has not yet called `enforce_archive_limit`:
`handle_command` makes the two calls one after the other, and a crash may come between.
The archive is the set of its files with the rank of their `last_write_time` in `written`:
`WithinLimit` is what the loop over the sorted files leaves, each file tested against the
total that is left when those before it have gone. The files the loop is given are any part of
the archive (`listed`: none, when line 55 returns; without those that lines 57-59 skip), and
any file that is to go may be `stuck`, its `remove` at line 65 failing; `spared` is the history
of both. `next_attempt` is kept as the time that is left. The errors of `equivalent` (line
64) and of `last_write_time` (line 59) are left out.

**UploadPipeline** opens `upload()` up and composes it with `UploadSession`: a request
of the client is a handler there. `NetworkError` is a lost request, a lost reply, or a
timeout after which the broker still works on the request, so that the repeated one
overlaps it. `Resend` is the retry inside `request()`, `Retry` the one of the queue.
`BeginFails` are the returns of lines 139-150: for good, or retryable with the upload id lost,
since only line 158 takes it over. `ReadFails` is line 187, `NotServed` an answer that is not
the object's (a 5xx, or a refusal such as 401). A reply may come without a readable body
(`ReadBody`; `read_response` returns what it has): then a GET gives the offset 0, a 308 the
client's own count (`client.guessed`), a 201 no id and a 200 no url. `mishaps` is the history
of what went wrong, by which the properties tell what may follow from it: a reply that was
`"lost"` or `"garbled"`, a request the broker `"refused"`, a client `"unable"` to go on, an id
that was `"forgotten"`, a worker that `"crashed"`.

**UploadLedger** is the abstract specification: a recording is queued once and settled
once, as uploaded only if a video exists. `UploadQueue` implements it through
`LedgerStatus` (a job is queued as long as the *file* holds it), and `UploadPipeline` for
its single job, through its `published` sessions.

**SegmentStore.** A segment is its `first_pts` and the set of its samples; presentation
times are small numbers and every sample lasts one unit. `Stored` is what reading all
segments back gives. `recorded` is the history of what was appended, and `cuts` of where
saves closed a segment. The disk format and its errors are left out.

**Recorder.** `video.pc` follows the encoder thread through `encoder_loop` and
`recover_pipeline`, `ipc.pc` the IPC thread through `record_start` and `record_stop`.
Every sample the encoder emits is a step of its own, since another thread may run in
between. `file` is the last MP4 file, with its declared size and whether a sample of
another size was written to it (`mixed`). `RecordingSession::start` is two steps
(`Start`, `StartLocked`), as in the source, where `state_` changes before the mutex is
taken. `Encode` to `Publish` and `DrainSample` to `Drained` hold the encoder's mutex, so
that `RequestKeyframe` waits. A drain that throws in a recovery leaves the encoder, and the
frames that `frames_` still has (`capture = "left"`): the thread encodes those before it has
nothing left to do. Audio, presentation times, the sequence header of the
stream and the replay buffer are not in this module.

**ReplayBuffer** has the atomic `state_` and what other threads do around it. `on_sample`
is `FirstLoad`, `SecondLoad` and `AppendSample`, because the source loads `state_` twice
and then takes the lock of the store; `WriteReplay`, `EndSave`, `RunAgain` and
`ResultReady` are the thread of a save, whose test of `state_` and write to it are two
steps. `store` is not the segments, which `SegmentStore` has, but what a replay taken now
would hold: whether there is a keyframe, which sizes its frames have, and whether a
sample is missing between two.

**ReplayPath** adds the encoder thread (`video`: a frame, a change of size, a drain, a
recovery) and the IPC thread (`ipc`: `replay_start`, `replay_stop`, `replay_save` with
their checks in the order of the source). It is the same encoder thread as in `Recorder`,
seen from the buffer; here any failed frame may be the third in a row, so that no counter
of failures is needed. `EncodeFails` is an exception at a frame, also in the `stop()` of a
change of size (line 45), `RecoverFails` one in the `stop()` or `recreate()` of a recovery,
which ends there. `Collect` is `collect_save_result`.

**AudioSource** keeps what `encoder_loop` keeps about the audio: whether a source runs,
which one, the latch `audio_failed_`, and the setting that the IPC thread changes.

**Capture** composes it with `CaptureManager`. `monitor` is the monitor thread inside
`connect()`: `StartBackend` and `Connected` are two steps, since a backend can report its
error between them. A `backend` that is `"dead"` has ended (desktop duplication ends with
its error, Windows.Graphics.Capture may run on). `frames.old` marks frames of a device
that a recovery has replaced. `Halt` and `Renew` are the two halves of
`recover_pipeline`.

**WorkerLife** puts the process around it. `main` follows `wmain` and `~Application` in
their order, `server` the thread of `IpcServer`, `pipe` what the kernel keeps of the named
pipe, `client` the request of the plugin, which has no time limit. A request is one step
(`Handle`), except `settings_set`, which can be interrupted while the file is cut (`Save`,
`Saved`); `LoadConfig` is `load_or_create` at the next start. `Clash` is the undefined case
of two threads that join one `std::thread`: the process may end, or go on as if nothing had
happened. What else undefined behaviour could do is not enumerated; a process that hangs
there for ever would refute `WorkerEnds`, which therefore speaks of builds in which it does
not. There may be one crash after another, up to `MaxFaults`, and the plugin starts the
worker again.

**Evidence** is `Logic.cpp` and the prompts: the one command that waits, its 30 seconds, its
confirmation (a text is what `confirms_punishment` tells apart in it), and Escape, which the
window procedure notes and the next frame serves.

**Plugin** composes it with the two threads that talk to the worker: the game's (`game.pc`)
and `status_loop`'s (`status.pc`). A request is one step because `g_ipc_mutex` lets one
through at a time; what a thread does before it and with its answer are steps of their own,
so that answers are applied in any order. A fault may lose the answer of a command that was
served. `worker` is what the requests see of it. `UploadDone` ends an attempt of any job of
the queue (`worker.uploads`): which one is due first depends on the retries. It succeeds, is
dropped, or stays for its next attempt, and then `last_` is a result without a url. The end
of an upload and the save of the queue are one step here, and `UploadQueue` has the crash
between them. `worker.done` is the history of the uploads that succeeded.

## 3. Runs

All runs finish within five minutes with two workers. Bounds are the constants of the
`.cfg` files; every cap on a counter is a guard that names its bound.

| run | instance | distinct states | what it shows |
|---|---|---|---|
| `upload_session` | 1 session, 2 concurrent requests, 4 units, chunks of at most 2 | 23,315 | with any overlap of two requests, alarm, cancel and restart: no byte is skipped (`NoSkippedBytes`), urls are of full videos (`UrlOnlyIfPublished`), and only an overlap of PUTs, or with a deletion, can lose progress (`SerialProgress`) or an alarm (`DeletionScheduled`) |
| `create_upload` | 4 POSTs, 2 addresses, 2 days, limits 2 and 3 | 511,998 | the quotas hold through failures and a change of day |
| `upload_queue` | 3 recordings of sizes 1, 1, 2 in an archive of 2, one retry, one crash or stop, any removal failing | 732,928 | the file always holds the queue, queued files stay, the limit holds but for files that may not or cannot go, the ledger is implemented, the queue drains |
| `upload_pipeline` | 3 units in chunks of 2, 2 sessions, 2 concurrent requests, 1 network retry, 1 retry of the job, 1 fault | 1,219,196 | the client is not ahead unless it has to guess, a rejection or a second video has a reason, the job is settled |
| `segment_store` | retention 1, segments of 1, times up to 5, 1 save | 484,489 | a replay holds every frame of its time that can be decoded; the buffer is bounded by retention, segment and keyframe gap |
| `recorder` | 2 commands, 2 sizes, 1 frame held back, recovery at the 2nd failure, 3 errors | 3,861,692 | files are closed when reported, of their command, of one size; a waiting session ends |
| `replay` | 2 sizes, 1 frame held back, 2 errors | 557,116 | a replay has no hole and one size, a stopped buffer stays stopped, a save ends and is collected |
| `plugin` | 4 inputs, 2 faults, a restart after 2 failed polls | 701,547 | a recording for every request at most, a prompt for every command at most, announcements in the order in which the uploads ended; what is shown settles, and so does a start that was put off |
| `worker` | 2 sources of audio, a queue of 2 frames, 2 faults | 380,079 | no failure of the capture is overlooked and no frame of an old device gets through; the worker listens, answers, recovers, follows the setting and ends with the game |
| `session_retention` | as `upload_session` | violation | see findings |
| `session_no_range` | as `upload_session`, `MayStoreNothing` | violation | see findings |
| `interrupted_upload` | as `upload_pipeline` | violation | see findings |

Why the bounds are enough for what they show. Two requests are all it takes for a stale
write, and more only repeat it; four units in chunks of two give a first, a middle and a
last chunk and partial storage in each. Four POSTs exceed both limits. Three recordings give
a queue with an active job, one that waits and one that is being added, and an archive where
a protected file lies between two that may go. One fault per upload is chosen so that the
reasons in `RejectionExplained` and `SingleVideo` stay visible: with one fault, every job
that is lost or doubled is explained by *that* fault. Refusals, local failures and expiry
come in addition to it. One retry of the job is too few for the second video that a
forgotten id leads to (a session, the attempt that forgets it, and a third one that opens
another); with two, the run takes longer than five minutes, and for this case the theorem
`OneVideoPerRecording` has to do, which holds for any number. Three recorder errors reach a
recovery, which two frames lead to, whose own drain fails too; in `replay` they reach a
write error during a save together with a recovery. Four inputs give a start, a stop and two
more commands that overtake them, and two faults a lost answer followed by a crash. A queue
of two frames can be full and be neither full nor empty. Two faults in `worker` give a
backend that fails during its own recovery, and a crash after which something fails.

Each module has a type invariant (`TypeOK`, `PathTypeOK`, `WorkerTypeOK`, ...). It is a
part of the inductive invariants of section 5 where there is one; only `upload_session`
spends a property of its run on it. Its bounds on attempts and held frames are bounds of
the code.

Deadlock is checked in `upload_session`, `segment_store`, `replay` and `plugin`, where
something can always come. The other systems may stop: all POSTs answered, all recordings
settled, the job settled, all commands used with the capture stopped, the game and the
worker ended.

### Exceptions the properties make

Where the code does not keep a promise in general, a property says exactly when it does:

- `SerialProgress` and `DeletionScheduled` except an overlap of PUTs with each other or
  with a deletion, which the client's own retries can cause;
- `ClientNotAhead` except an offset the client has counted by itself, after a 308 whose body it
  could not read (BrokerUploader.cpp:198);
- `RejectionExplained` except refusals, lost or unreadable replies, a client that cannot go on
  (no configuration, no file, a file that cannot be read) and expiry. What is left is that
  retries, restarts, crashes, unavailability and partial storage alone never drop a job:
  each of them can make the client and the broker disagree about the offset, or end the loop
  without a url;
- `SingleVideo` except lost replies, crashes, expiry, and an attempt that fails before it has
  taken over the upload id (BrokerUploader.cpp:147, 150);
- `LimitEnforced` except files that are protected, that could not be removed, or that were not
  found; one that could not be removed still counts, and others have to make room for it;
- `AnnouncedInOrder` is about the order in which uploads ended, not that of the recordings: a
  recording whose upload is tried again is passed by the next one;
- `OwnRequest`, `RecordingReported` and `SteadyFiles` except a file that is begun
  between the two steps of `RecordingSession::start`, and `SteadyFiles` commands that
  come while a change of size or a recovery is past the point where it stops the
  recording;
- `WaitingEnds` except a capture that is stopped, as it stays for ever after a recovery
  that failed;
- `ReplayWhole` except a write error, and a sample that meets a change of `state_` between
  its two loads or before its append;
- `ReplayOneSize` except what `encoder_->stop()` puts out after the buffer was reset
  (Application.cpp:44), a frame of a size whose `encode()` failed before it was published,
  and commands that a change of size or a recovery overtakes;
- `StoppedHolds` and `SaveSettles` except a write error: after it the end of a save can
  start a stopped buffer (ReplayBuffer.cpp:43), and a save can be refused with a future
  that is never ready (line 27);
- `PendingSettles` except a recording that runs already: the start stays pending until it
  has ended;
- `WorkerEnds` except a wake-up that came too early: see Findings;
- `WorkerListens` except a config file that a crash has cut, and a pipe that could not be
  created;
- `CaptureRecovers` except a recovery that failed;
- `AudioFollows` except a source that could not be started, the latch that then keeps any
  other from being tried, and a window that is not captured.

### Fairness

- `UploadQueue`: weak fairness of the steps of the thread, of time, of the limit after a
  recording, of the exit once it is requested, and of a new start, since the plugin
  launches the worker with every game and when it does not answer. `upload()` returns
  since each request has a timeout (BrokerUploader.cpp:148). Crashes and stops are not
  fair.
- `UploadPipeline`: weak fairness of the client's steps and of each request's own
  progress at the broker; none of expiry, alarms, restarts, faults.
- `Recorder`: weak fairness of the encoder thread, of frames while the capture runs, and
  of a command that was received; none of new commands, errors, or `record_stop`. Where
  an error or a recovery can go either way nothing is assumed.
- `ReplayPath`: weak fairness of the encoder thread, of a command that was received, of
  `Collect` (`run()` calls it every 100 ms) and of the thread of a save. None of frames, new
  commands and errors.
- `Plugin`: weak fairness of the two threads, of the frames that send what waits for the
  chat, and of a capture that becomes ready in a live worker. None of the player, the
  chat, uploads, interruptions and crashes.
- `WorkerLife`: weak fairness of a new start by the plugin, of the main thread, of the
  server thread, of the monitor and of frames of a live backend; strong fairness of the
  encoder thread, which has to get `settings_mutex_` although the IPC thread takes it again
  and again. None of requests, faults, changes of the window and the end of the game.
- `UploadSession`, `CreateUpload`, `SegmentStore`: safety only.

## 4. Findings

- **A deleted session comes back** (`session_retention`). The handler of a PUT writes the
  state it read before the upstream `fetch` back after it (index.ts:129, 133). If the
  alarm or a cancel deleted the session meanwhile, it is stored again, with no alarm:
  README.md:206 and PRIVACY.md:7 say that sessions are kept for 24 hours.
- **308 without Range** (`session_no_range`). index.ts:128 gives
  `nextOffsetFromRange` the end of the chunk as fallback, so that nothing stored counts
  as everything stored; protocol.test.ts:36 says that the offset stays.
- **An interrupted upload is dropped** (`interrupted_upload`). The reply to the last chunk
  is lost; the repeated chunk is answered 308 with `nextOffset = total` and no url
  (index.ts:123); the client's loop ends, and a missing url is not retryable
  (BrokerUploader.cpp:202). The video exists, and a GET would have told its url;
  PRIVACY.md:7 says that sessions are kept so that interrupted uploads can resume.

Met in `worker`, as an exception of `WorkerEnds`: README.md:68 of the source says that the
worker ends together with the game. `IpcServer::stop` wakes the server thread by opening
the pipe once (IpcServer.cpp:47-60); a thread that has passed its test of the stop and has
not yet created the pipe is not woken, and waits in `ConnectNamedPipe` for a client, which
with the game gone may never come. The history variable `missed` marks exactly that case.

Met while reading, and not a matter for a run: README.md:57 speaks of chunks of 8 MB,
the client sends 1 MiB (BrokerUploader.cpp:180); the attempts of a job span about an hour
and a half, so that a job refused by the daily limit (429, retryable) gives up before the
next day; `createUpload` and `routeUpload` are not awaited in the `try` of index.ts:85.

## 5. Proofs

Every safety property that a passing run checks is a theorem, for all values of the
constants that the named assumptions admit; TLC evaluates those assumptions in the runs.
Each proof has an inductive invariant, which says more than the property does: what every
step in progress has read, holds, or is about to write. Three theorems need more than the
assumptions, and say so: `NothingSkipped`, `ClientIsNotAhead` and `RejectionsAreExplained`.

### Broker

`UploadSessionProofs`, for any sets of sessions and requests, any size of the file and any
chunk limit (`SessionAssumption`):

- `TypeCorrect`: `Spec => []TypeOK`;
- `NeverAheadInvariant`: `Spec => []NeverAhead`;
- `UrlIsPublished`: `Spec => []UrlOnlyIfPublished`;
- `NothingSkipped`: `Spec => []NoSkippedBytes`, from `MayStoreNothing = FALSE`, which is
  what the run `session_no_range` shows to be necessary;
- `DeletionIsScheduled`: `Spec => []DeletionScheduled`;
- `ProgressIsSerial`: `Spec => SerialProgress`.

`UrlOnlyIfPublished` and `NoSkippedBytes` are not inductive: what a handler will write
is in its own copy of the state and in YouTube's answer to it. `NeverAhead` is
`TypeOK /\ StoreOK /\ CallsOK`: the stored state, the copy of every request in flight, the
answer it has got and the reply it gives (`StateOK`, `CallOK`) are all behind what
YouTube has, and a forwarded chunk begins at or before the bytes stored. What makes it
inductive is that YouTube only gains (`Monotone`), that a chunk is forwarded only at the
offset that was read (`ForwardedInSequence`), and that an answer tells only what is
stored (`AnswerNotAhead`). The other actions write one store or one reply that was known
before (`OneWrite`, `OneReply`, `OneCall`).

The last two rest on `SerialInv`: as long as no PUT of a session has overlapped another one
or a deletion, the one request in flight has the state that is stored, and what it was
answered is not behind it. `ProgressIsSerial` needs no assumption about what YouTube stores:
without one the offset can be ahead of YouTube, but only while YouTube has nothing.

`CreateUploadProofs`, for any requests, addresses, days and limits:

- `CountersAreExact`: `Spec => []CountsAreCharges`;
- `QuotaKept`: `Spec => []QuotaRespected`.

The counters are read by one storage operation and written by the next. The invariant
`QuotaSafe` says of the one request between the two (`GateHeld`) that it holds the input
gate and that what it has read is what is stored, for the day and the address it has read
them for; and that nobody before the write has been charged (`ChargedOnce`), so that the
set of the charged requests grows by exactly one.

### Worker: upload side

`UploadPipelineProofs`, for any sessions, requests, bytes, retries and faults, and any
positive chunk (`PipelineAssumption`):

- `PipelineTypeCorrect`: `PipelineSpec => [](PipelineTypeOK /\ ClientInv)`;
- `PipelineImplementsSessions`: `PipelineSpec => Spec`, the specification of the sessions:
  each step of the client is a request they provide for, and whatever
  `UploadSessionProofs` shows holds here;
- `ClientIsNotAhead`: `PipelineSpec => []ClientNotAhead`, from `MayStoreNothing = FALSE`;
- `RejectionsAreExplained`: `PipelineSpec => []RejectionExplained`, from
  `MayStoreNothing = FALSE` and `Chunk <= MaxChunk` (in the source 1 MiB,
  BrokerUploader.cpp:180, and 8 MiB, protocol.ts:26);
- `OneVideoPerRecording`: `PipelineSpec => []SingleVideo`;
- `PipelineImplementsLedger`: `PipelineSpec => PipelineLedgerSpec`.

The hard one is the rejection. Some rejections are noted as what they are (`Reasons`,
`RejectionMoves`): a refusal, a client that cannot go on, a body that was cut off. For the
others, without a lost or unreadable reply or an expired session (`Calm`), the client's
request is the only one in flight, the offset it sends is the one that is stored and that
the request has read, and what it is answered is what is stored then (`InSequence`). A PUT
is therefore never out of sequence (409) nor at a session that is gone (`AliveInv`, 410),
and the loop cannot end without the url, because an offset is stored as the end of the file
only together with it (`TailInv`). `SequenceKept` follows this through every step of the
client, the sessions and YouTube. For `SingleVideo`, if no session has expired, no reply was
lost, the worker has not crashed and no attempt has forgotten its id (`Kept`), one session
is opened at most, and the client or its job has it (`OneSession`). `ClientIsNotAhead`
follows the offset from where it was read to where it is used (`OffsetMoves`).

`UploadQueueProofs`, for any recordings, sizes, limit, attempts, times, crashes and stops:

- `QueueTypeCorrect`: `Spec => []TypeOK`;
- `FileHoldsQueue`: `Spec => []SavedWhenUnlocked`;
- `QueuedRecordingsAreKept`: `Spec => []QueuedFilesKept`;
- `LimitIsEnforced`: `Spec => LimitEnforced`;
- `QueueImplementsLedger`: `Spec => LedgerSpec`, the refinement of `UploadLedger`.

`QueueSafe` adds that a recording has one job at most (`Distinct`: erasing a job would
otherwise leave its file queued), that the file tells which recordings are queued, and
that a success is backed by a video (`Accounted`). Each action then keeps it and is a step
of the ledger or none (`RecordStopSafe`, `CommitSafe`, `UploadReturnsSafe`, `OtherSafe`).
`RemoveFiles`, `AppendFiles` and `SameFiles` say what the changes of the queue do to its
files.

`LimitIsEnforced` needs the laws of a sum over a set, which the library only has as a fold:
that there is such a total at all (`TotalExists`), that it does not depend on the order
(`TotalsAgree`, `SizeOfOthers`), and that a set's is its part's and the rest's
(`SizeOfParts`). They are inductions over the number of files, done by taking a set for
which the law fails with the fewest files (`LeastNatural`). The archive is finite, since it
grows by one recording at a time (`ArchiveOK`). Then, if a file stays that is neither
protected nor stuck, all those before the oldest such file have gone, except protected and
stuck ones, and what is left is what that file was tested against (`LimitKept`); no two
files need have different times.

### Worker: recording side

`RecorderProofs`, for any sizes, latency, number of commands and number of failures:

- `RecorderTypeCorrect`: `RecSpec => [](RecTypeOK /\ PipelineInv)`;
- `ReportedFilesAreClosed`: `RecSpec => []ReportedIsClosed`;
- `FilesAreOfTheirRequest`: `RecSpec => []OwnRequest`;
- `RecordingsAreReported`: `RecSpec => RecordingReported`;
- `FilesAreSteady`: `RecSpec => []SteadyFiles`.

A session that records has its muxer open, and the path, the size and the request of the
file, except a file that was begun between the two steps of `RecordingSession::start`
(`RecordingInv`, `CommandInv`). For the size of the frames, `CalmInv` says what a session
that was set waiting in a calm lives in: every frame on its way, also those that the encoder
holds, has the published size, and the encoder thread is not past the point where it stops
the recording (`SteadyAt`).

`ReplayProofs` has two parts. About the buffer and its threads (`ReplayPath`), for any
sizes, latency and number of failures:

- `ReplayTypeCorrect`: `PathSpec => [](PathTypeOK /\ EncoderInv)`;
- `ReplaysAreWhole`: `PathSpec => []ReplayWhole`;
- `ReplaysHaveOneSize`: `PathSpec => []ReplayOneSize`;
- `StoppedBufferStaysStopped`: `PathSpec => StoppedHolds`.

A hole would be a sample that is missed and one that is stored after it: `WholeInv` says
that when one was missed, or is going to be, the store begins anew or its last sample came
late. `SizesInv` relates the sizes in the store and the published one through a change of
size, its drain and an exception in it (`foreign` is the history of a frame of a size that is
not the published one), `OrderInv` those with the size that the command being served
has copied; `LifeInv` says who is in charge of `state_` without a write error.

And about the ring buffer (`SegmentStore`), for any retention, length of a segment, times
and saves:

- `StoreInvariant`: `StoreSpec => []StoreInv`;
- `StoreTypeCorrect`: `StoreSpec => []TypeOK`;
- `ReplayHoldsItsTime`: `StoreSpec => []WindowKept`;
- `BufferIsBounded`: `StoreSpec => []SpanBounded`.

A frame of the desired time is stored, because only what is older is evicted (`RecentInv`);
that its keyframe is stored too is the harder half. A segment was closed by a save or by a
keyframe that comes between its frames and the later ones (`ClosedInv`), and a keyframe that
has gone is followed by an old save or by a keyframe not after any stored frame (`GoneInv`):
so a frame either has a keyframe in the store or has lost it to a save. For the bound, the
oldest segment ends within the retention (`OldestInv`), keyframes lie only near the
beginning and the end of a segment (`ApartInv`), and so the longest gap between keyframes
(`GapIs`) spans the rest of it. `EvictDrops` says what an eviction leaves, by a smallest
index again.

`WorkerLifeProofs`, for any length of the queue, any sources of audio and any number of
faults:

- `CaptureSafeInvariant`: the inductive invariant, with the types;
- `DeadBackendNoticed`: `WorkerSpec => []InterruptionNoted`;
- `NoFrameOfOldDevice`: `WorkerSpec => []FramesOfDevice`.

Neither property is inductive: that no old frame is left needs that between `Halt` and
`Renew` nobody feeds the emptied queue. `CaptureSafe` says so (`Renewing`: in that state
there is neither a monitor thread nor a backend), and the end of the process, which stops
the capture too, does not disturb it.

### Plugin

`PluginProofs`, for any number of inputs and faults:

- `PluginTypeCorrect`: `PluginSpec => []PluginTypeOK`;
- `NoUnaskedRecording`: `PluginSpec => []StartedOnRequest`;
- `OnePromptPerCommand`: `PluginSpec => []PromptedOnce`;
- `AnnouncementsInOrder`: `PluginSpec => []AnnouncedInOrder`.

A start that was asked for has been made (`worker.number`), is owed by the game's thread
(`GameOwes`), or by `status_loop` (`StatusOwes`: it is pending, or the loop is about to make
it, and an answer that is on its way will replace what is pending). `Budget` says that these
together never exceed the requests. `PromptBudget` counts a command that waits as a prompt
that may come. For the announcements, `Stages` says that a recording is being made, waits
for its upload or is uploaded, and never two of these, so that each has one place in
`worker.done`, and that the last result is that of the last upload or none. `Passed` says
that the report of a poll is not of an upload before the one announced last, which comes
after all others that were announced. No order of the queue is assumed.

### Model-checked only

Liveness stays with TLC: `QueueDrains`, `JobSettles`, `WaitingEnds`, `SaveSettles`,
`LastUploadAnnounced`, `ShownSettles`, `PendingSettles`, `WorkerEnds`, `ClientReturns`,
`WorkerListens`, `CaptureRecovers` and `AudioFollows`. They need fairness, and with it
`ENABLED`, which the prover does not reason about. No module has a RECURSIVE operator.

## 6. Not modelled

- Device and graphics code (`D3DDevice`, `VideoProcessor`, the calls of the capture
  backends and of Media Foundation and WASAPI), drawing, themes and layout, logging: I/O,
  of which the models keep that it can fail.
- File names, hashing, texts of titles, descriptions and messages, text encodings: data
  that no property tells apart. One consequence: two recordings of one player in the same
  second would get the same path (Files.cpp:22), which the models cannot show, since
  recordings are distinct values.
- Authentication, the token cache and `/v1/channel` of the broker: they keep no state of an
  upload.
- `BitReader`, `UiConfig`, `ThemeReader`, and `validate()` and the parsing of `Config`:
  functions of their input without a state that another part changes. The unit tests of the
  repository check them directly.
- A full disk: an outcome of `Recorder` and `ReplayBuffer`, not of the state file of
  `UploadQueue`. `save_locked` does not test its stream (UploadQueue.cpp:36), so that a full
  disk can lose the whole queue; the ledger promises nothing in that case.
- Two workers at once: two games in one folder would run two on the same queue file.
- The disk format of `SegmentStore`, presentation times outside of it, audio samples.

## 7. Plan

Done: the broker, the upload path and its composition, the queue, the ring buffer, the
recording path, the replay path, the capture and the life of the worker, the plugin with
its evidence logic; and a proof of every safety property that a run checks, with the two
refinements of the ledger and that of the sessions. Left:

1. The steps between a liveness property and its safety part: for `SaveSettles`,
   `WaitingEnds` and `WorkerEnds`, that a state in which the thread in charge cannot go on is
   one of the exceptions the property names. These are invariants, which can be proved.
2. `Recorder` and `ReplayPath` have the same encoder thread, written down twice: a module
   they share would let one proof of its steps serve both.
3. Two workers on one queue file, and a full disk under `save_locked`, as outcomes of
   `UploadQueue`; the ledger would have to say what is promised then.
