# MeetingToText: TLA+ models, model checking and proofs

MeetingToText records or receives meeting audio, transcribes it and writes
minutes. A browser (`src/frontend`) streams microphone audio over a websocket
to one Python server process (`src/backend/app`), which keeps a wav per
recording, turns it into a task in an SQLite table and transcribes the task in
one worker thread. A command line (`src/cli.py`) runs the same pipeline in a
process of its own, and starts and stops the server.

## 1. Inventory

| component | state | operations | talks to | hard because | correct when |
|---|---|---|---|---|---|
| Recording session: `routers/record.py`, `services/record_session.py`, `services/recorder.py` | registry of live recordings (state, owner, wav, bytes held in memory), grace timers, one handler per connection | accept/resume/adopt/reject, audio, config, stop, discard, disconnect, grace expiry, DELETE | web client, task store, pipeline | connections, timers and DELETE interleave; awaits in the stop path; sessions die with the process | every received chunk has one fate; one owner; nothing is left in the registry for ever |
| Web client transport: `services/wsRecorderClient.ts` | socket, probe socket, backoff timer, deadline, gap recorder and blob | connect, drop, backoff, probe, adopt, give up, gap capture, stop delivery | recorder composable, server | events of several sockets, timers and MediaRecorders interleave | loop never stalls, one attempt at a time; audio of outages is kept once, in order |
| Recorder composable: `composables/recorder.ts`, `RecordPage.vue` | UI state, local mode, current task id | start, stop, cancel, callbacks of the transport | transport, REST API | long asynchronous start; every await can be overtaken by a click or a frame | a recording the user ended is over everywhere; audio is kept or explicitly discarded |
| Pipeline: `services/pipeline.py` | executor queue, registry of futures, cancelled set | submit, cancel, run (prepare, check, recognise, save, fail) | store, ASR engines | a thread beside the event loop; deletes and retries while it runs | each task settles; no work for, and no write to, a deleted task |
| Task store: `services/store.py` | tables `tasks`, `app_settings` | create, progress, result, retry reset, edit, orphan marking, delete | everybody | read-modify-write across transactions, two processes | rows agree with what runs |
| HTTP handlers: `routers/transcribe.py`, `upload.py`, `generate.py` | none | start, retry, edit, upload, delete, rename, generate, progress stream | store, pipeline | the row is read in another thread before the handler runs | refusals hold at the time of the write |
| Startup: `startup.py`, `server.py` | none | load settings, remove old files, mark orphans, preload | store | runs beside other processes | only interrupted tasks are marked |
| Streaming ASR: `services/asr_streaming.py`, `WsRecordingSession` | model singleton, session, chunk buffer | load, create session, feed, replay, cancel, finalize | recording session | loading in threads while chunks arrive | chunks are fed once, in order |
| ASR engines, settings: `services/asr.py`, `config.py`, `routers/settings.py` | engine cache, settings object, settings table, LLM client | get, unload; update, delete, load | pipeline | partial updates, caches beside a table, unload during use | the three copies agree |
| Rate limiter: `middleware/ratelimit.py` | counter per address | is_allowed | every request | window edges | at most rpm per window |
| Command line: `cli.py` | pidfile | transcribe, serve, daemon, stop | store, pipeline, OS | a second process on the same table and files | one daemon, the right process stopped |
| Pure code: `asr_parse.py`, `exporters.py`, `templates/` | none | parse, format | pipeline, export endpoint | boundary cases | output agrees with its input |

The uploads of the browser, the graph of audio nodes, themes, exports and the
model servers exchange nothing with these parts beyond a call and its answer.

## 2. Modules

| module | models | extends / uses |
|---|---|---|
| `RecordSession` | the server side of one recording id, any client | |
| `RecordingLifecycle` | abstract: the lifecycle diagram of `record_session.py:28-42` | `RecordSession` implements it |
| `RecordSession_proofs` | theorems about `RecordSession` | `RecordSession` |
| `RecordProtocol` | the web client and that server, over a network that cuts connections | `RecordSession` |
| `ReconnectLoop` | the backoff loop of the client, in seconds | |
| `GapCapture` | the gap recorder of the client, slice by slice | |
| `TaskPipeline` | task table, worker thread, HTTP handlers, restarts, command line | |
| `StreamingAsr` | live text on one connection: loader task, buffer, shared model, positions of the audio | |
| `Settings` | settings object, table, language-model client, engine cache, pipeline runs | |
| `RateLimiter` | the window counters of every worker process | |
| `Daemon` | pidfile, `--daemon`, `--stop` | |
| `RecordProtocol_proofs` | theorems about `RecordProtocol` | `RecordProtocol`, `RecordSession_proofs` |
| `ReconnectLoop_proofs`, `GapCapture_proofs`, `TaskPipeline_proofs`, `StreamingAsr_proofs`, `Settings_proofs`, `Daemon_proofs` | theorems about the module each is named after | that module |
| `MCRecordSession`, `MCReconnectLoop` | symmetry, the client's constants | for model checking |

### RecordSession

`rec` is the entry of `RecorderManager._active_recordings` for one id, `timer`
whether `RecordingSessionService._grace_timers` holds a pending finalizer, `pc`
where the handler of each connection is. Python runs this on one event loop and
the coroutines of `RecorderManager` contain no await, so a stretch of a handler
between two awaits that really suspend is one action: `BeginSession` is
`_begin_session` after accept, with its four outcomes (`ResumeSession`,
`StartSession`, `AdoptSession`, `RejectBusy`); `HandleAudioChunk`,
`HandleConfig`, `Discard`, `Stop` are the frames; `Disconnect` is everything
that ends the receive loop without an intent, with `Leave` as the code after
the loop (`record.py:262-281`); a stop with streaming ASR has an await in its
middle and is two actions, `StopStreaming` and `FinishStop`. `GraceExpire` is
`finalize_after_grace`, `Delete` the REST endpoint. The failing variants
(`AudioChunkFails`, `ConfigFails`, `FinalizeFails`) are the same handlers when a
write, an open or a move raises. `Crash` forgets the registry, as a process
that keeps sessions in memory does.

Audio is a sequence of chunk numbers, in the order they were received; a chunk
is never looked into. `pending` and `written` are the two places the code keeps
audio in. `discarded`, `dropped` and `failed` are histories that say where a
chunk went when it went nowhere useful.

The client is unconstrained here: any connection may send any frame. What is
proved or checked of this module therefore holds for any client.

### RecordProtocol

The client is a record `cl` of its own fields: the UI state, how far the
asynchronous `startRecording` and `stopRecording` have got (their awaits are the
points where other events come in between), whether the microphone feeds the
socket or a local recorder, the socket `ws`, the promise of `connect()`, and the
fields of the reconnect loop. `sock` is the browser's view of each socket: its
`readyState`, and which handlers are installed, since `connect`, `attach`,
`tryReconnect` and `tryDeliverStop` each install their own. Closing a socket is
asynchronous: `close()` makes it "closing", and its close event comes later, to
whatever handlers and whatever UI state there are by then.

`up` and `down` are the wires. They deliver in order, as websockets do. `Cut`
ends a connection: what is under way in each direction arrives up to some point,
and neither end is told; the server notices by its liveness timeout
(`ReceiveClose`), the client by its own events (`OnClose`), in either order. The
DELETE of a cancel travels on a connection of its own and may be late or lost.
The server's steps are the actions of `RecordSession`, each fed by the head of a
wire; `carried` says which unit of speech each chunk of the server is.

### ReconnectLoop and GapCapture

Two parts of `wsRecorderClient.ts` that `RecordProtocol` abstracts from.
`ReconnectLoop` has the numbers: delays of 1, 2, 4, 5, 5, ... seconds and the
60 s deadline, counted in whole seconds; `ProbeFails` runs
`handleConnectionLost` twice because the browser fires error and close and both
handlers call it. `GapCapture` has the slices: a MediaRecorder hands over what it
collected in events that are dispatched later, `finalizeGapCapture` detaches the
recorder, waits 300 ms, then joins what was kept. `Hurry` says whether a drop or
a stop may come within those 300 ms. `gaveUp` in `ReconnectLoop` is what the user
was told last.

### TaskPipeline

`row` is the tasks table, `queue` and `run["server"]` the executor of one thread,
`future` and `cancelled` the dictionaries of `pipeline.py`, `call` the request
each browser tab has in flight. Every store method is a transaction and one
step; `run_pipeline` is a step per stage (`Check` to `Close`). A request is two
steps at least: `Request` is the `TaskDep` dependency, which reads the row in a
thread pool, and the handler's body runs later on the event loop with the row
as it was (`seen`). A tab has one request in flight. What it asks for is what
the pages do: the upload page starts whatever it has uploaded (`fresh`,
`RequestStart`), without looking at the row, and the transcript page offers a retry
next to a finished or failed task. `run["cli"]` is the command line's process,
which shares the table and nothing else; it may be killed at any time (`CliDies`),
as the server may (`Crash`). A transcript is named after the run or the edit that
wrote it; `kept` is the edit that was last confirmed to the user. Two histories
name tasks that the code lets down: `late`, whose start was accepted when their
row was no longer pending, and `left`, whose command line was killed and which no
start of a server has settled yet.

### StreamingAsr

The streaming half of `WsRecordingSession` and the model it shares. `loader` is
the task `_load_and_create_session`, in the places where it awaits: loading the
model, creating the session, and a send during the replay (`SlowSend`, a client
that does not read, makes that await suspend). `loading`, `session`, `ready`,
`cancelled` and `buffer` are the fields of the connection, `instance`, `loaded`
and `threads` the singleton `StreamingASR` and the threads that load it: a
cancelled task leaves its thread running, and a settings change (`Disable`,
`Enable`) may unload the model between any two steps. `CancelStreaming` is the
whole of `cancel_streaming`, inside the handler that calls it. A session
(`AddChunk`, `Processed`, `Finalized`) is kept as positions in the recording:
which of them were resampled, which cut at the seam, which the model has heard.

### Settings

`PostStarts`, then one `PostKey` per key: every key is stored and set under a
lock of its own, and a pipeline run in its thread may read between two.
`PostRefreshes` and `PostUnloads` are what follows: the client, then the engines,
for which the event loop waits on `_asr_lock`. `PostFails` is a store error at a
key, `Delete` the DELETE route, `Generate` the first use of the client. A run
reads type and name in two steps, finds an engine or loads one under the lock
(`TakesLock`, `LoadEnds`), and uses it: `ChecksModel` and `Transcribes` are apart,
because an unload may come between them. Each key has its default and one other
value, and five keys stand for all: two of the client, three of the engines,
one of which (`asr_needs_punc`) goes with another (`WithPunc`). The default of the
API key is that of the environment, if the server was started with one (`envKey`),
and otherwise empty; `Shown` is what GET answers, which is of the API key only
whether one is stored.

### RateLimiter and Daemon

`is_allowed` compares ages only, so the start of a window is kept as its age,
in ticks of half a second: time has no end and the state space has. `grants`
is the history an exact limiter would keep. The clock may be set back; each
worker process counts for itself.

`daemon` is how far each start has come, command and daemon in one, `file` what
the pidfile says. The file is checked before the fork and written after it, in
two steps (opened empty, then written). Nothing removes it when a daemon ends.
`reused` are pids that strangers have now. A stop reads, signals, polls and
unlinks in steps of their own.

## 3. What the runs check

Passing runs:

| run | properties | what it shows |
|---|---|---|
| `RecordSession_plain` | `EveryChunkHasOneFate`, `NoAbandonedSession`, `AudioInOnePlace`, `LoopOwnsSession`, `WavOnlyGrows`, `ImplementsLifecycle` | With I/O errors and crashes, four connections in any order lose no received audio without a record of it and leave no session that nothing would end. Every connection in its loop owns the session, and no step of a live session changes the audio it holds. The session refines the lifecycle diagram. |
| `RecordSession_live` | `TypeOK`, `TimerNeverOnActive`, `EveryRecordingEnds`, `StopIsAnswered`, `ImplementsLifecycle` | With DELETE and streaming ASR: no stale timer is ever met, recordings whose clients fall silent end, every stop is answered, and the lifecycle is still refined. |
| `RecordProtocol_safe` | `DoneIsWhole`, `TasksAreInOrder`, `IdleIsQuiet`, `UsedSocketOwns`, `CancelledLeavesNoTask` | What the real client can do to that server: a recording that ends with "done" is whole up to what the wire lost, or what was sent to a server that had turned the connection away; tasks are in the order of speech across reconnects; no stale connection takes the session from the one in use; a page that shows no recording has its microphone off, and nothing else running but what a local recording leaves behind; a cancel leaves no task, whichever of its three messages arrive, in whatever order. |
| `ReconnectLoop_live` | `LoopIsOnTime`, `LoopIsExclusive`, `OutageEnds` | The loop always has its next event coming and ends in time, makes one attempt at a time and leaves nothing behind; whatever the network does, an outage ends with a connection, with the user told that the client has given up, or with the end of the recording. |
| `GapCapture_calm` | `RetainedInOrder`, `RetainsOnlyTheOutages`, `KeptSlicesSurvive` | What is kept of two outages is in order and was heard during outages; every slice that was kept is there until a stop hands it to the upload, and only a cancel drops it; the next recording finds nothing. |
| `TaskPipeline_one_tab` | `OneRunPerTask`, `DoneHasNoError`, `EditsSurvive`, `NoWorkForDeleted` | With one tab, which never has two requests in flight, the pipeline, edits, retries, deletes and crashes agree, but for tasks whose start came after a restart (`late`). |
| `TaskPipeline_two_tabs` | `UnsettledHasRun`, `DeletedStaysDeleted`, `EveryTaskSettles` | What still holds when requests race each other and a command line that may be killed works beside the server: whatever was asked for is settled in the end, but for the task of a killed command line until the next start of a server (`left`). |
| `StreamingAsr_loading` | `TextIsTheRecording`, `CancelIsFinal`, `BufferIsDrained` | The model hears the recording in order, nothing left out and nothing twice, across the replay and the seams of the resampling, and to its end; a connection that was cancelled gets no session any more; the buffer empties whatever the load does. |
| `Settings_two_runs` | `ShownIsUsed`, `NothingStaleIsUsed`, `EverythingEnds` | With an API key in the environment or without: after every step, failing ones included, what is in use is what a restart restores, GET shows no other value, and no client uses a deleted key; a run or a request that begins after an answered change works with the new values; nobody waits for ever on the engine lock. |
| `RateLimiter_two_workers` | `LimitIsExact`, `ServedAgain` | In no stretch of real time as long as a window does an address get more than two windows' worth from each worker; nobody is refused short of the limit; Retry-After is less than a second off; a client that keeps asking is served again. |
| `Daemon_stop_and_start` | `ServerIsStoppable`, `StopTellsTheTruth` | Whatever crashes before and whatever files it left, one daemon at most, named by the pidfile from before it serves until it is gone; a stop that reports success has left neither a daemon nor a file. |

Several properties are conjunctions of named parts, one of which is the module's
type invariant; the parts are defined beside them.

One run states what a comment of the code says, and ends with a behaviour that
contradicts it:

| run | property | the behaviour |
|---|---|---|
| `RecordProtocol_busy` | `BusyIsRetried` (`wsRecorderClient.ts:196-197`) | A connection is cut silently; the client reconnects before the server's liveness timeout. `adoptSocket` has set `reconnecting` to false by the time "session_busy" arrives, so the answer is taken for fatal: the recording is reset and its gap audio dropped. The branch that would retry is not reached in any behaviour of the model. |

### Disagreements

Other places where the code does not do what it or its documentation says, or
where a property needs a condition to hold. The models behave as the code does;
no run lists these.

Recording:

- `ClosedSocketIsCovered` (`RecordProtocol`; `wsRecorderClient.ts:157-158`) does
  not hold. Cancel is clicked while the page asks for the microphone
  (`recorder.ts:422`); `startRecording` goes on after its await, and the page
  shows a recording with no socket, no gap recorder and nothing that keeps the
  audio. A socket that closes before `attach()` ends alike.
- Local mode: after the audio graph has failed, the close event of the socket
  that was given up starts a gap recorder and a reconnect loop
  (`wsRecorderClient.ts:301-305` asks only whether the page is recording), and the
  local stop (`recorder.ts:345-379`) ends neither. `IdleIsQuiet` excepts both
  after a local recording.
- `OutageIsRetained` (`GapCapture`; `wsRecorderClient.ts:246-257`) does not hold.
  The last slice, asked for with `requestData`, is thrown away because
  `gapRecorder` is already null when it is handed over: up to a second of every
  outage.
- With `Hurry = TRUE` in `GapCapture`, a second drop within the 300 ms erases
  the slices of the first outage (`startGapRecorder` empties `gapChunks`,
  `wsRecorderClient.ts:243`, against "accumulate into one blob", 252-253), and a
  stop takes the blob before they are joined: `KeptSlicesSurvive`,
  `RetainedInOrder` and `RetainsOnlyOutages` all fail. That window is not in
  `GapCapture_calm`.
- `GivenUpStaysLocal` (`ReconnectLoop`) does not hold. Past the deadline nothing
  should be adopted ("adopting would split the recording", `wsRecorderClient.ts:
  359-361`), but the close event after the error event of the same probe runs
  `handleConnectionLost` again, which starts a new 60 s cycle. An attempt
  scheduled just before the deadline is adopted seconds after it, too
  (`CycleIsBounded`, a part of `LoopIsOnTime`, says how many).
- `LoopOwnsSession` fails with streaming ASR or DELETE: a connection accepted
  while a stop awaits `finalize_streaming` loses its session to that stop; one
  whose session was deleted stays in its loop and suspends the next session of
  the id. For the web client `UsedSocketOwns` rules that out.
- Audio streamed between `adoptSocket` and the arrival of "session_busy" goes to
  a handler that is gone. The answer ends the recording with an error the user
  sees; if a second cut loses the answer, the next reconnect goes on and nobody
  is told. `DoneIsWhole` excepts that audio (`Unheeded`).
- After an outage, a DELETE that overtakes audio buffered for the cut connection,
  with a late probe in between, leaves a task of a cancelled recording (so
  `CancelledLeavesNoTask` speaks of recordings whose connections held).

Tasks:

- With two tabs `OneRunPerTask` fails (`transcribe.py:43-44`): both retry, each
  sees a row of before, the second finds it pending, not processing, and submits
  a second run. `NoWorkForDeleted` fails after that too, because the end of one
  run clears the cancelled flag of the other.
- A start that comes after a restart: the server is killed between an upload and
  the start the page sends (`UploadPage.vue:28-31`). The row has been marked as
  interrupted, `start_transcribe` refuses only "processing"
  (`transcribe.py:31-36`) and resets nothing, so the run ends done with the
  restart's error beside the transcript (`store.py:128`). Until that run begins the
  row says "error" and the page offers a retry: the same tab gets a second run,
  which later overwrites a confirmed edit. The properties of
  `TaskPipeline_one_tab` except such tasks (`late`); without the exception all
  four fail.
- A command line that is killed or interrupted leaves its row "processing"
  (`pipeline.py:264` catches `Exception` only), and while the server is up nothing
  settles it. `UnsettledHasRun` and `EveryTaskSettles` except such tasks until the
  next start of a server (`left`).
- `RunningIsNotStuck` does not hold. A server that starts marks the task a live
  command line is working on as interrupted (`store.py:184`; `startup.py:11-12`
  speaks of tasks that are stuck), and the error stays on the finished task.
- An edit judged by a row read earlier lands in a task that a retry has just
  reset.

Live text:

- `streaming_ready` is set before the replay (`record.py:99`): a chunk that
  arrives while the replay waits for a slow client is fed in its middle.
  `TextIsTheRecording` excepts what follows (`overtaken`).
- The overlap is resampled twice and cut once, by a count rounded from the model's
  rate. At 96 kHz 256 samples are no multiple of the ratio: each seam steps
  back by up to three input samples, and a fraction of a sample is heard twice.
  `TextIsTheRecording` fails for such constants (`Ratio = 3`, `Overlap = 5`), and for
  an overlap longer than a stride.
- `finalize` says it processes any remaining audio; it flushes what was resampled,
  and drops raw audio that was not enough for another stride.
- `cancelled` is never reset: streaming switched off and on again within one
  connection buffers chunks that nobody feeds. `BufferIsDrained` speaks of
  connections that were not cancelled, so this is not caught.
- `create_session` may get no model if an unload comes between the end of a load
  and its return (`asr_streaming.py:153-166`); such a session hears nothing.

Settings:

- DELETE of an engine setting leaves the loaded engines (`settings.py:145-159`),
  and a POST that fails half-way leaves client and engines as they were; so
  `NothingStaleIsUsed` excepts both, until a later change rebuilds (`unapplied`).
- `EnvironmentKeyWins` does not hold: `CONTRIBUTING.md:100` says that
  `MTT_LLM_API_KEY` takes precedence over the database, and `load_user_settings`
  puts the stored key over it at every start (`startup.py:41`).
- GET shows the API key as unset when it comes from the environment and is in
  use: `settings.py:36` falls back to the empty string, every other key to the
  object. `ShownIsUsed` therefore says of a key shown as unset only that no
  client uses one that was stored.
- A POST with a blank model type leaves the type and resets `asr_needs_punc`
  (`settings.py:97`), against "empty string means leave unchanged for ANY key"
  (`settings.py:102`). Deleting the type leaves `asr_needs_punc` as it was set.
- A run may ask for a type and a name that were never configured together
  (`pipeline.py:238`), and may lose its engine between check and use
  (`asr.py:29-32`): it fails, or loads a second model outside the cache.
- The command line never loads the user's settings from the table.

Limiter and daemon:

- Retry-After is rounded down, where the docstring says "ceil"
  (`ratelimit.py:110-112` and `130`); after the clock was set back it may exceed a
  window.
- "started (pid N)" prints the pid of the intermediate child (`cli.py:218-220`),
  which is gone by then.
- Two starts within the time a daemon needs to write its pidfile both pass the
  check; the loser of the port leaves its own pid in the file. The unlink at the
  end of a stop may remove the file of a daemon started meanwhile. `Daemon` gives
  commands one at a time.
- A pid that was reused blocks a start, and a stop signals its new owner.

### Bounds

| module | bounds of the runs | why they are enough |
|---|---|---|
| `RecordSession` | 4 connections, 4 chunks (live: 3 and 2) | a session, a successor, a connection that outlived the first, and a newcomer in a window; a chunk before and after each of config and reconnect |
| `RecordProtocol` | 3 connections, 2 units of speech, 1 cut | the first socket, the reconnect, and the stop delivery or a second attempt; order needs two units. Two cuts were checked once as well: 2.8 million states without DELETE, 5.5 million with it |
| `ReconnectLoop` | the real constants; attempts take up to 2 s | the state space is finite without further bounds |
| `GapCapture` | 4 units of audio, 2 outages | two slices for each of two outages |
| `TaskPipeline` | 2 tasks, 1 tab, 3 runs, 1 edit; 1 task, 2 tabs, 2 runs, no edit | a run, its retry or a race; tasks share only the worker |
| `StreamingAsr` | 5 chunks of 3 samples, 2 settings changes, a buffer of 3; stride 2, ratio 2, overlap 3 | one chunk more than the buffer holds and one after the replay; the overlap is no multiple of the ratio and is reached, so that every branch of the seam is; off and on again |
| `Settings` | 2 runs, 2 changes of one posted key, 1 crash, an API key in the environment or none | one run loads while another shares or waits; a change, then its undoing or a second one; the model type makes a POST of two keys |
| `RateLimiter` | a window of four ticks, 2 workers, 1 address, limits 1 and 2, clock back twice | addresses share nothing; the boundary, and both sides of it, within one second and across one |
| `Daemon` | 3 starts, 2 stops | one that died, its successor, and one that is refused; a stop that times out and the next |

`MaxChunks`, `MaxRuns`, `MaxEdits`, `MaxOutages`, `MaxAudio`, `Outages`,
`ProbeMax`, `MaxPosts`, `MaxChanges`, `MaxKeys`, `Changed`, `MaxCrashes` and
`MaxBack` are bounds of the models and not of the code; so are the sizes of
`Daemons`, `Stops` and `Runs`. The numbers of `StreamingAsr` and `RateLimiter` are
scaled down from the code's (16 kHz, 60 s) and keep their relations. A behaviour
in which connections, chunks or runs are used up stops, so deadlock is not
checked, except in `RateLimiter`, which never stops. The symmetry sets are sets of
connection ids, which the code only compares.

### Fairness

`RecordSession`: `GraceExpire`, `FinishStop` and `Disconnect` are weakly fair.
asyncio runs a timer whose time has come and a coroutine whose await has ended;
`record_websocket` waits for a frame no longer than its liveness timeout, and
frames are finite in the model, so a connection in its loop is one whose client
has fallen silent. Nothing is assumed about clients.

`ReconnectLoop`: time passes, timers fire, and an attempt ends, one way or the
other. Nothing is assumed about the network.

`TaskPipeline`: the worker thread takes runs and proceeds, handlers proceed, and
a server that went down is started again. The command line proceeds until it is
killed, which may happen at any time. Nothing is assumed about requests, crashes
or kills.

`StreamingAsr`: the loader task proceeds (`LoaderStep`): loads end and a send that
waits is through in the end, or fails. Nothing is assumed about clients, and not
that a load succeeds.

`Settings`: the handler of a POST and each run proceed; loads and transcriptions
end. `RateLimiter`: time goes on, and a client asks again and again, of whichever
worker it is routed to; the fairness is per address, not per worker.

## 4. What is proved

Each proof module holds for every value of the constants, from the assumption of
the module it is about: the sets are what their comments say, and the "absent"
values are not members of the sets they stand beside. The bounds of section 3
are constants too, so a theorem holds for recordings, outages, runs and restarts
of any number. Where a property fails without a hypothesis the theorem says it:
no "delete", `~StreamingASR`, `Calm`, `OneTab`, no "io", `SeamsFit`, below. What a
property excepts because the code fails there (`late`, `left`, a local recording,
`unapplied`) the theorem excepts too.

### RecordSession_proofs

For any client.

- `TypeCorrect`: `TypeOK`, by one lemma per helper (`RecordingUpdates`,
  `LeaveType`, `FinalizeAudioType`) and one step per action.
- `StaleTimerHarmless`, `NoSessionLeaks`, `AudioIsInOnePlace`: none of the three
  invariants is inductive alone. That an active session has no timer needs that
  a resumed one was suspended; that a suspended one has a timer or a stop on its
  way needs that `Leave` arms it, for which the owner must be known. Their
  conjunction with `TypeOK` is `SessionInv`, and that is inductive
  (`SessionStep`).
- `SingleOwner`: with `~StreamingASR` and no "delete" in `Faults`, `OwnerInv`
  (`LoopOwnsSession` and no stop in the middle) is inductive: two handlers in
  their loop would both be the owner (`OneInLoop`).
- `NoAudioVanishes`: `EveryChunkHasOneFate`, on top of `SessionInv`: a stop looks
  at the wav or at the pending bytes, and `AudioInOnePlace` is why the other is
  empty. The lemmas on `Range` say what appending and concatenating do to the
  set of chunks; `FateOfNewChunk` and `FateOfFinalized` are the two moves a
  chunk can make.
- `WavIsAppendOnly`: `WavOnlyGrows`. `EveryStepMoves` sorts all steps into the few
  moves a session can make (`SessionMoves`: it starts, grows by a chunk, continues
  with the audio it has, ends, or nothing happens), and each move is looked at once.
- `RefinesLifecycle`: `Spec => ImplementsLifecycle`, the refinement of
  `RecordingLifecycle`. Each of those moves maps to a step of the diagram or to a
  stutter. `ChunksInOrder` (every sequence the server keeps rises, and `sent` is
  above them all) is what makes the mapped audio only grow.

### RecordProtocol_proofs

The web client and the server, for any number of connections, units and cuts, with
DELETE, streaming ASR and failing finalizes as the constants allow. The server of
`RecordProtocol` does not crash, and no chunk or config frame fails in it
(`RecordSession` has both).

- `ServerIsRecordSession`: a behaviour of the whole is one of `RecordSession`. All
  that is proved of a server with any client is thereby proved of this one.
- `UsedSocketIsOwner`, `IdlePageIsQuiet`: from `ProtocolInv`. Neither property is
  inductive. `UsedSocketOwns` speaks of the server; what keeps it is that the client
  has sent nothing that could end the session, now on a wire, in the state of a
  stop, or in a DELETE. `Undisturbed` says that while a recording goes on
  (`Going`) the wires carry audio, config and close frames only (`CalmWire`), no
  DELETE is under way, and the server keeps the discipline of `OwnerInv`, whose
  step lemma (`OwnerKept`) is used again. For that the order in which
  `startRecording`, stop and cancel go has to be known (`StartedInOrder`,
  `CancelsCounted`, `DeliversLate`), and `RestsQuietly` says what a page that does
  not record has switched off, a recording that went on locally excepted.
- `AudioStaysInOrder`: `TasksAreInOrder`, from `OrderInv` on top of it: on each wire
  of a connection the server listens to, audio rises, above all that has been
  received, and no two of those wires carry audio at the same time
  (`ComesInOrder`); a connection not yet accepted carries none (`Unheard`). That
  the chunks of a task rise is `ChunksInOrder` of the server, taken over through
  `ServerIsRecordSession`.
- `DoneRecordingIsWhole`: `DoneIsWhole`, with no "io" in `Faults`: when finalizing
  fails a session's audio is gone, and a session that a reconnect starts after it
  may still end with "done". The client's word "done" is about
  everything it ever sent, so `WholeInv` follows that audio: every unit spoken
  is in a task, in the session, on a wire, kept by the gap recorder, cut off,
  or unheeded (`Accounted`). That nothing is left on a wire when "done" comes
  needs that a stop is the last word on its wire and audio is not sent beside it
  (`StopIsLast`, `LastWords`), that a recording is ended once (`EndsOnce`), and
  that the answer is to that stop (`AnswersLate`, `ServerAnswers`).
- `CancelLeavesNoTask`: `CancelledLeavesNoTask`, with failing finalizes or without.
  The property speaks of the time before the first cut, and so does `CancelInv`:
  a recording that goes on has one socket, which is open once the recording
  streams, and no other was ever used (`FirstSocket`), or it is local and the
  server has heard nothing (`Unheeding`). A cancel then leaves a connection nobody
  adds to (`Parted`): the discard is on its wire ahead of the close, with only
  audio and rates before it (`Discarding`), so the session it has, or will have
  when the server accepts it late, is discarded before anything can finalize it,
  wherever the DELETE comes in or whether it comes at all. A local recording leaves a
  server without audio, which makes no task (`NoAudioNoTask`).

### ReconnectLoop_proofs

`OneAttemptNoRemains` and `LoopGoesOnInTime`, for all delays, deadlines and
connection times. `LoopInv` adds that a loop runs between a lost socket and the
next one (`LoopHasCause`) and that an attempt is scheduled before the deadline
(`AttemptIsEarly`), from which the bound on a cycle follows.

### GapCapture_proofs

`GapAudioIsInOrder`, `GapAudioIsTheOutages`, `KeptAudioIsUploaded`, for all lengths
and all numbers of outages, under `Calm` (`Hurry = FALSE`: no drop and no stop within
the 300 ms of `finalizeGapCapture`; the properties fail otherwise, section 3).
`KeptAudioIsUploaded` is about stops: a slice that was kept is gone only after a
cancel. They speak of the joined audio only; `GapInv` follows a unit from the recorder
through the queued slices to where it is joined, and orders each place against
the next.

### TaskPipeline_proofs

- `NoTaskIsForgotten` (`UnsettledHasRun`) and `DeletedIsGone` (`DeletedStaysDeleted`)
  hold for any number of tabs, runs and restarts, with a command line beside
  them that may be killed: the first excepts the task of a killed one (`left`),
  which has no run until somebody asks for it again or a server starts.
  `PipelineInv` adds that ids are not used before their row was made
  (`OnlyCreated`), that a registry entry withdraws its own run only
  (`EntriesMatch`), and that flagged tasks are on their way out (`FlaggedIsGoing`):
  without these a delete could withdraw the run of a task that stays.
- `OneRunAtATime`, `DoneIsClean`, `EditsAreSafe`, `DeletedIsNotTranscribed` hold under
  `OneTab`: one client that waits for its answers, and no command line. They except
  the tasks of `late`; what is uploaded and not yet started (`FreshWaits`), and who
  becomes late (`LateMoves`), has to be followed for that. With two tabs the first
  and the last fail (section 3). `TabInv` says that what a handler
  has read still holds when it acts (`ReadHolds`), that a settled row has no
  active run (`OneRunEach`), and that a delete withdraws a run or leaves it
  flagged (`DeleteReaches`).

### StreamingAsr_proofs

For any number of chunks and settings changes, any lengths and any ratio.

- `CancelledStaysCancelled`: `CancelIsFinal`. `StreamInv` adds what each place of the
  loader knows (`LoaderOK`): the flag stops it at one place, so past that place it
  was not cancelled, because `CancelStreaming` ends the task as well.
- `TextIsWhatWasSaid`: `TextIsTheRecording`. `Whole` says what a session fed with the
  chunks up to one is made of: raw audio that goes on to the end of that chunk,
  and heard and resampled audio without a gap that ends less than a sample of
  the model's rate short of it. `AddChunk` is shown to keep that for every branch of
  the seam, `TextIsWhole` relates it to what a replay has yet to feed, and
  `BufferFollows` to what the buffer holds. The replay is a recursive function
  over the buffer (`Fed`); that it keeps `Whole` is shown by looking at the least
  number of chunks after which it would not.
- The hypothesis `SeamsFit` is about the resampler: the overlap is a multiple of the
  ratio or one more, and no longer than a stride. The code's 256 samples fit at
  16, 32 and 48 kHz. Without either half the property fails (section 3).

### Settings_proofs

`SettingsAgree` and `ChangesTakeEffect`, for any number of runs, changes and crashes,
with an API key in the environment or without, from `SettingsInv`: the object follows
the table key by key (`TableIsUsed`), a client never has a key that the settings
have no more (`KeyIsKept`), the
client and the cached engines follow the object outside a POST (`ClientFollows`,
`EnginesFollow`), and a run whose start saw no change has what the settings name
(`CleanIsPresent`), for which the lock must be held by who loads
(`LockIsLoading`) and an engine keep the key it was made for (`EnginesAreKnown`).

### Daemon_proofs

`OneDaemonAndStoppable` and `SuccessIsTrue`, for any number of starts and stops given
one command at a time, as in the model. `DaemonInv` says what each step of a start has
made of the file (`StartedAlone`) and that what a stop has read stays true while
it polls (`StopKnows`), because no start can come between.

### Only model-checked

- Liveness under fairness: `EveryRecordingEnds`, `StopIsAnswered`, `OutageEnds`,
  `EveryTaskSettles`, `EverythingEnds`, `ServedAgain`, `BufferIsDrained`. This is out
  of the proof system's reach.
- `LimitIsExact`: not proved. It bounds the number of grants by a sum over the
  workers and drops old grants with `SelectSeq`, of which the library has no
  facts: what a sum and a filter yield would have to be shown for them first.
- `BusyIsRetried`, which does not hold.

## 5. What is not modelled

- The pure functions: `asr_parse.py`, `asr_patch.py`, `exporters.py`, the
  templates; the pages, the build.
- The content of audio, files and transcripts; the sample rate beyond whether it
  was set and its ratio to the model's; quality metrics; progress messages; what
  the text of a recording is.
- Store errors, except in a POST of settings. A recording's uploads from the
  browser succeed.
- A tab that sends a second request before the first is answered; two tabs stand
  for that.
- A model load that needs the event loop a POST is blocking: loads are threads of
  their own (`Settings`), and end.
- An environment that changes between two starts of the server.
- The tab that stays open after a `beforeunload` stop; a second recording in the
  same page (where `localMode` may still be set).
- The language model server and what it answers, and so the write of the minutes
  (`generate.py:51`).
- Two commands of the command line at the same time; a clock that is set forward.
- A server that crashes, or fails to write a chunk, while the client of
  `RecordProtocol` is connected: `RecordSession` has both, for any client.
- Casting of settings, file janitor and preloading at startup, SSE progress.

## 6. Plan

Done, in this order: `RecordSession` and its lifecycle; its proofs; the client's
`ReconnectLoop` and `GapCapture`; `TaskPipeline`; `RecordProtocol`, which joins
client and server; `StreamingAsr`, `Settings`, `RateLimiter`, `Daemon`.

Next modules: minutes and their stale write (`generate.py`); the pure algorithms
(`asr_parse.py`, `exporters.py`) against reference definitions.

Next proof: `LimitIsExact`, for which facts about sums over the workers and about
`SelectSeq` have to be shown first.
