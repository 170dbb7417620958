---------------------------- MODULE TaskPipeline ----------------------------
(***************************************************************************)
(* From an audio file to a transcript: the task table (store.py), the      *)
(* single pipeline thread with its registry of futures (pipeline.py), the  *)
(* HTTP handlers that start, retry, edit and delete (transcribe.py,        *)
(* upload.py), boot-time recovery (startup.py) and the command line, which *)
(* runs the same pipeline in a process of its own (cli.py).                *)
(*                                                                         *)
(* Every store method is one SQLite transaction: one step.  The pipeline   *)
(* thread may run between any two of them.  Handlers run on the event loop *)
(* and contain no await, so they exclude each other; but the task a        *)
(* handler is given was read before, by its dependency, in a thread pool.  *)
(***************************************************************************)
EXTENDS Naturals, FiniteSets

CONSTANTS
    Tasks,    \* task ids
    Clients,  \* browser tabs; each has one request in flight
    MaxRuns,  \* bound: runs submitted in a behaviour
    MaxEdits, \* bound: transcript edits accepted
    Faults,   \* which of "crash" and "cli" may happen
    NoRow, NoRun, NoCall

Runs == 1..MaxRuns
Edits == 1..MaxEdits
Statuses == {"pending", "processing", "done", "error"}
Processes == {"server", "cli"}

\* A transcript is named after the run or the edit that wrote it.
NoText == <<"none", 0>>
Texts == ({"run"} \X Runs) \cup ({"edit"} \X Edits) \cup {NoText}

\* The columns of a task the properties tell apart.
Rows == [status : Statuses, text : Texts, error : {"", "failed", "restart"}]

\* Where run_pipeline is; "closing" is the end of the worker's bookkeeping.
Stages == {"check", "load", "begin", "prepare", "gate", "transcribe", "save",
           "fail", "cleanup", "closing"}

\* Where a handler is; "body" is before its first statement.
Spots == {"body", "submit", "unlink", "drop"}

PipelineAssumption ==
    /\ MaxRuns \in Nat /\ MaxEdits \in Nat
    /\ Faults \subseteq {"crash", "cli"}
    /\ NoRow \notin Rows
    /\ NoRun \notin [id : Runs, task : Tasks, at : Stages]
    /\ NoCall \notin [op : {"start", "retry", "edit", "delete"}, task : Tasks,
                      seen : Statuses, at : Spots]

ASSUME PipelineAssumption

VARIABLES
    row,       \* the tasks table
    file,      \* tasks whose audio file exists
    queue,     \* the executor's queue: runs not picked up yet, in the order of their ids
    run,       \* what each process is running, or NoRun
    future,    \* _pipeline_futures: the run a task's entry stands for, or 0
    cancelled, \* _cancelled
    call,      \* the request of each tab, or NoCall
    fresh,     \* the file a tab has just uploaded and is about to have transcribed
    up,        \* the server is running
    runs,      \* runs submitted so far
    edits,     \* edits accepted so far
    created,   \* history: task ids used
    asked,     \* history: tasks somebody asked to transcribe
    kept,      \* history: the edit that was last confirmed to the user and
               \* not given up since by asking for a new transcript, or NoText
    late,      \* history: tasks whose start came when the row was settled already
    left       \* history: tasks of a killed command line that nobody has taken up

server == <<queue, future, cancelled>>
history == <<fresh, runs, edits, created, asked, kept, late, left>>
vars == <<row, file, queue, run, future, cancelled, call, up, history>>

Init ==
    /\ row = [t \in Tasks |-> NoRow]
    /\ file = {}
    /\ queue = {}
    /\ run = [p \in Processes |-> NoRun]
    /\ future = [t \in Tasks |-> 0]
    /\ cancelled = {}
    /\ call = [c \in Clients |-> NoCall]
    /\ up = TRUE
    /\ runs = 0 /\ edits = 0
    /\ created = {} /\ asked = {}
    /\ kept = [t \in Tasks |-> NoText]
    /\ fresh = [c \in Clients |-> {}] /\ late = {} /\ left = {}

Exists(t) == row[t] # NoRow

\* An UPDATE of a row that was deleted changes nothing.
Updated(t, new) == IF Exists(t) THEN [row EXCEPT ![t] = new] ELSE row

NewRow == [status |-> "pending", text |-> NoText, error |-> ""]

\* A new row; every task id is a fresh uuid.
Create(t) ==
    /\ t \notin created
    /\ created' = created \cup {t}
    /\ file' = file \cup {t}
    /\ row' = [row EXCEPT ![t] = NewRow]

-----------------------------------------------------------------------------
(* The executor and its registry.                                          *)

\* submit_pipeline.
Submit(t) ==
    /\ runs < MaxRuns
    /\ runs' = runs + 1
    /\ queue' = queue \cup {[id |-> runs + 1, task |-> t]}
    /\ future' = [future EXCEPT ![t] = runs + 1]
    /\ asked' = asked \cup {t}
    /\ left' = left \ {t}

\* Mutant: a running task is not told that it was cancelled.
CancelQueued(t) ==
    /\ cancelled' = cancelled
    /\ queue' = {q \in queue : q.id # future[t]}
    /\ future' = [future EXCEPT ![t] = 0]

\* cancel_pipeline: a queued run is withdrawn, a running one sees the flag.
CancelPipeline(t) ==
    /\ cancelled' = cancelled \cup {t}
    /\ queue' = {q \in queue : q.id # future[t]}
    /\ future' = [future EXCEPT ![t] = 0]

-----------------------------------------------------------------------------
(* run_pipeline.                                                           *)

At(p, stage) == run[p] # NoRun /\ run[p].at = stage
Goto(p, stage) == run' = [run EXCEPT ![p].at = stage]

\* Each process has its own _cancelled; nobody cancels in the command line's.
Flagged(p) == p = "server" /\ run[p].task \in cancelled

\* The worker thread takes the run that was submitted first.
Pick ==
    /\ up /\ run["server"] = NoRun
    /\ \E q \in queue :
          /\ \A other \in queue : q.id <= other.id
          /\ run' = [run EXCEPT !["server"] = [id |-> q.id, task |-> q.task, at |-> "check"]]
          /\ queue' = queue \ {q}
    /\ UNCHANGED <<row, file, future, cancelled, call, up, history>>

Check(p) ==
    /\ At(p, "check")
    /\ Goto(p, IF Flagged(p) THEN "closing" ELSE "load")
    /\ UNCHANGED <<row, file, server, call, up, history>>

Load(p) ==
    /\ At(p, "load")
    /\ Goto(p, IF Exists(run[p].task) THEN "begin" ELSE "closing")
    /\ UNCHANGED <<row, file, server, call, up, history>>

Begin(p) ==
    /\ At(p, "begin")
    /\ row' = Updated(run[p].task, [row[run[p].task] EXCEPT !.status = "processing"])
    /\ Goto(p, "prepare")
    /\ UNCHANGED <<file, server, call, up, history>>

\* The file must exist, be readable and pass the quality gate.
Prepare(p) ==
    /\ At(p, "prepare")
    /\ \/ run[p].task \in file /\ Goto(p, "gate")
       \/ Goto(p, "fail")
    /\ UNCHANGED <<row, file, server, call, up, history>>

\* The second look at _cancelled, before the expensive part.
Gate(p) ==
    /\ At(p, "gate")
    /\ Goto(p, IF Flagged(p) THEN "cleanup" ELSE "transcribe")
    /\ UNCHANGED <<row, file, server, call, up, history>>

\* Recognition succeeds, raises, or finds nothing.
Transcribe(p) ==
    /\ At(p, "transcribe")
    /\ Goto(p, "save") \/ Goto(p, "fail")
    /\ UNCHANGED <<row, file, server, call, up, history>>

\* Mutant: the result is written like a new row, deleted or not.
SaveAsNew(p) ==
    /\ At(p, "save")
    /\ row' = [row EXCEPT ![run[p].task] =
                  [status |-> "done", text |-> <<"run", run[p].id>>, error |-> ""]]
    /\ Goto(p, "cleanup")
    /\ UNCHANGED <<file, server, call, up, history>>

\* save_result writes the status and the transcript; the error stays.
Save(p) ==
    /\ At(p, "save")
    /\ row' = Updated(run[p].task,
                [row[run[p].task] EXCEPT !.status = "done",
                                         !.text = <<"run", run[p].id>>])
    /\ Goto(p, "cleanup")
    /\ UNCHANGED <<file, server, call, up, history>>

\* Mutant: the failure is logged but not recorded.
FailQuietly(p) ==
    /\ At(p, "fail")
    /\ Goto(p, "cleanup")
    /\ UNCHANGED <<row, file, server, call, up, history>>

Fail(p) ==
    /\ At(p, "fail")
    /\ row' = Updated(run[p].task,
                [row[run[p].task] EXCEPT !.status = "error", !.error = "failed"])
    /\ Goto(p, "cleanup")
    /\ UNCHANGED <<file, server, call, up, history>>

Cleanup(p) ==
    /\ At(p, "cleanup")
    /\ cancelled' = IF p = "server" THEN cancelled \ {run[p].task} ELSE cancelled
    /\ Goto(p, "closing")
    /\ UNCHANGED <<row, file, queue, future, call, up, history>>

\* The future is done: its callback pops the task's entry, whichever run that
\* stands for by now.
Close(p) ==
    /\ At(p, "closing")
    /\ future' = IF p = "server" THEN [future EXCEPT ![run[p].task] = 0] ELSE future
    /\ run' = [run EXCEPT ![p] = NoRun]
    /\ UNCHANGED <<row, file, queue, cancelled, call, up, history>>

RunStep(p) ==
    \/ Check(p) \/ Load(p) \/ Begin(p) \/ Prepare(p) \/ Gate(p)
    \/ Transcribe(p) \/ Save(p) \/ Fail(p) \/ Cleanup(p) \/ Close(p)

-----------------------------------------------------------------------------
(* The HTTP handlers.                                                      *)

\* Handlers between two of their steps.
Midway == {c \in Clients : call[c] # NoCall /\ call[c].at # "body"}
LoopIsFree == up /\ Midway = {}

Answer(c) == call' = [call EXCEPT ![c] = NoCall]
Continue(c, spot) == call' = [call EXCEPT ![c].at = spot]
Serving(c, op) == LoopIsFree /\ call[c] # NoCall /\ call[c].op = op
InHandler(c, spot) == up /\ call[c] # NoCall /\ call[c].at = spot

\* upload_file: the row, and nobody asked to transcribe it yet.  The upload page
\* is about to ask for it (UploadPage.vue); the recorder's uploads are left so.
Upload(c, t) ==
    /\ LoopIsFree /\ call[c] = NoCall /\ fresh[c] = {}
    /\ Create(t)
    /\ \E next \in SUBSET {t} : fresh' = [fresh EXCEPT ![c] = next]
    /\ UNCHANGED <<server, run, call, up, runs, edits, asked, kept, late, left>>

\* finalize_audio_to_task: a recording's row is submitted at once.
FinishRecording(t) ==
    /\ LoopIsFree
    /\ Create(t)
    /\ Submit(t)
    /\ UNCHANGED <<cancelled, run, call, up, fresh, edits, kept, late>>

\* A request arrives and its TaskDep reads the row.
Read(c, op, t) ==
    /\ up /\ call[c] = NoCall
    /\ Exists(t)
    /\ call' = [call EXCEPT ![c] =
                  [op |-> op, task |-> t, seen |-> row[t].status, at |-> "body"]]
    /\ UNCHANGED <<row, file, server, run, up, runs, edits, created, asked, kept, late, left>>

\* The next thing an upload page does is to start the transcription, whatever
\* has become of the row.
RequestStart(c, t) ==
    /\ t \in fresh[c]
    /\ fresh' = [fresh EXCEPT ![c] = {}]
    /\ Read(c, "start", t)

\* ... unless nobody answers, or the tab is closed: the page shrugs.
StartIsLost(c) ==
    /\ fresh[c] # {}
    /\ fresh' = [fresh EXCEPT ![c] = {}]
    /\ UNCHANGED <<row, file, server, run, call, up, runs, edits, created, asked, kept, late, left>>

\* The other pages offer retry next to a transcript or an error; with several
\* tabs, and for edit and delete always, the page may be out of date.
Request(c, op, t) ==
    /\ fresh[c] = {} /\ UNCHANGED fresh
    /\ Read(c, op, t)
    /\ op = "retry" => row[t].status \in {"done", "error"} \/ Clients # {c}

StartTranscribe(c) ==
    /\ Serving(c, "start")
    /\ IF call[c].seen = "processing"
         THEN UNCHANGED <<server, runs, asked, kept, late, left>>
         ELSE /\ Submit(call[c].task)
              /\ kept' = [kept EXCEPT ![call[c].task] = NoText]
              /\ late' = IF call[c].seen = "pending" THEN late ELSE late \cup {call[c].task}
              /\ UNCHANGED cancelled
    /\ Answer(c)
    /\ UNCHANGED <<row, file, run, up, fresh, edits, created>>

\* Mutant: the reset forgets the error column.
ResetKeepingError(r) == [r EXCEPT !.status = "pending", !.text = NoText]

\* Mutant: the reset clears the result and leaves the status.
ResetKeepingStatus(r) == [r EXCEPT !.text = NoText, !.error = ""]

\* reset_for_retry.
Reset(r) == [r EXCEPT !.status = "pending", !.text = NoText, !.error = ""]

RetryTranscribe(c) ==
    LET t == call[c].task IN
    /\ Serving(c, "retry")
    /\ IF t \notin file \/ call[c].seen = "processing"
         THEN Answer(c) /\ UNCHANGED <<row, kept>>
         ELSE /\ runs < MaxRuns
              /\ row' = Updated(t, Reset(row[t]))
              /\ kept' = [kept EXCEPT ![t] = NoText]
              /\ Continue(c, "submit")
    /\ UNCHANGED <<file, server, run, up, fresh, runs, edits, created, asked, late, left>>

RetrySubmit(c) ==
    /\ InHandler(c, "submit")
    /\ Submit(call[c].task)
    /\ Answer(c)
    /\ UNCHANGED <<row, file, cancelled, run, up, fresh, edits, created, kept, late>>

\* Mutant: update_transcript does not ask for the status.
MayEditAlways(seen) == TRUE

MayEdit(seen) == seen = "done"

\* update_transcript.
UpdateTranscript(c) ==
    LET t == call[c].task IN
    /\ Serving(c, "edit")
    /\ IF MayEdit(call[c].seen)
         THEN /\ edits < MaxEdits
              /\ edits' = edits + 1
              /\ row' = Updated(t, [row[t] EXCEPT !.text = <<"edit", edits + 1>>])
              /\ kept' = [kept EXCEPT ![t] = <<"edit", edits + 1>>]
         ELSE UNCHANGED <<row, edits, kept>>
    /\ Answer(c)
    /\ UNCHANGED <<file, server, run, up, fresh, runs, created, asked, late, left>>

\* delete_task: cancel, then remove the file, then the row.
DeleteTask(c) ==
    /\ Serving(c, "delete")
    /\ CancelPipeline(call[c].task)
    /\ Continue(c, "unlink")
    /\ UNCHANGED <<row, file, run, up, history>>

DeleteFile(c) ==
    /\ InHandler(c, "unlink")
    /\ file' = file \ {call[c].task}
    /\ Continue(c, "drop")
    /\ UNCHANGED <<row, server, run, up, history>>

DeleteRow(c) ==
    /\ InHandler(c, "drop")
    /\ row' = [row EXCEPT ![call[c].task] = NoRow]
    /\ kept' = [kept EXCEPT ![call[c].task] = NoText]
    /\ Answer(c)
    /\ UNCHANGED <<file, server, run, up, fresh, runs, edits, created, asked, late, left>>

HandlerStep(c) ==
    \/ StartTranscribe(c) \/ RetryTranscribe(c) \/ RetrySubmit(c)
    \/ UpdateTranscript(c) \/ DeleteTask(c) \/ DeleteFile(c) \/ DeleteRow(c)

-----------------------------------------------------------------------------
(* Processes.                                                              *)

\* The server dies: queue, registry, flags, requests and its run are gone.
Crash ==
    /\ "crash" \in Faults
    /\ up
    /\ up' = FALSE
    /\ queue' = {}
    /\ future' = [t \in Tasks |-> 0]
    /\ cancelled' = {}
    /\ call' = [c \in Clients |-> NoCall]
    /\ run' = [run EXCEPT !["server"] = NoRun]
    /\ UNCHANGED <<row, file, history>>

\* Mutant: only the queued tasks are recovered.
OrphanPendingOnly(r) == r # NoRow /\ r.status = "pending"

\* mark_orphan_processing takes every unsettled row for an orphan.
Orphan(r) == r # NoRow /\ r.status \in {"pending", "processing"}

Restart ==
    /\ ~up
    /\ up' = TRUE
    /\ row' = [t \in Tasks |-> IF Orphan(row[t])
                 THEN [row[t] EXCEPT !.status = "error", !.error = "restart"]
                 ELSE row[t]]
    /\ left' = {}
    /\ UNCHANGED <<file, server, run, call, fresh, runs, edits, created, asked, kept, late>>

\* "transcribe" on the command line: a row, and the pipeline in its process.
CliTranscribe(t) ==
    /\ "cli" \in Faults
    /\ run["cli"] = NoRun
    /\ Create(t)
    /\ runs < MaxRuns
    /\ runs' = runs + 1
    /\ asked' = asked \cup {t}
    /\ run' = [run EXCEPT !["cli"] = [id |-> runs + 1, task |-> t, at |-> "check"]]
    /\ UNCHANGED <<server, call, up, fresh, edits, kept, late, left>>

\* The command line is killed, or interrupted: run_pipeline catches Exception
\* only, and the row stays as it is until a server starts.
CliDies ==
    /\ run["cli"] # NoRun
    /\ run' = [run EXCEPT !["cli"] = NoRun]
    /\ left' = left \cup {run["cli"].task}
    /\ UNCHANGED <<row, file, server, call, up, fresh, runs, edits, created, asked, kept, late>>

Next ==
    \/ Pick \/ Crash \/ Restart \/ CliDies
    \/ \E p \in Processes : RunStep(p)
    \/ \E c \in Clients : HandlerStep(c) \/ StartIsLost(c)
    \/ \E t \in Tasks : FinishRecording(t) \/ CliTranscribe(t)
    \/ \E c \in Clients, t \in Tasks :
          \/ Upload(c, t) \/ RequestStart(c, t)
          \/ \E op \in {"retry", "edit", "delete"} : Request(c, op, t)

Spec == Init /\ [][Next]_vars

\* The worker thread, the event loop and a command line that is not killed make
\* progress, and a server that went down is started again.
FairSpec ==
    /\ Spec
    /\ WF_vars(Pick) /\ WF_vars(Restart)
    /\ \A p \in Processes : WF_vars(RunStep(p))
    /\ \A c \in Clients : WF_vars(HandlerStep(c))

-----------------------------------------------------------------------------
TypeOK ==
    /\ row \in [Tasks -> Rows \cup {NoRow}]
    /\ file \subseteq Tasks /\ cancelled \subseteq Tasks
    /\ created \subseteq Tasks /\ asked \subseteq Tasks
    /\ queue \subseteq [id : Runs, task : Tasks]
    /\ run \in [Processes -> [id : Runs, task : Tasks, at : Stages] \cup {NoRun}]
    /\ future \in [Tasks -> Runs \cup {0}]
    /\ call \in [Clients -> [op : {"start", "retry", "edit", "delete"}, task : Tasks,
                             seen : Statuses, at : Spots] \cup {NoCall}]
    /\ up \in BOOLEAN
    /\ runs \in Runs \cup {0} /\ edits \in Edits \cup {0}
    /\ kept \in [Tasks -> Texts]
    /\ fresh \in [Clients -> SUBSET Tasks]
    /\ late \subseteq Tasks /\ left \subseteq Tasks

Queued(t) == {q \in queue : q.task = t}

\* The runs of t that may still write to its row.
Running(t) ==
    {p \in Processes : run[p] # NoRun /\ run[p].task = t
                                      /\ run[p].at \notin {"cleanup", "closing"}}

\* A handler is in the middle of t.
Handled(t) == \E c \in Clients :
    call[c] # NoCall /\ call[c].task = t /\ call[c].at # "body"

\* A task somebody asked for never waits for nothing: while the server is up,
\* a row that is pending or processing has a run queued or under way, or its
\* command line was killed (run_pipeline, retry_transcribe, delete_task,
\* mark_orphan_processing).
UnsettledHasRun ==
    /\ TypeOK
    /\ up => \A t \in asked \ left :
            Exists(t) /\ row[t].status \in {"pending", "processing"} =>
                Queued(t) # {} \/ Running(t) # {} \/ Handled(t)

\* A start that comes after a restart has given the task up is accepted, and the
\* row says "error" until its run begins: the next four except those tasks.

\* "任务正在转录中": a task that is being transcribed is not submitted again.
OneRunPerTask ==
    \A t \in Tasks \ late : Cardinality(Queued(t)) + Cardinality(Running(t)) <= 1

\* A transcript that is done is not shown with the error of an earlier run
\* (list_tasks and get_transcript return both).
DoneHasNoError ==
    \A t \in Tasks \ late : Exists(t) /\ row[t].status = "done" => row[t].error = ""

\* A confirmed edit stays until the user asks for a new transcript.
EditsSurvive ==
    \A t \in Tasks \ late :
        Exists(t) /\ kept[t] # NoText => row[t].text = kept[t] /\ row[t].status = "done"

\* The server does not transcribe for a task that is gone: a delete reaches
\* the run that is queued and the run that is preparing.
NoWorkForDeleted ==
    [][At("server", "gate") /\ At("server", "transcribe")' =>
          Exists(run["server"].task) \/ run["server"].task \in late]_vars

\* A deleted task does not come back.
DeletedStaysDeleted ==
    [][\A t \in Tasks : ~Exists(t) /\ t \in created => ~Exists(t)']_vars

\* "mark tasks stuck in "processing"" (startup.py:11-12): a task whose run is
\* alive is not stuck.  It does not hold: a server that starts takes the task of
\* a command line for one.
RunningIsNotStuck ==
    [][\A t \in Tasks : ~up /\ up' /\ Running(t) # {} => row'[t] = row[t]]_vars

\* Whatever fails or crashes, a task that was asked for is settled in the end,
\* unless its command line is killed: only the next start of a server settles it.
EveryTaskSettles ==
    \A t \in Tasks :
        t \in asked ~> (~Exists(t) \/ row[t].status \in {"done", "error"} \/ t \in left)
=============================================================================
