------------------------- MODULE TaskPipeline_proofs -------------------------
(* The task pipeline for any number of tasks, tabs, runs and edits.        *)
EXTENDS TaskPipeline, FiniteSetTheorems, TLAPS

USE PipelineAssumption DEF PipelineAssumption

\* A handler is deleting t.
Deleting(t) == \E c \in Clients :
    call[c] # NoCall /\ call[c].task = t /\ call[c].at \in {"unlink", "drop"}

\* What p runs is t, and it may still write to the row.
Busy(p, t) == run[p] # NoRun /\ run[p].task = t /\ run[p].at \notin {"cleanup", "closing"}

HasRun(t) ==
    (\E q \in queue : q.task = t) \/ (\E p \in Processes : Busy(p, t)) \/ Handled(t)

\* UnsettledHasRun without its sets.
NeverForgotten ==
    up => \A t \in asked \ left :
        Exists(t) /\ row[t].status \in {"pending", "processing"} => HasRun(t)

\* Nothing refers to a task id before its row was made.
OnlyCreated ==
    /\ \A t \in Tasks : Exists(t) => t \in created
    /\ asked \subseteq created /\ cancelled \subseteq created
    /\ \A q \in queue : q.task \in created
    /\ \A p \in Processes : run[p] # NoRun => run[p].task \in created
    /\ \A c \in Clients : call[c] # NoCall => call[c].task \in created

\* An entry of the registry never withdraws the run of another task.
EntriesMatch ==
    /\ \A q \in queue : q.id <= runs
    /\ \A t \in Tasks : future[t] <= runs
    /\ \A q \in queue, t \in Tasks : q.id = future[t] => q.task = t

\* Only a task that is being deleted, or is gone, is flagged.
FlaggedIsGoing == \A t \in cancelled : ~Exists(t) \/ Deleting(t)

PipelineInv == TypeOK /\ NeverForgotten /\ OnlyCreated /\ EntriesMatch /\ FlaggedIsGoing

LEMMA InitInv == Init => PipelineInv
  BY DEF Init, PipelineInv, TypeOK, NeverForgotten, OnlyCreated, EntriesMatch,
         FlaggedIsGoing, Exists, Texts, NoText

-----------------------------------------------------------------------------
(* What the updates of the model do.                                       *)

RunRecord == [id : Runs, task : Tasks, at : Stages]
CallRecord == [op : {"start", "retry", "edit", "delete"}, task : Tasks,
               seen : Statuses, at : Spots]

LEMMA GotoMoves ==
    ASSUME TypeOK, NEW p \in Processes, NEW stage \in Stages,
           run[p] # NoRun, Goto(p, stage)
    PROVE  /\ run' \in [Processes -> RunRecord \cup {NoRun}]
           /\ run'[p] # NoRun /\ run'[p].at = stage
           /\ run'[p].task = run[p].task /\ run'[p].id = run[p].id
           /\ \A o \in Processes \ {p} : run'[o] = run[o]
  <1> DEFINE new == [id |-> run[p].id, task |-> run[p].task, at |-> stage]
  <1>1. run[p] \in RunRecord /\ run \in [Processes -> RunRecord \cup {NoRun}]
    BY DEF TypeOK, RunRecord
  <1>2. new \in RunRecord /\ new # NoRun
    BY <1>1 DEF RunRecord
  <1>3. [run[p] EXCEPT !.at = stage] = new
    BY <1>1 DEF RunRecord
  <1>4. run' = [run EXCEPT ![p] = new]
    BY <1>1, <1>3 DEF Goto
  <1>5. new.id = run[p].id /\ new.task = run[p].task /\ new.at = stage
    OBVIOUS
  <1> HIDE DEF new
  <1> QED
    BY <1>1, <1>2, <1>4, <1>5

LEMMA ContinueMoves ==
    ASSUME TypeOK, NEW c \in Clients, NEW spot \in Spots,
           call[c] # NoCall, Continue(c, spot)
    PROVE  /\ call' \in [Clients -> CallRecord \cup {NoCall}]
           /\ call'[c] # NoCall /\ call'[c].at = spot
           /\ call'[c].task = call[c].task /\ call'[c].op = call[c].op
           /\ call'[c].seen = call[c].seen
           /\ \A d \in Clients \ {c} : call'[d] = call[d]
  <1> DEFINE new == [op |-> call[c].op, task |-> call[c].task,
                     seen |-> call[c].seen, at |-> spot]
  <1>1. call[c] \in CallRecord /\ call \in [Clients -> CallRecord \cup {NoCall}]
    BY DEF TypeOK, CallRecord
  <1>2. new \in CallRecord /\ new # NoCall
    BY <1>1 DEF CallRecord
  <1>3. [call[c] EXCEPT !.at = spot] = new
    BY <1>1 DEF CallRecord
  <1>4. call' = [call EXCEPT ![c] = new]
    BY <1>1, <1>3 DEF Continue
  <1>5. /\ new.op = call[c].op /\ new.task = call[c].task
        /\ new.seen = call[c].seen /\ new.at = spot
    OBVIOUS
  <1> HIDE DEF new
  <1> QED
    BY <1>1, <1>2, <1>4, <1>5

\* An UPDATE touches one row at most, and makes and removes none.
LEMMA UpdatedRow ==
    ASSUME TypeOK, NEW t \in Tasks, NEW new, Exists(t) => new \in Rows,
           row' = Updated(t, new)
    PROVE  /\ row' \in [Tasks -> Rows \cup {NoRow}]
           /\ \A u \in Tasks : Exists(u)' <=> Exists(u)
           /\ Exists(t) => row'[t] = new
           /\ \A u \in Tasks \ {t} : row'[u] = row[u]
  BY DEF TypeOK, Updated, Exists

-----------------------------------------------------------------------------
(* The steps keep PipelineInv.                                             *)

\* A row that is written by a run: another status, and nobody is left waiting
\* when the run lets go of it.
LEMMA RunMoves ==
    ASSUME PipelineInv, NEW p \in Processes, NEW stage \in Stages,
           run[p] # NoRun, Goto(p, stage),
           UNCHANGED <<file, queue, future, call, up, history>>,
           cancelled' \in SUBSET cancelled,
           row' \in [Tasks -> Rows \cup {NoRow}],
           \A u \in Tasks : Exists(u)' <=> Exists(u),
           \A u \in Tasks \ {run[p].task} : row'[u] = row[u],
           \/ stage \notin {"cleanup", "closing"} /\ run[p].at \notin {"cleanup", "closing"}
           \/ run[p].at \in {"cleanup", "closing"} /\ row' = row
           \/ ~Exists(run[p].task) \/ Handled(run[p].task)
           \/ row'[run[p].task].status \in {"done", "error"}
    PROVE  PipelineInv'
  <1> DEFINE t == run[p].task
  <1>1. /\ run' \in [Processes -> RunRecord \cup {NoRun}]
        /\ run'[p] # NoRun /\ run'[p].at = stage /\ run'[p].task = t
        /\ \A o \in Processes \ {p} : run'[o] = run[o]
    BY GotoMoves DEF PipelineInv
  <1>2. t \in Tasks
    BY DEF PipelineInv, TypeOK
  <1> HIDE DEF t
  <1>3. TypeOK'
    BY <1>1 DEF PipelineInv, TypeOK, RunRecord, history
  <1>4. \A u \in Tasks : Handled(u)' <=> Handled(u)
    BY DEF Handled
  <1>5. \A u \in Tasks : Deleting(u)' <=> Deleting(u)
    BY DEF Deleting
  <1>6. \A u \in Tasks \ {t} : HasRun(u) => HasRun(u)'
    BY <1>1, <1>4 DEF HasRun, Busy, t
  <1>7. Exists(t)' /\ row'[t].status \in {"pending", "processing"} /\ HasRun(t) => HasRun(t)'
    BY <1>1, <1>2, <1>4 DEF HasRun, Busy, t
  <1>8. \A u \in asked : u \in Tasks
    BY DEF PipelineInv, TypeOK
  <1>9. NeverForgotten'
    <2> SUFFICES ASSUME up, NEW u \in asked \ left, Exists(u)',
                        row'[u].status \in {"pending", "processing"}
                 PROVE  HasRun(u)'
      BY DEF NeverForgotten, history
    <2>1. CASE u # t
      BY <1>6, <1>8, <2>1 DEF PipelineInv, NeverForgotten, t
    <2>2. CASE u = t
      BY <1>1, <1>2, <1>4, <1>7, <2>2 DEF PipelineInv, NeverForgotten, HasRun, Busy, t
    <2> QED
      BY <2>1, <2>2
  <1>10. OnlyCreated'
    BY <1>1, <1>2 DEF PipelineInv, OnlyCreated, history, t
  <1>11. EntriesMatch'
    BY DEF PipelineInv, EntriesMatch, history
  <1>12. FlaggedIsGoing'
    BY <1>5 DEF PipelineInv, FlaggedIsGoing, TypeOK
  <1> QED
    BY <1>3, <1>9, <1>10, <1>11, <1>12 DEF PipelineInv

\* A flagged task is being deleted or is gone: its run may be dropped.
LEMMA FlaggedMayStop ==
    ASSUME PipelineInv, NEW p \in Processes, run[p] # NoRun, Flagged(p)
    PROVE  ~Exists(run[p].task) \/ Handled(run[p].task)
  BY DEF PipelineInv, FlaggedIsGoing, Flagged, Deleting, Handled

LEMMA WrittenRow ==
    ASSUME TypeOK, NEW t \in Tasks, Exists(t), NEW status \in Statuses, NEW id \in Runs
    PROVE  /\ [row[t] EXCEPT !.status = status] \in Rows
           /\ [row[t] EXCEPT !.status = status, !.error = "failed"] \in Rows
           /\ [row[t] EXCEPT !.status = status, !.text = <<"run", id>>] \in Rows
           /\ [row[t] EXCEPT !.status = status].status = status
           /\ [row[t] EXCEPT !.status = status, !.error = "failed"].status = status
           /\ [row[t] EXCEPT !.status = status, !.text = <<"run", id>>].status = status
  <1>1. row[t] \in Rows
    BY DEF TypeOK, Exists
  <1>2. <<"run", id>> \in Texts
    BY DEF Texts
  <1> HIDE DEF Texts
  <1> QED
    BY <1>1, <1>2 DEF Rows

LEMMA ResetRow ==
    ASSUME TypeOK, NEW t \in Tasks, Exists(t)
    PROVE  /\ Reset(row[t]) \in Rows
           /\ Reset(row[t]).status = "pending" /\ Reset(row[t]).error = ""
  <1>1. row[t] \in Rows
    BY DEF TypeOK, Exists
  <1>2. NoText \in Texts
    BY DEF Texts
  <1> HIDE DEF Texts
  <1> QED
    BY <1>1, <1>2 DEF Rows, Reset, Statuses

LEMMA EditedRow ==
    ASSUME TypeOK, NEW t \in Tasks, Exists(t), NEW n \in Edits
    PROVE  /\ [row[t] EXCEPT !.text = <<"edit", n>>] \in Rows
           /\ [row[t] EXCEPT !.text = <<"edit", n>>].status = row[t].status
           /\ [row[t] EXCEPT !.text = <<"edit", n>>].error = row[t].error
           /\ [row[t] EXCEPT !.text = <<"edit", n>>].text = <<"edit", n>>
  <1>1. row[t] \in Rows
    BY DEF TypeOK, Exists
  <1>2. <<"edit", n>> \in Texts
    BY DEF Texts
  <1> HIDE DEF Texts
  <1> QED
    BY <1>1, <1>2 DEF Rows

LEMMA RunSteps ==
    ASSUME PipelineInv, NEW p \in Processes, RunStep(p)
    PROVE  PipelineInv'
  <1> DEFINE t == run[p].task
  <1>1. run[p] # NoRun /\ t \in Tasks /\ run[p].id \in Runs
    BY DEF PipelineInv, TypeOK, RunStep, Check, Load, Begin, Prepare, Gate,
           Transcribe, Save, Fail, Cleanup, Close, At
  <1>2. row \in [Tasks -> Rows \cup {NoRow}] /\ TypeOK
    BY DEF PipelineInv, TypeOK
  <1>3. CASE Check(p) \/ Load(p) \/ Gate(p)
    <2>1. PICK stage \in Stages :
             /\ Goto(p, stage)
             /\ \/ stage \notin {"cleanup", "closing"}
                \/ Flagged(p) \/ ~Exists(t)
      BY <1>3 DEF Check, Load, Gate, Stages
    <2> QED
      BY <1>1, <1>2, <1>3, <2>1, RunMoves, FlaggedMayStop
      DEF Check, Load, Gate, At, server, Exists
  <1>4. CASE Prepare(p) \/ Transcribe(p)
    <2>1. PICK stage \in Stages : Goto(p, stage) /\ stage \notin {"cleanup", "closing"}
      BY <1>4 DEF Prepare, Transcribe, Stages
    <2> QED
      BY <1>1, <1>2, <1>4, <2>1, RunMoves DEF Prepare, Transcribe, At, server, Exists
  <1>5. CASE Begin(p) \/ Save(p) \/ Fail(p)
    <2>1. PICK new, stage :
             /\ Goto(p, stage)
             /\ row' = Updated(t, new)
             /\ Exists(t) => new \in Rows
             /\ stage = "cleanup" /\ Exists(t) => new.status \in {"done", "error"}
             /\ stage \in Stages /\ stage # "closing"
      <3>1. CASE Begin(p)
        <4> DEFINE new == [row[t] EXCEPT !.status = "processing"]
        <4>1. Exists(t) => new \in Rows /\ new.status = "processing"
          <5>1. "processing" \in Statuses /\ run[p].id \in Runs
            BY <1>1 DEF Statuses
          <5> QED
            BY <1>1, <1>2, <5>1, WrittenRow
        <4>2. Goto(p, "prepare") /\ row' = Updated(t, new)
          BY <3>1 DEF Begin
        <4> HIDE DEF new
        <4> QED
          BY <4>1, <4>2 DEF Stages
      <3>2. CASE Save(p)
        <4> DEFINE new == [row[t] EXCEPT !.status = "done", !.text = <<"run", run[p].id>>]
        <4>1. Exists(t) => new \in Rows /\ new.status = "done"
          BY <1>1, <1>2, WrittenRow, ZenonT(30) DEF Statuses
        <4>2. Goto(p, "cleanup") /\ row' = Updated(t, new)
          BY <3>2 DEF Save
        <4> HIDE DEF new
        <4> QED
          BY <4>1, <4>2 DEF Stages
      <3>3. CASE Fail(p)
        <4> DEFINE new == [row[t] EXCEPT !.status = "error", !.error = "failed"]
        <4>1. Exists(t) => new \in Rows /\ new.status = "error"
          BY <1>1, <1>2, WrittenRow DEF Statuses
        <4>2. Goto(p, "cleanup") /\ row' = Updated(t, new)
          BY <3>3 DEF Fail
        <4> HIDE DEF new
        <4> QED
          BY <4>1, <4>2 DEF Stages
      <3> QED
        BY <1>5, <3>1, <3>2, <3>3
    <2>2. /\ row' \in [Tasks -> Rows \cup {NoRow}]
          /\ \A u \in Tasks : Exists(u)' <=> Exists(u)
          /\ Exists(t) => row'[t] = new
          /\ \A u \in Tasks \ {t} : row'[u] = row[u]
      BY <1>1, <1>2, <2>1, UpdatedRow
    <2>3. run[p].at \notin {"cleanup", "closing"}
      BY <1>5 DEF Begin, Save, Fail, At
    <2>4. UNCHANGED <<file, queue, future, cancelled, call, up, history>>
      BY <1>5 DEF Begin, Save, Fail, server
    <2> QED
      BY <1>1, <2>1, <2>2, <2>3, <2>4, RunMoves
  <1>6. CASE Cleanup(p)
    <2>1. Goto(p, "closing") /\ "closing" \in Stages /\ cancelled' \in SUBSET cancelled
      BY <1>6 DEF Cleanup, Stages
    <2> QED
      BY <1>1, <1>2, <1>6, <2>1, RunMoves DEF Cleanup, At, Exists
  <1>7. CASE Close(p)
    <2>1. /\ run' = [run EXCEPT ![p] = NoRun]
          /\ run[p].at = "closing"
          /\ future' = future \/ future' = [future EXCEPT ![t] = 0]
          /\ UNCHANGED <<row, file, queue, cancelled, call, up, history>>
      BY <1>7 DEF Close, At
    <2>2. TypeOK'
      BY <1>1, <2>1 DEF PipelineInv, TypeOK, history
    <2>3. NeverForgotten'
      BY <1>1, <2>1 DEF PipelineInv, TypeOK, NeverForgotten, HasRun, Busy, Handled, Exists, history
    <2>4. OnlyCreated'
      BY <1>1, <2>1 DEF PipelineInv, TypeOK, OnlyCreated, Exists, history
    <2>5. EntriesMatch'
      <3>1. \A u \in Tasks : future'[u] \in {0, future[u]}
        BY <1>1, <2>1 DEF PipelineInv, TypeOK
      <3>2. \A q \in queue : q.id \in Nat \ {0}
        BY DEF PipelineInv, TypeOK, Runs
      <3>3. runs \in Nat
        BY DEF PipelineInv, TypeOK, Runs
      <3> QED
        BY <2>1, <3>1, <3>2, <3>3 DEF PipelineInv, EntriesMatch, history
    <2>6. FlaggedIsGoing'
      BY <2>1 DEF PipelineInv, FlaggedIsGoing, Deleting, Exists
    <2> QED
      BY <2>2, <2>3, <2>4, <2>5, <2>6 DEF PipelineInv
  <1> QED
    BY <1>3, <1>4, <1>5, <1>6, <1>7 DEF RunStep

LEMMA PickStep ==
    ASSUME PipelineInv, Pick
    PROVE  PipelineInv'
  <1>1. PICK q \in queue :
           /\ run' = [run EXCEPT !["server"] = [id |-> q.id, task |-> q.task, at |-> "check"]]
           /\ queue' = queue \ {q}
    BY DEF Pick
  <1> DEFINE new == [id |-> q.id, task |-> q.task, at |-> "check"]
  <1>2. /\ q.id \in Runs /\ q.task \in Tasks /\ q.task \in created
        /\ run \in [Processes -> RunRecord \cup {NoRun}]
    BY DEF PipelineInv, TypeOK, OnlyCreated, RunRecord
  <1>3. new \in RunRecord /\ new # NoRun /\ new.task = q.task /\ new.at = "check"
    BY <1>2 DEF RunRecord, Stages
  <1>4. run' = [run EXCEPT !["server"] = new]
    BY <1>1
  <1> HIDE DEF new
  <1>5. /\ run["server"] = NoRun
        /\ UNCHANGED <<row, file, future, cancelled, call, up, history>>
    BY DEF Pick
  <1>6. /\ run' \in [Processes -> RunRecord \cup {NoRun}]
        /\ run'["server"] = new /\ "server" \in Processes
        /\ \A o \in Processes \ {"server"} : run'[o] = run[o]
    BY <1>2, <1>3, <1>4 DEF Processes
  <1>7. TypeOK'
    BY <1>1, <1>5, <1>6 DEF PipelineInv, TypeOK, RunRecord, history
  <1>8. \A u : HasRun(u) => HasRun(u)'
    BY <1>1, <1>3, <1>5, <1>6 DEF HasRun, Busy, Handled
  <1>9. NeverForgotten'
    BY <1>5, <1>8 DEF PipelineInv, NeverForgotten, Exists, history
  <1>10. OnlyCreated'
    BY <1>1, <1>2, <1>3, <1>5, <1>6 DEF PipelineInv, OnlyCreated, Exists, history
  <1>11. EntriesMatch'
    BY <1>1, <1>5 DEF PipelineInv, EntriesMatch, history
  <1>12. FlaggedIsGoing'
    BY <1>5 DEF PipelineInv, FlaggedIsGoing, Deleting, Exists
  <1> QED
    BY <1>7, <1>9, <1>10, <1>11, <1>12 DEF PipelineInv

\* A submission has a fresh id, and the entry of its task stands for it.
LEMMA SubmitAdds ==
    ASSUME PipelineInv, NEW t \in Tasks, Submit(t)
    PROVE  /\ runs' \in Runs /\ runs' = runs + 1
           /\ future' \in [Tasks -> Runs \cup {0}]
           /\ queue' \subseteq [id : Runs, task : Tasks]
           /\ EntriesMatch'
           /\ \E q \in queue' : q.task = t /\ q.id = future'[t] /\ queue' = queue \cup {q}
           /\ \A u \in Tasks \ {t} : future'[u] = future[u]
           /\ \A q \in queue : q \in queue'
           /\ \A q \in queue' : q \in queue \/ (q.task = t /\ q.id = runs')
           /\ \A q \in queue : q.id < runs'
           /\ asked' = asked \cup {t} /\ left' = left \ {t}
  <1> DEFINE new == [id |-> runs + 1, task |-> t]
  <1>1. runs \in Nat /\ runs + 1 \in Runs /\ runs' = runs + 1
    BY DEF Submit, PipelineInv, TypeOK, Runs
  <1>2. new \in [id : Runs, task : Tasks] /\ new.id = runs + 1 /\ new.task = t
    BY <1>1
  <1>3. queue' = queue \cup {new} /\ future' = [future EXCEPT ![t] = runs + 1]
    BY DEF Submit
  <1> HIDE DEF new
  <1>4. /\ future' \in [Tasks -> Runs \cup {0}] /\ future'[t] = runs + 1
        /\ \A u \in Tasks \ {t} : future'[u] = future[u]
    BY <1>1, <1>3 DEF PipelineInv, TypeOK
  <1>5. \A q \in queue : q.id \in Nat /\ q.id <= runs
    BY DEF PipelineInv, TypeOK, EntriesMatch, Runs
  <1>6. \A u \in Tasks : future[u] \in Nat /\ future[u] <= runs
    BY DEF PipelineInv, TypeOK, EntriesMatch, Runs
  <1>7. EntriesMatch'
    <2>1. \A q \in queue' : q.id <= runs'
      BY <1>1, <1>2, <1>3, <1>5
    <2>2. \A u \in Tasks : future'[u] <= runs'
      BY <1>1, <1>4, <1>6
    <2>3. ASSUME NEW q \in queue', NEW u \in Tasks, q.id = future'[u]
          PROVE  q.task = u
      BY <1>1, <1>2, <1>3, <1>4, <1>5, <1>6, <2>3 DEF PipelineInv, EntriesMatch
    <2> QED
      BY <2>1, <2>2, <2>3 DEF EntriesMatch
  <1>8. queue' \subseteq [id : Runs, task : Tasks]
    BY <1>2, <1>3 DEF PipelineInv, TypeOK
  <1>9. asked' = asked \cup {t} /\ left' = left \ {t}
    BY DEF Submit
  <1> QED
    BY <1>1, <1>2, <1>3, <1>4, <1>5, <1>7, <1>8, <1>9

\* A cancellation withdraws runs of its task only.
LEMMA CancelWithdraws ==
    ASSUME PipelineInv, NEW t \in Tasks, CancelPipeline(t)
    PROVE  /\ cancelled' = cancelled \cup {t}
           /\ queue' \subseteq queue
           /\ \A q \in queue : q.task # t => q \in queue'
           /\ \A q \in queue : q.id = future[t] => q \notin queue'
           /\ future' \in [Tasks -> Runs \cup {0}]
           /\ \A u \in Tasks : future'[u] \in {0, future[u]}
           /\ \A u \in Tasks \ {t} : future'[u] = future[u]
           /\ runs' = runs => EntriesMatch'
  <1>1. /\ cancelled' = cancelled \cup {t}
        /\ queue' \subseteq queue
        /\ \A q \in queue : q.id # future[t] <=> q \in queue'
        /\ future' = [future EXCEPT ![t] = 0]
    BY DEF CancelPipeline
  <1>2. /\ future' \in [Tasks -> Runs \cup {0}]
        /\ \A u \in Tasks : future'[u] \in {0, future[u]}
        /\ \A u \in Tasks \ {t} : future'[u] = future[u]
    BY <1>1 DEF PipelineInv, TypeOK
  <1>3. \A q \in queue : q.id \in Nat \ {0}
    BY DEF PipelineInv, TypeOK, Runs
  <1>4. runs \in Nat
    BY DEF PipelineInv, TypeOK, Runs
  <1>5. runs' = runs => EntriesMatch'
    BY <1>1, <1>2, <1>3, <1>4 DEF PipelineInv, EntriesMatch
  <1>6. \A q \in queue : q.task # t => q \in queue'
    BY <1>1 DEF PipelineInv, EntriesMatch
  <1> QED
    BY <1>1, <1>2, <1>5, <1>6

\* A request that was answered, and one that goes on.
LEMMA AnswerMoves ==
    ASSUME TypeOK, NEW c \in Clients, Answer(c)
    PROVE  /\ call' \in [Clients -> CallRecord \cup {NoCall}]
           /\ call'[c] = NoCall
           /\ \A d \in Clients \ {c} : call'[d] = call[d]
  BY DEF Answer, TypeOK, CallRecord

LEMMA CallIsTyped ==
    ASSUME TypeOK, NEW c \in Clients, call[c] # NoCall
    PROVE  call[c] \in CallRecord /\ call[c].task \in Tasks
  BY DEF TypeOK, CallRecord

\* The steps that submit the task of a request.
LEMMA SubmitSteps ==
    ASSUME PipelineInv, NEW c \in Clients, call[c] # NoCall,
           Submit(call[c].task), Answer(c),
           kept' \in [Tasks -> Texts], late' \in SUBSET Tasks,
           UNCHANGED <<row, file, cancelled, run, up, fresh, edits, created>>,
           call[c].at \notin {"unlink", "drop"}
    PROVE  PipelineInv'
  <1>1. PICK t \in Tasks : t = call[c].task /\ t \in created
    BY CallIsTyped DEF PipelineInv, OnlyCreated
  <1>2. /\ runs' \in Runs
        /\ future' \in [Tasks -> Runs \cup {0}]
        /\ queue' \subseteq [id : Runs, task : Tasks]
        /\ EntriesMatch'
        /\ \E q \in queue' : q.task = t
        /\ \A q \in queue : q \in queue'
        /\ \A q \in queue' : q \in queue \/ q.task = t
        /\ asked' = asked \cup {t} /\ left' = left \ {t}
    BY <1>1, SubmitAdds
  <1>3. /\ call' \in [Clients -> CallRecord \cup {NoCall}]
        /\ call'[c] = NoCall
        /\ \A d \in Clients \ {c} : call'[d] = call[d]
    BY AnswerMoves DEF PipelineInv
  <1>4. TypeOK'
    BY <1>1, <1>2, <1>3 DEF PipelineInv, TypeOK, CallRecord
  <1>5. \A u \in Tasks \ {t} : Handled(u) => Handled(u)'
    BY <1>1, <1>3 DEF Handled
  <1>6. \A u \in Tasks : HasRun(u) => HasRun(u)'
    BY <1>2, <1>5 DEF HasRun, Busy
  <1>7. HasRun(t)'
    BY <1>2 DEF HasRun
  <1>8. NeverForgotten'
    BY <1>2, <1>6, <1>7 DEF PipelineInv, TypeOK, NeverForgotten, Exists
  <1>9. OnlyCreated'
    BY <1>1, <1>2, <1>3 DEF PipelineInv, OnlyCreated, Exists
  <1>10. FlaggedIsGoing'
    BY <1>3 DEF PipelineInv, FlaggedIsGoing, Deleting, Exists
  <1> QED
    BY <1>2, <1>4, <1>8, <1>9, <1>10 DEF PipelineInv

\* A request that comes, or ends without a change, changes nothing else.
LEMMA AnswerOnly ==
    ASSUME PipelineInv, NEW c \in Clients,
           call[c] = NoCall \/ call[c].at = "body",
           \/ Answer(c)
           \/ \E new \in CallRecord :
                 call' = [call EXCEPT ![c] = new] /\ new.at = "body" /\ new.task \in created,
           fresh' \in [Clients -> SUBSET Tasks],
           UNCHANGED <<row, file, queue, run, future, cancelled, up>>,
           UNCHANGED <<runs, edits, created, asked, kept, late, left>>
    PROVE  PipelineInv'
  <1>1. /\ call' \in [Clients -> CallRecord \cup {NoCall}]
        /\ call'[c] # NoCall => call'[c].at = "body" /\ call'[c].task \in created
        /\ \A d \in Clients \ {c} : call'[d] = call[d]
    BY AnswerMoves DEF PipelineInv, TypeOK, CallRecord
  <1>2. \A u : (Handled(u) <=> Handled(u)') /\ (Deleting(u) <=> Deleting(u)')
    BY <1>1 DEF Handled, Deleting
  <1>3. TypeOK'
    BY <1>1 DEF PipelineInv, TypeOK, CallRecord
  <1>4. NeverForgotten'
    BY <1>2 DEF PipelineInv, NeverForgotten, HasRun, Busy, Exists
  <1>5. OnlyCreated' /\ EntriesMatch' /\ FlaggedIsGoing'
    BY <1>1, <1>2 DEF PipelineInv, OnlyCreated, EntriesMatch, FlaggedIsGoing, Exists
  <1> QED
    BY <1>3, <1>4, <1>5 DEF PipelineInv

\* A handler writes the row of its task and is in the middle of it from then
\* on, or leaves the status alone.
LEMMA RowWritten ==
    ASSUME PipelineInv, NEW c \in Clients, NEW t \in Tasks,
           call[c] # NoCall, t = call[c].task, call[c].at = "body",
           NEW new, Exists(t) => new \in Rows,
           row' = Updated(t, new),
           \/ Continue(c, "submit")
           \/ Answer(c) /\ (Exists(t) => new.status = row[t].status),
           kept' \in [Tasks -> Texts], edits' \in Edits \cup {0},
           UNCHANGED <<file, queue, future, cancelled, run, up, fresh, runs, created, asked>>,
           UNCHANGED <<late, left>>
    PROVE  PipelineInv'
  <1>1. /\ row' \in [Tasks -> Rows \cup {NoRow}]
        /\ \A u \in Tasks : Exists(u)' <=> Exists(u)
        /\ Exists(t) => row'[t] = new
        /\ \A u \in Tasks \ {t} : row'[u] = row[u]
    BY UpdatedRow DEF PipelineInv
  <1>2. /\ call' \in [Clients -> CallRecord \cup {NoCall}]
        /\ call'[c] # NoCall => call'[c].task = t /\ call'[c].at = "submit"
        /\ Continue(c, "submit") => call'[c] # NoCall
        /\ \A d \in Clients \ {c} : call'[d] = call[d]
    BY AnswerMoves, ContinueMoves DEF PipelineInv, Spots
  <1>3. \A u : Handled(u) => Handled(u)'
    BY <1>2 DEF Handled
  <1>4. Continue(c, "submit") => Handled(t)'
    BY <1>2 DEF Handled
  <1>5. \A u : Deleting(u) <=> Deleting(u)'
    BY <1>2 DEF Deleting
  <1>6. TypeOK'
    BY <1>1, <1>2 DEF PipelineInv, TypeOK, CallRecord
  <1>7. \A u \in Tasks : HasRun(u) => HasRun(u)'
    BY <1>3 DEF HasRun, Busy
  <1>8. Continue(c, "submit") => HasRun(t)'
    BY <1>4 DEF HasRun
  <1>9. NeverForgotten'
    BY <1>1, <1>7, <1>8 DEF PipelineInv, TypeOK, NeverForgotten
  <1>10. OnlyCreated' /\ EntriesMatch'
    BY <1>1, <1>2 DEF PipelineInv, OnlyCreated, EntriesMatch
  <1>11. FlaggedIsGoing'
    BY <1>1, <1>5 DEF PipelineInv, TypeOK, FlaggedIsGoing
  <1> QED
    BY <1>6, <1>9, <1>10, <1>11 DEF PipelineInv

LEMMA HandlerSteps ==
    ASSUME PipelineInv, NEW c \in Clients, HandlerStep(c)
    PROVE  PipelineInv'
  <1> DEFINE t == call[c].task
  <1>1. call[c] # NoCall /\ t \in Tasks /\ t \in created /\ TypeOK
    BY CallIsTyped DEF PipelineInv, OnlyCreated, HandlerStep, StartTranscribe,
         RetryTranscribe, RetrySubmit, UpdateTranscript, DeleteTask, DeleteFile,
         DeleteRow, Serving, InHandler
  <1>2. NoText \in Texts
    BY DEF Texts
  <1>3. LoopIsFree => \A d \in Clients : call[d] # NoCall => call[d].at = "body"
    BY DEF LoopIsFree, Midway
  <1>4. CASE StartTranscribe(c)
    <2>1. CASE call[c].seen = "processing"
      <3>1. /\ UNCHANGED <<row, file, queue, run, future, cancelled, up, fresh>>
            /\ UNCHANGED <<runs, edits, created, asked, kept, late, left>>
            /\ Answer(c) /\ fresh' \in [Clients -> SUBSET Tasks]
        BY <1>1, <1>4, <2>1 DEF StartTranscribe, server, history, TypeOK
      <3>2. call[c].at = "body"
        BY <1>1, <1>3, <1>4 DEF StartTranscribe, Serving
      <3> QED
        BY <1>1, <3>1, <3>2, AnswerOnly
    <2>2. CASE call[c].seen # "processing"
      <3>1. kept' \in [Tasks -> Texts] /\ late' \in SUBSET Tasks
        BY <1>1, <1>2, <1>4, <2>2 DEF StartTranscribe, TypeOK
      <3>2. call[c].at = "body"
        BY <1>1, <1>3, <1>4 DEF StartTranscribe, Serving
      <3> QED
        BY <1>1, <1>4, <2>2, <3>1, <3>2, SubmitSteps DEF StartTranscribe
    <2> QED
      BY <2>1, <2>2
  <1>5. CASE RetrySubmit(c)
    BY <1>1, <1>5, SubmitSteps DEF RetrySubmit, InHandler, TypeOK
  <1>6. CASE RetryTranscribe(c)
    <2>1. CASE t \notin file \/ call[c].seen = "processing"
      <3>1. /\ UNCHANGED <<row, file, queue, run, future, cancelled, up, fresh>>
            /\ UNCHANGED <<runs, edits, created, asked, kept, late, left>>
            /\ Answer(c) /\ fresh' \in [Clients -> SUBSET Tasks]
        BY <1>1, <1>6, <2>1 DEF RetryTranscribe, server, history, TypeOK
      <3>2. call[c].at = "body"
        BY <1>1, <1>3, <1>6 DEF RetryTranscribe, Serving
      <3> QED
        BY <1>1, <3>1, <3>2, AnswerOnly
    <2>2. CASE t \in file /\ call[c].seen # "processing"
      <3>1. /\ Continue(c, "submit") /\ row' = Updated(t, Reset(row[t]))
            /\ UNCHANGED <<file, server, run, up, fresh, runs, edits, created, asked, late, left>>
            /\ kept' \in [Tasks -> Texts]
        BY <1>1, <1>2, <1>6, <2>2 DEF RetryTranscribe, TypeOK
      <3>2. Exists(t) => Reset(row[t]) \in Rows
        BY <1>1, ResetRow
      <3>3. call[c].at = "body" /\ edits' \in Edits \cup {0}
        BY <1>1, <1>3, <1>6, <3>1 DEF RetryTranscribe, Serving, TypeOK
      <3>4. /\ UNCHANGED <<file, queue, future, cancelled, run, up, fresh, runs, created, asked>>
            /\ UNCHANGED <<late, left>>
        BY <3>1 DEF server
      <3> DEFINE new == Reset(row[t])
      <3> HIDE DEF new
      <3>5. row' = Updated(t, new) /\ (Exists(t) => new \in Rows)
        BY <3>1, <3>2 DEF new
      <3> QED
        BY <1>1, <3>1, <3>3, <3>4, <3>5, RowWritten
    <2> QED
      BY <2>1, <2>2
  <1>7. CASE UpdateTranscript(c)
    <2>1. call[c].at = "body"
      BY <1>1, <1>3, <1>7 DEF UpdateTranscript, Serving
    <2>2. CASE ~MayEdit(call[c].seen)
      <3>1. /\ UNCHANGED <<row, file, queue, run, future, cancelled, up, fresh>>
            /\ UNCHANGED <<runs, edits, created, asked, kept, late, left>>
            /\ Answer(c) /\ fresh' \in [Clients -> SUBSET Tasks]
        BY <1>1, <1>7, <2>2 DEF UpdateTranscript, server, history, TypeOK
      <3> QED
        BY <1>1, <2>1, <3>1, AnswerOnly
    <2>3. CASE MayEdit(call[c].seen)
      <3>1. /\ edits < MaxEdits /\ edits' = edits + 1
            /\ row' = Updated(t, [row[t] EXCEPT !.text = <<"edit", edits + 1>>])
            /\ kept' = [kept EXCEPT ![t] = <<"edit", edits + 1>>]
            /\ Answer(c)
            /\ UNCHANGED <<file, queue, future, cancelled, run, up, fresh, runs, created, asked>>
            /\ UNCHANGED <<late, left>>
        BY <1>7, <2>3 DEF UpdateTranscript, server
      <3>2. edits + 1 \in Edits
        BY <1>1, <3>1 DEF TypeOK, Edits
      <3>3. <<"edit", edits + 1>> \in Texts
        BY <3>2 DEF Texts
      <3>4. kept' \in [Tasks -> Texts]
        BY <1>1, <3>1, <3>3 DEF TypeOK
      <3> DEFINE new == [row[t] EXCEPT !.text = <<"edit", edits + 1>>]
      <3>5. Exists(t) => new \in Rows /\ new.status = row[t].status
        BY <1>1, <3>2, EditedRow
      <3>6. row' = Updated(t, new)
        BY <3>1
      <3> HIDE DEF new
      <3> QED
        BY <1>1, <2>1, <3>1, <3>2, <3>4, <3>5, <3>6, RowWritten
    <2> QED
      BY <2>2, <2>3
  <1>8. CASE DeleteTask(c)
    <2>1. /\ CancelPipeline(t) /\ Continue(c, "unlink")
          /\ UNCHANGED <<row, file, run, up, history>>
      BY <1>8 DEF DeleteTask
    <2>2. PICK u \in Tasks : u = t
      BY <1>1
    <2>3. /\ call' \in [Clients -> CallRecord \cup {NoCall}]
          /\ call'[c] # NoCall /\ call'[c].task = u /\ call'[c].at = "unlink"
          /\ \A d \in Clients \ {c} : call'[d] = call[d]
      BY <1>1, <2>1, <2>2, ContinueMoves DEF Spots
    <2>4. Deleting(u)' /\ Handled(u)' /\ \A v : Handled(v) => Handled(v)'
      BY <2>2, <2>3 DEF Handled, Deleting
    <2>5. \A v \in Tasks : Deleting(v) => Deleting(v)'
      BY <2>2, <2>3 DEF Deleting
    <2>6. /\ cancelled' = cancelled \cup {u}
          /\ queue' \subseteq queue
          /\ \A q \in queue : q.task # u => q \in queue'
          /\ future' \in [Tasks -> Runs \cup {0}]
          /\ EntriesMatch'
      BY <1>1, <2>1, <2>2, CancelWithdraws DEF history
    <2>7. TypeOK'
      BY <2>1, <2>3, <2>6 DEF PipelineInv, TypeOK, CallRecord, history
    <2>8. \A v \in Tasks : HasRun(v) => HasRun(v)'
      BY <2>1, <2>4, <2>6 DEF HasRun, Busy
    <2>9. NeverForgotten'
      BY <2>1, <2>8 DEF PipelineInv, TypeOK, NeverForgotten, Exists, history
    <2>10. OnlyCreated'
      BY <1>1, <2>1, <2>2, <2>3, <2>6 DEF PipelineInv, OnlyCreated, Exists, history
    <2>11. FlaggedIsGoing'
      BY <2>1, <2>4, <2>5, <2>6 DEF PipelineInv, TypeOK, FlaggedIsGoing, Exists
    <2> QED
      BY <2>6, <2>7, <2>9, <2>10, <2>11 DEF PipelineInv
  <1>9. CASE DeleteFile(c)
    <2>1. /\ file' = file \ {t} /\ Continue(c, "drop")
          /\ UNCHANGED <<row, queue, future, cancelled, run, up, history>>
          /\ call[c].at = "unlink"
      BY <1>9 DEF DeleteFile, InHandler, server
    <2>2. /\ call' \in [Clients -> CallRecord \cup {NoCall}]
          /\ call'[c] # NoCall /\ call'[c].task = call[c].task /\ call'[c].at = "drop"
          /\ \A d \in Clients \ {c} : call'[d] = call[d]
      BY <1>1, <2>1, ContinueMoves DEF Spots
    <2>3. \A u : (Handled(u) <=> Handled(u)') /\ (Deleting(u) <=> Deleting(u)')
      BY <1>1, <2>1, <2>2 DEF Handled, Deleting
    <2>4. TypeOK'
      BY <2>1, <2>2 DEF PipelineInv, TypeOK, CallRecord, history
    <2>5. NeverForgotten'
      BY <2>1, <2>3 DEF PipelineInv, NeverForgotten, HasRun, Busy, Exists, history
    <2>6. OnlyCreated' /\ EntriesMatch' /\ FlaggedIsGoing'
      BY <1>1, <2>1, <2>2, <2>3 DEF PipelineInv, OnlyCreated, EntriesMatch, FlaggedIsGoing,
         Exists, history
    <2> QED
      BY <2>4, <2>5, <2>6 DEF PipelineInv
  <1>10. CASE DeleteRow(c)
    <2>1. /\ row' = [row EXCEPT ![t] = NoRow] /\ kept' = [kept EXCEPT ![t] = NoText]
          /\ Answer(c)
          /\ UNCHANGED <<file, queue, future, cancelled, run, up, fresh, runs, edits>>
          /\ UNCHANGED <<created, asked, late, left>>
      BY <1>10 DEF DeleteRow, server
    <2>2. PICK u \in Tasks : u = t
      BY <1>1
    <2>3. /\ call' \in [Clients -> CallRecord \cup {NoCall}]
          /\ call'[c] = NoCall
          /\ \A d \in Clients \ {c} : call'[d] = call[d]
      BY <1>1, <2>1, AnswerMoves
    <2>4. \A v \in Tasks \ {u} : /\ Handled(v) <=> Handled(v)'
                                 /\ Deleting(v) <=> Deleting(v)'
      BY <1>1, <2>2, <2>3 DEF Handled, Deleting
    <2>5. row'[u] = NoRow /\ \A v \in Tasks \ {u} : row'[v] = row[v]
      BY <1>1, <2>1, <2>2 DEF TypeOK
    <2>6. TypeOK'
      BY <1>1, <1>2, <2>1, <2>3 DEF TypeOK, CallRecord
    <2>7. NeverForgotten'
      BY <2>1, <2>4, <2>5 DEF PipelineInv, TypeOK, NeverForgotten, HasRun, Busy, Exists
    <2>8. OnlyCreated' /\ EntriesMatch' /\ FlaggedIsGoing'
      BY <2>1, <2>3, <2>4, <2>5 DEF PipelineInv, TypeOK, OnlyCreated, EntriesMatch,
         FlaggedIsGoing, Exists
    <2> QED
      BY <2>6, <2>7, <2>8 DEF PipelineInv
  <1> QED
    BY <1>4, <1>5, <1>6, <1>7, <1>8, <1>9, <1>10 DEF HandlerStep

\* A new row is the only trace of its id.
LEMMA CreateAdds ==
    ASSUME PipelineInv, NEW t \in Tasks, Create(t)
    PROVE  /\ t \notin created /\ ~Exists(t) /\ t \notin asked /\ t \notin cancelled
           /\ created' = created \cup {t} /\ file' \subseteq Tasks
           /\ row' \in [Tasks -> Rows \cup {NoRow}] /\ row'[t] = NewRow /\ Exists(t)'
           /\ \A u \in Tasks \ {t} : row'[u] = row[u]
           /\ \A c \in Clients : call[c] # NoCall => call[c].task # t
           /\ \A q \in queue : q.task # t
           /\ \A p \in Processes : run[p] # NoRun => run[p].task # t
  <1>1. NewRow \in Rows /\ NewRow # NoRow
    <2>1. NoText \in Texts
      BY DEF Texts
    <2>2. NewRow \in Rows
      BY <2>1 DEF NewRow, Rows, Statuses
    <2> QED
      BY <2>2
  <1>2. /\ t \notin created /\ ~Exists(t) /\ t \notin asked /\ t \notin cancelled
        /\ \A c \in Clients : call[c] # NoCall => call[c].task # t
        /\ \A q \in queue : q.task # t
        /\ \A p \in Processes : run[p] # NoRun => run[p].task # t
    BY DEF PipelineInv, OnlyCreated, Create
  <1> QED
    BY <1>1, <1>2 DEF PipelineInv, TypeOK, Create, Exists

LEMMA UploadStep ==
    ASSUME PipelineInv, NEW c \in Clients, NEW t \in Tasks, Upload(c, t)
    PROVE  PipelineInv'
  <1>1. /\ Create(t)
        /\ UNCHANGED <<queue, future, cancelled, run, call, up, runs, edits, asked, kept, late, left>>
        /\ fresh' \in [Clients -> SUBSET Tasks]
    BY DEF Upload, server, PipelineInv, TypeOK
  <1>2. TypeOK'
    BY <1>1, CreateAdds DEF PipelineInv, TypeOK
  <1>3. NeverForgotten'
    BY <1>1, CreateAdds DEF PipelineInv, TypeOK, NeverForgotten, HasRun, Busy, Handled, Exists
  <1>4. OnlyCreated' /\ EntriesMatch' /\ FlaggedIsGoing'
    BY <1>1, CreateAdds DEF PipelineInv, TypeOK, OnlyCreated, EntriesMatch, FlaggedIsGoing,
       Deleting, Exists
  <1> QED
    BY <1>2, <1>3, <1>4 DEF PipelineInv

LEMMA FinishRecordingStep ==
    ASSUME PipelineInv, NEW t \in Tasks, FinishRecording(t)
    PROVE  PipelineInv'
  <1>1. /\ Create(t) /\ Submit(t)
        /\ UNCHANGED <<cancelled, run, call, up, fresh, edits, kept, late>>
    BY DEF FinishRecording
  <1>2. TypeOK'
    BY <1>1, CreateAdds, SubmitAdds DEF PipelineInv, TypeOK
  <1>3. \A u \in Tasks : (HasRun(u) => HasRun(u)') /\ HasRun(t)'
    BY <1>1, SubmitAdds DEF HasRun, Busy, Handled
  <1>4. NeverForgotten'
    BY <1>1, <1>3, CreateAdds, SubmitAdds DEF PipelineInv, TypeOK, NeverForgotten, Exists
  <1>5. OnlyCreated' /\ EntriesMatch' /\ FlaggedIsGoing'
    BY <1>1, CreateAdds, SubmitAdds DEF PipelineInv, TypeOK, OnlyCreated, FlaggedIsGoing,
       Deleting, Exists
  <1> QED
    BY <1>2, <1>4, <1>5 DEF PipelineInv

LEMMA CliTranscribeStep ==
    ASSUME PipelineInv, NEW t \in Tasks, CliTranscribe(t)
    PROVE  PipelineInv'
  <1> DEFINE new == [id |-> runs + 1, task |-> t, at |-> "check"]
  <1>1. /\ Create(t)
        /\ UNCHANGED <<queue, future, cancelled, call, up, fresh, edits, kept, late, left>>
        /\ runs < MaxRuns /\ runs' = runs + 1 /\ asked' = asked \cup {t}
        /\ run' = [run EXCEPT !["cli"] = new] /\ run["cli"] = NoRun
    BY DEF CliTranscribe, server
  <1>2. runs \in Nat /\ runs' \in Runs
    BY <1>1 DEF PipelineInv, TypeOK, Runs
  <1>3. new \in RunRecord /\ new # NoRun /\ new.task = t /\ new.at = "check"
    BY <1>1, <1>2 DEF RunRecord, Stages
  <1> HIDE DEF new
  <1>4. /\ run' \in [Processes -> RunRecord \cup {NoRun}]
        /\ run'["cli"] = new /\ "cli" \in Processes
        /\ \A o \in Processes \ {"cli"} : run'[o] = run[o]
    BY <1>1, <1>3 DEF PipelineInv, TypeOK, RunRecord, Processes
  <1>5. TypeOK'
    BY <1>1, <1>2, <1>4, CreateAdds DEF PipelineInv, TypeOK, RunRecord
  <1>6. \A u \in Tasks : (HasRun(u) => HasRun(u)') /\ HasRun(t)'
    BY <1>1, <1>3, <1>4 DEF HasRun, Busy, Handled
  <1>7. NeverForgotten'
    BY <1>1, <1>6, CreateAdds DEF PipelineInv, TypeOK, NeverForgotten, Exists
  <1>8. EntriesMatch'
    <2>1. /\ \A q \in queue : q.id \in Nat /\ q.id <= runs
          /\ \A u \in Tasks : future[u] \in Nat /\ future[u] <= runs
      BY DEF PipelineInv, TypeOK, EntriesMatch, Runs
    <2> QED
      BY <1>1, <1>2, <2>1 DEF PipelineInv, EntriesMatch
  <1>9. OnlyCreated' /\ FlaggedIsGoing'
    BY <1>1, <1>3, <1>4, CreateAdds DEF PipelineInv, TypeOK, OnlyCreated, FlaggedIsGoing,
       Deleting, Exists
  <1> QED
    BY <1>5, <1>7, <1>8, <1>9 DEF PipelineInv

LEMMA ReadStep ==
    ASSUME PipelineInv, NEW c \in Clients, NEW t \in Tasks,
           NEW op \in {"start", "retry", "edit", "delete"}, Read(c, op, t),
           fresh' \in [Clients -> SUBSET Tasks]
    PROVE  PipelineInv'
  <1> DEFINE new == [op |-> op, task |-> t, seen |-> row[t].status, at |-> "body"]
  <1>1. /\ call[c] = NoCall /\ Exists(t)
        /\ call' = [call EXCEPT ![c] = new]
        /\ UNCHANGED <<row, file, queue, run, future, cancelled, up>>
        /\ UNCHANGED <<runs, edits, created, asked, kept, late, left>>
    BY DEF Read, server
  <1>2. row[t].status \in Statuses /\ t \in created
    BY <1>1 DEF PipelineInv, TypeOK, OnlyCreated, Exists, Rows
  <1>3. new \in CallRecord /\ new.at = "body" /\ new.task = t
    BY <1>2 DEF CallRecord, Spots
  <1> HIDE DEF new
  <1> QED
    BY <1>1, <1>2, <1>3, AnswerOnly

LEMMA RequestSteps ==
    ASSUME PipelineInv, NEW c \in Clients, NEW t \in Tasks,
           \/ RequestStart(c, t)
           \/ \E op \in {"retry", "edit", "delete"} : Request(c, op, t)
    PROVE  PipelineInv'
  <1>1. fresh' \in [Clients -> SUBSET Tasks]
    BY DEF PipelineInv, TypeOK, RequestStart, Request
  <1> QED
    BY <1>1, ReadStep DEF RequestStart, Request

LEMMA StartIsLostStep ==
    ASSUME PipelineInv, NEW c \in Clients, StartIsLost(c)
    PROVE  PipelineInv'
  <1>1. /\ UNCHANGED <<row, file, queue, run, future, cancelled, call, up>>
        /\ UNCHANGED <<runs, edits, created, asked, kept, late, left>>
        /\ fresh' \in [Clients -> SUBSET Tasks]
    BY DEF StartIsLost, server, PipelineInv, TypeOK
  <1>2. TypeOK'
    BY <1>1 DEF PipelineInv, TypeOK
  <1>3. NeverForgotten' /\ OnlyCreated' /\ EntriesMatch' /\ FlaggedIsGoing'
    BY <1>1 DEF PipelineInv, NeverForgotten, OnlyCreated, EntriesMatch, FlaggedIsGoing,
       HasRun, Busy, Handled, Deleting, Exists
  <1> QED
    BY <1>2, <1>3 DEF PipelineInv

\* A command line that is killed leaves nobody waiting but for its own task.
LEMMA CliDiesStep == ASSUME PipelineInv, CliDies PROVE PipelineInv'
  <1> DEFINE t == run["cli"].task
  <1>1. /\ run["cli"] # NoRun /\ run' = [run EXCEPT !["cli"] = NoRun]
        /\ left' = left \cup {t}
        /\ UNCHANGED <<row, file, queue, future, cancelled, call, up>>
        /\ UNCHANGED <<fresh, runs, edits, created, asked, kept, late>>
    BY DEF CliDies, server
  <1>2. t \in Tasks /\ run'["cli"] = NoRun /\ run'["server"] = run["server"]
    BY <1>1 DEF PipelineInv, TypeOK, Processes
  <1>3. TypeOK'
    BY <1>1, <1>2 DEF PipelineInv, TypeOK
  <1>4. \A u : u # t /\ HasRun(u) => HasRun(u)'
    BY <1>1, <1>2 DEF HasRun, Busy, Handled, Processes
  <1>5. NeverForgotten'
    BY <1>1, <1>4 DEF PipelineInv, NeverForgotten, Exists
  <1>6. OnlyCreated' /\ EntriesMatch' /\ FlaggedIsGoing'
    BY <1>1, <1>2 DEF PipelineInv, OnlyCreated, EntriesMatch, FlaggedIsGoing, Deleting,
       Exists, Processes
  <1> QED
    BY <1>3, <1>5, <1>6 DEF PipelineInv

LEMMA CrashStep == ASSUME PipelineInv, Crash PROVE PipelineInv'
  <1>1. /\ ~up' /\ queue' = {} /\ future' = [t \in Tasks |-> 0] /\ cancelled' = {}
        /\ call' = [c \in Clients |-> NoCall]
        /\ run' = [run EXCEPT !["server"] = NoRun]
        /\ up' \in BOOLEAN
        /\ UNCHANGED <<row, file, history>>
    BY DEF Crash
  <1>2. TypeOK'
    BY <1>1 DEF PipelineInv, TypeOK, history
  <1>3. NeverForgotten'
    BY <1>1 DEF NeverForgotten
  <1>4. OnlyCreated'
    BY <1>1 DEF PipelineInv, TypeOK, OnlyCreated, Exists, history
  <1>5. EntriesMatch' /\ FlaggedIsGoing'
    BY <1>1 DEF PipelineInv, TypeOK, EntriesMatch, FlaggedIsGoing, Runs, history
  <1> QED
    BY <1>2, <1>3, <1>4, <1>5 DEF PipelineInv

LEMMA OrphanRow ==
    ASSUME TypeOK, NEW t \in Tasks, Exists(t)
    PROVE  LET new == [row[t] EXCEPT !.status = "error", !.error = "restart"] IN
           new \in Rows /\ new.status = "error" /\ new # NoRow
  <1>1. row[t] \in Rows
    BY DEF TypeOK, Exists
  <1> HIDE DEF Texts
  <1> QED
    BY <1>1 DEF Rows, Statuses

\* What a restart makes of the rows.
LEMMA RestartRows ==
    ASSUME TypeOK, Restart
    PROVE  /\ row' \in [Tasks -> Rows \cup {NoRow}]
           /\ \A t \in Tasks :
                /\ Exists(t)' <=> Exists(t)
                /\ Orphan(row[t]) => row'[t].status = "error"
                /\ ~Orphan(row[t]) => row'[t] = row[t]
  <1> DEFINE new(t) == [row[t] EXCEPT !.status = "error", !.error = "restart"]
  <1>1. \A t \in Tasks : Orphan(row[t]) =>
           Exists(t) /\ new(t) \in Rows /\ new(t).status = "error" /\ new(t) # NoRow
    BY OrphanRow DEF Orphan, Exists
  <1>2. row' = [t \in Tasks |-> IF Orphan(row[t]) THEN new(t) ELSE row[t]]
    BY DEF Restart
  <1> HIDE DEF new
  <1>3. \A t \in Tasks : row[t] \in Rows \cup {NoRow}
    BY DEF TypeOK
  <1> QED
    BY <1>1, <1>2, <1>3 DEF Exists

LEMMA RestartStep == ASSUME PipelineInv, Restart PROVE PipelineInv'
  <1>1. /\ UNCHANGED <<file, queue, future, cancelled, run, call>> /\ up' = TRUE /\ left' = {}
        /\ UNCHANGED <<fresh, runs, edits, created, asked, kept, late>>
    BY DEF Restart, server
  <1>2. TypeOK'
    BY <1>1, RestartRows DEF PipelineInv, TypeOK
  <1>3. NeverForgotten'
    BY <1>1, RestartRows DEF PipelineInv, TypeOK, NeverForgotten, Orphan, Exists
  <1>4. OnlyCreated' /\ EntriesMatch' /\ FlaggedIsGoing'
    BY <1>1, RestartRows DEF PipelineInv, TypeOK, OnlyCreated, EntriesMatch, FlaggedIsGoing,
       Deleting
  <1> QED
    BY <1>2, <1>3, <1>4 DEF PipelineInv

LEMMA NextInv == PipelineInv /\ [Next]_vars => PipelineInv'
  <1> SUFFICES ASSUME PipelineInv, [Next]_vars PROVE PipelineInv'
    OBVIOUS
  <1>1. CASE UNCHANGED vars
    BY <1>1 DEF vars, server, history, PipelineInv, TypeOK, NeverForgotten, OnlyCreated,
       EntriesMatch, FlaggedIsGoing, HasRun, Busy, Handled, Deleting, Exists
  <1> QED
    BY <1>1, PickStep, CrashStep, RestartStep, RunSteps, HandlerSteps, UploadStep,
       FinishRecordingStep, CliTranscribeStep, CliDiesStep, RequestSteps, StartIsLostStep DEF Next

LEMMA Invariance == Spec => []PipelineInv
  BY InitInv, NextInv, PTL DEF Spec

\* Nothing that was asked for is forgotten: while the server is up, a row that
\* is pending or processing has a run queued, a run under way or a handler in
\* the middle of it, whatever crashes, restarts, deletes and retries happen, but
\* for a task whose command line was killed and that nobody has taken up since
\* (run_pipeline, retry_transcribe, delete_task, mark_orphan_processing).
THEOREM NoTaskIsForgotten == Spec => []UnsettledHasRun
  <1>1. PipelineInv => UnsettledHasRun
    <2> SUFFICES ASSUME PipelineInv, up, NEW t \in asked \ left, Exists(t),
                        row[t].status \in {"pending", "processing"}
                 PROVE  Queued(t) # {} \/ Running(t) # {} \/ Handled(t)
      BY DEF UnsettledHasRun, PipelineInv
    <2> QED
      BY DEF PipelineInv, NeverForgotten, HasRun, Busy, Queued, Running
  <1> QED
    BY <1>1, Invariance, PTL

\* A deleted task does not come back: no late save or failure of its run, no
\* restart and no request makes its row again (run_pipeline, TaskStore.update,
\* mark_orphan_processing).
THEOREM DeletedIsGone == Spec => DeletedStaysDeleted
  <1> DEFINE Stays == \A t \in Tasks : ~Exists(t) /\ t \in created => ~Exists(t)'
  <1>1. PipelineInv /\ [Next]_vars => Stays \/ UNCHANGED vars
    <2> SUFFICES ASSUME PipelineInv, Next, NEW t \in Tasks, ~Exists(t), t \in created
                 PROVE  ~Exists(t)'
      OBVIOUS
    <2>1. CASE \E p \in Processes : RunStep(p)
      <3>1. PICK p \in Processes : RunStep(p)
        BY <2>1
      <3>2. run[p] # NoRun
        BY <3>1 DEF RunStep, Check, Load, Begin, Prepare, Gate, Transcribe, Save, Fail,
           Cleanup, Close, At
      <3>3. row' = row \/ \E u \in Tasks : \E new : row' = [row EXCEPT ![u] = new] /\ Exists(u)
        BY <3>1, <3>2 DEF PipelineInv, TypeOK, RunStep, Check, Load, Begin, Prepare, Gate,
           Transcribe, Save, Fail, Cleanup, Close, Updated
      <3> QED
        BY <3>3 DEF Exists, PipelineInv, TypeOK
    <2>2. CASE \E c \in Clients : HandlerStep(c)
      <3>1. PICK c \in Clients : HandlerStep(c)
        BY <2>2
      <3>2. call[c] # NoCall
        BY <3>1 DEF HandlerStep, StartTranscribe, RetryTranscribe, RetrySubmit,
           UpdateTranscript, DeleteTask, DeleteFile, DeleteRow, Serving, InHandler
      <3>3. \/ row' = row
            \/ \E u \in Tasks : \E new : row' = [row EXCEPT ![u] = new] /\ (Exists(u) \/ new = NoRow)
        BY <3>1, <3>2, CallIsTyped DEF PipelineInv, HandlerStep, StartTranscribe,
           RetryTranscribe, RetrySubmit, UpdateTranscript, DeleteTask, DeleteFile,
           DeleteRow, Updated
      <3> QED
        BY <3>3 DEF Exists, PipelineInv, TypeOK
    <2>3. CASE Restart
      BY <2>3, RestartRows DEF PipelineInv
    <2>4. CASE \E u \in Tasks : \/ FinishRecording(u) \/ CliTranscribe(u)
                               \/ \E c \in Clients : Upload(c, u)
      BY <2>4 DEF Upload, FinishRecording, CliTranscribe, Create, Exists, PipelineInv, TypeOK
    <2>5. CASE Pick \/ Crash \/ CliDies \/ \E c \in Clients : StartIsLost(c)
      BY <2>5 DEF Pick, Crash, CliDies, StartIsLost, Exists
    <2>6. CASE \E c \in Clients, u \in Tasks :
                  \/ RequestStart(c, u)
                  \/ \E op \in {"retry", "edit", "delete"} : Request(c, op, u)
      BY <2>6 DEF RequestStart, Request, Read, Exists
    <2> QED
      BY <2>1, <2>2, <2>3, <2>4, <2>5, <2>6 DEF Next
  <1> QED
    BY <1>1, Invariance, PTL DEF Spec, DeletedStaysDeleted

-----------------------------------------------------------------------------
(* One tab, and the command line left alone: what the pages offer is       *)
(* enough to keep the runs apart, but for a task that is started after a   *)
(* restart has given it up.                                                *)

OneTab == (\A c, d \in Clients : c = d) /\ "cli" \notin Faults

\* A run of t is queued, or the worker may still write to the row of t.
Active(t) == (\E q \in queue : q.task = t) \/ Busy("server", t)

OnlyServer ==
    /\ run["cli"] = NoRun
    /\ ~up => /\ queue = {} /\ run["server"] = NoRun
              /\ \A c \in Clients : call[c] = NoCall

\* A tab that is about to start what it uploaded does nothing else before, and
\* nobody has asked for the task.
FreshWaits ==
    \A c \in Clients, t \in Tasks : t \in fresh[c] =>
        call[c] = NoCall /\ t \in created /\ t \notin asked

\* One run for each task, asked for, and none for a settled row.
OneRunEach ==
    /\ \A q, z \in queue : q.task = z.task /\ q.task \notin late => q = z
    /\ \A q \in queue : q.task \notin late => ~Busy("server", q.task)
    /\ \A t \in Tasks : Active(t) => t \in asked
    /\ \A t \in Tasks \ late : Exists(t) /\ row[t].status \in {"done", "error"} => ~Active(t)

CallsExist == \A c \in Clients : call[c] # NoCall => Exists(call[c].task)

\* What a handler has read still holds when it uses it.
ReadHolds ==
    \A c \in Clients, t \in Tasks \ late : call[c] # NoCall /\ call[c].task = t =>
        /\ call[c].at = "body" /\ call[c].op = "start" /\ call[c].seen = "pending" =>
              t \notin asked /\ row[t].status = "pending"
        /\ call[c].at = "body" /\ call[c].op = "retry" => row[t].status \in {"done", "error"}
        /\ call[c].at = "body" /\ call[c].seen = "done" => row[t].status = "done"
        /\ call[c].at = "submit" => row[t].status = "pending" /\ ~Active(t)

ErrorBelongs ==
    \A t \in Tasks \ late : Exists(t) /\ row[t].status # "error" => row[t].error = ""

EditKept == \A t \in Tasks : kept[t] # NoText =>
    /\ t \in created
    /\ t \notin late /\ Exists(t) => row[t].text = kept[t] /\ row[t].status = "done"

\* The worker is about to take the flag of t back.
Clearing(t) == run["server"] # NoRun /\ run["server"].task = t /\ run["server"].at = "cleanup"

Going(t) == Deleting(t) \/ ~Exists(t)

\* A delete withdraws the run or leaves it flagged, and the flag is not taken
\* back while it is needed.
DeleteReaches ==
    /\ \A q \in queue : q.task \notin late /\ Clearing(q.task) =>
          future[q.task] = q.id /\ ~Going(q.task)
    /\ \A t \in Tasks \ late : Active(t) /\ Going(t) => t \in cancelled

TabInv ==
    /\ OnlyServer /\ FreshWaits /\ CallsExist
    /\ OneRunEach /\ ReadHolds /\ ErrorBelongs /\ EditKept /\ DeleteReaches

LEMMA InitTab == Init => TabInv
  BY DEF Init, TabInv, OnlyServer, FreshWaits, CallsExist, OneRunEach, ReadHolds,
         ErrorBelongs, EditKept, DeleteReaches, Active, Busy, Clearing, Exists, Processes

\* Of a task that was started late only the references to it matter: a step that
\* touches nothing but such a task keeps the rest.
LEMMA LateMoves ==
    ASSUME PipelineInv, TabInv, NEW t \in Tasks, t \in late', late' \in {late, late \cup {t}},
           OnlyServer', FreshWaits', CallsExist', created' = created,
           \A u \in Tasks \ {t} :
              /\ row'[u] = row[u] /\ kept'[u] = kept[u] /\ future'[u] = future[u]
              /\ u \in cancelled' <=> u \in cancelled
              /\ u \in asked' <=> u \in asked
              /\ Busy("server", u)' <=> Busy("server", u)
              /\ Clearing(u)' <=> Clearing(u)
              /\ Going(u)' <=> Going(u),
           \A q \in queue' : q \in queue \/ q.task = t,
           Active(t)' => t \in asked',
           kept'[t] # NoText => t \in created,
           \A c \in Clients :
              call'[c] = call[c] \/ (call'[c] # NoCall => call'[c].task = t)
    PROVE  TabInv'
  <1>1. \A q \in queue' : q.task # t => q \in queue /\ q.task \in Tasks \ {t}
    BY DEF PipelineInv, TypeOK
  <1>2. \A u \in Tasks \ {t} : Active(u)' => Active(u)
    BY <1>1 DEF Active
  <1>3. \A u \in Tasks : u \notin late' => u \in Tasks \ {t} /\ u \notin late
    OBVIOUS
  <1>4. OneRunEach'
    <2>1. \A q \in queue' : q.task \notin late' =>
             q \in queue /\ q.task \notin late /\ q.task \in Tasks \ {t}
      BY <1>1
    <2>2. /\ \A q, z \in queue' : q.task = z.task /\ q.task \notin late' => q = z
          /\ \A q \in queue' : q.task \notin late' => ~Busy("server", q.task)'
      BY <2>1 DEF TabInv, OneRunEach
    <2>3. \A u \in Tasks : Active(u)' => u \in asked'
      BY <1>2 DEF TabInv, OneRunEach
    <2>4. \A u \in Tasks \ late' :
             Exists(u)' /\ row'[u].status \in {"done", "error"} => ~Active(u)'
      BY <1>2, <1>3 DEF TabInv, OneRunEach, Exists
    <2> QED
      BY <2>2, <2>3, <2>4 DEF OneRunEach
  <1>5. ReadHolds'
    BY <1>2, <1>3 DEF TabInv, ReadHolds
  <1>6. ErrorBelongs' /\ EditKept'
    BY <1>3 DEF TabInv, ErrorBelongs, EditKept, Exists
  <1>7. DeleteReaches'
    <2>1. \A q \in queue' : q.task \notin late' /\ Clearing(q.task)' =>
             future'[q.task] = q.id /\ ~Going(q.task)'
      BY <1>1 DEF TabInv, DeleteReaches
    <2>2. \A u \in Tasks \ late' : Active(u)' /\ Going(u)' => u \in cancelled'
      BY <1>2, <1>3 DEF TabInv, DeleteReaches
    <2> QED
      BY <2>1, <2>2 DEF DeleteReaches
  <1> QED
    BY <1>4, <1>5, <1>6, <1>7 DEF TabInv

\* The worker goes on with a run of t, or lets go of it.
LEMMA TabRunMoves ==
    ASSUME PipelineInv, TabInv, NEW t \in Tasks \ late, Busy("server", t),
           NEW stage \in Stages, Goto("server", stage),
           UNCHANGED <<queue, future, cancelled, call, up, history>>,
           row' \in [Tasks -> Rows \cup {NoRow}],
           \A u \in Tasks : Exists(u)' <=> Exists(u),
           \A u \in Tasks \ {t} : row'[u] = row[u],
           Exists(t) => \/ /\ row'[t].status \in {"pending", "processing"}
                           /\ row'[t].error = row[t].error
                        \/ /\ row'[t].status = "done" /\ row'[t].error = row[t].error
                           /\ stage = "cleanup"
                        \/ row'[t].status = "error" /\ stage = "cleanup"
    PROVE  TabInv'
  <1>1. /\ run["server"] # NoRun /\ run["server"].task = t
        /\ run'["server"] # NoRun /\ run'["server"].at = stage /\ run'["server"].task = t
        /\ run'["cli"] = run["cli"]
    BY GotoMoves DEF PipelineInv, Processes, Busy
  <1>2. \A q \in queue : q.task # t
    BY DEF TabInv, OneRunEach
  <1>3. \A u \in Tasks \ {t} : (Busy("server", u)' <=> Busy("server", u))
                               /\ (Active(u)' <=> Active(u)) /\ (Clearing(u)' <=> Clearing(u))
    BY <1>1 DEF Active, Busy, Clearing
  <1>4. (Active(t)' <=> stage \notin {"cleanup", "closing"}) /\ Active(t)
    BY <1>1, <1>2 DEF Active, Busy
  <1>5. Exists(t) => row[t].status \in {"pending", "processing"} /\ row[t].error = ""
    BY <1>4 DEF TabInv, OneRunEach, ErrorBelongs, PipelineInv, TypeOK, Exists, Rows, Statuses
  <1>6. t \in asked /\ (Exists(t) => kept[t] = NoText)
    BY <1>4, <1>5 DEF TabInv, OneRunEach, EditKept
  <1>7. \A u \in Tasks : Going(u)' <=> Going(u)
    BY DEF Going, Deleting
  <1>8. OnlyServer' /\ FreshWaits' /\ CallsExist'
    BY <1>1 DEF TabInv, OnlyServer, FreshWaits, CallsExist, PipelineInv, TypeOK, history
  <1>9. OneRunEach'
    BY <1>2, <1>3, <1>4, <1>6 DEF PipelineInv, TypeOK, TabInv, OneRunEach, history
  <1>10. ReadHolds'
    <2>1. ASSUME NEW c \in Clients, call[c] # NoCall, call[c].task = t
          PROVE  /\ call[c].at # "submit"
                 /\ call[c].at = "body" => /\ call[c].op = "start" => call[c].seen # "pending"
                                          /\ call[c].op # "retry" /\ call[c].seen # "done"
      <3>1. Exists(t)
        BY <2>1 DEF TabInv, CallsExist
      <3> QED
        BY <1>4, <1>5, <1>6, <2>1, <3>1 DEF TabInv, ReadHolds
    <2>2. ASSUME NEW c \in Clients, NEW u \in Tasks \ late,
                 call[c] # NoCall, call[c].task = u, u # t
          PROVE  /\ call[c].at = "body" /\ call[c].op = "start" /\ call[c].seen = "pending" =>
                       u \notin asked /\ row[u].status = "pending"
                 /\ call[c].at = "body" /\ call[c].op = "retry" => row[u].status \in {"done", "error"}
                 /\ call[c].at = "body" /\ call[c].seen = "done" => row[u].status = "done"
                 /\ call[c].at = "submit" => row[u].status = "pending" /\ ~Active(u)
      BY <2>2 DEF TabInv, ReadHolds
    <2> QED
      BY <1>3, <2>1, <2>2 DEF ReadHolds, history
  <1>11. ErrorBelongs'
    BY <1>5 DEF TabInv, ErrorBelongs, history
  <1>12. EditKept'
    BY <1>6 DEF TabInv, EditKept, history
  <1>13. DeleteReaches'
    BY <1>2, <1>3, <1>4, <1>7 DEF PipelineInv, TypeOK, TabInv, DeleteReaches, Going, history
  <1> QED
    BY <1>8, <1>9, <1>10, <1>11, <1>12, <1>13 DEF TabInv

\* The columns a run leaves alone.
LEMMA BegunRow ==
    ASSUME TypeOK, NEW t \in Tasks, Exists(t)
    PROVE  [row[t] EXCEPT !.status = "processing"].error = row[t].error
  <1>1. row[t] \in Rows
    BY DEF TypeOK, Exists
  <1> HIDE DEF Texts
  <1> QED
    BY <1>1 DEF Rows

LEMMA SavedRow ==
    ASSUME TypeOK, NEW t \in Tasks, Exists(t), NEW text \in Texts
    PROVE  /\ [row[t] EXCEPT !.status = "done", !.text = text] \in Rows
           /\ [row[t] EXCEPT !.status = "done", !.text = text].status = "done"
           /\ [row[t] EXCEPT !.status = "done", !.text = text].error = row[t].error
  <1>1. row[t] \in Rows
    BY DEF TypeOK, Exists
  <1> HIDE DEF Texts
  <1> QED
    BY <1>1 DEF Rows, Statuses

\* A run writes at most the row of its task, and makes and removes none.
LEMMA RunRows ==
    ASSUME TypeOK, NEW p \in Processes, NEW t \in Tasks, run[p] # NoRun, t = run[p].task,
           RunStep(p)
    PROVE  \A u \in Tasks : (Exists(u)' <=> Exists(u)) /\ (u # t => row'[u] = row[u])
  <1>1. run[p].id \in Runs
    BY DEF TypeOK
  <1>2. CASE Begin(p)
    <2> DEFINE new == [row[t] EXCEPT !.status = "processing"]
    <2>1. row' = Updated(t, new) /\ (Exists(t) => new \in Rows)
      BY <1>1, <1>2, WrittenRow DEF Begin, Statuses
    <2> HIDE DEF new
    <2> QED
      BY <2>1, UpdatedRow
  <1>3. CASE Save(p)
    <2>0. PICK text \in Texts : text = <<"run", run[p].id>>
      BY <1>1 DEF Texts
    <2> DEFINE new == [row[t] EXCEPT !.status = "done", !.text = text]
    <2>1. Exists(t) => new \in Rows
      BY SavedRow
    <2>2. row' = Updated(t, new)
      BY <1>3, <2>0 DEF Save
    <2> HIDE DEF new
    <2> QED
      BY <2>1, <2>2, UpdatedRow
  <1>4. CASE Fail(p)
    <2> DEFINE new == [row[t] EXCEPT !.status = "error", !.error = "failed"]
    <2>1. row' = Updated(t, new) /\ (Exists(t) => new \in Rows)
      BY <1>1, <1>4, WrittenRow DEF Fail, Statuses
    <2> HIDE DEF new
    <2> QED
      BY <2>1, UpdatedRow
  <1>5. CASE row' = row
    BY <1>5 DEF Exists
  <1> QED
    BY <1>2, <1>3, <1>4, <1>5 DEF RunStep, Check, Load, Prepare, Gate, Transcribe, Cleanup, Close

LEMMA LateRunStep ==
    ASSUME PipelineInv, TabInv, RunStep("server"), run["server"].task \in late
    PROVE  TabInv'
  <1>1. /\ run["server"] # NoRun /\ TypeOK /\ "server" \in Processes
        /\ UNCHANGED <<queue, call, up, history>>
    BY DEF PipelineInv, RunStep, Check, Load, Begin, Prepare, Gate, Transcribe, Save, Fail,
           Cleanup, Close, At, Processes, server
  <1>2. PICK t \in Tasks : t = run["server"].task /\ t \in late
    BY <1>1 DEF TypeOK
  <1>3. /\ run'["server"] # NoRun => run'["server"].task = t
        /\ run'["server"] # NoRun /\ run["server"].at \in {"cleanup", "closing"} =>
              run'["server"].at = "closing"
        /\ run'["cli"] = run["cli"]
    <2>1. ASSUME NEW stage \in Stages, Goto("server", stage)
          PROVE  run'["server"].task = t /\ run'["server"].at = stage /\ run'["cli"] = run["cli"]
      BY <1>1, <1>2, <2>1, GotoMoves DEF Processes
    <2>2. CASE Cleanup("server")
      BY <2>1, <2>2 DEF Cleanup, Stages
    <2>3. CASE Close("server")
      BY <1>1, <2>3 DEF Close, TypeOK, Processes
    <2>4. CASE ~Cleanup("server") /\ ~Close("server")
      <3>1. /\ \E stage \in Stages : Goto("server", stage)
            /\ run["server"].at \notin {"cleanup", "closing"}
        BY <2>4 DEF RunStep, Check, Load, Begin, Prepare, Gate, Transcribe, Save, Fail, At, Stages
      <3> QED
        BY <2>1, <3>1
    <2> QED
      BY <2>2, <2>3, <2>4
  <1>4. \A u \in Tasks : (Exists(u)' <=> Exists(u)) /\ (u # t => row'[u] = row[u])
    BY <1>1, <1>2, RunRows
  <1>5. \A u \in Tasks \ {t} :
           row'[u] = row[u] /\ future'[u] = future[u] /\ (u \in cancelled' <=> u \in cancelled)
    <2>1. \A u \in Tasks \ {t} : row'[u] = row[u]
      BY <1>4
    <2>2. future' = future \/ future' = [future EXCEPT ![t] = 0]
      BY <1>2 DEF RunStep, Check, Load, Begin, Prepare, Gate, Transcribe, Save, Fail, Cleanup,
         Close, server
    <2>3. cancelled' = cancelled \/ cancelled' = cancelled \ {t}
      BY <1>2 DEF RunStep, Check, Load, Begin, Prepare, Gate, Transcribe, Save, Fail, Cleanup,
         Close, server
    <2> QED
      BY <1>1, <2>1, <2>2, <2>3 DEF TypeOK
  <1>9. \A u \in Tasks \ {t} : /\ Busy("server", u)' <=> Busy("server", u)
                               /\ Clearing(u)' <=> Clearing(u)
                               /\ Going(u)' <=> Going(u)
    BY <1>1, <1>2, <1>3, <1>4 DEF Busy, Clearing, Going, Deleting
  <1>10. Active(t)' => t \in asked
    <2>1. Busy("server", t)' => Busy("server", t)
      BY <1>1, <1>2, <1>3 DEF Busy
    <2> QED
      BY <1>1, <2>1 DEF Active, TabInv, OneRunEach
  <1>11. OnlyServer' /\ FreshWaits' /\ CallsExist'
    BY <1>1, <1>3, <1>4 DEF TabInv, OnlyServer, FreshWaits, CallsExist, TypeOK, history
  <1> QED
    BY <1>1, <1>2, <1>5, <1>9, <1>10, <1>11, LateMoves DEF history, TabInv, EditKept

LEMMA TabRunSteps ==
    ASSUME PipelineInv, TabInv, NEW p \in Processes, RunStep(p)
    PROVE  TabInv'
  <1>1. run[p] # NoRun /\ run[p].task \in Tasks /\ run[p].id \in Runs /\ TypeOK
    BY DEF PipelineInv, TypeOK, RunStep, Check, Load, Begin, Prepare, Gate,
           Transcribe, Save, Fail, Cleanup, Close, At
  <1>2. p = "server"
    BY <1>1 DEF TabInv, OnlyServer, Processes
  <1>0. CASE run["server"].task \in late
    BY <1>0, <1>2, LateRunStep
  <1> SUFFICES ASSUME run["server"].task \notin late PROVE TabInv'
    BY <1>0
  <1>3. PICK t \in Tasks \ late : t = run["server"].task
    BY <1>1, <1>2
  <1>4. row \in [Tasks -> Rows \cup {NoRow}]
    BY <1>1 DEF TypeOK
  <1>5. \A stage : At("server", stage) /\ stage \notin {"cleanup", "closing"} => Busy("server", t)
    BY <1>3 DEF At, Busy
  <1>6. Busy("server", t) /\ Exists(t) => row[t].status \in {"pending", "processing"}
    BY <1>1 DEF TabInv, OneRunEach, TypeOK, Active, Exists, Rows, Statuses
  <1>7. CASE Check(p) \/ Load(p) \/ Gate(p) \/ Prepare(p) \/ Transcribe(p)
    <2>1. PICK stage \in Stages : Goto("server", stage)
      BY <1>2, <1>7 DEF Check, Load, Gate, Prepare, Transcribe, Stages
    <2>2. /\ Busy("server", t)
          /\ UNCHANGED <<row, queue, future, cancelled, call, up, history>>
      BY <1>2, <1>5, <1>7 DEF Check, Load, Gate, Prepare, Transcribe, server
    <2> QED
      BY <1>4, <1>6, <2>1, <2>2, TabRunMoves DEF Exists
  <1>8. CASE Begin(p) \/ Save(p) \/ Fail(p)
    <2>1. PICK new, stage :
             /\ Goto("server", stage) /\ stage \in Stages
             /\ row' = Updated(t, new)
             /\ Exists(t) =>
                   /\ new \in Rows
                   /\ \/ new.status = "processing" /\ new.error = row[t].error
                      \/ new.status = "done" /\ new.error = row[t].error /\ stage = "cleanup"
                      \/ new.status = "error" /\ stage = "cleanup"
      <3>1. CASE Begin(p)
        <4> DEFINE new == [row[t] EXCEPT !.status = "processing"]
        <4>1. Exists(t) => new \in Rows /\ new.status = "processing" /\ new.error = row[t].error
          BY <1>1, WrittenRow, BegunRow DEF Statuses
        <4>2. Goto("server", "prepare") /\ row' = Updated(t, new)
          BY <1>2, <1>3, <3>1 DEF Begin
        <4> HIDE DEF new
        <4> QED
          BY <4>1, <4>2 DEF Stages
      <3>2. CASE Save(p)
        <4>0. PICK text \in Texts : text = <<"run", run[p].id>>
          BY <1>1 DEF Texts
        <4> DEFINE new == [row[t] EXCEPT !.status = "done", !.text = text]
        <4>1. Exists(t) => new \in Rows /\ new.status = "done" /\ new.error = row[t].error
          BY <1>1, SavedRow
        <4>2. Goto("server", "cleanup") /\ row' = Updated(t, new)
          BY <1>2, <1>3, <3>2, <4>0 DEF Save
        <4> HIDE DEF new
        <4> QED
          BY <4>1, <4>2 DEF Stages
      <3>3. CASE Fail(p)
        <4> DEFINE new == [row[t] EXCEPT !.status = "error", !.error = "failed"]
        <4>1. Exists(t) => new \in Rows /\ new.status = "error"
          BY <1>1, WrittenRow DEF Statuses
        <4>2. Goto("server", "cleanup") /\ row' = Updated(t, new)
          BY <1>2, <1>3, <3>3 DEF Fail
        <4> HIDE DEF new
        <4> QED
          BY <4>1, <4>2 DEF Stages
      <3> QED
        BY <1>8, <3>1, <3>2, <3>3
    <2>2. /\ row' \in [Tasks -> Rows \cup {NoRow}]
          /\ \A u \in Tasks : Exists(u)' <=> Exists(u)
          /\ Exists(t) => row'[t] = new
          /\ \A u \in Tasks \ {t} : row'[u] = row[u]
      BY <1>1, <2>1, UpdatedRow
    <2>3. /\ Busy("server", t)
          /\ UNCHANGED <<queue, future, cancelled, call, up, history>>
      BY <1>2, <1>5, <1>8 DEF Begin, Save, Fail, server
    <2> QED
      BY <2>1, <2>2, <2>3, TabRunMoves
  <1>9. CASE Cleanup(p)
    <2>1. /\ cancelled' = cancelled \ {t} /\ Goto("server", "closing")
          /\ UNCHANGED <<row, queue, future, call, up, history>>
          /\ Clearing(t) /\ \A u \in Tasks : Clearing(u) => u = t
      BY <1>2, <1>3, <1>9 DEF Cleanup, At, Clearing
    <2>2. /\ run["server"] # NoRun /\ run["server"].at = "cleanup"
          /\ run'["server"] # NoRun /\ run'["server"].at = "closing"
          /\ run'["cli"] = run["cli"]
      BY <1>1, <1>2, <2>1, GotoMoves DEF Processes, Stages, Clearing
    <2>3. \A u : ~Busy("server", u) /\ ~Busy("server", u)' /\ ~Clearing(u)'
      BY <2>2 DEF Busy, Clearing
    <2>4. \A u : Active(u)' <=> Active(u)
      BY <2>1, <2>3 DEF Active
    <2>5. \A u : Going(u)' <=> Going(u)
      BY <2>1 DEF Going, Deleting, Exists
    <2>6. Active(t) => ~Going(t)
      BY <2>1, <2>3 DEF Active, TabInv, DeleteReaches
    <2>7. OnlyServer' /\ FreshWaits' /\ CallsExist' /\ OneRunEach'
      BY <2>1, <2>2, <2>3, <2>4 DEF TabInv, OnlyServer, FreshWaits, CallsExist, OneRunEach,
         Exists, history
    <2>8. ReadHolds' /\ ErrorBelongs' /\ EditKept'
      <3>1. ReadHolds'
        BY <2>1, <2>4 DEF TabInv, ReadHolds, Exists, history
      <3>2. ErrorBelongs'
        BY <2>1, <2>4 DEF TabInv, ErrorBelongs, Exists, history
      <3>3. EditKept'
        BY <2>1, <2>4 DEF TabInv, EditKept, Exists, history
      <3> QED
        BY <3>1, <3>2, <3>3
    <2>9. DeleteReaches'
      BY <2>1, <2>3, <2>4, <2>5, <2>6 DEF TabInv, DeleteReaches, history
    <2> QED
      BY <2>7, <2>8, <2>9 DEF TabInv
  <1>10. CASE Close(p)
    <2>1. /\ run' = [run EXCEPT !["server"] = NoRun] /\ run["server"].at = "closing"
          /\ UNCHANGED <<row, queue, cancelled, call, up, history>>
      BY <1>2, <1>10 DEF Close, At
    <2>2. run'["server"] = NoRun /\ run'["cli"] = run["cli"]
      BY <1>1, <2>1 DEF TypeOK, Processes
    <2>3. \A u : ~Busy("server", u) /\ ~Busy("server", u)' /\ ~Clearing(u)'
      BY <2>1, <2>2 DEF Busy, Clearing
    <2>4. \A u : Active(u)' <=> Active(u)
      BY <2>1, <2>3 DEF Active
    <2>5. \A u : Going(u)' <=> Going(u)
      BY <2>1 DEF Going, Deleting, Exists
    <2>6. OnlyServer' /\ FreshWaits' /\ CallsExist' /\ OneRunEach'
      BY <2>1, <2>2, <2>3, <2>4 DEF TabInv, OnlyServer, FreshWaits, CallsExist, OneRunEach,
         Exists, history
    <2>7. ReadHolds' /\ ErrorBelongs' /\ EditKept'
      <3>1. ReadHolds'
        BY <2>1, <2>4 DEF TabInv, ReadHolds, Exists, history
      <3>2. ErrorBelongs'
        BY <2>1, <2>4 DEF TabInv, ErrorBelongs, Exists, history
      <3>3. EditKept'
        BY <2>1, <2>4 DEF TabInv, EditKept, Exists, history
      <3> QED
        BY <3>1, <3>2, <3>3
    <2>8. DeleteReaches'
      BY <2>1, <2>3, <2>4, <2>5 DEF TabInv, DeleteReaches, history
    <2> QED
      BY <2>6, <2>7, <2>8 DEF TabInv
  <1> QED
    BY <1>7, <1>8, <1>9, <1>10 DEF RunStep

LEMMA TabPick ==
    ASSUME PipelineInv, TabInv, Pick
    PROVE  TabInv'
  <1>1. PICK q \in queue :
           /\ run' = [run EXCEPT !["server"] = [id |-> q.id, task |-> q.task, at |-> "check"]]
           /\ queue' = queue \ {q}
    BY DEF Pick
  <1>2. /\ q.task \in Tasks /\ up /\ run["server"] = NoRun
        /\ UNCHANGED <<row, future, cancelled, call, up, history>>
    BY DEF Pick, PipelineInv, TypeOK
  <1>3. PICK t \in Tasks : t = q.task
    BY <1>2
  <1> DEFINE new == [id |-> q.id, task |-> t, at |-> "check"]
  <1>4. run'["server"] = new /\ run'["cli"] = run["cli"]
    BY <1>1, <1>3 DEF PipelineInv, TypeOK, Processes
  <1>5. new # NoRun /\ new.task = t /\ new.at = "check"
    BY <1>1, <1>2, <1>3 DEF PipelineInv, TypeOK, Stages
  <1> HIDE DEF new
  <1>6. \A u : ~Busy("server", u) /\ ~Clearing(u)' /\ (Busy("server", u)' <=> u = t)
    BY <1>2, <1>4, <1>5 DEF Busy, Clearing
  <1>7. \A u : Active(u)' <=> Active(u)
    BY <1>1, <1>3, <1>6 DEF Active
  <1>8. \A u : Going(u)' <=> Going(u)
    BY <1>2 DEF Going, Deleting, Exists
  <1>9. OnlyServer' /\ FreshWaits' /\ CallsExist'
    BY <1>2, <1>4 DEF TabInv, OnlyServer, FreshWaits, CallsExist, Exists, history
  <1>10. OneRunEach'
    BY <1>1, <1>2, <1>3, <1>6, <1>7 DEF TabInv, OneRunEach, Exists, history
  <1>11. ReadHolds' /\ ErrorBelongs' /\ EditKept'
    <2>1. ReadHolds'
      BY <1>2, <1>7 DEF TabInv, ReadHolds, Exists, history
    <2>2. ErrorBelongs'
      BY <1>2, <1>7 DEF TabInv, ErrorBelongs, Exists, history
    <2>3. EditKept'
      BY <1>2, <1>7 DEF TabInv, EditKept, Exists, history
    <2> QED
      BY <2>1, <2>2, <2>3
  <1>12. DeleteReaches'
    BY <1>2, <1>6, <1>7, <1>8 DEF TabInv, DeleteReaches, history
  <1> QED
    BY <1>9, <1>10, <1>11, <1>12 DEF TabInv

\* A submission that comes late, or for a task that was started late.
LEMMA LateSubmit ==
    ASSUME OneTab, PipelineInv, TabInv, NEW c \in Clients, NEW t \in Tasks,
           t = call[c].task, call[c] # NoCall,
           t \in late', late' \in {late, late \cup {t}},
           Submit(t), Answer(c),
           kept' = kept \/ kept' = [kept EXCEPT ![t] = NoText],
           UNCHANGED <<row, cancelled, run, up, fresh, created>>, up
    PROVE  TabInv'
  <1>1. /\ \A q \in queue' : q \in queue \/ q.task = t
        /\ \A u \in Tasks \ {t} : future'[u] = future[u]
        /\ asked' = asked \cup {t}
    BY SubmitAdds
  <1>2. \A d \in Clients : call'[d] = NoCall /\ d = c
    BY AnswerMoves DEF OneTab, PipelineInv
  <1>3. \A u \in Tasks \ {t} : /\ Busy("server", u)' <=> Busy("server", u)
                               /\ Clearing(u)' <=> Clearing(u)
                               /\ Going(u)' <=> Going(u)
    BY <1>2 DEF Busy, Clearing, Going, Deleting, Exists
  <1>4. /\ \A u \in Tasks \ {t} : kept'[u] = kept[u]
        /\ kept'[t] # NoText => t \in created
    BY DEF PipelineInv, TypeOK, TabInv, EditKept
  <1>5. OnlyServer' /\ FreshWaits' /\ CallsExist'
    BY <1>2 DEF TabInv, OnlyServer, FreshWaits, CallsExist
  <1> QED
    BY <1>1, <1>2, <1>3, <1>4, <1>5, LateMoves

LEMMA TabSubmit ==
    ASSUME OneTab, PipelineInv, TabInv, NEW c \in Clients, NEW t \in Tasks,
           t = call[c].task, call[c] # NoCall, up, Exists(t), t \notin late,
           row[t].status = "pending", ~Active(t),
           Submit(t), Answer(c),
           kept' = kept \/ kept' = [kept EXCEPT ![t] = NoText],
           UNCHANGED <<row, cancelled, run, up, fresh, created, late>>
    PROVE  TabInv'
  <1>1. PICK new \in queue' : new.task = t /\ new.id = future'[t] /\ queue' = queue \cup {new}
    BY SubmitAdds
  <1>2. /\ \A u \in Tasks \ {t} : future'[u] = future[u]
        /\ asked' = asked \cup {t}
    BY SubmitAdds
  <1>3. \A d \in Clients : call'[d] = NoCall
    BY AnswerMoves DEF OneTab, PipelineInv
  <1>4. /\ \A u : (Busy("server", u)' <=> Busy("server", u)) /\ (Clearing(u)' <=> Clearing(u))
        /\ \A u : Active(u)' <=> Active(u) \/ u = t
    BY <1>1 DEF Active, Busy, Clearing
  <1>5. \A u \in Tasks : Going(u)' => ~Exists(u)
    BY <1>3 DEF Going, Deleting, Exists
  <1>6. \A q \in queue : q.task # t /\ q.task \in Tasks
    BY DEF Active, PipelineInv, TypeOK
  <1>7. ~Busy("server", t) /\ kept[t] = NoText
    BY DEF Active, TabInv, EditKept
  <1>8. OnlyServer' /\ FreshWaits' /\ CallsExist'
    BY <1>3 DEF TabInv, OnlyServer, FreshWaits, CallsExist, OneTab
  <1>9. OneRunEach'
    BY <1>1, <1>2, <1>4, <1>6, <1>7 DEF TabInv, OneRunEach, Exists
  <1>10. ReadHolds'
    BY <1>3 DEF ReadHolds
  <1>11. ErrorBelongs' /\ EditKept'
    <2>1. ErrorBelongs'
      BY <1>7 DEF TabInv, ErrorBelongs, Exists, PipelineInv, TypeOK
    <2>2. EditKept'
      BY <1>7 DEF TabInv, EditKept, Exists, PipelineInv, TypeOK
    <2> QED
      BY <2>1, <2>2
  <1>12. DeleteReaches'
    <2>1. \A q \in queue' : q.task \notin late /\ Clearing(q.task)' =>
             future'[q.task] = q.id /\ ~Going(q.task)'
      BY <1>1, <1>2, <1>4, <1>5, <1>6 DEF TabInv, DeleteReaches, Going
    <2>2. \A u \in Tasks \ late : Active(u)' /\ Going(u)' => u \in cancelled'
      BY <1>4, <1>5 DEF TabInv, DeleteReaches, Going
    <2> QED
      BY <2>1, <2>2 DEF DeleteReaches
  <1> QED
    BY <1>8, <1>9, <1>10, <1>11, <1>12 DEF TabInv

LEMMA TabUntouched ==
    ASSUME TabInv, FreshWaits',
           UNCHANGED <<row, queue, run, future, cancelled, call, up, asked, created, kept, late>>
    PROVE  TabInv'
  <1>1. \A u : /\ Active(u)' <=> Active(u)
               /\ Busy("server", u)' <=> Busy("server", u)
               /\ Clearing(u)' <=> Clearing(u)
               /\ Going(u)' <=> Going(u)
    BY DEF Active, Busy, Clearing, Going, Deleting, Exists
  <1>2. OnlyServer' /\ CallsExist' /\ OneRunEach' /\ ReadHolds'
    BY <1>1 DEF TabInv, OnlyServer, CallsExist, OneRunEach, ReadHolds, Exists
  <1>3. ErrorBelongs' /\ EditKept' /\ DeleteReaches'
    BY <1>1 DEF TabInv, ErrorBelongs, EditKept, DeleteReaches, Exists
  <1> QED
    BY <1>2, <1>3 DEF TabInv

\* A request that comes with what its page shows, or ends without a change.
LEMMA TabAnswer ==
    ASSUME OneTab, PipelineInv, TabInv, NEW c \in Clients, up,
           call[c] = NoCall \/ call[c].at = "body",
           \A d \in Clients \ {c} : call'[d] = call[d],
           call'[c] # NoCall =>
              LET t == call'[c].task IN
              /\ call'[c].at = "body" /\ t \in Tasks /\ Exists(t)
              /\ call'[c].op = "start" => t \notin asked
              /\ call'[c].op = "retry" => row[t].status \in {"done", "error"}
              /\ call'[c].seen = row[t].status,
           FreshWaits',
           UNCHANGED <<row, queue, run, future, cancelled, up>>,
           UNCHANGED <<asked, created, kept, late>>
    PROVE  TabInv'
  <1>1. \A u : /\ Busy("server", u)' <=> Busy("server", u)
               /\ Clearing(u)' <=> Clearing(u)
               /\ Active(u)' <=> Active(u)
    BY DEF Active, Busy, Clearing
  <1>2. \A u : ~Deleting(u) /\ ~Deleting(u)'
    BY DEF OneTab, Deleting
  <1>3. \A u : Going(u)' <=> Going(u)
    BY <1>2 DEF Going, Exists
  <1>4. OnlyServer' /\ OneRunEach' /\ ErrorBelongs' /\ EditKept'
    BY <1>1 DEF TabInv, OnlyServer, OneRunEach, ErrorBelongs, EditKept, Exists
  <1>5. ReadHolds' /\ CallsExist'
    BY <1>1 DEF OneTab, ReadHolds, CallsExist, Exists
  <1>6. DeleteReaches'
    BY <1>1, <1>3 DEF TabInv, DeleteReaches
  <1> QED
    BY <1>4, <1>5, <1>6 DEF TabInv

\* A handler writes the row of its task, which is settled.
LEMMA TabRowWritten ==
    ASSUME OneTab, PipelineInv, TabInv, NEW c \in Clients, NEW t \in Tasks,
           call[c] # NoCall, t = call[c].task, call[c].at = "body", up,
           Exists(t), t \notin late, row[t].status \in {"done", "error"},
           NEW new \in Rows, row' = Updated(t, new),
           \/ Continue(c, "submit") /\ new.status = "pending" /\ new.error = ""
              /\ kept' = [kept EXCEPT ![t] = NoText]
           \/ Answer(c) /\ row[t].status = "done" /\ new.status = "done"
              /\ new.error = row[t].error /\ kept' = [kept EXCEPT ![t] = new.text],
           UNCHANGED <<queue, future, cancelled, run, up, fresh, created, asked, late>>
    PROVE  TabInv'
  <1>1. /\ \A u \in Tasks : Exists(u)' <=> Exists(u)
        /\ row'[t] = new
        /\ \A u \in Tasks \ {t} : row'[u] = row[u]
    <2>1. TypeOK
      BY DEF PipelineInv
    <2> QED
      BY <2>1, UpdatedRow, ZenonT(30)
  <1>2. /\ call'[c] # NoCall => call'[c].task = t /\ call'[c].at = "submit" /\ new.status = "pending"
        /\ \A d \in Clients : d = c
    BY AnswerMoves, ContinueMoves DEF PipelineInv, OneTab, Spots
  <1>3. \A u : /\ Busy("server", u)' <=> Busy("server", u)
               /\ Clearing(u)' <=> Clearing(u)
               /\ Active(u)' <=> Active(u)
    BY DEF Active, Busy, Clearing
  <1>4. \A u \in Tasks : ~Deleting(u) /\ ~Deleting(u)'
    BY <1>2 DEF Deleting
  <1>5. \A u \in Tasks : Going(u)' <=> Going(u)
    BY <1>1, <1>4 DEF Going
  <1>6. ~Active(t) /\ t \in created
    BY DEF TabInv, OneRunEach, PipelineInv, OnlyCreated
  <1>7. /\ kept'[t] # NoText => kept'[t] = new.text /\ new.status = "done"
        /\ \A u \in Tasks \ {t} : kept'[u] = kept[u]
    <2>1. kept \in [Tasks -> Texts]
      BY DEF PipelineInv, TypeOK
    <2>2. CASE kept' = [kept EXCEPT ![t] = NoText]
      <3>1. kept'[t] = NoText
        BY <2>1, <2>2
      <3>2. \A u \in Tasks \ {t} : kept'[u] = kept[u]
        BY <2>1, <2>2
      <3> QED
        BY <3>1, <3>2
    <2>3. CASE kept' = [kept EXCEPT ![t] = new.text] /\ new.status = "done"
      BY <2>1, <2>3
    <2> QED
      BY <2>2, <2>3
  <1>8. new.status # "error" => new.error = ""
    BY DEF TabInv, ErrorBelongs
  <1>9. OnlyServer' /\ FreshWaits' /\ CallsExist'
    BY <1>1, <1>2 DEF TabInv, OnlyServer, FreshWaits, CallsExist
  <1>10. OneRunEach'
    BY <1>1, <1>3, <1>6 DEF TabInv, OneRunEach
  <1>11. ReadHolds'
    <2>1. \A d \in Clients : call'[d] # NoCall =>
             call'[d].task = t /\ call'[d].at = "submit" /\ new.status = "pending"
      BY <1>2
    <2>2. Exists(t)' /\ row'[t] = new /\ ~Active(t)'
      BY <1>1, <1>3, <1>6
    <2> QED
      BY <2>1, <2>2 DEF ReadHolds
  <1>12. ErrorBelongs'
    <2> SUFFICES ASSUME NEW u \in Tasks \ late, Exists(u)', row'[u].status # "error"
                 PROVE  row'[u].error = ""
      BY DEF ErrorBelongs
    <2>1. CASE u = t
      BY <1>1, <1>8, <2>1
    <2>2. CASE u # t
      <3>1. row'[u] = row[u] /\ Exists(u)
        BY <1>1, <2>2
      <3>2. ErrorBelongs
        BY DEF TabInv
      <3> QED
        BY <3>1, <3>2 DEF ErrorBelongs
    <2> QED
      BY <2>1, <2>2
  <1>13. EditKept'
    <2> SUFFICES ASSUME NEW u \in Tasks, kept'[u] # NoText
                 PROVE  /\ u \in created
                        /\ u \notin late /\ Exists(u)' => row'[u].text = kept'[u] /\ row'[u].status = "done"
      BY DEF EditKept
    <2>1. CASE u = t
      BY <1>1, <1>6, <1>7, <2>1
    <2>2. CASE u # t
      <3>1. row'[u] = row[u] /\ (Exists(u)' <=> Exists(u)) /\ kept'[u] = kept[u]
        BY <1>1, <1>7, <2>2
      <3> QED
        BY <3>1 DEF TabInv, EditKept
    <2> QED
      BY <2>1, <2>2
  <1>14. DeleteReaches'
    BY <1>3, <1>5 DEF TabInv, DeleteReaches, PipelineInv, TypeOK
  <1> QED
    BY <1>9, <1>10, <1>11, <1>12, <1>13, <1>14 DEF TabInv

LEMMA LateRowWritten ==
    ASSUME OneTab, PipelineInv, TabInv, NEW c \in Clients, NEW t \in late,
           call[c] # NoCall, t = call[c].task, call[c].at = "body", up,
           NEW new \in Rows, row' = Updated(t, new),
           Continue(c, "submit") \/ Answer(c),
           \E text : kept' = [kept EXCEPT ![t] = text],
           UNCHANGED <<queue, future, cancelled, run, up, fresh, created, asked, late>>
    PROVE  TabInv'
  <1>1. t \in Tasks /\ t \in created /\ TypeOK /\ Exists(t)
    BY DEF PipelineInv, TypeOK, OnlyCreated, TabInv, CallsExist
  <1>2. /\ \A u \in Tasks : Exists(u)' <=> Exists(u)
        /\ \A u \in Tasks \ {t} : row'[u] = row[u]
    BY <1>1, UpdatedRow, ZenonT(30)
  <1>3. /\ call'[c] # NoCall => call'[c].task = t /\ call'[c].at = "submit"
        /\ \A d \in Clients : d = c
    BY <1>1, AnswerMoves, ContinueMoves DEF OneTab, Spots
  <1>4. \A u \in Tasks \ {t} : /\ Busy("server", u)' <=> Busy("server", u)
                               /\ Clearing(u)' <=> Clearing(u)
                               /\ Going(u)' <=> Going(u)
    BY <1>2, <1>3 DEF Busy, Clearing, Going, Deleting
  <1>5. \A u \in Tasks \ {t} : kept'[u] = kept[u]
    BY <1>1 DEF TypeOK
  <1>6. Active(t)' => t \in asked
    BY <1>1 DEF Active, Busy, TabInv, OneRunEach
  <1>7. OnlyServer' /\ FreshWaits' /\ CallsExist'
    BY <1>1, <1>2, <1>3 DEF TabInv, OnlyServer, FreshWaits, CallsExist
  <1> QED
    BY <1>1, <1>2, <1>3, <1>4, <1>5, <1>6, <1>7, LateMoves

LEMMA TabDeleteSteps ==
    ASSUME OneTab, PipelineInv, TabInv, NEW c \in Clients,
           DeleteTask(c) \/ DeleteFile(c) \/ DeleteRow(c)
    PROVE  TabInv'
  <1>1. call[c] # NoCall /\ TypeOK /\ call[c].task \in Tasks /\ up
    BY CallIsTyped DEF PipelineInv, DeleteTask, DeleteFile, DeleteRow, Serving, InHandler,
       LoopIsFree
  <1>2. PICK t \in Tasks : t = call[c].task
    BY <1>1
  <1>3. \A d \in Clients : d = c
    BY DEF OneTab
  <1>4. Exists(t)
    BY <1>1, <1>2 DEF TabInv, CallsExist
  <1>5. CASE DeleteTask(c)
    <2>1. /\ CancelPipeline(t) /\ Continue(c, "unlink")
          /\ UNCHANGED <<row, run, up, history>> /\ call[c].at = "body"
      BY <1>1, <1>2, <1>5 DEF DeleteTask, Serving, LoopIsFree, Midway
    <2>2. call'[c] # NoCall /\ call'[c].task = t /\ call'[c].at = "unlink"
      BY <1>1, <1>2, <2>1, ContinueMoves DEF Spots
    <2>3. /\ cancelled' = cancelled \cup {t}
          /\ queue' \subseteq queue
          /\ \A q \in queue : q.task # t => q \in queue'
          /\ \A q \in queue : q.id = future[t] => q \notin queue'
          /\ \A u \in Tasks \ {t} : future'[u] = future[u]
      BY <2>1, CancelWithdraws
    <2>4. \A u : /\ Busy("server", u)' <=> Busy("server", u)
                 /\ Clearing(u)' <=> Clearing(u)
                 /\ Active(u)' => Active(u)
      BY <2>1, <2>3 DEF Active, Busy, Clearing
    <2>5. \A u \in Tasks \ {t} : Going(u)' <=> Going(u)
      BY <1>2, <1>3, <2>1, <2>2 DEF Going, Deleting, Exists
    <2>6. \A q \in queue : q.task \in Tasks
      BY <1>1 DEF TypeOK
    <2>7. OnlyServer' /\ FreshWaits' /\ CallsExist'
      BY <1>1, <1>3, <1>4, <2>1, <2>2 DEF TabInv, OnlyServer, FreshWaits, CallsExist, Exists,
         history
    <2>8. OneRunEach'
      BY <2>1, <2>3, <2>4 DEF TabInv, OneRunEach, Exists, history
    <2>9. ReadHolds'
      BY <1>3, <1>4, <2>1, <2>2 DEF ReadHolds, Exists
    <2>10. ErrorBelongs' /\ EditKept'
      <3>1. ErrorBelongs'
        BY <2>1 DEF TabInv, ErrorBelongs, Exists, history
      <3>2. EditKept'
        BY <2>1 DEF TabInv, EditKept, Exists, history
      <3> QED
        BY <3>1, <3>2
    <2>11. DeleteReaches'
      <3>1. ASSUME NEW q \in queue', q.task \notin late, Clearing(q.task)'
            PROVE  future'[q.task] = q.id /\ ~Going(q.task)'
        <4>1. q \in queue /\ future[q.task] = q.id /\ ~Going(q.task)
          BY <2>3, <2>4, <3>1 DEF TabInv, DeleteReaches
        <4>2. q.task \in Tasks \ {t}
          BY <2>3, <2>6, <4>1
        <4> QED
          BY <2>3, <2>5, <4>1, <4>2
      <3>2. ASSUME NEW u \in Tasks \ late, Active(u)', Going(u)'
            PROVE  u \in cancelled'
        BY <2>3, <2>4, <2>5, <3>2 DEF TabInv, DeleteReaches
      <3> QED
        BY <2>1, <3>1, <3>2 DEF DeleteReaches, history
    <2> QED
      BY <2>7, <2>8, <2>9, <2>10, <2>11 DEF TabInv
  <1>6. CASE DeleteFile(c)
    <2>1. /\ call[c].at = "unlink" /\ Continue(c, "drop")
          /\ UNCHANGED <<row, queue, future, cancelled, run, up, history>>
      BY <1>1, <1>6 DEF DeleteFile, InHandler, server
    <2>2. call'[c] # NoCall /\ call'[c].task = t /\ call'[c].at = "drop"
      BY <1>1, <1>2, <2>1, ContinueMoves DEF Spots
    <2>3. \A u : /\ Busy("server", u)' <=> Busy("server", u)
                 /\ Clearing(u)' <=> Clearing(u)
                 /\ Active(u)' <=> Active(u)
      BY <2>1 DEF Active, Busy, Clearing
    <2>4. \A u : Going(u)' <=> Going(u)
      BY <1>1, <1>2, <1>3, <2>1, <2>2 DEF Going, Deleting, Exists
    <2>5. OnlyServer' /\ OneRunEach' /\ ErrorBelongs' /\ EditKept'
      BY <1>1, <2>1, <2>3 DEF TabInv, OnlyServer, OneRunEach, ErrorBelongs, EditKept, Exists,
         history
    <2>6. ReadHolds' /\ FreshWaits' /\ CallsExist'
      BY <1>1, <1>3, <1>4, <2>1, <2>2 DEF TabInv, ReadHolds, FreshWaits, CallsExist, Exists, history
    <2>7. DeleteReaches'
      BY <2>1, <2>3, <2>4 DEF TabInv, DeleteReaches, history
    <2> QED
      BY <2>5, <2>6, <2>7 DEF TabInv
  <1>7. CASE DeleteRow(c)
    <2>1. /\ row' = [row EXCEPT ![t] = NoRow] /\ kept' = [kept EXCEPT ![t] = NoText]
          /\ Answer(c) /\ call[c].at = "drop"
          /\ UNCHANGED <<queue, future, cancelled, run, up, fresh, created, asked, late>>
      BY <1>1, <1>2, <1>7 DEF DeleteRow, InHandler, server
    <2>2. \A d \in Clients : call'[d] = NoCall
      BY <1>1, <1>3, <2>1, AnswerMoves
    <2>3. /\ row'[t] = NoRow /\ kept'[t] = NoText
          /\ \A u \in Tasks \ {t} : row'[u] = row[u] /\ kept'[u] = kept[u]
      BY <1>1, <2>1 DEF TypeOK
    <2>4. \A u : /\ Busy("server", u)' <=> Busy("server", u)
                 /\ Clearing(u)' <=> Clearing(u)
                 /\ Active(u)' <=> Active(u)
      BY <2>1 DEF Active, Busy, Clearing
    <2>5. Going(t) /\ \A u \in Tasks : Going(u)' => Going(u)
      BY <1>1, <1>2, <2>1, <2>2, <2>3 DEF Going, Deleting, Exists
    <2>6. \A q \in queue : q.task \in Tasks
      BY <1>1 DEF TypeOK
    <2>7. OnlyServer' /\ FreshWaits' /\ CallsExist' /\ ReadHolds'
      BY <1>1, <2>1, <2>2 DEF TabInv, OnlyServer, FreshWaits, CallsExist, ReadHolds
    <2>8. OneRunEach'
      BY <2>1, <2>3, <2>4 DEF TabInv, OneRunEach, Exists
    <2>9. ErrorBelongs' /\ EditKept'
      <3>1. ErrorBelongs'
        BY <2>1, <2>3 DEF TabInv, ErrorBelongs, Exists
      <3>2. EditKept'
        BY <2>1, <2>3 DEF TabInv, EditKept, Exists
      <3> QED
        BY <3>1, <3>2
    <2>10. DeleteReaches'
      BY <2>1, <2>4, <2>5, <2>6 DEF TabInv, DeleteReaches
    <2> QED
      BY <2>7, <2>8, <2>9, <2>10 DEF TabInv
  <1> QED
    BY <1>5, <1>6, <1>7

LEMMA TabHandlerSteps ==
    ASSUME OneTab, PipelineInv, TabInv, NEW c \in Clients, HandlerStep(c)
    PROVE  TabInv'
  <1>1. call[c] # NoCall /\ TypeOK /\ call[c].task \in Tasks /\ up
    BY CallIsTyped DEF PipelineInv, HandlerStep, StartTranscribe, RetryTranscribe,
         RetrySubmit, UpdateTranscript, DeleteTask, DeleteFile, DeleteRow, Serving,
         InHandler, LoopIsFree
  <1>2. PICK t \in Tasks : t = call[c].task
    BY <1>1
  <1>3. LoopIsFree => call[c].at = "body"
    BY <1>1 DEF LoopIsFree, Midway
  <1>4. Exists(t)
    BY <1>1, <1>2 DEF TabInv, CallsExist
  <1>5. ASSUME call[c].at = "body", Answer(c),
               UNCHANGED <<row, queue, run, future, cancelled, up, fresh>>,
               UNCHANGED <<asked, created, kept, late>>
        PROVE  TabInv'
    <2>1. call'[c] = NoCall /\ \A d \in Clients \ {c} : call'[d] = call[d]
      BY <1>1, <1>5, AnswerMoves
    <2>2. FreshWaits'
      BY <1>1, <1>5, <2>1 DEF TabInv, FreshWaits
    <2> QED
      BY <1>1, <1>5, <2>1, <2>2, TabAnswer
  <1>6. CASE StartTranscribe(c)
    <2>1. call[c].at = "body" /\ call[c].op = "start" /\ Answer(c)
      BY <1>3, <1>6 DEF StartTranscribe, Serving
    <2>2. CASE call[c].seen = "processing"
      BY <1>5, <1>6, <2>1, <2>2 DEF StartTranscribe, server
    <2>3. CASE call[c].seen # "processing"
      <3>1. /\ Submit(t) /\ kept' = [kept EXCEPT ![t] = NoText]
            /\ late' = IF call[c].seen = "pending" THEN late ELSE late \cup {t}
            /\ UNCHANGED <<row, cancelled, run, up, fresh, created>>
        BY <1>2, <1>6, <2>3 DEF StartTranscribe
      <3>2. CASE t \in late'
        BY <1>1, <1>2, <2>1, <3>1, <3>2, LateSubmit
      <3>3. CASE t \notin late'
        <4>1. call[c].seen = "pending" /\ late' = late /\ t \notin late
          BY <3>1, <3>3
        <4>2. row[t].status = "pending" /\ ~Active(t)
          BY <1>1, <1>2, <2>1, <4>1 DEF TabInv, ReadHolds, OneRunEach
        <4> QED
          BY <1>1, <1>2, <1>4, <2>1, <3>1, <4>1, <4>2, TabSubmit
      <3> QED
        BY <3>2, <3>3
    <2> QED
      BY <2>2, <2>3
  <1>7. CASE RetrySubmit(c)
    <2>1. /\ call[c].at = "submit" /\ Answer(c) /\ Submit(t)
          /\ UNCHANGED <<row, cancelled, run, up, fresh, created, kept, late>>
      BY <1>2, <1>7 DEF RetrySubmit, InHandler
    <2>2. CASE t \in late
      BY <1>1, <1>2, <2>1, <2>2, LateSubmit
    <2>3. CASE t \notin late
      <3>1. row[t].status = "pending" /\ ~Active(t)
        BY <1>1, <1>2, <2>1, <2>3 DEF TabInv, ReadHolds
      <3> QED
        BY <1>1, <1>2, <1>4, <2>1, <2>3, <3>1, TabSubmit
    <2> QED
      BY <2>2, <2>3
  <1>8. CASE RetryTranscribe(c)
    <2>1. call[c].at = "body" /\ call[c].op = "retry"
      BY <1>3, <1>8 DEF RetryTranscribe, Serving
    <2>2. t \notin late => row[t].status \in {"done", "error"}
      BY <1>1, <1>2, <2>1 DEF TabInv, ReadHolds
    <2>3. CASE t \notin file \/ call[c].seen = "processing"
      BY <1>2, <1>5, <1>8, <2>1, <2>3 DEF RetryTranscribe, server
    <2>4. CASE t \in file /\ call[c].seen # "processing"
      <3> DEFINE new == Reset(row[t])
      <3>1. /\ Continue(c, "submit") /\ row' = Updated(t, new)
            /\ kept' = [kept EXCEPT ![t] = NoText]
            /\ UNCHANGED <<queue, future, cancelled, run, up, fresh, created, asked, late>>
        BY <1>2, <1>8, <2>4 DEF RetryTranscribe, server
      <3>2. new \in Rows /\ new.status = "pending" /\ new.error = ""
        BY <1>1, <1>4, ResetRow
      <3> HIDE DEF new
      <3> QED
        BY <1>1, <1>2, <1>4, <2>1, <2>2, <3>1, <3>2, TabRowWritten, LateRowWritten
    <2> QED
      BY <2>3, <2>4
  <1>9. CASE UpdateTranscript(c)
    <2>1. call[c].at = "body"
      BY <1>3, <1>9 DEF UpdateTranscript, Serving
    <2>2. CASE ~MayEdit(call[c].seen)
      BY <1>5, <1>9, <2>1, <2>2 DEF UpdateTranscript, server
    <2>3. CASE MayEdit(call[c].seen)
      <3> DEFINE new == [row[t] EXCEPT !.text = <<"edit", edits + 1>>]
      <3>1. /\ edits < MaxEdits /\ Answer(c) /\ row' = Updated(t, new)
            /\ kept' = [kept EXCEPT ![t] = <<"edit", edits + 1>>]
            /\ UNCHANGED <<queue, future, cancelled, run, up, fresh, created, asked, late>>
        BY <1>2, <1>9, <2>3 DEF UpdateTranscript, server
      <3>2. t \notin late => row[t].status = "done"
        BY <1>1, <1>2, <2>1, <2>3 DEF TabInv, ReadHolds, MayEdit
      <3>3. edits + 1 \in Edits
        BY <1>1, <3>1 DEF TypeOK, Edits
      <3>4. /\ new \in Rows /\ new.status = row[t].status /\ new.error = row[t].error
            /\ new.text = <<"edit", edits + 1>>
        BY <1>1, <1>4, <3>3, EditedRow
      <3>5. kept' = [kept EXCEPT ![t] = new.text]
        BY <3>1, <3>4
      <3> HIDE DEF new
      <3> QED
        BY <1>1, <1>2, <1>4, <2>1, <3>1, <3>2, <3>4, <3>5, TabRowWritten, LateRowWritten
    <2> QED
      BY <2>2, <2>3
  <1> QED
    BY <1>6, <1>7, <1>8, <1>9, TabDeleteSteps DEF HandlerStep

\* A new row has no call, no run and no flag yet.
LEMMA TabUpload ==
    ASSUME OneTab, PipelineInv, TabInv, NEW c \in Clients, NEW t \in Tasks,
           Upload(c, t)
    PROVE  TabInv'
  <1>1. /\ Create(t) /\ up /\ call[c] = NoCall
        /\ UNCHANGED <<queue, future, cancelled, run, call, up, asked, kept, late>>
        /\ \E next \in SUBSET {t} : fresh' = [fresh EXCEPT ![c] = next]
    BY DEF Upload, server, LoopIsFree
  <1>0. row'[t] = NewRow /\ created' = created \cup {t} /\ \A u \in Tasks \ {t} : row'[u] = row[u]
    BY <1>1, CreateAdds
  <1>2. \A u : /\ Busy("server", u)' <=> Busy("server", u)
               /\ Clearing(u)' <=> Clearing(u)
               /\ Active(u)' <=> Active(u)
    BY <1>1 DEF Active, Busy, Clearing
  <1>3. ~Active(t) /\ ~Deleting(t)' /\ kept[t] = NoText
    BY <1>1, CreateAdds DEF TabInv, Active, Busy, Deleting, EditKept, Processes
  <1>4. \A u \in Tasks \ {t} : Going(u)' <=> Going(u)
    BY <1>1, CreateAdds DEF Going, Deleting, Exists
  <1>5. ~Going(t)'
    BY <1>1, <1>3, CreateAdds DEF Going
  <1>6. NewRow.status = "pending" /\ NewRow.error = ""
    BY DEF NewRow
  <1>7. \A q \in queue : q.task \in Tasks
    BY DEF PipelineInv, TypeOK
  <1>8. OnlyServer' /\ CallsExist' /\ FreshWaits'
    <2>1. OnlyServer' /\ CallsExist'
      BY <1>1, CreateAdds DEF TabInv, OnlyServer, CallsExist, Exists, PipelineInv, TypeOK
    <2>2. \A d \in Clients : fresh'[d] \subseteq fresh[d] \cup {t} /\ d = c
      BY <1>1 DEF PipelineInv, TypeOK, OneTab
    <2>3. FreshWaits'
      BY <1>0, <1>1, <2>2, CreateAdds DEF TabInv, FreshWaits
    <2> QED
      BY <2>1, <2>3
  <1>9. OneRunEach'
    BY <1>1, <1>2, <1>3, CreateAdds DEF TabInv, OneRunEach, Exists
  <1>10. ReadHolds'
    BY <1>1, <1>2, CreateAdds DEF TabInv, ReadHolds, Exists
  <1>11. ErrorBelongs' /\ EditKept'
    <2>1. ErrorBelongs'
      BY <1>0, <1>1, <1>3, <1>6 DEF TabInv, ErrorBelongs, Exists
    <2>2. EditKept'
      BY <1>0, <1>1, <1>3, <1>6 DEF TabInv, EditKept, Exists
    <2> QED
      BY <2>1, <2>2
  <1>12. DeleteReaches'
    BY <1>1, <1>2, <1>4, <1>5, <1>7 DEF TabInv, DeleteReaches
  <1> QED
    BY <1>8, <1>9, <1>10, <1>11, <1>12 DEF TabInv

LEMMA TabFinishRecording ==
    ASSUME OneTab, PipelineInv, TabInv, NEW t \in Tasks, FinishRecording(t)
    PROVE  TabInv'
  <1>1. Create(t) /\ Submit(t) /\ up /\ UNCHANGED <<cancelled, run, call, up, fresh, kept, late>>
    BY DEF FinishRecording, LoopIsFree
  <1>0. row'[t] = NewRow /\ created' = created \cup {t} /\ \A u \in Tasks \ {t} : row'[u] = row[u]
    BY <1>1, CreateAdds
  <1>2. PICK new \in queue' : new.task = t /\ new.id = future'[t] /\ queue' = queue \cup {new}
    BY <1>1, SubmitAdds
  <1>3. /\ \A u \in Tasks \ {t} : future'[u] = future[u]
        /\ asked' = asked \cup {t}
    BY <1>1, SubmitAdds
  <1>4. \A u : /\ Busy("server", u)' <=> Busy("server", u)
               /\ Clearing(u)' <=> Clearing(u)
               /\ Active(u)' <=> Active(u) \/ u = t
    BY <1>1, <1>2 DEF Active, Busy, Clearing
  <1>5. /\ ~Active(t) /\ ~Busy("server", t) /\ ~Clearing(t) /\ ~Deleting(t)'
        /\ kept[t] = NoText
    BY <1>1, CreateAdds DEF TabInv, Active, Busy, Clearing, Deleting, EditKept, Processes
  <1>6. \A u \in Tasks \ {t} : Going(u)' <=> Going(u)
    BY <1>1, CreateAdds DEF Going, Deleting, Exists
  <1>7. ~Going(t)'
    BY <1>1, <1>5, CreateAdds DEF Going
  <1>8. NewRow.status = "pending" /\ NewRow.error = ""
    BY DEF NewRow
  <1>9. \A q \in queue : q.task \in Tasks \ {t}
    BY <1>1, CreateAdds DEF PipelineInv, TypeOK
  <1>10. OnlyServer' /\ FreshWaits' /\ CallsExist'
    BY <1>0, <1>1, <1>3, CreateAdds DEF TabInv, OnlyServer, FreshWaits, CallsExist, Exists,
       PipelineInv, TypeOK
  <1>11. OneRunEach'
    <2>1. \A q, z \in queue' : q.task = z.task /\ q.task \notin late' => q = z
      BY <1>1, <1>2, <1>9 DEF TabInv, OneRunEach
    <2>2. \A q \in queue' : q.task \notin late' => ~Busy("server", q.task)'
      BY <1>1, <1>2, <1>4, <1>5 DEF TabInv, OneRunEach
    <2>3. \A u \in Tasks : Active(u)' => u \in asked'
      BY <1>3, <1>4 DEF TabInv, OneRunEach
    <2>4. \A u \in Tasks \ late' : Exists(u)' /\ row'[u].status \in {"done", "error"} => ~Active(u)'
      BY <1>0, <1>1, <1>4, <1>8 DEF TabInv, OneRunEach, Exists
    <2> QED
      BY <2>1, <2>2, <2>3, <2>4 DEF OneRunEach
  <1>12. ReadHolds'
    BY <1>1, <1>3, <1>4, CreateAdds DEF TabInv, ReadHolds, Exists
  <1>13. ErrorBelongs' /\ EditKept'
    <2>1. ErrorBelongs'
      BY <1>0, <1>1, <1>5, <1>8 DEF TabInv, ErrorBelongs, Exists
    <2>2. EditKept'
      BY <1>0, <1>1, <1>5, <1>8 DEF TabInv, EditKept, Exists
    <2> QED
      BY <2>1, <2>2
  <1>14. DeleteReaches'
    BY <1>1, <1>2, <1>3, <1>4, <1>5, <1>6, <1>7, <1>9 DEF TabInv, DeleteReaches
  <1> QED
    BY <1>10, <1>11, <1>12, <1>13, <1>14 DEF TabInv

LEMMA TabRead ==
    ASSUME OneTab, PipelineInv, TabInv, NEW c \in Clients, NEW t \in Tasks,
           NEW op \in {"start", "retry", "edit", "delete"}, Read(c, op, t),
           op = "start" => t \notin asked,
           op = "retry" => row[t].status \in {"done", "error"},
           fresh' = [fresh EXCEPT ![c] = {}]
    PROVE  TabInv'
  <1> DEFINE new == [op |-> op, task |-> t, seen |-> row[t].status, at |-> "body"]
  <1>1. /\ call[c] = NoCall /\ Exists(t) /\ up
        /\ call' = [call EXCEPT ![c] = new]
        /\ UNCHANGED <<row, queue, run, future, cancelled, up>>
        /\ UNCHANGED <<asked, created, kept, late>>
    BY DEF Read, server
  <1>2. new.op = op /\ new.task = t /\ new.seen = row[t].status /\ new.at = "body"
    OBVIOUS
  <1> HIDE DEF new
  <1>3. call'[c] = new /\ \A d \in Clients \ {c} : call'[d] = call[d]
    BY <1>1 DEF PipelineInv, TypeOK
  <1>4. FreshWaits'
    BY DEF OneTab, FreshWaits, PipelineInv, TypeOK
  <1> QED
    BY <1>1, <1>2, <1>3, <1>4, TabAnswer

LEMMA TabRequest ==
    ASSUME OneTab, PipelineInv, TabInv, NEW c \in Clients, NEW t \in Tasks,
           \/ RequestStart(c, t)
           \/ \E op \in {"retry", "edit", "delete"} : Request(c, op, t)
    PROVE  TabInv'
  <1>1. CASE RequestStart(c, t)
    <2>1. t \notin asked
      BY <1>1 DEF RequestStart, TabInv, FreshWaits
    <2> QED
      BY <1>1, <2>1, TabRead DEF RequestStart
  <1>2. CASE \E op \in {"retry", "edit", "delete"} : Request(c, op, t)
    <2>1. PICK op \in {"retry", "edit", "delete"} : Request(c, op, t)
      BY <1>2
    <2>2. Clients = {c}
      BY DEF OneTab
    <2>3. fresh' = [fresh EXCEPT ![c] = {}]
      BY <2>1 DEF Request, PipelineInv, TypeOK
    <2> QED
      BY <2>1, <2>2, <2>3, TabRead DEF Request
  <1> QED
    BY <1>1, <1>2

LEMMA TabStartIsLost ==
    ASSUME PipelineInv, TabInv, NEW c \in Clients, StartIsLost(c)
    PROVE  TabInv'
  <1>1. /\ UNCHANGED <<row, queue, run, future, cancelled, call, up>>
        /\ UNCHANGED <<asked, created, kept, late>>
        /\ \A d \in Clients : fresh'[d] \subseteq fresh[d]
    BY DEF StartIsLost, server, PipelineInv, TypeOK
  <1> QED
    BY <1>1, TabUntouched DEF TabInv, FreshWaits

LEMMA TabCrash == ASSUME TypeOK, TabInv, Crash PROVE TabInv'
  <1>1. /\ queue' = {} /\ run' = [run EXCEPT !["server"] = NoRun]
        /\ call' = [c \in Clients |-> NoCall]
        /\ UNCHANGED <<row, history>>
    BY DEF Crash
  <1>2. run'["server"] = NoRun /\ run'["cli"] = run["cli"]
    BY <1>1 DEF TypeOK, Processes
  <1>3. \A u : ~Active(u)'
    BY <1>1, <1>2 DEF Active, Busy
  <1> QED
    BY <1>1, <1>2, <1>3 DEF TabInv, OnlyServer, FreshWaits, CallsExist, OneRunEach, ReadHolds, ErrorBelongs, EditKept,
       DeleteReaches, Exists, history

LEMMA TabRestart == ASSUME PipelineInv, TabInv, Restart PROVE TabInv'
  <1>1. /\ UNCHANGED <<queue, future, cancelled, run, call, fresh, created, asked, kept, late>>
        /\ queue = {} /\ run["server"] = NoRun /\ \A c \in Clients : call[c] = NoCall
    BY DEF Restart, server, TabInv, OnlyServer
  <1>2. \A u : ~Active(u)'
    BY <1>1 DEF Active, Busy
  <1>3. /\ OnlyServer' /\ FreshWaits' /\ CallsExist' /\ OneRunEach' /\ ReadHolds'
        /\ DeleteReaches'
    BY <1>1, <1>2 DEF TabInv, OnlyServer, FreshWaits, CallsExist, OneRunEach, ReadHolds,
       DeleteReaches
  <1>4. ErrorBelongs'
    BY <1>1, RestartRows DEF PipelineInv, TabInv, ErrorBelongs, Exists
  <1>5. EditKept'
    BY <1>1, RestartRows DEF PipelineInv, TabInv, EditKept, Exists, Orphan
  <1> QED
    BY <1>3, <1>4, <1>5 DEF TabInv

LEMMA TabNext == OneTab /\ PipelineInv /\ TabInv /\ [Next]_vars => TabInv'
  <1> SUFFICES ASSUME OneTab, PipelineInv, TabInv, [Next]_vars PROVE TabInv'
    OBVIOUS
  <1>1. CASE UNCHANGED vars
    <2>1. /\ UNCHANGED <<row, queue, run, future, cancelled, call, up, asked, created, kept, late>>
          /\ UNCHANGED fresh
      BY <1>1 DEF vars, server, history
    <2> QED
      BY <2>1, TabUntouched DEF TabInv, FreshWaits
  <1>2. TypeOK
    BY DEF PipelineInv
  <1>3. ~CliDies /\ \A t \in Tasks : ~CliTranscribe(t)
    BY DEF OneTab, CliTranscribe, CliDies, TabInv, OnlyServer
  <1> QED
    BY <1>1, <1>2, <1>3, TabPick, TabCrash, TabRestart, TabRunSteps, TabHandlerSteps, TabUpload,
       TabFinishRecording, TabRequest, TabStartIsLost DEF Next

LEMMA TabInvariance == ASSUME OneTab PROVE Spec => [](PipelineInv /\ TabInv)
  BY InitInv, NextInv, InitTab, TabNext, PTL DEF Spec

\* "任务正在转录中": with one tab a task has at most one run that is queued or
\* may still write, although the check that says so reads a status that may be
\* out of date.  A task whose start came after a restart had marked it is
\* excepted: the row still offers a retry while that run waits
\* (start_transcribe, retry_transcribe, submit_pipeline).
THEOREM OneRunAtATime == ASSUME OneTab PROVE Spec => []OneRunPerTask
  <1>1. PipelineInv /\ TabInv => OneRunPerTask
    <2> SUFFICES ASSUME PipelineInv, TabInv, NEW t \in Tasks \ late
                 PROVE  Cardinality(Queued(t)) + Cardinality(Running(t)) <= 1
      BY DEF OneRunPerTask
    <2>1. \A q, z \in Queued(t) : q = z
      BY DEF Queued, TabInv, OneRunEach
    <2>2. Running(t) \subseteq {"server"} /\ (Queued(t) # {} => Running(t) = {})
      BY DEF Queued, Running, TabInv, OnlyServer, OneRunEach, Busy, Processes
    <2>3. Queued(t) = {} \/ \E q : Queued(t) = {q}
      <3> SUFFICES ASSUME NEW q \in Queued(t)
                   PROVE  Queued(t) = {q}
        OBVIOUS
      <3> QED
        BY <2>1
    <2>4. Running(t) = {} \/ Running(t) = {"server"}
      BY <2>2
    <2>5. Cardinality({}) = 0 /\ \A x : Cardinality({x}) = 1
      BY FS_EmptySet, FS_Singleton
    <2>6. CASE Queued(t) = {}
      <3>1. Cardinality(Queued(t)) = 0
        BY <2>5, <2>6
      <3>2. Cardinality(Running(t)) \in {0, 1}
        BY <2>4, <2>5
      <3> QED
        BY <3>1, <3>2
    <2>7. CASE Queued(t) # {}
      <3>1. PICK q : Queued(t) = {q}
        BY <2>3, <2>7
      <3>2. Cardinality(Queued(t)) = 1
        BY <2>5, <3>1
      <3>3. Cardinality(Running(t)) = 0
        BY <2>2, <2>5, <2>7
      <3> QED
        BY <3>2, <3>3
    <2> QED
      BY <2>6, <2>7
  <1> QED
    BY <1>1, TabInvariance, PTL

\* With one tab a transcript that is done is not shown with the error of an
\* earlier run: the way from an error to a new transcript is the retry, which
\* clears it, but for a start that came after a restart, which does not
\* (reset_for_retry, save_result, start_transcribe).
THEOREM DoneIsClean == ASSUME OneTab PROVE Spec => []DoneHasNoError
  <1>1. TabInv => DoneHasNoError
    BY DEF TabInv, ErrorBelongs, DoneHasNoError
  <1> QED
    BY <1>1, TabInvariance, PTL

\* With one tab no run overwrites an edit that was confirmed: a run writes
\* only while its row is not done, and an edit is accepted only when it is.  A
\* task that was started after a restart had marked it is excepted, for it may
\* have two runs (update_transcript, save_result).
THEOREM EditsAreSafe == ASSUME OneTab PROVE Spec => []EditsSurvive
  <1>1. TabInv => EditsSurvive
    BY DEF TabInv, EditKept, EditsSurvive
  <1> QED
    BY <1>1, TabInvariance, PTL

\* With one tab the worker does not start to recognize a task that is gone:
\* whatever moment a delete comes at, the run is withdrawn from the queue or
\* finds the flag, for every task but those with the late start of above
\* (cancel_pipeline, run_pipeline).
THEOREM DeletedIsNotTranscribed == ASSUME OneTab PROVE Spec => NoWorkForDeleted
  <1> DEFINE Told == At("server", "gate") /\ At("server", "transcribe")' =>
                        Exists(run["server"].task) \/ run["server"].task \in late
  <1>1. PipelineInv /\ TabInv /\ [Next]_vars => Told
    <2> SUFFICES ASSUME PipelineInv, TabInv, [Next]_vars, At("server", "gate"),
                        At("server", "transcribe")', ~Exists(run["server"].task),
                        run["server"].task \notin late
                 PROVE  FALSE
      OBVIOUS
    <2>1. run["server"] # NoRun /\ run["server"].at = "gate"
          /\ run'["server"] # NoRun /\ run'["server"].at = "transcribe"
      BY DEF At
    <2>2. PICK t \in Tasks \ late : t = run["server"].task
      BY <2>1 DEF PipelineInv, TypeOK, Processes
    <2>3. Busy("server", t) /\ ~Exists(t)
      BY <2>1, <2>2 DEF Busy
    <2>4. t \in cancelled
      BY <2>3 DEF TabInv, DeleteReaches, Active, Going
    <2>5. Gate("server")
      <3>1. CASE \E p \in Processes : RunStep(p)
        <4>1. PICK p \in Processes : RunStep(p)
          BY <3>1
        <4>2. p = "server"
          BY <4>1 DEF TabInv, OnlyServer, Processes, RunStep, Check, Load, Begin, Prepare,
             Gate, Transcribe, Save, Fail, Cleanup, Close, At
        <4> QED
          BY <2>1, <4>1, <4>2 DEF RunStep, Check, Load, Begin, Prepare, Transcribe, Save,
             Fail, Cleanup, Close, At
      <3>2. CASE \E c \in Clients : HandlerStep(c)
        BY <2>1, <3>2 DEF HandlerStep, StartTranscribe, RetryTranscribe, RetrySubmit,
           UpdateTranscript, DeleteTask, DeleteFile, DeleteRow
      <3>3. CASE Pick \/ Restart \/ CliDies \/ UNCHANGED vars
        BY <2>1, <3>3 DEF Pick, Restart, CliDies, TabInv, OnlyServer, vars
      <3>4. CASE Crash
        BY <2>1, <3>4 DEF Crash, PipelineInv, TypeOK, Processes
      <3>5. CASE \E u \in Tasks : FinishRecording(u) \/ \E c \in Clients : Upload(c, u)
        BY <2>1, <3>5 DEF Upload, FinishRecording
      <3>6. CASE \E u \in Tasks : CliTranscribe(u)
        BY <2>1, <3>6 DEF CliTranscribe, PipelineInv, TypeOK, Processes
      <3>7. CASE \E c \in Clients : \/ StartIsLost(c)
                                    \/ \E u \in Tasks : RequestStart(c, u)
        BY <2>1, <3>7 DEF StartIsLost, RequestStart, Read
      <3>8. CASE \E c \in Clients, u \in Tasks, op \in {"retry", "edit", "delete"} :
                    Request(c, op, u)
        BY <2>1, <3>8 DEF Request, Read
      <3> QED
        BY <3>1, <3>2, <3>3, <3>4, <3>5, <3>6, <3>7, <3>8 DEF Next
    <2>6. Goto("server", "cleanup")
      BY <2>2, <2>4, <2>5 DEF Gate, Flagged
    <2>7. run'["server"].at = "cleanup"
      BY <2>1, <2>6, GotoMoves DEF PipelineInv, Processes, Stages
    <2> QED
      BY <2>1, <2>7
  <1> QED
    BY <1>1, TabInvariance, PTL DEF Spec, NoWorkForDeleted

=============================================================================
