--------------------------- MODULE ComputeJobRefines ---------------------------
(***************************************************************************)
(* ComputeJob implements RunLifecycle, for any jobs, requests, timers and  *)
(* bounds, and the outcome of sending a run is written to that run only.   *)
(* Both follow from the invariant of ComputeJobProofs: every step is read  *)
(* as what it does to the status and the serial of one job.                *)
(***************************************************************************)
EXTENDS ComputeJobProofs

\* The record of job i says the same of its run.
SameRun(i) == db'[i].status = db[i].status /\ db'[i].serial = db[i].serial

SameRuns == (\A i \in Job : SameRun(i)) /\ clock' = clock

Started(j) ==
    /\ db[j].status \notin Active
    /\ db'[j].status = "pending" /\ db'[j].serial = clock + 1 /\ clock' = clock + 1

Proceeded(j) ==
    /\ db[j].status \in Active
    /\ db'[j].status \in Active \union {"completed", "error", "canceled"}
    /\ db'[j].serial = db[j].serial /\ clock' = clock

Canceled(j) ==
    db'[j].status = "canceled" /\ db'[j].serial = db[j].serial /\ clock' = clock

Lost(j) ==
    /\ db'[j].status \in {"missing", "job_run_purged"} /\ db'[j].serial = 0
    /\ clock' = clock

\* What one step may do to the runs.
LifeStep ==
    \/ SameRuns
    \/ \E j \in Job : /\ \A i \in Job \ {j} : SameRun(i)
                      /\ Started(j) \/ Proceeded(j) \/ Canceled(j) \/ Lost(j)

-----------------------------------------------------------------------------
LEMMA ReleasedSame ==
    ASSUME NEW d \in JobRecord, NEW S
    PROVE  Released(d, S).status = d.status /\ Released(d, S).serial = d.serial
BY DEF Released, JobRecord

LEMMA UnchangedSame == ASSUME db' = db, clock' = clock PROVE LifeStep
BY DEF LifeStep, SameRuns, SameRun

\* One record is written.
LEMMA OneWritten ==
    ASSUME JobsOK, NEW j \in Job, NEW d \in JobRecord, db' = [db EXCEPT ![j] = d]
    PROVE  /\ db'[j].status = d.status /\ db'[j].serial = d.serial
           /\ \A i \in Job \ {j} : SameRun(i)
BY DEF JobsOK, SameRun

LEMMA OneKept ==
    ASSUME JobsOK, NEW j \in Job, NEW d \in JobRecord, db' = [db EXCEPT ![j] = d],
           d.status = db[j].status, d.serial = db[j].serial, clock' = clock
    PROVE  LifeStep
BY OneWritten DEF LifeStep, SameRuns, SameRun

\* Destroying operations leaves the runs alone.
LEMMA DestroySame ==
    ASSUME JobsOK, NEW p, co[p].job \in Job, NEW S, NEW f, Destroy(p, S, f)
    PROVE  SameRuns
<1> DEFINE j == co[p].job
           d == Released(db[j], S)
<1>1. db[j] \in JobRecord BY DEF JobsOK
<1>2. db' = [db EXCEPT ![j] = d] /\ clock' = clock BY DEF Destroy, JobsOK
<1>3. d.status = db[j].status /\ d.serial = db[j].serial BY <1>1, ReleasedSame
<1> HIDE DEF d
<1>4. db'[j] = d /\ \A i \in Job : i # j => db'[i] = db[i] BY <1>2 DEF JobsOK
<1>5. QED BY <1>2, <1>3, <1>4 DEF SameRuns, SameRun

\* A write changes one record.
LEMMA WriteRun ==
    ASSUME JobsOK, NEW p, co[p].job \in Job, NEW S, NEW f, NEW d \in JobRecord,
           Write(p, S, f, d)
    PROVE  /\ db'[co[p].job].status = d.status /\ db'[co[p].job].serial = d.serial
           /\ \A i \in Job \ {co[p].job} : SameRun(i)
           /\ clock' = clock
<1> DEFINE j == co[p].job
           r == Released(d, S)
<1>1. db' = [db EXCEPT ![j] = r] /\ clock' = clock BY DEF Write
<1>2. r.status = d.status /\ r.serial = d.serial BY ReleasedSame
<1> HIDE DEF r
<1>3. db'[j] = r /\ \A i \in Job : i # j => db'[i] = db[i] BY <1>1 DEF JobsOK
<1>4. QED BY <1>1, <1>2, <1>3 DEF SameRun

-----------------------------------------------------------------------------
\* Each action.
LEMMA StartRunLife ==
    ASSUME Inductive, NEW p \in Proc, StartRun(p)
    PROVE  LifeStep
<1> DEFINE j == co[p].job
<1>1. j \in Job /\ db[j].status \notin Active /\ JobsOK /\ co[p].hash \in Hash \union {None}
  <2>1. co[p].pc = "start_run" BY DEF StartRun, At
  <2>2. j \in Job /\ db[j].status \notin Active
    BY <2>1 DEF Inductive, FrameInv, Frame, Starting
  <2>3. co[p].hash \in Hash \union {None} BY DEF Inductive, FramesOK, FrameRecord
  <2>4. QED BY <2>2, <2>3 DEF Inductive
<1>2. PICK o \in Op : db' = [db EXCEPT ![j] = [@ EXCEPT !.hash = co[p].hash, !.serial = clock + 1,
                                                      !.status = "pending", !.runStatusOp = o]]
  BY DEF StartRun
<1> DEFINE d == [db[j] EXCEPT !.hash = co[p].hash, !.serial = clock + 1,
                             !.status = "pending", !.runStatusOp = o]
<1>3. db' = [db EXCEPT ![j] = d] BY <1>1, <1>2 DEF JobsOK
<1>4. d \in JobRecord /\ d.status = "pending" /\ d.serial = clock + 1
  <2>1. db[j] \in JobRecord /\ clock + 1 \in Nat BY <1>1 DEF JobsOK
  <2>2. QED BY <1>1, <2>1 DEF JobRecord, Status, Active
<1> HIDE DEF d
<1>5. clock' = clock + 1 BY DEF StartRun
<1>6. QED BY <1>1, <1>3, <1>4, <1>5, OneWritten DEF LifeStep, Started

LEMMA RunStatusLife ==
    ASSUME Inductive, NEW p \in Proc, RunStatus(p)
    PROVE  LifeStep
<1> DEFINE j == co[p].job
<1>1. j \in Job /\ JobsOK
  BY DEF RunStatus, At, Inductive, FrameInv, Frame, HandlerPc, Api
<1>2. CASE db' = db BY <1>2, UnchangedSame DEF RunStatus, Goto, jobVars
<1>3. CASE \E o \in Op : db' = [db EXCEPT ![j].runStatusOp = o] /\ clock' = clock
  <2>1. PICK o \in Op : db' = [db EXCEPT ![j].runStatusOp = o] BY <1>3
  <2> DEFINE d == [db[j] EXCEPT !.runStatusOp = o]
  <2>2. db' = [db EXCEPT ![j] = d] BY <1>1, <2>1 DEF JobsOK
  <2>3. d \in JobRecord /\ d.status = db[j].status /\ d.serial = db[j].serial
    BY <1>1 DEF JobsOK, JobRecord
  <2> HIDE DEF d
  <2>4. QED BY <1>1, <1>3, <2>2, <2>3, OneKept
<1>4. QED BY <1>2, <1>3 DEF RunStatus, Goto, jobVars

LEMMA CancelJobLife ==
    ASSUME Inductive, NEW p, NEW f, NEW j \in Job, NEW k, NEW S, CancelJob(p, f, j, k, S)
    PROVE  LifeStep
<1> DEFINE r == Released(db[j], S)
           d == [r EXCEPT !.status = "canceled"]
<1>1. JobsOK /\ db[j] \in JobRecord BY DEF Inductive, JobsOK
<1>2. db' = [db EXCEPT ![j] = d] /\ clock' = clock BY <1>1 DEF CancelJob, JobsOK
<1>3. r \in JobRecord /\ r.serial = db[j].serial BY <1>1 DEF Released, JobRecord
<1> HIDE DEF r
<1>4. d \in JobRecord /\ d.status = "canceled" /\ d.serial = db[j].serial
  BY <1>3 DEF JobRecord, Status, Exit
<1> HIDE DEF d
<1>5. QED BY <1>1, <1>2, <1>4, OneWritten DEF LifeStep, Canceled

LEMMA HandlersLife ==
    ASSUME Inductive, NEW p \in Proc, Handle(p)
    PROVE  LifeStep
<1>1. CASE RunSimulation(p) \/ StatusReply(p) \/ ReadData(p)
  BY <1>1, UnchangedSame DEF RunSimulation, StatusReply, ReadData, SendOp, Reply, Goto, jobVars
<1>2. CASE RunCancel(p)
  <2>1. co[p].job \in Job BY <1>2 DEF RunCancel, At, Inductive, FrameInv, Frame
  <2>2. QED BY <1>2, <2>1, UnchangedSame, CancelJobLife DEF RunCancel, Reply, jobVars
<1>3. QED BY <1>1, <1>2, StartRunLife, RunStatusLife DEF Handle

LEMMA ReplyGotLife ==
    ASSUME Inductive, NEW p \in Proc, ReplyGot(p)
    PROVE  LifeStep
<1> DEFINE j == co[p].job
           d == Missing(p)
<1>1. j \in Job /\ co[p] \in FrameRecord /\ JobsOK
  BY DEF ReplyGot, Woken, Inductive, FrameInv, Frame, FramesOK
<1>2. d \in JobRecord /\ d.status = "missing" /\ d.serial = 0 BY <1>1, MissingType
<1> HIDE DEF d
<1>3. CASE db' = db /\ clock' = clock BY <1>3, UnchangedSame
<1>4. CASE \E S, f : Write(p, S, f, d) BY <1>1, <1>2, <1>4, WriteRun DEF LifeStep, Lost
<1>5. QED BY <1>3, <1>4 DEF ReplyGot, Resume, jobVars, d

\* The outcome of a run is written to it, and an outcome the agent reports to
\* a run that is still active.
LEMMA ReturnLife ==
    ASSUME Inductive, NEW p \in Proc, Return(p)
    PROVE  /\ LifeStep
           /\ co[p].cont = "run" /\ db'[co[p].job].status # db[co[p].job].status
                => db[co[p].job].serial = co[p].serial
<1> DEFINE j == co[p].job
<1>1. /\ j \in Job /\ co[p] \in FrameRecord /\ JobsOK /\ db[j] \in JobRecord
      /\ Returned(p, "run_status") => co[p].ret \in Answer("run_status") \union {None}
      /\ co[p].fresh => db[j].status \in Active
      /\ co[p].fresh /\ co[p].cont = "run" => db[j].serial = co[p].serial
  BY DEF Return, ReturnRun, ReturnRunStatus, ReturnSingle, ReturnResult, Raise, Returned, At,
         Inductive, FrameInv, Frame, Transaction, FramesOK, JobsOK
<1>2. CASE \E S, f : Destroy(p, S, f)
  BY <1>1, <1>2, DestroySame DEF LifeStep, SameRuns, SameRun
<1>3. CASE /\ \E S, f : Write(p, S, f, Missing(p))
           /\ co[p].cont = "result"
  BY <1>1, <1>3, WriteRun, MissingType DEF LifeStep, Lost
<1>4. ASSUME NEW s \in Active \union {"completed", "error", "canceled"}, db[j].status \in Active,
             NEW S, NEW f, Write(p, S, f, WithStatus(j, s)),
             co[p].cont = "run" => co[p].fresh
      PROVE  /\ LifeStep
             /\ co[p].cont = "run" => db[j].serial = co[p].serial
  <2>1. s \in Status BY DEF Status, Exit
  <2>2. QED BY <1>1, <1>4, <2>1, WithStatusType, WriteRun DEF LifeStep, Proceeded
<1>5. CASE ReturnRun(p) BY <1>1, <1>2, <1>4, <1>5 DEF ReturnRun
<1>6. CASE ReturnRunStatus(p)
  BY <1>1, <1>2, <1>4, <1>6 DEF ReturnRunStatus, Returned, Answer
<1>7. CASE ReturnSingle(p) BY <1>2, <1>7 DEF ReturnSingle
<1>8. CASE ReturnResult(p) BY <1>2, <1>3, <1>8 DEF ReturnResult, Returned
<1>9. CASE Raise(p) BY <1>1, <1>2, <1>4, <1>9 DEF Raise
<1>10. QED BY <1>5, <1>6, <1>7, <1>8, <1>9 DEF Return

-----------------------------------------------------------------------------
LEMMA RequestLife ==
    ASSUME Inductive, NEW p \in Req, NEW a, NEW j \in Job, NEW h \in Hash, NEW serial, NEW force,
           Receive(p, a, j, h, serial, force)
    PROVE  LifeStep
<1> DEFINE d == IF db[j].loaded THEN db[j] ELSE Loaded(j, h)
<1>1. JobsOK BY DEF Inductive
<1>2. db' = [db EXCEPT ![j] = d] /\ clock' = clock BY <1>1 DEF Receive, JobsOK
<1>3. /\ d \in JobRecord /\ d.serial = db[j].serial
      /\ d.status = db[j].status \/ d.status = "canceled"
  BY <1>1 DEF Loaded, JobsOK, JobRecord, Status, Exit
<1> HIDE DEF d
<1>4. CASE d.status = db[j].status BY <1>1, <1>2, <1>3, <1>4, OneKept
<1>5. CASE d.status = "canceled"
  <2>1. /\ db'[j].status = "canceled" /\ db'[j].serial = db[j].serial
        /\ \A i \in Job \ {j} : SameRun(i)
    BY <1>1, <1>2, <1>3, <1>5, OneWritten
  <2>2. Canceled(j) BY <1>2, <2>1 DEF Canceled
  <2>3. QED BY <2>1, <2>2 DEF LifeStep
<1>6. QED BY <1>3, <1>4, <1>5

LEMMA AgentUpdateLife ==
    ASSUME Inductive, NEW j \in Job, NEW s \in Active \union {"completed", "error"},
           AgentUpdate(j, s)
    PROVE  LifeStep
<1> DEFINE t == IF db[j].status \in Exit THEN db[j].status ELSE s
           d == WithStatus(j, t)
           r == Released(d, Ended(j, t))
<1>1. JobsOK BY DEF Inductive
<1>2. db' = [db EXCEPT ![j] = r] /\ clock' = clock BY DEF AgentUpdate
<1>3. /\ t = db[j].status \/ (db[j].status \in Active /\ t = s)
      /\ t \in Status
  BY <1>1 DEF JobsOK, JobRecord, Status, Active, Exit
<1>4. d \in JobRecord /\ d.status = t /\ d.serial = db[j].serial BY <1>1, <1>3, WithStatusType
<1> HIDE DEF t, d
<1>5. r \in JobRecord /\ r.status = t /\ r.serial = db[j].serial
  BY <1>4 DEF Released, JobRecord
<1> HIDE DEF r
<1>6. CASE t = db[j].status BY <1>1, <1>2, <1>5, <1>6, OneKept
<1>7. CASE db[j].status \in Active /\ t = s
  <2>1. /\ db'[j].status = s /\ db'[j].serial = db[j].serial
        /\ \A i \in Job \ {j} : SameRun(i)
    BY <1>1, <1>2, <1>5, <1>7, OneWritten
  <2>2. Proceeded(j) BY <1>2, <1>7, <2>1 DEF Proceeded
  <2>3. QED BY <2>1, <2>2 DEF LifeStep
<1>8. QED BY <1>3, <1>6, <1>7

LEMMA FreeResourcesLife ==
    ASSUME Inductive, NEW k, FreeResources(k)
    PROVE  LifeStep
<1>1. PICK S : db' = [j \in Job |-> Released(db[j], S)] /\ clock' = clock BY DEF FreeResources
<1>2. ASSUME NEW j \in Job PROVE SameRun(j)
  <2>1. db[j] \in JobRecord /\ db'[j] = Released(db[j], S) BY <1>1 DEF Inductive, JobsOK
  <2>2. QED BY <2>1, ReleasedSame DEF SameRun
<1>3. QED BY <1>1, <1>2 DEF LifeStep, SameRuns

LEMMA ForgetLife ==
    ASSUME Inductive, NEW j \in Job, CacheTimeout(j) \/ Purge(j)
    PROVE  LifeStep
<1>1. JobsOK /\ db[j] \in JobRecord BY DEF Inductive, JobsOK
<1>2. CASE CacheTimeout(j)
  <2> DEFINE d == [db[j] EXCEPT !.loaded = FALSE]
  <2>1. db' = [db EXCEPT ![j] = d] /\ clock' = clock BY <1>1, <1>2 DEF CacheTimeout, JobsOK
  <2>2. d \in JobRecord /\ d.status = db[j].status /\ d.serial = db[j].serial
    BY <1>1 DEF JobRecord
  <2> HIDE DEF d
  <2>3. QED BY <1>1, <2>1, <2>2, OneKept
<1>3. CASE Purge(j)
  <2> DEFINE d == [db[j] EXCEPT !.status = "job_run_purged", !.serial = 0]
  <2>1. db' = [db EXCEPT ![j] = d] /\ clock' = clock BY <1>1, <1>3 DEF Purge, JobsOK
  <2>2. d \in JobRecord /\ d.status = "job_run_purged" /\ d.serial = 0
    BY <1>1 DEF JobRecord, Status, Exit
  <2> HIDE DEF d
  <2>3. QED BY <1>1, <2>1, <2>2, OneWritten DEF LifeStep, Lost
<1>4. QED BY <1>2, <1>3

LEMMA RestartLife ==
    ASSUME Inductive, Restart
    PROVE  LifeStep
<1>1. ASSUME NEW j \in Job PROVE SameRun(j)
  BY DEF Restart, SameRun, Inductive, JobsOK, JobRecord
<1>2. QED BY <1>1 DEF Restart, LifeStep, SameRuns

\* Steps that write no record.
LEMMA NoWrite ==
    ASSUME NEW p,
           \/ AgentReady(p) \/ AgentWoken(p) \/ AllocSlots(p) \/ SlotGranted(p) \/ Send(p)
           \/ SbatchLoginNeeded(p) \/ AgentStartFails(p)
    PROVE  db' = db /\ clock' = clock
BY DEF AgentReady, AgentWoken, AllocSlots, SlotGranted, Send, SbatchLoginNeeded, AgentStartFails,
       Goto, Resume, jobVars

LEMMA NextLife ==
    ASSUME Inductive, [Next]_vars
    PROVE  LifeStep
<1>1. ASSUME NEW p \in Req, Request(p) PROVE LifeStep
  BY <1>1, RequestLife DEF Request
<1>2. ASSUME NEW p \in Timer, NEW o \in Op, OpTimeout(p, o) PROVE LifeStep
  <2>1. op[o].job \in Job BY <1>2 DEF OpTimeout, Inductive, OpInv, NoOp
  <2>2. QED BY <1>2, <2>1, CancelJobLife DEF OpTimeout
<1>3. ASSUME NEW p \in Proc, Step(p) PROVE LifeStep
  BY <1>3, HandlersLife, NoWrite, UnchangedSame, ReplyGotLife, ReturnLife DEF Step, SendSteps
<1>4. ASSUME NEW p \in Proc, SbatchLoginNeeded(p) \/ AgentStartFails(p) PROVE LifeStep
  BY <1>4, NoWrite, UnchangedSame
<1>5. CASE Environment
  <2>1. ASSUME NEW k, AgentAlive(k) \/ SocketClose(k) \/ KillIfIdle(k) \/ ReadyTimeout(k)
        PROVE  LifeStep
    BY <2>1, UnchangedSame DEF AgentAlive, SocketClose, KillIfIdle, ReadyTimeout, jobVars
  <2>2. ASSUME NEW o, NEW r, AgentReply(o, r) PROVE LifeStep
    BY <2>2, UnchangedSame DEF AgentReply, jobVars
  <2>3. QED
    BY <1>5, <2>1, <2>2, FreeResourcesLife, AgentUpdateLife, ForgetLife, RestartLife
    DEF Environment
<1>6. CASE UNCHANGED vars BY <1>6, UnchangedSame DEF vars
<1>7. QED BY <1>1, <1>2, <1>3, <1>4, <1>5, <1>6 DEF Next

-----------------------------------------------------------------------------
\* The outcome of sending a run (its reply, or an exception) changes the status
\* of that run only, whatever was started, canceled or purged while the request
\* waited: dbUpdateTime and serial in _receive_api_runSimulation.
THEOREM SpecRunOutcome == Spec => RunOutcomeIsCurrent
<1>1. ASSUME Inductive, [Next]_vars, NEW p \in Proc, running = p, co[p].cont = "run",
             db'[co[p].job].status # db[co[p].job].status
      PROVE  db[co[p].job].serial = co[p].serial
  <2>1. p # None BY NoneAssumption DEF Proc
  <2>2. co[p].pc \notin HandlerPc \union {"idle"} /\ co[p].job \in Job
    BY <1>1, NoneAssumption DEF Inductive, FrameInv, Frame, IdleFrame, Cont
  <2>3. CASE Return(p) BY <1>1, <2>3, ReturnLife
  <2>4. CASE Handle(p)
    BY <2>2, <2>4 DEF Handle, RunSimulation, StartRun, RunStatus, StatusReply, ReadData, RunCancel,
                      At, HandlerPc, Api
  <2>5. CASE SendSteps(p)
    BY <1>1, <2>1, <2>5, NoWrite DEF SendSteps, ReplyGot, Woken
  <2>6. CASE SbatchLoginNeeded(p) BY <1>1, <2>6, NoWrite
  <2>7. CASE Restart
    BY <1>1, <2>2, <2>7 DEF Restart, Inductive, JobsOK, JobRecord
  <2>8. CASE UNCHANGED vars BY <1>1, <2>8 DEF vars
  <2>9. ASSUME NEW q \in Proc, Step(q) PROVE q = p
    BY <1>1, <2>1, <2>9
    DEF Step, Handle, SendSteps, Return, RunSimulation, StartRun, RunStatus, StatusReply, ReadData,
        RunCancel, AgentReady, AgentWoken, AllocSlots, SlotGranted, Send, ReplyGot, ReturnRun,
        ReturnRunStatus, ReturnSingle, ReturnResult, Raise, Returned, At, Woken
  <2>10. QED
    BY <1>1, <2>1, <2>3, <2>4, <2>5, <2>6, <2>7, <2>8, <2>9
    DEF Next, Step, Environment, Request, Receive, OpTimeout, AgentStartFails, SbatchLoginNeeded, At,
        AgentAlive, SocketClose, KillIfIdle, ReadyTimeout, FreeResources, AgentReply,
        AgentUpdate, CacheTimeout, Purge
<1>2. Inductive /\ [Next]_vars =>
        [\A p \in Proc :
           running = p /\ co[p].cont = "run" /\ db'[co[p].job].status # db[co[p].job].status
           => db[co[p].job].serial = co[p].serial]_vars
  BY <1>1
<1>3. QED BY <1>2, InductiveHolds, PTL DEF Spec, RunOutcomeIsCurrent

\* The record of a job goes through the life RunLifecycle promises, whatever
\* requests, timeouts, agents and restarts do.
THEOREM SpecImplements == Spec => ImplementsRunLifecycle
<1>1. Init => Runs!Init BY DEF Init, Runs!Init
<1>2. ASSUME Inductive, Inductive', LifeStep
      PROVE  [Runs!Next]_(Runs!vars)
  <2> DEFINE r == [j \in Job |-> [status |-> db[j].status, serial |-> db[j].serial]]
  <2>1. CASE SameRuns
    <3>1. r' = r BY <2>1 DEF SameRuns, SameRun
    <3>2. QED BY <2>1, <3>1 DEF SameRuns, Runs!vars
  <2>2. ASSUME NEW j \in Job, \A i \in Job \ {j} : SameRun(i),
               Started(j) \/ Proceeded(j) \/ Canceled(j) \/ Lost(j)
        PROVE  Runs!Next
    <3> DEFINE x == [status |-> db'[j].status, serial |-> db'[j].serial]
    <3>1. r' = [r EXCEPT ![j] = x] BY <2>2 DEF SameRun
    <3>2. r[j].status = db[j].status /\ r[j].serial = db[j].serial OBVIOUS
    <3>3. CASE Started(j) BY <3>1, <3>2, <3>3 DEF Started, Runs!Next, Runs!Start, Runs!Active, Active
    <3>4. db'[j].serial = db[j].serial => x = [r[j] EXCEPT !.status = x.status] OBVIOUS
    <3>5. db'[j].serial = db[j].serial => r' = [r EXCEPT ![j].status = x.status]
      BY <3>1, <3>4
    <3>6. CASE Proceeded(j)
      BY <3>2, <3>5, <3>6 DEF Proceeded, Runs!Next, Runs!Proceed, Runs!Active, Active
    <3>7. CASE Canceled(j)
      BY <3>5, <3>7 DEF Canceled, Runs!Next, Runs!Cancel
    <3>8. CASE Lost(j)
      BY <3>1, <3>2, <3>8 DEF Lost, Runs!Next, Runs!Lose, Runs!NoRun
    <3>9. QED BY <2>2, <3>3, <3>6, <3>7, <3>8
  <2>3. QED BY <1>2, <2>1, <2>2 DEF LifeStep
<1>3. Inductive /\ Inductive' /\ [Next]_vars => [Runs!Next]_(Runs!vars) BY <1>2, NextLife
<1>4. QED BY <1>1, <1>3, InductiveHolds, PTL DEF Spec, ImplementsRunLifecycle, Runs!Spec
===============================================================================
