------------------------------ MODULE ComputeJob ------------------------------
(***************************************************************************)
(* The job supervisor (sirepo/job_supervisor.py): the _ComputeJob of every *)
(* job, the _Op each request creates, and the slots the operations of one  *)
(* user compete for.                                                       *)
(*                                                                         *)
(* Requests of browsers and the timers of operations are coroutines of one *)
(* asyncio event loop.  A coroutine runs alone until it awaits; `running'  *)
(* is the coroutine that has the loop, so the steps between two awaits are *)
(* separate actions that nothing interleaves with.  A coroutine's frame    *)
(* co[p] holds its program counter and the locals that outlive an await.   *)
(*                                                                         *)
(* The agents are an environment that may answer an operation in any of    *)
(* the ways an agent answers it, at any time or never, and may report any  *)
(* state of the current run; the driver is reduced to what operations see  *)
(* of it: starting, ready, its websocket, and the scheduled free_resources.*)
(***************************************************************************)
EXTENDS Naturals, Sequences, FiniteSets

CONSTANTS
    Job,        \* compute jobs (jids) of one user
    Parallel,   \* the jobs with isParallel
    Sbatch,     \* the jobs whose jobRunMode is sbatch
    Hash,       \* values of computeJobHash
    Apis,       \* the requests browsers send
    Req,        \* coroutines that serve API requests
    Timer,      \* coroutines that serve expired op timers
    MaxOp,      \* operations alive at once
    MaxClock,   \* bound: number of runs that are started
    CpuSlots,   \* size of a driver's cpu_slot_q
    None

ASSUME JobAssumption == Parallel \subseteq Job /\ Sbatch \subseteq Job
ASSUME ProcAssumption == Req \intersect Timer = {}
ASSUME BoundAssumption == MaxOp \in Nat /\ MaxClock \in Nat /\ CpuSlots \in Nat \ {0}
Op == 1..MaxOp
Proc == Req \union Timer

OpName == {"run", "run_status", "analysis", "io", "cancel"}
SlotOps == {"run", "analysis", "io"}     \* job.SLOT_OPS
CpuSlotOps == {"run", "analysis"}        \* job.CPU_SLOT_OPS
ControlOps == {"run", "run_status"}      \* may be a job's _run_status_op

Active == {"pending", "running"}
Exit == {"canceled", "completed", "error", "missing", "job_run_purged"}
Status == Active \union Exit

\* The driver an operation is assigned to: one per user for each kind.
KindOf(j, n) ==
    IF j \in Sbatch THEN "sbatch"
    ELSE IF j \in Parallel /\ n # "analysis" THEN "parallel"
    ELSE "sequential"

Kind == {KindOf(j, n) : j \in Job, n \in OpName}

\* Slot queues: one per driver and slot op, one per job, one per driver.
Queue == {<<"op", k, n>> : k \in Kind, n \in SlotOps}
            \union {<<"run_dir", j>> : j \in Job}
            \union {<<"cpu", k>> : k \in Kind}

Size(q) == IF q[1] = "cpu" THEN CpuSlots ELSE 1

\* How an agent may answer an operation.
Answer(n) ==
    CASE n = "run"        -> {"ok", "error"}
      [] n = "run_status" -> Active \union {"completed", "error", "canceled",
                                            "unknown", "unknown_error"}
      [] n \in {"analysis", "io"} -> {"ok", "error", "error_code", "run_dir_not_found"}
      [] n = "cancel"     -> {"ok"}

Answers == UNION {Answer(n) : n \in OpName}

Api == {"api_runSimulation", "api_runStatus", "api_runCancel",
        "api_simulationFrame", "api_downloadRunFile", "api_analysisJob"}

ASSUME ApisAssumption == Apis \subseteq Api

\* Where a coroutine is, and what it does with the result of a send.
Pc == Api \union
      {"idle", "start_run", "run_status", "status_reply", "agent_ready",
       "agent_ready_again", "awaitAgent", "awaitAgentAgain", "agentSet",
       "agentSetAgain", "alloc", "awaitSlot", "send", "awaitReply", "returned", "raise"}
Cont == {"run", "run_status", "result", "single", "cancel"}

\* None is nothing else.
ASSUME NoneAssumption ==
    /\ None \notin Job \union Hash \union Req \union Timer \union Op
    /\ None \notin OpName \union Answers \union Cont \union {"null"}

VARIABLES
    db,         \* db[j]: the job's persistent record and its _run_status_op
    delivered,  \* the jobs whose current run an agent has been told about
    op,         \* op[o]: the operation with id o
    holders,    \* holders[q]: operations a slot of q was handed to
    waiters,    \* waiters[q]: operations in line for a slot of q
    driver,     \* driver[k]: what operations see of a driver
    co,         \* co[p]: frame of coroutine p
    running,    \* the coroutine that has the event loop, or None
    clock       \* the last computeJobSerial given out

jobVars == <<db, delivered, clock>>
slotVars == <<holders, waiters>>
vars == <<db, delivered, op, holders, waiters, driver, co, running, clock>>

NoOp == [name |-> None, job |-> None, kind |-> None, alive |-> FALSE,
         prepared |-> FALSE, timer |-> FALSE, atAgent |-> FALSE, reply |-> None]

IdleFrame == [pc |-> "idle", job |-> None, hash |-> None, serial |-> 0,
              force |-> FALSE, run |-> FALSE, op |-> None, cont |-> None,
              step |-> 1, awaited |-> FALSE, fresh |-> FALSE, ret |-> None]

\* An agent may have been started that lives; `starting' is that _websocket_ready_timeout is set.
NoAgent == [started |-> FALSE, starting |-> FALSE, ready |-> FALSE, socket |-> FALSE,
            freeing |-> FALSE]

Init ==
    /\ db = [j \in Job |-> [loaded |-> FALSE, status |-> "missing", serial |-> 0,
                            hash |-> None, runStatusOp |-> None]]
    /\ delivered = {}
    /\ op = [o \in Op |-> NoOp]
    /\ holders = [q \in Queue |-> {}]
    /\ waiters = [q \in Queue |-> <<>>]
    /\ driver = [k \in Kind |-> NoAgent]
    /\ co = [p \in Proc |-> IdleFrame]
    /\ running = None
    /\ clock = 0

-----------------------------------------------------------------------------
\* Helpers on operations and slots.

\* Wrong: analysis and io do not take the run directory.
NeedNoRunDir(o) ==
    LET n == op[o].name
        k == op[o].kind
    IN  CASE n = "run"      -> << <<"op", k, n>>, <<"run_dir", op[o].job>>, <<"cpu", k>> >>
          [] n = "analysis" -> << <<"op", k, n>>, <<"cpu", k>> >>
          [] n = "io"       -> << <<"op", k, n>> >>
          [] OTHER          -> <<>>

\* The slots an operation allocates, in the order _slots_ready takes them.
Need(o) ==
    LET n == op[o].name
        k == op[o].kind
    IN  CASE n \in CpuSlotOps -> << <<"op", k, n>>, <<"run_dir", op[o].job>>, <<"cpu", k>> >>
          [] n = "io"         -> << <<"op", k, n>>, <<"run_dir", op[o].job>> >>
          [] OTHER            -> <<>>

\* o's coroutine awaits a slot of q, handed over or not.
AwaitsSlot(o, q) ==
    \E p \in Proc : /\ co[p].op = o /\ co[p].pc = "awaitSlot"
                    /\ Need(o)[co[p].step] = q

\* Wrong: nobody in line is woken.
PassedNone(q, back) == 0

\* Operations of `back' give back a slot of q: to the first waiters, if any.
Passed(q, back) ==
    LET room == Size(q) - Cardinality(holders[q] \ back)
    IN  IF room < Len(waiters[q]) THEN room ELSE Len(waiters[q])

GiveBack(back) ==
    /\ holders' = [q \in Queue |-> (holders[q] \ back[q])
                       \union {waiters[q][i] : i \in 1..Passed(q, back[q])}]
    /\ waiters' = [q \in Queue |->
                       SubSeq(waiters[q], Passed(q, back[q]) + 1, Len(waiters[q]))]

\* Wrong: the cpu slot is forgotten.
SlotsOfButCpu(S) ==
    [q \in Queue |-> IF q[1] = "cpu" THEN {} ELSE {o \in holders[q] \intersect S : ~AwaitsSlot(o, q)}]

\* The slots _Op.destroy of the operations in S frees: those whose alloc
\* returned.  A slot just handed to a suspended alloc is not among them.
SlotsOf(S) == [q \in Queue |-> {o \in holders[q] \intersect S : ~AwaitsSlot(o, q)}]

\* op after _Op.destroy of S, when coroutine p no longer refers to its op:
\* an operation some coroutine still refers to remains as a tombstone whose
\* reply queue ends with a null.
OpsWithout(S, p) ==
    [o \in Op |->
        IF o \notin S THEN op[o]
        ELSE IF \E q \in Proc \ {p} : co[q].op = o
        THEN [op[o] EXCEPT !.alive = FALSE, !.prepared = FALSE,
                           !.timer = FALSE, !.atAgent = FALSE,
                           !.reply = IF @ = None THEN "null" ELSE @]
        ELSE NoOp]

\* Wrong: destroy_op does not reset _run_status_op, or not to None.
ReleasedNever(d, S) == d
ReleasedToZero(d, S) == [d EXCEPT !.runStatusOp = IF @ \in S THEN 0 ELSE @]

\* A job's record after destroy_op of S.
Released(d, S) == [d EXCEPT !.runStatusOp = IF @ \in S THEN None ELSE @]

\* The operations _db_status_update(status=s) of job j destroys.
Ended(j, s) == IF s \in Active THEN {} ELSE {db[j].runStatusOp} \ {None}

\* Wrong: dbUpdateTime is not compared.
TouchedNever(frames, j) == frames

\* Frames after dbUpdateTime of job j changed: whoever compares it with the
\* value read before finds a difference.
Touched(frames, j) ==
    [p \in Proc |-> IF frames[p].job = j THEN [frames[p] EXCEPT !.fresh = FALSE]
                    ELSE frames[p]]

\* Frames after p entered or left a wait for a slot, which set_situation
\* writes to the record of a run.
Waited(p) == IF op[co[p].op].name = "run" THEN Touched(co, co[p].job) ELSE co

\* A fresh operation id.
Fresh(o) == op[o] = NoOp /\ \A x \in Op : x < o => op[x] # NoOp

NewOp(n, j, k) == [NoOp EXCEPT !.name = n, !.job = j, !.kind = k, !.alive = TRUE]

\* A request's computeJobHash and computeJobSerial match the job's.
ReqIsValid(f) ==
    /\ db[f.job].hash = f.hash
    /\ f.serial = 0 \/ f.serial = db[f.job].serial

\* p has the event loop and is at pc.
At(p, pc) == running = p /\ co[p].pc = pc

\* The frame that sends operation o and then continues at cont.
Sending(f, o, cont) ==
    [f EXCEPT !.pc = "agent_ready", !.op = o, !.cont = cont, !.step = 1,
              !.awaited = FALSE, !.ret = None]

\* p's request is answered.
Finished(p) == [co EXCEPT ![p] = IdleFrame]

-----------------------------------------------------------------------------
\* Requests.

\* _create: a job that was left active by an earlier supervisor is canceled,
\* except under sbatch, whose first runStatus asks the agent.
Loaded(j, hash) ==
    [db[j] EXCEPT !.loaded = TRUE,
                  !.hash = IF @ = None THEN hash ELSE @,
                  !.status = IF @ \in Active /\ j \notin Sbatch THEN "canceled" ELSE @]

\* process_request: find or load the job, then run the api's handler.
Receive(p, a, j, hash, serial, force) ==
    /\ running = None
    /\ co[p].pc = "idle"
    /\ force => a = "api_runSimulation"
    \* bound: the runs that busy requests may still start
    /\ a = "api_runSimulation" => clock + Cardinality({q \in Req : co[q].run}) < MaxClock
    /\ db' = [db EXCEPT ![j] = IF @.loaded THEN @ ELSE Loaded(j, hash)]
    /\ co' = [co EXCEPT ![p] = [IdleFrame EXCEPT
                  !.pc = a, !.job = j, !.hash = hash, !.serial = serial,
                  !.force = force, !.run = a = "api_runSimulation"]]
    /\ running' = p
    /\ UNCHANGED <<delivered, op, slotVars, driver, clock>>

\* p replies without touching anything.
Reply(p) ==
    /\ co' = Finished(p)
    /\ running' = None
    /\ UNCHANGED <<jobVars, op, slotVars, driver>>

Goto(p, pc) ==
    /\ co' = [co EXCEPT ![p].pc = pc]
    /\ UNCHANGED <<jobVars, op, slotVars, driver, running>>

\* Wrong: an active run is not looked at.
RunSimulationAlways(p) ==
    LET f == co[p]
    IN  /\ At(p, "api_runSimulation")
        /\ IF db[f.job].status = "completed" /\ ~f.force /\ ReqIsValid(f)
           THEN Goto(p, "run_status")
           ELSE Goto(p, "start_run")

\* _valid_or_reply of _receive_api_runSimulation.
RunSimulation(p) ==
    LET f == co[p]
        j == f.job
    IN  /\ At(p, "api_runSimulation")
        /\ \/ db[j].status \in Active /\ Reply(p)
           \/ /\ db[j].status = "completed" /\ ~f.force /\ ReqIsValid(f)
              /\ Goto(p, "run_status")
           \/ /\ db[j].status \notin Active
              /\ db[j].status = "completed" => f.force \/ ~ReqIsValid(f)
              /\ Goto(p, "start_run")

\* _update_db and the creation of OP_RUN, which controls the job from here.
\* That no other operation does (line 1003) is a consequence of OneController.
StartRun(p) ==
    LET f == co[p]
        j == f.job
        t == clock + 1
    IN  /\ At(p, "start_run")
        /\ \E o \in Op :
              /\ Fresh(o)
              /\ op' = [op EXCEPT ![o] = NewOp("run", j, KindOf(j, "run"))]
              /\ db' = [db EXCEPT ![j] = [@ EXCEPT !.hash = f.hash, !.serial = t,
                                              !.status = "pending", !.runStatusOp = o]]
              /\ co' = [Touched(co, j) EXCEPT ![p] =
                            [Sending(f, o, "run") EXCEPT !.serial = t, !.fresh = TRUE,
                                                         !.run = FALSE, !.force = FALSE]]
        /\ clock' = t
        /\ delivered' = delivered \ {j}
        /\ UNCHANGED <<slotVars, driver, running>>

\* Wrong: the agent is asked although somebody else already does.
RunStatusAlways(p) ==
    LET f == co[p]
        j == f.job
    IN  /\ At(p, "run_status") \/ At(p, "api_runStatus")
        /\ IF db[j].status \in Active
           THEN /\ \E o \in Op :
                      /\ Fresh(o)
                      /\ op' = [op EXCEPT ![o] = NewOp("run_status", j, KindOf(j, "run_status"))]
                      /\ db' = [db EXCEPT ![j].runStatusOp = o]
                      /\ co' = [co EXCEPT ![p] =
                                    [Sending(f, o, "run_status") EXCEPT !.fresh = TRUE]]
                /\ UNCHANGED <<delivered, slotVars, driver, running, clock>>
           ELSE Goto(p, "status_reply")

\* _receive_api_runStatus up to _status_reply: ask the agent when nobody does.
RunStatus(p) ==
    LET f == co[p]
        j == f.job
    IN  /\ \/ At(p, "run_status")
           \/ At(p, "api_runStatus")
        /\ IF db[j].status \in Active /\ db[j].runStatusOp = None
           THEN /\ \E o \in Op :
                      /\ Fresh(o)
                      /\ op' = [op EXCEPT ![o] = NewOp("run_status", j, KindOf(j, "run_status"))]
                      /\ db' = [db EXCEPT ![j].runStatusOp = o]
                      /\ co' = [co EXCEPT ![p] =
                                    [Sending(f, o, "run_status") EXCEPT !.fresh = TRUE]]
                /\ UNCHANGED <<delivered, slotVars, driver, running, clock>>
           ELSE Goto(p, "status_reply")

\* p creates operation n and sends it.
SendOp(p, f, n, cont) ==
    LET j == f.job
    IN  /\ \E o \in Op :
              /\ Fresh(o)
              /\ op' = [op EXCEPT ![o] = NewOp(n, j, KindOf(j, n))]
              /\ co' = [co EXCEPT ![p] = Sending(f, o, cont)]
        /\ UNCHANGED <<jobVars, slotVars, driver, running>>

\* The rest of _receive_api_runStatus: the result of a sequential job is read
\* by an analysis operation.
StatusReply(p) ==
    LET f == co[p]
    IN  /\ At(p, "status_reply")
        /\ IF f.job \notin Parallel /\ ReqIsValid(f) /\ db[f.job].status = "completed"
           THEN SendOp(p, f, "analysis", "result")
           ELSE Reply(p)

\* What a frame still needs when only the reply of one operation is left.
Only(f) == [IdleFrame EXCEPT !.pc = f.pc, !.job = f.job, !.hash = f.hash]

\* simulationFrame, downloadRunFile, and the apis that only run an analysis.
ReadData(p) ==
    LET f == co[p]
        gone == db[f.job].status \in {"missing", "job_run_purged"}
        Send1(n) == SendOp(p, Only(f), n, "single")
    IN  \/ /\ At(p, "api_simulationFrame")
           /\ IF gone \/ ~ReqIsValid(f) THEN Reply(p) ELSE Send1("analysis")
        \/ /\ At(p, "api_downloadRunFile")
           /\ IF gone THEN Reply(p) ELSE Send1("io")
        \/ /\ At(p, "api_analysisJob")
           /\ Send1("analysis")

\* Wrong: what is destroyed keeps its slots.
CancelJobKeepsSlots(p, f, j, k, S) ==
    /\ \E c \in Op :
          /\ Fresh(c)
          /\ op' = [OpsWithout(S, p) EXCEPT ![c] = NewOp("cancel", j, k)]
          /\ co' = [Touched(co, j) EXCEPT ![p] = Sending(f, c, "cancel")]
    /\ db' = [db EXCEPT ![j] = [Released(@, S) EXCEPT !.status = "canceled"]]
    /\ running' = p
    /\ UNCHANGED <<delivered, slotVars, driver, clock>>

\* _cancel_op_or_job: destroy the operations in S, cancel job j, and send an
\* OP_CANCEL to the agent from frame f of coroutine p.
CancelJob(p, f, j, k, S) ==
    /\ \E c \in Op :
          /\ Fresh(c)
          /\ op' = [OpsWithout(S, p) EXCEPT ![c] = NewOp("cancel", j, k)]
          /\ co' = [Touched(co, j) EXCEPT ![p] = Sending(f, c, "cancel")]
    /\ db' = [db EXCEPT ![j] = [Released(@, S) EXCEPT !.status = "canceled"]]
    /\ GiveBack(SlotsOf(S))
    /\ running' = p
    /\ UNCHANGED <<delivered, driver, clock>>

\* _receive_api_runCancel.
RunCancel(p) ==
    LET f == co[p]
        j == f.job
    IN  /\ At(p, "api_runCancel")
        /\ IF ReqIsValid(f) /\ db[j].status \in Active
           THEN CancelJob(p, Only(f), j, KindOf(j, "cancel"), Ended(j, "canceled"))
           ELSE Reply(p)

\* An operation was not done after max_run_secs: op_send_timeout.
OpTimeout(p, o) ==
    LET j == op[o].job
    IN  /\ running = None
        /\ co[p].pc = "idle"
        /\ op[o].alive /\ op[o].timer
        /\ CancelJob(p, [IdleFrame EXCEPT !.job = j], j, op[o].kind,
                     {o} \union Ended(j, "canceled"))

-----------------------------------------------------------------------------
(***************************************************************************)
(* Sending an operation: _send_with_reply and DriverBase.prepare_send.     *)
(***************************************************************************)

\* The event loop resumes p, which awaited at pc.
Woken(p, pc) == running = None /\ co[p].pc = pc

\* p goes on after the event loop resumed it.
Resume(p, pc) ==
    /\ co' = [co EXCEPT ![p].pc = pc]
    /\ running' = p
    /\ UNCHANGED <<jobVars, op, slotVars, driver>>

\* _agent_ready: start the agent, unless it is starting, and await its websocket.  A second
\* _agent_ready follows slots that had to be awaited.
AgentReady(p) ==
    LET k == op[co[p].op].kind
        again == co[p].pc = "agent_ready_again"
    IN  /\ running = p
        /\ co[p].pc \in {"agent_ready", "agent_ready_again"}
        /\ \/ /\ driver[k].ready
              /\ Goto(p, IF again THEN "send" ELSE "alloc")
           \/ /\ ~driver[k].ready
              /\ driver' = IF driver[k].starting THEN driver
                           ELSE [driver EXCEPT ![k].started = TRUE, ![k].starting = TRUE]
              /\ co' = [co EXCEPT ![p].pc = IF again THEN "awaitAgentAgain" ELSE "awaitAgent"]
              /\ running' = None
              /\ UNCHANGED <<jobVars, op, slotVars>>

\* Sbatch's prepare_send has no credentials: the browser must log in.
SbatchLoginNeeded(p) ==
    /\ At(p, "agent_ready")
    /\ op[co[p].op].kind = "sbatch"
    /\ Goto(p, "raise")

\* _do_agent_start raises in the coroutine that starts the agent; who else awaits the agent is
\* not told.  The timer goes on.
AgentStartFails(p) ==
    LET k == op[co[p].op].kind
    IN  /\ running = None
        /\ co[p].pc \in {"awaitAgent", "awaitAgentAgain"}
        /\ ~driver[k].ready
        /\ driver[k].starting \/ driver[k].freeing
        /\ \E lives \in {FALSE, driver[k].started} :
              driver' = [driver EXCEPT ![k].started = lives, ![k].freeing = TRUE]
        /\ co' = [co EXCEPT ![p].pc = "raise"]
        /\ running' = p
        /\ UNCHANGED <<jobVars, op, slotVars>>

\* The agent's websocket became ready while p awaited it.
AgentWoken(p) ==
    /\ running = None
    /\ co[p].pc \in {"agentSet", "agentSetAgain"}
    /\ Resume(p, IF ~op[co[p].op].alive THEN "returned"
                 ELSE IF co[p].pc = "agentSet" THEN "alloc" ELSE "send")

\* SlotProxy.alloc of one slot after the other: take the free ones, line up
\* for the first that is not.  With all slots, look at the agent again if any
\* of them was awaited.
AllocSlots(p) ==
    LET f == co[p]
        need == Need(f.op)
        Free(i) == Cardinality(holders[need[i]]) < Size(need[i])
        taken == {i \in f.step..Len(need) : \A n \in f.step..i : Free(n)}
        next == f.step + Cardinality(taken)
    IN  /\ At(p, "alloc")
        /\ holders' = [q \in Queue |-> IF \E i \in taken : q = need[i]
                                       THEN holders[q] \union {f.op} ELSE holders[q]]
        /\ \/ /\ next <= Len(need)
              /\ waiters' = [waiters EXCEPT ![need[next]] = Append(@, f.op)]
              /\ co' = [Waited(p) EXCEPT ![p].pc = "awaitSlot", ![p].step = next]
              /\ running' = None
           \/ /\ next > Len(need)
              /\ co' = [co EXCEPT ![p].step = 1, ![p].awaited = FALSE,
                            ![p].pc = IF f.awaited THEN "agent_ready_again" ELSE "send"]
              /\ UNCHANGED <<waiters, running>>
        /\ UNCHANGED <<jobVars, op, driver>>

\* The event loop resumes an alloc that was handed its slot.  If p's operation
\* was destroyed meanwhile, the slot goes back; but _slots_ready evaluates
\* op.<next>_slot.alloc before it looks at OP_IS_DESTROYED, and destroy has
\* removed those attributes.
SlotGranted(p) ==
    LET f == co[p]
        q == Need(f.op)[f.step]
    IN  /\ Woken(p, "awaitSlot")
        /\ f.op \in holders[q]
        /\ running' = p
        /\ IF op[f.op].alive
           THEN /\ co' = [Waited(p) EXCEPT ![p].pc = "alloc", ![p].step = @ + 1,
                                           ![p].awaited = TRUE]
                /\ UNCHANGED slotVars
           ELSE /\ co' = [Waited(p) EXCEPT
                            ![p].pc = IF f.step < Len(Need(f.op)) THEN "raise" ELSE "returned"]
                /\ GiveBack([x \in Queue |-> IF x = q THEN {f.op} ELSE {}])
        /\ UNCHANGED <<jobVars, op, driver>>

\* _Op.send: the operation is registered with the driver and gets its timer;
\* writing to a closed websocket fails.
Send(p) ==
    LET o == co[p].op
        k == op[o].kind
        sent == driver[k].socket
    IN  /\ At(p, "send")
        /\ op' = [op EXCEPT ![o].prepared = TRUE, ![o].atAgent = sent,
                            ![o].timer = k # "sbatch" /\ op[o].name # "cancel"]
        /\ delivered' = IF sent /\ op[o].name \in ControlOps
                        THEN delivered \union {op[o].job} ELSE delivered
        /\ co' = [co EXCEPT ![p].pc = IF sent THEN "awaitReply" ELSE "returned"]
        /\ running' = IF sent THEN None ELSE p
        /\ UNCHANGED <<db, slotVars, driver, clock>>

-----------------------------------------------------------------------------
(***************************************************************************)
(* The result of an operation, as the code that sent it uses it.           *)
(***************************************************************************)

\* p destroys the operations in S and goes on with frame f.
Destroy(p, S, f) ==
    /\ op' = OpsWithout(S, p)
    /\ GiveBack(SlotsOf(S))
    /\ db' = [db EXCEPT ![co[p].job] = Released(@, S)]
    /\ co' = [co EXCEPT ![p] = f]
    /\ running' = IF f.pc = "idle" THEN None ELSE p
    /\ UNCHANGED <<delivered, driver, clock>>

\* The same, and p writes record d of its job (_db_status_update).
Write(p, S, f, d) ==
    /\ op' = OpsWithout(S, p)
    /\ GiveBack(SlotsOf(S))
    /\ db' = [db EXCEPT ![co[p].job] = Released(d, S)]
    /\ co' = [Touched(co, co[p].job) EXCEPT ![p] = f]
    /\ running' = IF f.pc = "idle" THEN None ELSE p
    /\ UNCHANGED <<delivered, driver, clock>>

WithStatus(j, s) == [db[j] EXCEPT !.status = s]

\* _init_db_missing_response for p's request.
Missing(p) ==
    [db[co[p].job] EXCEPT !.status = "missing", !.serial = 0, !.hash = co[p].hash]

\* p's operation, if it still has one.
OwnOp(p) == {co[p].op} \ {None}

\* p's frame at pc when it is done with its operation.
Without(p, pc) == [co[p] EXCEPT !.pc = pc, !.op = None, !.cont = None, !.fresh = FALSE,
                                !.ret = None]

\* reply_get returns in _send_with_reply, which looks for runDirNotFound and
\* gives up the run directory if the operation still controls the job.
ReplyGot(p) ==
    LET o == co[p].op
        j == co[p].job
        r == op[o].reply
    IN  /\ Woken(p, "awaitReply")
        /\ r # None
        /\ \/ r = "null" /\ Resume(p, "returned")
           \/ /\ r = "run_dir_not_found"
              /\ Write(p, {o} \union Ended(j, "missing"),
                       [co[p] EXCEPT !.pc = "returned", !.op = None, !.ret = "missing"],
                       Missing(p))
           \/ /\ r \notin {"null", "run_dir_not_found"}
              /\ co' = [co EXCEPT ![p].pc = "returned", ![p].ret = r]
              /\ running' = p
              /\ IF db[j].runStatusOp = o
                 THEN GiveBack([q \in Queue |-> IF q = <<"run_dir", j>> THEN {o} ELSE {}])
                 ELSE UNCHANGED slotVars
              /\ UNCHANGED <<jobVars, op, driver>>

\* p's send of an operation for cont is over.
Returned(p, cont) == At(p, "returned") /\ co[p].cont = cont

\* The rest of _receive_api_runSimulation.
ReturnRun(p) ==
    LET f == co[p]
        j == f.job
        inControl == db[j].runStatusOp = f.op
    IN  /\ Returned(p, "run")
        /\ \/ /\ f.ret = None \/ (f.ret = "ok" /\ ~inControl) \/ (f.ret = "error" /\ ~f.fresh)
              /\ Destroy(p, OwnOp(p), IdleFrame)
           \/ /\ f.ret = "error" /\ f.fresh
              /\ Write(p, OwnOp(p) \union Ended(j, "error"), IdleFrame, WithStatus(j, "error"))
           \/ /\ f.ret = "ok" /\ inControl
              /\ Destroy(p, {}, Without(p, "run_status"))

\* The rest of _start_run_status_op.
ReturnRunStatus(p) ==
    LET f == co[p]
        j == f.job
        inControl == db[j].runStatusOp = f.op /\ f.fresh
        next == Without(p, "status_reply")
    IN  /\ Returned(p, "run_status")
        /\ \/ /\ f.ret = None \/ ~inControl
              /\ Destroy(p, OwnOp(p), next)
           \/ /\ f.ret = "unknown" /\ inControl
              /\ Destroy(p, {}, next)
           \/ /\ f.ret = "unknown_error" /\ inControl
              /\ IF db[j].status \in Active
                 THEN Write(p, OwnOp(p), next, WithStatus(j, "error"))
                 ELSE Destroy(p, OwnOp(p), next)
           \/ /\ f.ret \notin {None, "unknown", "unknown_error"} /\ inControl
              /\ Write(p, OwnOp(p) \union Ended(j, f.ret), next, WithStatus(j, f.ret))

\* Wrong: the operation of a single reply is not destroyed.
ReturnSingleKept(p) ==
    /\ Returned(p, "single") \/ Returned(p, "cancel")
    /\ Destroy(p, {}, IdleFrame)

\* The rest of _send_with_single_reply, and of _cancel_op_or_job.
ReturnSingle(p) ==
    /\ Returned(p, "single") \/ Returned(p, "cancel")
    /\ Destroy(p, OwnOp(p), IdleFrame)

\* The rest of _receive_api_runStatus, and of _valid_or_reply, which starts the
\* run again when its result is missing.
ReturnResult(p) ==
    LET f == co[p]
        next == IF f.run THEN Without(p, "api_runSimulation") ELSE IdleFrame
    IN  /\ Returned(p, "result")
        /\ \/ /\ f.ret = "error"
              /\ Write(p, OwnOp(p) \union Ended(f.job, "missing"), next, Missing(p))
           \/ f.ret = "missing" /\ Destroy(p, OwnOp(p), next)
           \/ f.ret \notin {"error", "missing"} /\ Destroy(p, OwnOp(p), IdleFrame)

\* An exception leaves _send_with_reply or _cancel_op_or_job; a run that nobody
\* else has touched is marked.
Raise(p) ==
    LET f == co[p]
    IN  /\ At(p, "raise")
        /\ IF f.cont = "run" /\ f.fresh
           THEN Write(p, OwnOp(p) \union Ended(f.job, "error"), IdleFrame,
                      WithStatus(f.job, "error"))
           ELSE Destroy(p, OwnOp(p), IdleFrame)

-----------------------------------------------------------------------------
(***************************************************************************)
(* Agents and drivers.                                                     *)
(***************************************************************************)

\* _agent_receive_alive: an agent connects, or connects again; everybody who
\* awaits the driver's websocket will be resumed.
AgentAlive(k) ==
    /\ running = None
    /\ driver[k].started /\ ~driver[k].socket
    /\ driver' = [driver EXCEPT ![k].starting = FALSE, ![k].ready = TRUE, ![k].socket = TRUE]
    /\ co' = [p \in Proc |->
                 IF co[p].op = None \/ op[co[p].op].kind # k THEN co[p]
                 ELSE CASE co[p].pc = "awaitAgent" -> [co[p] EXCEPT !.pc = "agentSet"]
                        [] co[p].pc = "awaitAgentAgain" -> [co[p] EXCEPT !.pc = "agentSetAgain"]
                        [] OTHER -> co[p]]
    /\ UNCHANGED <<jobVars, op, slotVars, running>>

\* websocket_on_close: the driver is ready until free_resources runs.
SocketClose(k) ==
    /\ running = None
    /\ driver[k].socket
    /\ driver' = [driver EXCEPT ![k].socket = FALSE, ![k].freeing = TRUE]
    /\ UNCHANGED <<jobVars, op, slotVars, co, running>>

\* _kill_if_idle of local and docker agents.
KillIfIdle(k) ==
    /\ running = None
    /\ k # "sbatch" /\ driver[k].ready /\ ~driver[k].starting
    /\ \A o \in Op : ~(op[o].prepared /\ op[o].kind = k)
    /\ driver' = [driver EXCEPT ![k].freeing = TRUE]
    /\ UNCHANGED <<jobVars, op, slotVars, co, running>>

\* _websocket_ready_timeout_handler: the agent did not start in time.
ReadyTimeout(k) ==
    /\ running = None
    /\ driver[k].starting /\ ~driver[k].ready
    /\ driver' = [driver EXCEPT ![k].starting = FALSE, ![k].freeing = TRUE]
    /\ UNCHANGED <<jobVars, op, slotVars, co, running>>

\* free_resources: every operation registered with the driver is destroyed.  The kill ends the
\* agent or not: sbatch tells it over a websocket only, and a local process that another was
\* started over is not known any more.  Who awaits _websocket_ready is not told.
FreeResources(k) ==
    LET S == {o \in Op : op[o].prepared /\ op[o].kind = k}
    IN  /\ running = None
        /\ driver[k].freeing
        /\ \E lives \in {FALSE, driver[k].started} :
              driver' = [driver EXCEPT ![k] = [NoAgent EXCEPT !.started = lives]]
        /\ op' = OpsWithout(S, None)
        /\ db' = [j \in Job |-> Released(db[j], S)]
        /\ GiveBack(SlotsOf(S))
        /\ UNCHANGED <<delivered, co, running, clock>>

\* The agent replies to o; only operations registered with the driver listen.
AgentReply(o, r) ==
    /\ running = None
    /\ op[o].atAgent /\ op[o].reply = None
    /\ r \in Answer(op[o].name)
    /\ op' = [op EXCEPT ![o].reply = r]
    /\ UNCHANGED <<jobVars, slotVars, driver, co, running>>

\* Wrong: a report changes the state of a run that has ended.
AgentUpdateAlways(j, s) ==
    LET S == Ended(j, s)
    IN  /\ running = None
        /\ db[j].loaded /\ j \in delivered
        /\ driver[KindOf(j, "run")].socket
        /\ op' = OpsWithout(S, None)
        /\ GiveBack(SlotsOf(S))
        /\ db' = [db EXCEPT ![j] = Released(WithStatus(j, s), S)]
        /\ co' = Touched(co, j)
        /\ UNCHANGED <<delivered, driver, running, clock>>

\* _process_run_status_update: an agent reports the state of the current run
\* (_process_run_status_update ignores other serials), or an error.
AgentUpdate(j, s) ==
    LET t == IF db[j].status \in Exit THEN db[j].status ELSE s
        S == Ended(j, t)
    IN  /\ running = None
        /\ db[j].loaded /\ j \in delivered
        /\ driver[KindOf(j, "run")].socket
        /\ op' = OpsWithout(S, None)
        /\ GiveBack(SlotsOf(S))
        /\ db' = [db EXCEPT ![j] = Released(WithStatus(j, t), S)]
        /\ co' = Touched(co, j)
        /\ UNCHANGED <<delivered, driver, running, clock>>

(***************************************************************************)
(* The life of a _ComputeJob and of the supervisor.                        *)
(***************************************************************************)

\* cache_timeout: forget a job without operations and requests.
CacheTimeout(j) ==
    /\ running = None
    /\ db[j].loaded
    /\ \A p \in Req : co[p].job # j
    /\ \A o \in Op : op[o].alive /\ op[o].job = j => op[o].name = "cancel"
    /\ db' = [db EXCEPT ![j].loaded = FALSE]
    /\ UNCHANGED <<delivered, clock, op, slotVars, driver, co, running>>

\* purge_non_paid removes the run of a job that is not in memory.
Purge(j) ==
    /\ running = None
    /\ ~db[j].loaded
    /\ db[j].hash # None /\ db[j].status # "job_run_purged"
    /\ db' = [db EXCEPT ![j].status = "job_run_purged", ![j].serial = 0]
    /\ UNCHANGED <<delivered, clock, op, slotVars, driver, co, running>>

\* The supervisor stops, between any two steps, and starts again: only the
\* records and the jobs in the batch system survive.
Restart ==
    /\ db' = [j \in Job |-> [db[j] EXCEPT !.loaded = FALSE, !.runStatusOp = None]]
    /\ delivered' = delivered \intersect Sbatch
    /\ op' = [o \in Op |-> NoOp]
    /\ holders' = [q \in Queue |-> {}]
    /\ waiters' = [q \in Queue |-> <<>>]
    /\ driver' = [k \in Kind |-> NoAgent]
    /\ co' = [p \in Proc |-> IdleFrame]
    /\ running' = None
    /\ UNCHANGED clock

-----------------------------------------------------------------------------
Request(p) ==
    \E a \in Apis, j \in Job, h \in Hash, serial \in {0, clock}, force \in BOOLEAN :
        Receive(p, a, j, h, serial, force)

Handle(p) ==
    \/ RunSimulation(p) \/ StartRun(p) \/ RunStatus(p) \/ StatusReply(p)
    \/ ReadData(p) \/ RunCancel(p)

\* The coroutine that sends an operation.
SendSteps(p) ==
    \/ AgentReady(p) \/ AgentWoken(p) \/ AllocSlots(p) \/ SlotGranted(p)
    \/ Send(p) \/ ReplyGot(p)

Return(p) ==
    \/ ReturnRun(p) \/ ReturnRunStatus(p) \/ ReturnSingle(p) \/ ReturnResult(p) \/ Raise(p)

Step(p) == Handle(p) \/ SendSteps(p) \/ Return(p)

Environment ==
    \/ \E k \in Kind : AgentAlive(k) \/ SocketClose(k) \/ KillIfIdle(k) \/ ReadyTimeout(k)
                       \/ FreeResources(k)
    \/ \E o \in {x \in Op : op[x].atAgent} : \E r \in Answer(op[o].name) : AgentReply(o, r)
    \/ \E j \in Job, s \in Active \union {"completed", "error"} : AgentUpdate(j, s)
    \/ \E j \in Job : CacheTimeout(j) \/ Purge(j)
    \/ Restart

Next ==
    \/ \E p \in Req : Request(p)
    \/ \E p \in Timer, o \in Op : OpTimeout(p, o)
    \/ \E p \in Proc : Step(p) \/ SbatchLoginNeeded(p) \/ AgentStartFails(p)
    \/ Environment

(***************************************************************************)
(* Fairness: the event loop resumes every coroutine that can go on, calls  *)
(* back every expired timer and scheduled callback, so that free_resources *)
(* ends (AgentDriver); an agent that is connected answers OP_CANCEL        *)
(* (pkcli/job_agent.py _op_cancel does so at once).  Nothing is assumed of *)
(* its other answers, nor that an agent that is started ever connects.     *)
(***************************************************************************)
CancelAnswered ==
    \E o \in Op : op[o].name = "cancel" /\ driver[op[o].kind].socket /\ AgentReply(o, "ok")

Fairness ==
    /\ WF_vars(\E p \in Proc : running = p /\ Step(p))
    /\ \A p \in Proc : SF_vars(AgentWoken(p) \/ SlotGranted(p) \/ ReplyGot(p))
    /\ SF_vars(\E p \in Timer, o \in Op : OpTimeout(p, o))
    /\ SF_vars(CancelAnswered)
    /\ \A k \in Kind : SF_vars(FreeResources(k))

Spec == Init /\ [][Next]_vars
FairSpec == Spec /\ Fairness

-----------------------------------------------------------------------------
JobRecord == [loaded : BOOLEAN, status : Status, serial : Nat, hash : Hash \union {None},
              runStatusOp : Op \union {None}]

OpRecord == [name : OpName \union {None}, job : Job \union {None}, kind : Kind \union {None},
             alive : BOOLEAN, prepared : BOOLEAN, timer : BOOLEAN, atAgent : BOOLEAN,
             reply : Answers \union {None, "null"}]

FrameRecord == [pc : Pc, job : Job \union {None}, hash : Hash \union {None}, serial : Nat,
                force : BOOLEAN, run : BOOLEAN, op : Op \union {None},
                cont : Cont \union {None}, step : Nat, awaited : BOOLEAN, fresh : BOOLEAN,
                ret : Answers \union {None, "missing"}]

DriverRecord == [started : BOOLEAN, starting : BOOLEAN, ready : BOOLEAN, socket : BOOLEAN,
                 freeing : BOOLEAN]

JobsOK ==
    /\ db \in [Job -> JobRecord]
    /\ delivered \subseteq Job
    /\ clock \in Nat

OpsOK == op \in [Op -> OpRecord]

FramesOK ==
    /\ co \in [Proc -> FrameRecord]
    /\ running \in Proc \union {None}

SlotsOK ==
    /\ holders \in [Queue -> SUBSET Op]
    /\ \A q \in Queue : Cardinality(holders[q]) <= Size(q)
    /\ waiters \in [Queue -> Seq(Op)]

DriversOK == driver \in [Kind -> DriverRecord]

TypeOK == JobsOK /\ OpsOK /\ FramesOK /\ SlotsOK /\ DriversOK

(***************************************************************************)
(* At most one live operation controls a job's run: it is the job's        *)
(* _run_status_op, it exists only while the run is active, and every live  *)
(* OP_RUN or OP_RUN_STATUS is it.  Otherwise two requests would write the  *)
(* status of one run, or line 1004 would raise its AssertionError.         *)
(***************************************************************************)
OneController ==
    /\ \A j \in Job : db[j].runStatusOp # None =>
          LET o == op[db[j].runStatusOp]
          IN  /\ o.alive /\ o.job = j /\ o.name \in ControlOps
              /\ db[j].loaded /\ db[j].status \in Active
    /\ \A o \in Op : op[o].alive /\ op[o].name \in ControlOps =>
          db[op[o].job].runStatusOp = o

(***************************************************************************)
(* Every live operation has somebody who will destroy it: the coroutine    *)
(* that sent it, or its job, whose run it controls.                        *)
(***************************************************************************)
NoOrphanOp ==
    \A o \in Op : op[o].alive =>
        (\E p \in Proc : co[p].op = o) \/ db[op[o].job].runStatusOp = o

(***************************************************************************)
(* A slot is held by a live operation, or was just handed to an alloc that *)
(* is about to be resumed: destroying operations in any state of their     *)
(* send leaves no slot behind.                                             *)
(***************************************************************************)
NoSlotLeak ==
    \A q \in Queue : \A o \in holders[q] : op[o].alive \/ AwaitsSlot(o, q)

(***************************************************************************)
(* Never do two live operations use the run directory of a job at once:    *)
(* simulation, analysis and download wait for each other, and a run keeps  *)
(* the directory until the agent says that it has started.                 *)
(***************************************************************************)
RunDirExclusive ==
    \A o1, o2 \in Op :
        /\ op[o1].atAgent /\ op[o1].reply = None /\ op[o1].name \in SlotOps
        /\ op[o2].atAgent /\ op[o2].reply = None /\ op[o2].name \in SlotOps
        /\ op[o1].job = op[o2].job
        => o1 = o2

(***************************************************************************)
(* The outcome of sending a run (its reply, or an exception) changes the   *)
(* status only of the run that was sent, not of one started since.         *)
(***************************************************************************)
RunOutcomeIsCurrent ==
    [][\A p \in Proc :
         running = p /\ co[p].cont = "run" /\ db'[co[p].job].status # db[co[p].job].status
         => db[co[p].job].serial = co[p].serial]_vars

Runs == INSTANCE RunLifecycle
            WITH run <- [j \in Job |-> [status |-> db[j].status, serial |-> db[j].serial]],
                 last <- clock

(***************************************************************************)
(* The records go through the life of a run that RunLifecycle promises.    *)
(***************************************************************************)
ImplementsRunLifecycle == Runs!Spec

AwaitsAgent(p) == co[p].pc \in {"awaitAgent", "awaitAgentAgain"}

(***************************************************************************)
(* Every request is answered in the end, unless some coroutine awaits an   *)
(* agent for good: an agent that is started may never connect, and         *)
(* free_resources does not tell those who await _websocket_ready that the  *)
(* start was given up.  Nothing else keeps a request: the operations of a  *)
(* user wait for each other's slots, and for replies that may never come   *)
(* of agents that come and go, in no cycle and with no wake-up lost.       *)
(***************************************************************************)
EveryRequestReplies ==
    (\A p \in Proc : []<>~AwaitsAgent(p)) =>
        \A p \in Req : co[p].pc # "idle" ~> co[p].pc = "idle"

(***************************************************************************)
(* The comment on timed_out_op in _cancel_op_or_job: a run or run_status   *)
(* operation that times out stops the job.  Other operations that time out *)
(* leave a finished run as it is.                                          *)
(***************************************************************************)
CompletedIsFinal ==
    [][\A j \in Job :
         db[j].status = "completed" /\ db'[j].status = "canceled"
         => db'[j].serial # db[j].serial]_vars

==============================================================================
