--------------------------- MODULE ComputeJobProofs ---------------------------
(***************************************************************************)
(* Proofs about ComputeJob for any jobs, requests, timers and bounds: one  *)
(* controller per run and no orphan operation.                             *)
(*                                                                         *)
(* None of it depends on slots and drivers: an operation may be sent,      *)
(* answered and destroyed at any time.  It depends on what a coroutine     *)
(* may still do with its operation and its job when it is resumed, which   *)
(* FrameInv says.                                                          *)
(***************************************************************************)
EXTENDS ComputeJob, FiniteSetTheorems, TLAPS

HandlerPc == Api \union {"start_run", "run_status", "status_reply"}
SendPc == {"agent_ready", "agent_ready_again", "awaitAgent", "awaitAgentAgain",
           "agentSet", "agentSetAgain", "alloc", "awaitSlot", "send", "awaitReply", "raise"}

\* An id is free, or stands for an operation with a name and a job.
OpInv ==
    \A o \in Op :
        op[o] = NoOp \/ /\ op[o].name \in OpName
                        /\ op[o].job \in Job
                        /\ op[o].kind \in Kind
                        /\ op[o].reply \in Answer(op[o].name) \union {None, "null"}

\* Who p is, where it is, and what its locals say of its operation.
Frame(p) ==
    /\ co[p].pc = "idle" => co[p] = IdleFrame
    /\ co[p].pc # "idle" => co[p].job \in Job
    /\ co[p].pc \in HandlerPc =>
          p \in Req /\ co[p].op = None /\ co[p].cont = None /\ ~co[p].fresh
    /\ co[p].fresh => co[p].cont \in {"run", "run_status"}
    /\ co[p].pc \in SendPc => co[p].op \in Op /\ co[p].cont \in Cont
    /\ co[p].pc = "returned" => co[p].cont \in Cont
    /\ p \in Req \/ co[p].pc = "idle" \/ co[p].cont = "cancel"
    /\ co[p].cont = "run_status" => co[p].ret \in Answer("run_status") \union {None}

\* The operation p refers to, destroyed or not, is the one p created.
Refers(p) ==
    co[p].op # None =>
        /\ op[co[p].op] # NoOp
        /\ op[co[p].op].job = co[p].job
        /\ co[p].cont \in {"run", "run_status"} => op[co[p].op].name = co[p].cont

\* A job with a request is in memory.
InMemory(p) == p \in Req /\ co[p].pc # "idle" => db[co[p].job].loaded

\* While dbUpdateTime has not changed, the run is active, and it is p's run.
Transaction(p) ==
    co[p].fresh => /\ db[co[p].job].status \in Active
                   /\ co[p].cont = "run" => db[co[p].job].serial = co[p].serial

\* Nothing comes between the check of the status and the start of a run.
Starting(p) ==
    co[p].pc = "start_run" => running = p /\ db[co[p].job].status \notin Active

FrameInv == \A p \in Proc : Frame(p) /\ Refers(p) /\ InMemory(p) /\ Transaction(p) /\ Starting(p)

Inductive == JobsOK /\ OpsOK /\ FramesOK /\ OpInv /\ FrameInv /\ OneController /\ NoOrphanOp

-----------------------------------------------------------------------------
LEMMA IdleFrameType == IdleFrame \in FrameRecord
BY DEF IdleFrame, FrameRecord, Pc

LEMMA TouchedType ==
    ASSUME NEW f \in FrameRecord
    PROVE  [f EXCEPT !.fresh = FALSE] \in FrameRecord
BY DEF FrameRecord

\* p replies and is idle.
LEMMA ReplyKeeps ==
    ASSUME Inductive, NEW p \in Proc, running = p, co[p].pc \in HandlerPc, Reply(p)
    PROVE  Inductive'
<1> USE DEF Reply, Inductive, Finished, jobVars, slotVars, Pc, HandlerPc, SendPc, Api
<1>1. JobsOK' BY DEF JobsOK
<1>2. OpsOK' BY DEF OpsOK
<1>3. FramesOK' BY IdleFrameType, NoneAssumption DEF FramesOK
<1>4. OpInv' BY DEF OpInv
<1>5. FrameInv' BY DEF FrameInv, Frame, Refers, InMemory, Transaction, Starting, FramesOK, IdleFrame
<1>6. OneController' BY DEF OneController
<1>7. NoOrphanOp' BY NoneAssumption DEF NoOrphanOp, FrameInv, Frame, FramesOK
<1>8. QED BY <1>1, <1>2, <1>3, <1>4, <1>5, <1>6, <1>7

\* The operations are the same, whatever their agents and drivers know of them.
SameOps ==
    \A o \in Op :
        /\ (op[o] = NoOp) <=> (op'[o] = NoOp)
        /\ op'[o].name = op[o].name /\ op'[o].job = op[o].job
        /\ op'[o].alive = op[o].alive

\* Frame f goes on as g with the operation it sends, or only sees a write.
MovedFrame(f, g) ==
    /\ g.pc = f.pc \/ (f.pc \in SendPc /\ g.pc \in SendPc \union {"returned"})
    /\ f.pc = "idle" => g = f
    /\ g.op = f.op /\ g.cont = f.cont /\ g.job = f.job /\ g.serial = f.serial
    /\ g.fresh => f.fresh
    /\ f.cont = "run_status" => g.ret \in Answer("run_status") \union {None}

Moved == \A q \in Proc : MovedFrame(co[q], co'[q])

\* No step of sending, connecting or answering disturbs the invariant.
LEMMA MovedKeeps ==
    ASSUME Inductive, db' = db, clock' = clock, delivered' \subseteq Job,
           OpsOK', OpInv', SameOps, FramesOK', Moved,
           \A q \in Proc : co[q].pc = "start_run" => running' = running
    PROVE  Inductive'
<1> USE DEF Inductive, HandlerPc, SendPc, Api
<1>1. JobsOK' BY DEF JobsOK
<1>2. FrameInv'
  <2> SUFFICES ASSUME NEW q \in Proc
               PROVE  Frame(q)' /\ Refers(q)' /\ InMemory(q)' /\ Transaction(q)' /\ Starting(q)'
    BY DEF FrameInv
  <2>1. MovedFrame(co[q], co'[q]) BY DEF Moved
  <2>2. Frame(q)' BY <2>1 DEF MovedFrame, FrameInv, Frame, FramesOK, FrameRecord
  <2>3. Refers(q)' BY <2>1 DEF MovedFrame, FrameInv, Refers, FramesOK, FrameRecord, SameOps
  <2>4. InMemory(q)' /\ Transaction(q)' /\ Starting(q)'
    BY <2>1 DEF MovedFrame, FrameInv, InMemory, Transaction, Starting, FramesOK, FrameRecord
  <2>5. QED BY <2>2, <2>3, <2>4
<1>3. OneController' BY NoneAssumption DEF OneController, JobsOK, JobRecord, SameOps
<1>4. NoOrphanOp' BY DEF NoOrphanOp, SameOps, Moved, MovedFrame
<1>5. QED BY <1>1, <1>2, <1>3, <1>4

\* w is the frames after a write: those of the written job saw it.
SeesWrite(w) ==
    /\ w \in [Proc -> FrameRecord]
    /\ \A q \in Proc : w[q] = co[q] \/ w[q] = [co[q] EXCEPT !.fresh = FALSE]

LEMMA TouchedSees ==
    ASSUME FramesOK, NEW j
    PROVE  /\ SeesWrite(co) /\ SeesWrite(Touched(co, j))
           /\ \A q \in Proc : co[q].job = j => ~Touched(co, j)[q].fresh
<1>1. SeesWrite(co) /\ SeesWrite(Touched(co, j))
  BY TouchedType DEF SeesWrite, Touched, FramesOK
<1>2. \A q \in Proc : co[q].job = j => ~Touched(co, j)[q].fresh
  BY DEF Touched, FramesOK, FrameRecord
<1>3. QED BY <1>1, <1>2

LEMMA WaitedSees ==
    ASSUME FramesOK, NEW p \in Proc
    PROVE  SeesWrite(Waited(p))
BY TouchedSees DEF Waited

\* A coroutine that is not in the event loop is not about to start a run.
LEMMA StartingRuns ==
    ASSUME FrameInv, running = None
    PROVE  \A q \in Proc : co[q].pc # "start_run"
BY NoneAssumption DEF FrameInv, Starting, Proc

LEMMA StartingElsewhere ==
    ASSUME FrameInv, NEW p \in Proc, running = p, co[p].pc # "start_run"
    PROVE  \A q \in Proc : co[q].pc # "start_run"
BY DEF FrameInv, Starting

LEMMA GoesOnType ==
    ASSUME NEW f \in FrameRecord, NEW pc \in Pc, NEW step \in Nat, NEW awaited \in BOOLEAN
    PROVE  [f EXCEPT !.pc = pc, !.step = step, !.awaited = awaited] \in FrameRecord
BY DEF FrameRecord

WentOn(p, w, pc, step, awaited) ==
    co' = [w EXCEPT ![p] = [w[p] EXCEPT !.pc = pc, !.step = step, !.awaited = awaited]]

\* p goes on with the operation it sends; others, and p, may see a write.
LEMMA GoesOn ==
    ASSUME FramesOK, FrameInv, NEW p \in Proc, co[p].pc \in SendPc,
           NEW w, SeesWrite(w), NEW pc \in SendPc \union {"returned"}, NEW step \in Nat, NEW awaited \in BOOLEAN,
           WentOn(p, w, pc, step, awaited), running' \in Proc \union {None}
    PROVE  FramesOK' /\ Moved
<1> USE DEF WentOn, SeesWrite
<1>1. pc \in Pc BY DEF SendPc, Pc
<1>2. [w[p] EXCEPT !.pc = pc, !.step = step, !.awaited = awaited] \in FrameRecord
  BY <1>1, GoesOnType
<1>3. FramesOK' BY <1>2 DEF FramesOK
<1>4. ASSUME NEW q \in Proc PROVE MovedFrame(co[q], co'[q])
  <2>1. co[q] \in FrameRecord /\ w[q] \in FrameRecord BY DEF FramesOK
  <2>2. /\ co[q].pc = "idle" => co[q] = IdleFrame
        /\ co[q].cont = "run_status" => co[q].ret \in Answer("run_status") \union {None}
    BY DEF FrameInv, Frame
  <2>3. MovedFrame(co[q], w[q]) BY <2>1, <2>2 DEF MovedFrame, FrameRecord, IdleFrame
  <2>4. CASE q # p BY <2>3, <2>4
  <2>5. CASE q = p BY <2>1, <2>3, <2>5 DEF MovedFrame, FrameRecord, SendPc
  <2>6. QED BY <2>4, <2>5
<1>5. QED BY <1>3, <1>4 DEF Moved

\* The same, when only p's program counter changes.
LEMMA PcGoesOn ==
    ASSUME FramesOK, FrameInv, NEW p \in Proc, co[p].pc \in SendPc,
           NEW pc \in SendPc \union {"returned"}, co' = [co EXCEPT ![p].pc = pc],
           running' \in Proc \union {None}
    PROVE  FramesOK' /\ Moved
<1>1. WentOn(p, co, pc, co[p].step, co[p].awaited) BY DEF WentOn, FramesOK, FrameRecord
<1>2. co[p].step \in Nat /\ co[p].awaited \in BOOLEAN BY DEF FramesOK, FrameRecord
<1>3. QED BY <1>1, <1>2, TouchedSees, GoesOn

\* The steps of sending that leave operations alone.
LEMMA SendStepsKeep ==
    ASSUME Inductive, NEW p \in Proc,
           \/ AgentReady(p) \/ AgentWoken(p) \/ AllocSlots(p) \/ SlotGranted(p)
           \/ SbatchLoginNeeded(p) \/ AgentStartFails(p)
    PROVE  Inductive'
<1> USE DEF Inductive, jobVars, slotVars
<1>1. CASE AgentReady(p)
  <2>1. FramesOK' /\ Moved BY <1>1, PcGoesOn DEF AgentReady, Goto, SendPc, FramesOK
  <2>2. \A q \in Proc : co[q].pc # "start_run" BY <1>1, StartingElsewhere DEF AgentReady
  <2>3. OpsOK' /\ OpInv' /\ SameOps BY <1>1 DEF AgentReady, Goto, OpsOK, OpInv, SameOps
  <2>4. QED BY <1>1, <2>1, <2>2, <2>3, MovedKeeps DEF AgentReady, Goto, JobsOK
<1>2. CASE AgentWoken(p)
  <2>1. FramesOK' /\ Moved BY <1>2, PcGoesOn DEF AgentWoken, Resume, SendPc
  <2>2. \A q \in Proc : co[q].pc # "start_run" BY <1>2, StartingRuns DEF AgentWoken
  <2>3. OpsOK' /\ OpInv' /\ SameOps BY <1>2 DEF AgentWoken, Resume, OpsOK, OpInv, SameOps
  <2>4. QED BY <1>2, <2>1, <2>2, <2>3, MovedKeeps DEF AgentWoken, Resume, JobsOK
<1>3. CASE SbatchLoginNeeded(p)
  <2>1. FramesOK' /\ Moved BY <1>3, PcGoesOn DEF SbatchLoginNeeded, Goto, At, SendPc, FramesOK
  <2>2. \A q \in Proc : co[q].pc # "start_run"
    BY <1>3, StartingElsewhere DEF SbatchLoginNeeded, At
  <2>3. OpsOK' /\ OpInv' /\ SameOps BY <1>3 DEF SbatchLoginNeeded, Goto, OpsOK, OpInv, SameOps
  <2>4. QED BY <1>3, <2>1, <2>2, <2>3, MovedKeeps DEF SbatchLoginNeeded, Goto, JobsOK
<1>4. CASE AgentStartFails(p)
  <2>1. FramesOK' /\ Moved BY <1>4, PcGoesOn DEF AgentStartFails, SendPc
  <2>2. \A q \in Proc : co[q].pc # "start_run" BY <1>4, StartingRuns DEF AgentStartFails
  <2>3. OpsOK' /\ OpInv' /\ SameOps BY <1>4 DEF AgentStartFails, OpsOK, OpInv, SameOps
  <2>4. QED BY <1>4, <2>1, <2>2, <2>3, MovedKeeps DEF AgentStartFails, JobsOK
<1>5. CASE AllocSlots(p)
  <2> DEFINE need == Need(co[p].op)
             taken == {i \in co[p].step..Len(need) :
                         \A n \in co[p].step..i : Cardinality(holders[need[n]]) < Size(need[n])}
             next == co[p].step + Cardinality(taken)
  <2>0. co[p].step \in Nat BY DEF FramesOK, FrameRecord
  <2>1. Cardinality(taken) \in Nat
    <3>1. Len(need) \in Int BY DEF Need
    <3>2. IsFiniteSet(co[p].step..Len(need)) BY <2>0, <3>1, FS_Interval
    <3>3. QED BY <3>2, FS_Subset, FS_CardinalityType
  <2> HIDE DEF taken
  <2>2. next \in Nat BY <2>0, <2>1
  <2>3. FramesOK' /\ Moved
    <3>1. CASE /\ co' = [Waited(p) EXCEPT ![p].pc = "awaitSlot", ![p].step = next]
               /\ running' = None
      <4> DEFINE w == Waited(p)
      <4>1. SeesWrite(w) BY WaitedSees
      <4> HIDE DEF w, next
      <4>2. co' = [w EXCEPT ![p] = [w[p] EXCEPT !.pc = "awaitSlot", !.step = next]]
        BY <3>1, <4>1 DEF w, SeesWrite
      <4>3. w[p].awaited \in BOOLEAN
            /\ WentOn(p, w, "awaitSlot", next, w[p].awaited)
        BY <4>1, <4>2 DEF WentOn, FrameRecord, SeesWrite
      <4>4. co[p].pc \in SendPc /\ "awaitSlot" \in SendPc BY <1>5 DEF SendPc, AllocSlots, At
      <4>5. QED BY <2>2, <3>1, <4>1, <4>3, <4>4, GoesOn
    <3>2. CASE /\ co' = [co EXCEPT ![p].step = 1, ![p].awaited = FALSE,
                             ![p].pc = IF co[p].awaited THEN "agent_ready_again" ELSE "send"]
               /\ running' = running
      <4>1. PICK pc \in {"agent_ready_again", "send"} :
               co' = [co EXCEPT ![p] = [co[p] EXCEPT !.step = 1, !.awaited = FALSE, !.pc = pc]]
        BY <3>2 DEF FramesOK
      <4>2. WentOn(p, co, pc, 1, FALSE) BY <4>1 DEF WentOn, FramesOK, FrameRecord
      <4>3. QED BY <1>5, <3>2, <4>2, TouchedSees, GoesOn DEF SendPc, AllocSlots, At, FramesOK
    <3>3. QED BY <1>5, <3>1, <3>2 DEF AllocSlots, taken
  <2>4. \A q \in Proc : co[q].pc # "start_run" BY <1>5, StartingElsewhere DEF AllocSlots, At
  <2>5. OpsOK' /\ OpInv' /\ SameOps BY <1>5 DEF AllocSlots, OpsOK, OpInv, SameOps
  <2>6. QED BY <1>5, <2>3, <2>4, <2>5, MovedKeeps DEF AllocSlots, JobsOK
<1>6. CASE SlotGranted(p)
  <2>1. FramesOK' /\ Moved
    <3> DEFINE w == Waited(p)
    <3>1. SeesWrite(w) BY WaitedSees
    <3>2. PICK pc \in {"alloc", "raise", "returned"}, step \in Nat, awaited \in BOOLEAN :
             WentOn(p, w, pc, step, awaited)
      <4> HIDE DEF w
      <4>1. w[p].step \in Nat /\ w[p].step + 1 \in Nat /\ w[p].awaited \in BOOLEAN
        BY <3>1 DEF FrameRecord, SeesWrite
      <4>2. CASE co' = [w EXCEPT ![p].pc = "alloc", ![p].step = @ + 1, ![p].awaited = TRUE]
        <5>1. WentOn(p, w, "alloc", w[p].step + 1, TRUE) BY <3>1, <4>2 DEF WentOn, FrameRecord, SeesWrite
        <5>2. QED BY <4>1, <5>1
      <4>3. ASSUME NEW pc \in {"raise", "returned"}, co' = [w EXCEPT ![p].pc = pc]
            PROVE  WentOn(p, w, pc, w[p].step, w[p].awaited)
        BY <3>1, <4>3 DEF WentOn, FrameRecord, SeesWrite
      <4>4. QED BY <1>6, <4>1, <4>2, <4>3 DEF SlotGranted, w
    <3>3. co[p].pc \in SendPc /\ pc \in SendPc \union {"returned"}
      BY <1>6 DEF SendPc, SlotGranted, Woken
    <3>4. running' \in Proc \union {None} BY <1>6 DEF SlotGranted
    <3> HIDE DEF w
    <3>5. QED BY <3>1, <3>2, <3>3, <3>4, GoesOn
  <2>2. \A q \in Proc : co[q].pc # "start_run" BY <1>6, StartingRuns DEF SlotGranted, Woken
  <2>3. OpsOK' /\ OpInv' /\ SameOps BY <1>6 DEF SlotGranted, OpsOK, OpInv, SameOps
  <2>4. QED BY <1>6, <2>1, <2>2, <2>3, MovedKeeps DEF SlotGranted, JobsOK
<1>7. QED BY <1>1, <1>2, <1>3, <1>4, <1>5, <1>6

\* What an agent and a driver know of an operation changes.
LEMMA OpKnown ==
    ASSUME OpsOK, OpInv, NEW o \in Op, op[o] # NoOp, NEW x \in OpRecord,
           x.name = op[o].name, x.job = op[o].job, x.kind = op[o].kind, x.alive = op[o].alive,
           x.reply \in Answer(op[o].name) \union {None, "null"},
           op' = [op EXCEPT ![o] = x]
    PROVE  OpsOK' /\ OpInv' /\ SameOps
<1>1. OpsOK' BY DEF OpsOK
<1>2. op'[o] = x /\ \A i \in Op : i # o => op'[i] = op[i] BY DEF OpsOK
<1>3. x # NoOp BY NoneAssumption DEF NoOp, OpInv
<1>4. SameOps BY <1>2, <1>3 DEF SameOps
<1>5. OpInv' BY <1>2, <1>3 DEF OpInv
<1>6. QED BY <1>1, <1>4, <1>5

LEMMA SendKeeps ==
    ASSUME Inductive, DriversOK, NEW p \in Proc, Send(p)
    PROVE  Inductive'
<1> USE DEF Inductive
<1> DEFINE o == co[p].op
           sent == driver[op[o].kind].socket
<1>1. co[p].pc = "send" /\ running = p BY DEF Send, At
<1>2. o \in Op /\ op[o] # NoOp /\ op[o].job \in Job
  BY <1>1, NoneAssumption DEF FrameInv, Frame, Refers, SendPc
<1>3. delivered' \subseteq Job BY <1>2 DEF Send, JobsOK
<1>4. OpsOK' /\ OpInv' /\ SameOps
  <2>1. PICK prepared, timer, atAgent \in BOOLEAN :
          op' = [op EXCEPT ![o].prepared = prepared, ![o].atAgent = atAgent, ![o].timer = timer]
    <3>1. sent \in BOOLEAN BY <1>2 DEF OpInv, DriversOK, DriverRecord
    <3>2. QED BY <3>1 DEF Send
  <2> DEFINE x == [op[o] EXCEPT !.prepared = prepared, !.atAgent = atAgent, !.timer = timer]
  <2>2. op' = [op EXCEPT ![o] = x]
    <3>1. op \in [Op -> OpRecord] BY DEF OpsOK
    <3> HIDE DEF o, Inductive
    <3>2. QED BY <1>2, <2>1, <3>1, Zenon
  <2>3. op[o] \in OpRecord /\ op[o].reply \in Answer(op[o].name) \union {None, "null"}
    BY <1>2 DEF OpsOK, OpInv
  <2>4. /\ x \in OpRecord /\ x.name = op[o].name /\ x.job = op[o].job
        /\ x.kind = op[o].kind /\ x.alive = op[o].alive /\ x.reply = op[o].reply
    BY <2>3 DEF OpRecord
  <2> HIDE DEF x
  <2>5. QED BY <1>2, <2>2, <2>3, <2>4, OpKnown
<1>5. FramesOK' /\ Moved BY <1>1, PcGoesOn DEF Send, SendPc
<1>6. \A q \in Proc : co[q].pc # "start_run" BY <1>1, StartingElsewhere
<1>7. QED BY <1>3, <1>4, <1>5, <1>6, MovedKeeps DEF Send

\* The agent's answer, when it leaves the job's record alone.
LEMMA ReplyGotPlain ==
    ASSUME Inductive, NEW p \in Proc, ReplyGot(p), op[co[p].op].reply # "run_dir_not_found"
    PROVE  Inductive'
<1> USE DEF Inductive
<1> DEFINE r == op[co[p].op].reply
<1>1. co[p].pc = "awaitReply" /\ running = None BY DEF ReplyGot, Woken
<1>2. co[p].op \in Op /\ op[co[p].op] # NoOp
  BY <1>1, NoneAssumption DEF FrameInv, Frame, Refers, SendPc
<1>3. db' = db /\ clock' = clock /\ delivered' = delivered /\ op' = op /\ running' = p
  BY DEF ReplyGot, Resume, jobVars
<1>4. OpsOK' /\ OpInv' /\ SameOps BY <1>3 DEF OpsOK, OpInv, SameOps
<1>5. FramesOK' /\ Moved
  <2>1. CASE r = "null"
    <3>1. co' = [co EXCEPT ![p].pc = "returned"] BY <2>1 DEF ReplyGot, Resume
    <3>2. QED BY <1>1, <1>3, <3>1, PcGoesOn DEF SendPc
  <2>2. CASE r # "null"
    <3> DEFINE x == [co[p] EXCEPT !.pc = "returned", !.ret = r]
    <3>1. co' = [co EXCEPT ![p] = x]
      <4>1. co' = [co EXCEPT ![p].pc = "returned", ![p].ret = r]
        BY <2>2 DEF ReplyGot
      <4>2. QED BY <4>1 DEF FramesOK
    <3>2. r \in Answer(op[co[p].op].name) BY <1>2, <2>2 DEF ReplyGot, OpInv
    <3>3. r \in Answers BY <1>2, <3>2 DEF OpInv, Answers
    <3>4. co[p].cont = "run_status" => r \in Answer("run_status")
      BY <1>2, <3>2, NoneAssumption DEF FrameInv, Refers
    <3> HIDE DEF r
    <3>5. x \in FrameRecord /\ MovedFrame(co[p], x)
      BY <1>1, <3>3, <3>4 DEF FramesOK, FrameRecord, Pc, MovedFrame, SendPc
    <3> HIDE DEF x
    <3>6. FramesOK' BY <1>3, <3>1, <3>5 DEF FramesOK
    <3>7. ASSUME NEW q \in Proc, q # p PROVE MovedFrame(co[q], co'[q])
      BY <3>1, <3>7 DEF MovedFrame, FramesOK, FrameRecord, FrameInv, Frame
    <3>8. QED BY <3>1, <3>5, <3>6, <3>7 DEF Moved, FramesOK
  <2>3. QED BY <2>1, <2>2
<1>6. \A q \in Proc : co[q].pc # "start_run" BY <1>1, StartingRuns
<1>7. QED BY <1>3, <1>4, <1>5, <1>6, MovedKeeps DEF JobsOK

\* Agents and drivers only wake coroutines and put replies in queues.
LEMMA AgentKeeps ==
    ASSUME Inductive, NEW k, NEW o, NEW r,
           \/ AgentAlive(k) \/ SocketClose(k) \/ KillIfIdle(k) \/ ReadyTimeout(k)
           \/ (o \in Op /\ AgentReply(o, r))
    PROVE  Inductive'
<1> USE DEF Inductive, jobVars
<1>1. running = None /\ running' = running /\ db' = db /\ clock' = clock /\ delivered' = delivered
  BY DEF AgentAlive, SocketClose, KillIfIdle, ReadyTimeout, AgentReply
<1>2. OpsOK' /\ OpInv' /\ SameOps
  <2>1. CASE op' = op BY <2>1 DEF OpsOK, OpInv, SameOps
  <2>2. CASE o \in Op /\ AgentReply(o, r)
    <3>1. op[o] # NoOp BY <2>2 DEF AgentReply, NoOp
    <3> DEFINE x == [op[o] EXCEPT !.reply = r]
    <3>2. op' = [op EXCEPT ![o] = x] BY <2>2 DEF AgentReply, OpsOK
    <3>3. r \in Answer(op[o].name) /\ r \in Answers
      BY <2>2, <3>1 DEF AgentReply, OpInv, Answers
    <3>4. /\ x \in OpRecord /\ x.name = op[o].name /\ x.job = op[o].job
          /\ x.kind = op[o].kind /\ x.alive = op[o].alive /\ x.reply = r
      BY <2>2, <3>3 DEF OpsOK, OpRecord
    <3> HIDE DEF x
    <3>5. QED BY <2>2, <3>1, <3>2, <3>3, <3>4, OpKnown
  <2>3. QED BY <2>1, <2>2 DEF AgentAlive, SocketClose, KillIfIdle, ReadyTimeout
<1>3. FramesOK' /\ Moved
  <2>1. CASE co' = co
    BY <1>1, <2>1 DEF FramesOK, Moved, MovedFrame, FrameInv, Frame
  <2>2. CASE AgentAlive(k)
    <3>1. ASSUME NEW q \in Proc PROVE co'[q] \in FrameRecord /\ MovedFrame(co[q], co'[q])
      <4>1. \/ co'[q] = co[q]
            \/ /\ co[q].pc \in {"awaitAgent", "awaitAgentAgain"}
               /\ \E pc \in {"agentSet", "agentSetAgain"} : co'[q] = [co[q] EXCEPT !.pc = pc]
        BY <2>2 DEF AgentAlive
      <4>2. CASE co'[q] = co[q]
        BY <4>2 DEF MovedFrame, FramesOK, FrameInv, Frame
      <4>3. ASSUME co[q].pc \in {"awaitAgent", "awaitAgentAgain"},
                   NEW pc \in {"agentSet", "agentSetAgain"}, co'[q] = [co[q] EXCEPT !.pc = pc]
            PROVE  co'[q] \in FrameRecord /\ MovedFrame(co[q], co'[q])
        <5>1. co'[q] \in FrameRecord BY <4>3 DEF FramesOK, FrameRecord, Pc
        <5>2. MovedFrame(co[q], co'[q])
          BY <4>3 DEF MovedFrame, FramesOK, FrameRecord, FrameInv, Frame, SendPc
        <5>3. QED BY <5>1, <5>2
      <4>4. QED BY <4>1, <4>2, <4>3
    <3>2. DOMAIN co' = Proc /\ co' = [q \in Proc |-> co'[q]] BY <2>2 DEF AgentAlive
    <3>3. QED BY <1>1, <3>1, <3>2 DEF FramesOK, Moved
  <2>3. QED BY <2>1, <2>2 DEF SocketClose, KillIfIdle, ReadyTimeout, AgentReply
<1>4. \A q \in Proc : co[q].pc # "start_run" BY <1>1, StartingRuns
<1>5. QED BY <1>1, <1>2, <1>3, <1>4, MovedKeeps DEF JobsOK

-----------------------------------------------------------------------------
\* A handler goes on, and starts a run only when none is active.
LEMMA GotoKeeps ==
    ASSUME Inductive, NEW p \in Proc, running = p, co[p].pc \in HandlerPc,
           NEW pc \in HandlerPc, pc = "start_run" => db[co[p].job].status \notin Active,
           Goto(p, pc)
    PROVE  Inductive'
<1> USE DEF Inductive
<1>1. op' = op /\ db' = db /\ delivered' = delivered /\ clock' = clock /\ running' = running
  BY DEF Goto, jobVars
<1> DEFINE x == [co[p] EXCEPT !.pc = pc]
<1>2. co' = [co EXCEPT ![p] = x] BY DEF Goto, FramesOK
<1>3. /\ x \in FrameRecord /\ x.pc = pc /\ x.job = co[p].job /\ x.op = co[p].op
      /\ x.cont = co[p].cont /\ x.fresh = co[p].fresh /\ x.ret = co[p].ret
  BY DEF FramesOK, FrameRecord, Pc, HandlerPc, Api
<1> HIDE DEF x
<1>4. FramesOK' BY <1>1, <1>2, <1>3 DEF FramesOK
<1>5. FrameInv'
  <2>1. Frame(p)' /\ Refers(p)' /\ InMemory(p)' /\ Transaction(p)' /\ Starting(p)'
    BY <1>1, <1>2, <1>3
    DEF FrameInv, Frame, Refers, InMemory, Transaction, Starting, FramesOK, HandlerPc, Api, SendPc
  <2>2. ASSUME NEW q \in Proc, q # p
        PROVE  Frame(q)' /\ Refers(q)' /\ InMemory(q)' /\ Transaction(q)' /\ Starting(q)'
    BY <1>1, <1>2, <2>2 DEF FrameInv, Frame, Refers, InMemory, Transaction, Starting, FramesOK
  <2>3. QED BY <2>1, <2>2 DEF FrameInv
<1>6. NoOrphanOp' BY <1>1, <1>2, <1>3 DEF NoOrphanOp, FramesOK
<1>7. JobsOK' /\ OpsOK' /\ OpInv' /\ OneController'
  BY <1>1 DEF JobsOK, OpsOK, OpInv, OneController
<1>8. QED BY <1>4, <1>5, <1>6, <1>7

LEMMA ReceiveKeeps ==
    ASSUME Inductive, NEW p \in Req, NEW a \in Api, NEW j \in Job, NEW h \in Hash,
           NEW serial \in Nat, NEW force \in BOOLEAN, Receive(p, a, j, h, serial, force)
    PROVE  Inductive'
<1> USE DEF Inductive
<1>0. p \in Proc BY DEF Proc
<1>1. /\ op' = op /\ delivered' = delivered /\ clock' = clock
      /\ running = None /\ running' = p /\ co[p] = IdleFrame
  BY <1>0 DEF Receive, FrameInv, Frame
<1> DEFINE d == IF db[j].loaded THEN db[j] ELSE Loaded(j, h)
           x == [IdleFrame EXCEPT !.pc = a, !.job = j, !.hash = h, !.serial = serial,
                                  !.force = force, !.run = a = "api_runSimulation"]
<1>2. db' = [db EXCEPT ![j] = d] BY DEF Receive, JobsOK
<1>3. /\ d \in JobRecord /\ d.loaded
      /\ d.serial = db[j].serial /\ d.runStatusOp = db[j].runStatusOp
      /\ db[j].loaded => d = db[j]
  BY DEF JobsOK, JobRecord, Loaded, Status, Exit, Active
<1>4. co' = [co EXCEPT ![p] = x] BY DEF Receive, FramesOK
<1>5. /\ x \in FrameRecord /\ x.pc = a /\ x.job = j /\ x.op = None
      /\ x.cont = None /\ ~x.fresh /\ x.ret = None
  BY IdleFrameType DEF FrameRecord, Pc, IdleFrame
<1> HIDE DEF x, d
<1>6. JobsOK' BY <1>1, <1>2, <1>3 DEF JobsOK
<1>7. OpsOK' /\ OpInv' BY <1>1 DEF OpsOK, OpInv
<1>8. FramesOK' BY <1>0, <1>1, <1>4, <1>5 DEF FramesOK
<1>9. FrameInv'
  <2>1. Frame(p)' /\ Refers(p)' /\ InMemory(p)' /\ Transaction(p)' /\ Starting(p)'
    BY <1>0, <1>1, <1>2, <1>3, <1>4, <1>5, NoneAssumption
    DEF Frame, Refers, InMemory, Transaction, Starting, FramesOK, JobsOK, HandlerPc, Api, SendPc
  <2>2. ASSUME NEW q \in Proc, q # p
        PROVE  Frame(q)' /\ Refers(q)' /\ InMemory(q)' /\ Transaction(q)' /\ Starting(q)'
    <3>1. co'[q] = co[q] BY <1>4, <2>2 DEF FramesOK
    <3>2. Frame(q)' /\ Refers(q)' BY <1>1, <3>1 DEF FrameInv, Frame, Refers
    <3>3. InMemory(q)' BY <1>2, <1>3, <3>1 DEF FrameInv, InMemory, JobsOK
    <3>4. Transaction(q)'
      <4>1. co[q].fresh => q \in Req /\ co[q].pc # "idle"
        BY ProcAssumption DEF FrameInv, Frame, IdleFrame
      <4>2. co[q].fresh => db'[co[q].job] = db[co[q].job]
        BY <1>2, <1>3, <4>1 DEF FrameInv, InMemory, JobsOK
      <4>3. QED BY <3>1, <4>2 DEF FrameInv, Transaction
    <3>5. Starting(q)' BY <1>1, <3>1, StartingRuns DEF Starting
    <3>6. QED BY <3>2, <3>3, <3>4, <3>5
  <2>3. QED BY <2>1, <2>2 DEF FrameInv
<1>10. OneController'
  BY <1>1, <1>2, <1>3, NoneAssumption DEF OneController, JobsOK, JobRecord, OpInv, NoOp
<1>11. NoOrphanOp'
  <2>1. \A i \in Job : db'[i].runStatusOp = db[i].runStatusOp BY <1>2, <1>3 DEF JobsOK
  <2>2. \A o \in Op : op[o].alive => op[o].job \in Job BY DEF OpInv, NoOp
  <2>3. \A q \in Proc : co[q].op \in Op => co'[q].op = co[q].op
    BY <1>1, <1>4, NoneAssumption DEF IdleFrame, FramesOK
  <2>4. QED BY <1>1, <2>1, <2>2, <2>3 DEF NoOrphanOp
<1>12. QED BY <1>6, <1>7, <1>8, <1>9, <1>10, <1>11

-----------------------------------------------------------------------------
\* p's frame is x, when it sends its new operation o, named n.
Creating(p, o, n, d, x) ==
    /\ x \in FrameRecord /\ x.pc = "agent_ready" /\ x.op = o /\ x.job = co[p].job
    /\ x.cont \in Cont /\ x.ret = None
    /\ x.cont \in {"run", "run_status"} => n = x.cont
    /\ x.fresh => /\ x.cont \in {"run", "run_status"} /\ d.status \in Active
                  /\ x.cont = "run" => x.serial = d.serial

\* An operation that controls the job is created only when none does, and
\* whoever compares dbUpdateTime sees a change of the status.
Recorded(p, o, n, d, w) ==
    LET j == co[p].job
    IN  /\ d \in JobRecord /\ d.loaded
        /\ n \in ControlOps => /\ db[j].runStatusOp = None
                               /\ d.runStatusOp = o /\ d.status \in Active
        /\ n \notin ControlOps => d = db[j]
        /\ \/ d.status = db[j].status /\ d.serial = db[j].serial
           \/ \A q \in Proc : co[q].job = j => ~w[q].fresh

LEMMA CreateKeeps ==
    ASSUME Inductive, NEW p \in Req, running = p, running' = p, co[p].pc \in HandlerPc,
           NEW o \in Op, op[o] = NoOp, NEW n \in OpName, NEW k \in Kind, NEW d, NEW w, NEW x,
           Creating(p, o, n, d, x), Recorded(p, o, n, d, w), SeesWrite(w),
           op' = [op EXCEPT ![o] = NewOp(n, co[p].job, k)],
           db' = [db EXCEPT ![co[p].job] = d], co' = [w EXCEPT ![p] = x],
           clock' \in Nat, delivered' \subseteq Job
    PROVE  Inductive'
<1> USE DEF Inductive
<1> DEFINE j == co[p].job
           y == NewOp(n, j, k)
<1>0. p \in Proc BY DEF Proc
<1>1. j \in Job /\ db[j].loaded /\ co[p].op = None
  BY <1>0 DEF FrameInv, Frame, InMemory, HandlerPc, Api
<1>2. /\ y \in OpRecord /\ y # NoOp /\ y.alive /\ y.name = n /\ y.job = j /\ y.kind = k
      /\ y.reply = None
  BY <1>1 DEF NewOp, NoOp, OpRecord
<1>3. op'[o] = y /\ \A i \in Op : i # o => op'[i] = op[i] BY DEF OpsOK
<1>4. db'[j] = d /\ \A i \in Job : i # j => db'[i] = db[i] BY <1>1 DEF JobsOK
<1>5. co'[p] = x /\ \A q \in Proc : q # p => co'[q] = w[q] BY <1>0 DEF SeesWrite
<1> HIDE DEF y
<1>6. JobsOK' BY <1>1 DEF JobsOK, Recorded
<1>7. OpsOK' /\ OpInv' BY <1>1, <1>2, <1>3 DEF OpsOK, OpInv
<1>8. FramesOK' BY <1>0 DEF FramesOK, SeesWrite, Creating
<1>9. FrameInv'
  <2>1. Frame(p)' /\ Refers(p)' /\ InMemory(p)' /\ Transaction(p)' /\ Starting(p)'
    <3>1. Frame(p)' BY <1>1, <1>5 DEF Frame, Creating, HandlerPc, Api, SendPc
    <3>2. Refers(p)' BY <1>2, <1>3, <1>5 DEF Refers, Creating
    <3>3. InMemory(p)' BY <1>4, <1>5 DEF InMemory, Creating, Recorded
    <3>4. Transaction(p)' /\ Starting(p)'
      BY <1>4, <1>5 DEF Transaction, Starting, Creating
    <3>5. QED BY <3>1, <3>2, <3>3, <3>4
  <2>2. ASSUME NEW q \in Proc, q # p
        PROVE  Frame(q)' /\ Refers(q)' /\ InMemory(q)' /\ Transaction(q)' /\ Starting(q)'
    <3>1. /\ w[q].pc = co[q].pc /\ w[q].job = co[q].job /\ w[q].op = co[q].op
          /\ w[q].cont = co[q].cont /\ w[q].serial = co[q].serial /\ w[q].ret = co[q].ret
          /\ w[q].fresh => w[q] = co[q]
      BY DEF SeesWrite, FramesOK, FrameRecord
    <3>2. w[q].pc = "idle" => w[q] = IdleFrame
      BY DEF SeesWrite, FrameInv, Frame, IdleFrame, FramesOK, FrameRecord
    <3>3. co'[q] = w[q] BY <1>5, <2>2
    <3>4. Frame(q)' BY <3>1, <3>2, <3>3 DEF FrameInv, Frame
    <3>5. co[q].op \in Op /\ co[q].op # None => op'[co[q].op] = op[co[q].op]
      BY <1>3 DEF FrameInv, Refers
    <3>6. Refers(q)' BY <3>1, <3>3, <3>5 DEF FrameInv, Refers, FramesOK, FrameRecord
    <3>7. InMemory(q)' BY <1>1, <1>4, <3>1, <3>3 DEF FrameInv, Frame, InMemory, Recorded
    <3>8. Transaction(q)'
      <4>1. co[q].fresh => co[q].job \in Job
        BY NoneAssumption DEF FrameInv, Frame, IdleFrame
      <4>2. QED BY <1>4, <3>1, <3>3, <4>1 DEF FrameInv, Transaction, Recorded
    <3>9. Starting(q)' BY <2>2, <3>1, <3>3 DEF FrameInv, Starting
    <3>10. QED BY <3>4, <3>6, <3>7, <3>8, <3>9
  <2>3. QED BY <2>1, <2>2 DEF FrameInv
<1>10. OneController'
  <2>1. ASSUME NEW i \in Job, db'[i].runStatusOp # None
        PROVE  LET c == op'[db'[i].runStatusOp]
               IN  /\ c.alive /\ c.job = i /\ c.name \in ControlOps
                   /\ db'[i].loaded /\ db'[i].status \in Active
    <3>1. CASE i = j /\ n \in ControlOps BY <1>1, <1>2, <1>3, <1>4, <3>1 DEF Recorded
    <3>2. CASE i # j \/ n \notin ControlOps
      <4>1. db'[i] = db[i] BY <1>4, <3>2 DEF Recorded
      <4>2. op[db[i].runStatusOp].alive /\ db[i].runStatusOp \in Op
        BY <2>1, <4>1 DEF OneController, JobsOK, JobRecord
      <4>3. db[i].runStatusOp # o BY <4>2 DEF NoOp
      <4>4. QED BY <1>3, <2>1, <4>1, <4>2, <4>3 DEF OneController
    <3>3. QED BY <3>1, <3>2
  <2>2. ASSUME NEW i \in Op, op'[i].alive, op'[i].name \in ControlOps
        PROVE  db'[op'[i].job].runStatusOp = i
    <3>1. CASE i = o BY <1>2, <1>3, <1>4, <2>2, <3>1 DEF Recorded
    <3>2. CASE i # o
      <4>1. op'[i] = op[i] /\ db[op[i].job].runStatusOp = i /\ op[i].job \in Job
        BY <1>3, <2>2, <3>2 DEF OneController, OpInv, NoOp
      <4>2. n \in ControlOps => op[i].job # j
        BY <4>1, NoneAssumption DEF Recorded
      <4>3. QED BY <1>4, <4>1, <4>2 DEF Recorded
    <3>3. QED BY <3>1, <3>2
  <2>3. QED BY <2>1, <2>2 DEF OneController
<1>11. NoOrphanOp'
  <2>1. ASSUME NEW i \in Op, op'[i].alive
        PROVE  (\E q \in Proc : co'[q].op = i) \/ db'[op'[i].job].runStatusOp = i
    <3>1. CASE i = o BY <1>0, <1>5, <3>1 DEF Creating
    <3>2. CASE i # o
      <4>1. op'[i] = op[i] /\ op[i].job \in Job BY <1>3, <2>1, <3>2 DEF OpInv, NoOp
      <4>2. \A q \in Proc : co[q].op = i => co'[q].op = i
        BY <1>1, <1>5, NoneAssumption DEF SeesWrite, FramesOK, FrameRecord
      <4>3. db[op[i].job].runStatusOp = i => db'[op[i].job].runStatusOp = i
        BY <1>4, <4>1, NoneAssumption DEF Recorded
      <4>4. QED BY <2>1, <4>1, <4>2, <4>3 DEF NoOrphanOp
    <3>3. QED BY <3>1, <3>2
  <2>2. QED BY <2>1 DEF NoOrphanOp
<1>12. QED BY <1>6, <1>7, <1>8, <1>9, <1>10, <1>11

LEMMA KindOfType == ASSUME NEW j \in Job, NEW n \in OpName PROVE KindOf(j, n) \in Kind
BY DEF Kind

LEMMA FreshIsFree == ASSUME NEW o \in Op, Fresh(o) PROVE op[o] = NoOp
BY DEF Fresh

\* What a frame that sends an operation is made of.
LEMMA SendingType ==
    ASSUME NEW f \in FrameRecord, NEW o \in Op, NEW cont \in Cont
    PROVE  LET x == Sending(f, o, cont)
           IN  /\ x \in FrameRecord /\ x.pc = "agent_ready" /\ x.op = o /\ x.job = f.job
               /\ x.cont = cont /\ x.ret = None /\ x.fresh = f.fresh /\ x.serial = f.serial
BY DEF Sending, FrameRecord, Pc

LEMMA OnlyType ==
    ASSUME NEW f \in FrameRecord
    PROVE  Only(f) \in FrameRecord /\ Only(f).job = f.job /\ ~Only(f).fresh
<1> DEFINE i == IdleFrame
<1>1. i \in FrameRecord /\ ~i.fresh BY IdleFrameType DEF IdleFrame
<1> HIDE DEF i
<1>2. QED BY <1>1 DEF Only, FrameRecord, i

LEMMA StartRunKeeps ==
    ASSUME Inductive, NEW p \in Proc, StartRun(p)
    PROVE  Inductive'
<1> USE DEF Inductive
<1> DEFINE j == co[p].job
<1>1. /\ running = p /\ running' = p /\ co[p].pc = "start_run" /\ p \in Req /\ j \in Job
      /\ db[j].runStatusOp = None /\ db[j].loaded /\ co[p].hash \in Hash \union {None}
      /\ clock' = clock + 1 /\ clock' \in Nat /\ delivered' \subseteq Job
  <2>1. running = p /\ co[p].pc = "start_run" BY DEF StartRun, At
  <2>2. p \in Req /\ j \in Job /\ db[j].status \notin Active
    BY <2>1 DEF FrameInv, Frame, Starting, HandlerPc
  <2>3. db[j].runStatusOp = None BY <2>2 DEF OneController
  <2>4. db[j].loaded /\ co[p].hash \in Hash \union {None}
    BY <2>1, <2>2 DEF FrameInv, InMemory, FramesOK, FrameRecord
  <2>5. QED BY <2>1, <2>2, <2>3, <2>4 DEF StartRun, JobsOK
<1>2. PICK o \in Op :
        /\ Fresh(o)
        /\ op' = [op EXCEPT ![o] = NewOp("run", j, KindOf(j, "run"))]
        /\ db' = [db EXCEPT ![j] = [@ EXCEPT !.hash = co[p].hash, !.serial = clock + 1,
                                           !.status = "pending", !.runStatusOp = o]]
        /\ co' = [Touched(co, j) EXCEPT ![p] =
                     [Sending(co[p], o, "run") EXCEPT !.serial = clock + 1, !.fresh = TRUE,
                                                      !.run = FALSE, !.force = FALSE]]
  BY DEF StartRun
<1> DEFINE d == [db[j] EXCEPT !.hash = co[p].hash, !.serial = clock + 1,
                             !.status = "pending", !.runStatusOp = o]
           s == Sending(co[p], o, "run")
           x == [s EXCEPT !.serial = clock + 1, !.fresh = TRUE, !.run = FALSE, !.force = FALSE]
           w == Touched(co, j)
<1>3. db' = [db EXCEPT ![j] = d] BY <1>1, <1>2 DEF JobsOK
<1>4. /\ d \in JobRecord /\ d.loaded /\ d.status = "pending" /\ d.serial = clock + 1
      /\ d.runStatusOp = o
  BY <1>1 DEF JobsOK, JobRecord, Status, Active
<1>5. /\ s \in FrameRecord /\ s.pc = "agent_ready" /\ s.op = o /\ s.job = j
      /\ s.cont = "run" /\ s.ret = None
  BY SendingType DEF FramesOK, Cont
<1>6. /\ x \in FrameRecord /\ x.pc = "agent_ready" /\ x.op = o /\ x.job = j
      /\ x.cont = "run" /\ x.ret = None /\ x.serial = clock + 1
  <2> HIDE DEF s
  <2>1. clock + 1 \in Nat BY <1>1
  <2>2. QED BY <1>5, <2>1 DEF FrameRecord
<1>7. SeesWrite(w) /\ \A q \in Proc : co[q].job = j => ~w[q].fresh
  BY TouchedSees
<1>8. co' = [w EXCEPT ![p] = x] BY <1>2
<1> HIDE DEF d, x, w, s
<1>9. Creating(p, o, "run", d, x) BY <1>4, <1>6 DEF Creating, Cont, Active
<1>10. Recorded(p, o, "run", d, w) BY <1>1, <1>4, <1>7 DEF Recorded, ControlOps, Active
<1>11. "run" \in OpName /\ KindOf(j, "run") \in Kind /\ op[o] = NoOp /\ co[p].pc \in HandlerPc
  BY <1>1, <1>2, KindOfType, FreshIsFree DEF OpName, HandlerPc
<1>12. QED BY <1>1, <1>2, <1>3, <1>7, <1>8, <1>9, <1>10, <1>11, CreateKeeps

LEMMA RunStatusKeeps ==
    ASSUME Inductive, NEW p \in Proc, RunStatus(p)
    PROVE  Inductive'
<1> USE DEF Inductive
<1> DEFINE j == co[p].job
<1>1. /\ running = p /\ co[p].pc \in HandlerPc /\ p \in Req /\ j \in Job
      /\ db[j].loaded /\ "status_reply" \in HandlerPc
  BY DEF RunStatus, At, FrameInv, Frame, InMemory, HandlerPc, Api
<1>2. CASE Goto(p, "status_reply") BY <1>1, <1>2, GotoKeeps
<1>3. CASE ~Goto(p, "status_reply")
  <2>1. PICK o \in Op :
          /\ Fresh(o)
          /\ op' = [op EXCEPT ![o] = NewOp("run_status", j, KindOf(j, "run_status"))]
          /\ db' = [db EXCEPT ![j].runStatusOp = o]
          /\ co' = [co EXCEPT ![p] = [Sending(co[p], o, "run_status") EXCEPT !.fresh = TRUE]]
    BY <1>3 DEF RunStatus
  <2>2. /\ db[j].status \in Active /\ db[j].runStatusOp = None
        /\ running' = running /\ clock' = clock /\ delivered' = delivered
    BY <1>3 DEF RunStatus
  <2> DEFINE d == [db[j] EXCEPT !.runStatusOp = o]
             s == Sending(co[p], o, "run_status")
             x == [s EXCEPT !.fresh = TRUE]
  <2>3. db' = [db EXCEPT ![j] = d] BY <1>1, <2>1 DEF JobsOK
  <2>4. /\ d \in JobRecord /\ d.loaded /\ d.status = db[j].status /\ d.serial = db[j].serial
        /\ d.runStatusOp = o
    BY <1>1 DEF JobsOK, JobRecord
  <2>5. /\ s \in FrameRecord /\ s.pc = "agent_ready" /\ s.op = o /\ s.job = j
        /\ s.cont = "run_status" /\ s.ret = None
    BY SendingType DEF FramesOK, Cont
  <2>6. /\ x \in FrameRecord /\ x.pc = "agent_ready" /\ x.op = o /\ x.job = j
        /\ x.cont = "run_status" /\ x.ret = None
    <3> HIDE DEF s
    <3>1. QED BY <2>5 DEF FrameRecord
  <2>7. co' = [co EXCEPT ![p] = x] BY <2>1
  <2> HIDE DEF d, x, s
  <2>8. Creating(p, o, "run_status", d, x) BY <2>2, <2>4, <2>6 DEF Creating, Cont
  <2>9. Recorded(p, o, "run_status", d, co) BY <2>2, <2>4 DEF Recorded, ControlOps
  <2>10. /\ "run_status" \in OpName /\ KindOf(j, "run_status") \in Kind /\ op[o] = NoOp
         /\ clock' \in Nat /\ delivered' \subseteq Job
    BY <1>1, <2>1, <2>2, KindOfType, FreshIsFree DEF OpName, JobsOK
  <2>11. QED BY <1>1, <2>1, <2>2, <2>3, <2>7, <2>8, <2>9, <2>10, TouchedSees, CreateKeeps
<1>4. QED BY <1>2, <1>3

\* f is p's frame, or what is left of it when only one reply is awaited.
LEMMA SendOpKeeps ==
    ASSUME Inductive, NEW p \in Proc, running = p, co[p].pc \in HandlerPc,
           NEW f \in {co[p], Only(co[p])}, NEW n \in {"analysis", "io"},
           NEW cont \in {"result", "single"}, SendOp(p, f, n, cont)
    PROVE  Inductive'
<1> USE DEF Inductive
<1> DEFINE j == co[p].job
<1>1. p \in Req /\ j \in Job /\ db[j].loaded /\ ~co[p].fresh
  BY DEF FrameInv, Frame, InMemory, HandlerPc, Api
<1>2. f \in FrameRecord /\ f.job = j /\ ~f.fresh
  <2>1. co[p] \in FrameRecord BY DEF FramesOK
  <2>2. CASE f = co[p] BY <1>1, <2>1, <2>2
  <2>3. CASE f = Only(co[p]) BY <2>1, <2>3, OnlyType
  <2>4. QED BY <2>2, <2>3
<1>3. PICK o \in Op : /\ Fresh(o)
                      /\ op' = [op EXCEPT ![o] = NewOp(n, j, KindOf(j, n))]
                      /\ co' = [co EXCEPT ![p] = Sending(f, o, cont)]
  BY <1>2 DEF SendOp
<1> DEFINE x == Sending(f, o, cont)
<1>4. db' = [db EXCEPT ![j] = db[j]] BY DEF SendOp, jobVars, JobsOK
<1>5. /\ x \in FrameRecord /\ x.pc = "agent_ready" /\ x.op = o /\ x.job = j
      /\ x.cont = cont /\ x.ret = None /\ ~x.fresh
  <2>1. cont \in Cont BY DEF Cont
  <2>2. QED BY <1>2, <2>1, SendingType
<1> HIDE DEF x
<1>6. Creating(p, o, n, db[j], x) BY <1>5 DEF Creating, Cont
<1>7. Recorded(p, o, n, db[j], co) BY <1>1 DEF Recorded, ControlOps, JobsOK
<1>8. /\ n \in OpName /\ KindOf(j, n) \in Kind /\ op[o] = NoOp /\ running' = p
      /\ clock' \in Nat /\ delivered' \subseteq Job
  BY <1>1, <1>3, KindOfType, FreshIsFree DEF OpName, JobsOK, SendOp, jobVars
<1>9. QED BY <1>1, <1>3, <1>4, <1>6, <1>7, <1>8, TouchedSees, CreateKeeps DEF x

LEMMA HandlersKeep ==
    ASSUME Inductive, NEW p \in Proc,
           RunSimulation(p) \/ StartRun(p) \/ RunStatus(p) \/ StatusReply(p) \/ ReadData(p)
    PROVE  Inductive'
<1>1. CASE RunSimulation(p)
  <2>1. /\ running = p /\ co[p].pc \in HandlerPc
        /\ "run_status" \in HandlerPc /\ "start_run" \in HandlerPc
    BY <1>1 DEF RunSimulation, At, HandlerPc, Api
  <2>2. CASE Reply(p) BY <2>1, <2>2, ReplyKeeps
  <2>3. CASE Goto(p, "run_status") BY <2>1, <2>3, GotoKeeps
  <2>4. CASE Goto(p, "start_run") /\ db[co[p].job].status \notin Active
    BY <2>1, <2>4, GotoKeeps
  <2>5. QED BY <1>1, <2>2, <2>3, <2>4 DEF RunSimulation
<1>2. CASE StartRun(p) BY <1>2, StartRunKeeps
<1>3. CASE RunStatus(p) BY <1>3, RunStatusKeeps
<1>4. CASE StatusReply(p)
  <2>1. running = p /\ co[p].pc \in HandlerPc BY <1>4 DEF StatusReply, At, HandlerPc
  <2>2. CASE Reply(p) BY <2>1, <2>2, ReplyKeeps
  <2>3. CASE SendOp(p, co[p], "analysis", "result") BY <2>1, <2>3, SendOpKeeps
  <2>4. QED BY <1>4, <2>2, <2>3 DEF StatusReply
<1>5. CASE ReadData(p)
  <2>1. running = p /\ co[p].pc \in HandlerPc BY <1>5 DEF ReadData, At, HandlerPc, Api
  <2>2. CASE Reply(p) BY <2>1, <2>2, ReplyKeeps
  <2>3. CASE SendOp(p, Only(co[p]), "analysis", "single") BY <2>1, <2>3, SendOpKeeps
  <2>4. CASE SendOp(p, Only(co[p]), "io", "single") BY <2>1, <2>4, SendOpKeeps
  <2>5. QED BY <1>5, <2>2, <2>3, <2>4 DEF ReadData
<1>6. QED BY <1>1, <1>2, <1>3, <1>4, <1>5

-----------------------------------------------------------------------------
LEMMA NoOpType == NoOp \in OpRecord /\ ~NoOp.alive
BY DEF NoOp, OpRecord

\* What is left of the operations after those in S were destroyed.
LEMMA OpsWithoutFacts ==
    ASSUME OpsOK, OpInv, FrameInv, NEW S, NEW p, NEW u, u = OpsWithout(S, p)
    PROVE  /\ u \in [Op -> OpRecord]
           /\ \A o \in Op : \/ u[o] = NoOp
                            \/ /\ u[o].name \in OpName
                               /\ u[o].job \in Job
                               /\ u[o].kind \in Kind
                               /\ u[o].reply \in Answer(u[o].name) \union {None, "null"}
           /\ \A o \in Op : o \notin S => u[o] = op[o]
           /\ \A o \in Op : o \in S => ~u[o].alive
           /\ \A o \in Op : op[o] # NoOp /\ (\E q \in Proc \ {p} : co[q].op = o) =>
                /\ u[o] # NoOp /\ u[o].job = op[o].job /\ u[o].name = op[o].name
<1>1. ASSUME NEW o \in Op
      PROVE  /\ u[o] \in OpRecord
             /\ \/ u[o] = NoOp
                \/ /\ u[o].name \in OpName
                   /\ u[o].job \in Job
                   /\ u[o].kind \in Kind
                   /\ u[o].reply \in Answer(u[o].name) \union {None, "null"}
             /\ o \notin S => u[o] = op[o]
             /\ o \in S => ~u[o].alive
             /\ op[o] # NoOp /\ (\E q \in Proc \ {p} : co[q].op = o) =>
                  /\ u[o] # NoOp /\ u[o].job = op[o].job /\ u[o].name = op[o].name
  <2>1. CASE o \notin S
    <3>1. u[o] = op[o] BY <2>1 DEF OpsWithout
    <3>2. QED BY <2>1, <3>1 DEF OpsOK, OpInv
  <2>2. CASE o \in S /\ ~\E q \in Proc \ {p} : co[q].op = o
    <3>1. u[o] = NoOp BY <2>2 DEF OpsWithout
    <3>2. QED BY <2>2, <3>1, NoOpType
  <2>3. CASE o \in S /\ \E q \in Proc \ {p} : co[q].op = o
    <3> DEFINE r == op[o]
               reply == IF r.reply = None THEN "null" ELSE r.reply
               x == [r EXCEPT !.alive = FALSE, !.prepared = FALSE, !.timer = FALSE,
                              !.atAgent = FALSE, !.reply = reply]
    <3>1. r \in OpRecord /\ reply \in Answers \union {"null"} BY DEF OpsOK, OpRecord
    <3>2. u[o] = x
      <4>1. u[o] = [op[o] EXCEPT !.alive = FALSE, !.prepared = FALSE, !.timer = FALSE,
                                   !.atAgent = FALSE, !.reply = IF @ = None THEN "null" ELSE @]
        BY <2>3 DEF OpsWithout
      <4>2. QED BY <4>1, <3>1 DEF OpRecord
    <3> HIDE DEF reply
    <3>3. /\ x \in OpRecord /\ ~x.alive /\ x.name = r.name /\ x.job = r.job
          /\ x.kind = r.kind /\ x.reply = reply
      BY <3>1 DEF OpRecord
    <3> HIDE DEF x
    <3>4. x # NoOp BY <3>1, <3>3, NoneAssumption DEF NoOp
    <3>5. r # NoOp BY <2>3, NoneAssumption DEF FrameInv, Refers
    <3>6. reply \in Answer(r.name) \union {None, "null"} BY <3>5 DEF reply, OpInv
    <3>7. QED BY <2>3, <3>2, <3>3, <3>4, <3>5, <3>6 DEF OpInv
  <2>4. QED BY <2>1, <2>2, <2>3
<1>2. u = [o \in Op |-> u[o]] BY DEF OpsWithout
<1>3. QED BY <1>1, <1>2

\* Records d keep the operation of an active run that is not in S, and
\* whoever compares dbUpdateTime sees a change of the status.
Rewritten(d, S, w) ==
    /\ d \in [Job -> JobRecord]
    /\ \A i \in Job :
          /\ db[i].loaded => d[i].loaded
          /\ d[i].runStatusOp = db[i].runStatusOp
          /\ db[i].runStatusOp = None \/ db[i].runStatusOp \in S \/ d[i].status \in Active
          /\ \/ d[i].status = db[i].status /\ d[i].serial = db[i].serial
             \/ \A q \in Proc : co[q].job = i => ~w[q].fresh

\* Frame x of p when it is done with its operation.
Left(p, x) ==
    /\ x \in FrameRecord /\ x.op = None
    /\ \/ x = IdleFrame
       \/ /\ p \in Req /\ x.job = co[p].job /\ ~x.fresh
          /\ x.pc \in HandlerPc \ {"start_run"} /\ x.cont = None
       \/ /\ x.job = co[p].job /\ ~x.fresh
          /\ x.pc = "returned" /\ x.cont = co[p].cont /\ x.cont \in Cont \ {"run_status"}

\* p's operation is destroyed, or controls the job.
Leaves(p, S, x) ==
    /\ Left(p, x)
    /\ co[p].op \in Op => \/ co[p].op \in S \/ db[co[p].job].runStatusOp = co[p].op

LEMMA DestroyKeeps ==
    ASSUME Inductive, NEW S, NEW p, NEW d, NEW w, NEW x,
           Rewritten(d, S, w), SeesWrite(w), op' = OpsWithout(S, p),
           db' = [i \in Job |-> Released(d[i], S)],
           \A q \in Proc : q # p => co'[q] = w[q],
           p \in Proc => /\ co[p].pc # "idle"
                        /\ co'[p] = x /\ Leaves(p, S, x),
           co' = [q \in Proc |-> co'[q]],
           \A q \in Proc : co[q].pc # "start_run",
           clock' = clock, delivered' = delivered, running' \in Proc \union {None}
    PROVE  Inductive'
<1> USE DEF Inductive
<1>1. /\ OpsOK' /\ OpInv'
      /\ \A o \in Op : o \notin S => op'[o] = op[o]
      /\ \A o \in Op : o \in S => ~op'[o].alive
      /\ \A o \in Op : op[o] # NoOp /\ (\E q \in Proc \ {p} : co[q].op = o) =>
           /\ op'[o] # NoOp /\ op'[o].job = op[o].job /\ op'[o].name = op[o].name
  BY OpsWithoutFacts DEF OpsOK, OpInv
<1>2. ASSUME NEW i \in Job
      PROVE  /\ db'[i] \in JobRecord /\ db'[i].status = d[i].status /\ db'[i].serial = d[i].serial
             /\ db[i].loaded => db'[i].loaded
             /\ db[i].runStatusOp \in S => db'[i].runStatusOp = None
             /\ db[i].runStatusOp \notin S => db'[i].runStatusOp = db[i].runStatusOp
  <2>1. d[i] \in JobRecord /\ db'[i] = Released(d[i], S)
        /\ d[i].runStatusOp = db[i].runStatusOp /\ (db[i].loaded => d[i].loaded)
    BY DEF Rewritten
  <2>2. QED BY <2>1 DEF Released, JobRecord
<1>3. JobsOK' BY <1>2 DEF JobsOK
<1>4. ASSUME NEW q \in Proc, q # p
      PROVE  /\ co'[q] \in FrameRecord
             /\ co'[q].pc = co[q].pc /\ co'[q].job = co[q].job /\ co'[q].op = co[q].op
             /\ co'[q].cont = co[q].cont /\ co'[q].serial = co[q].serial
             /\ co'[q].ret = co[q].ret
             /\ co'[q].fresh => co[q].fresh /\ w[q].fresh
             /\ co'[q].pc = "idle" => co'[q] = IdleFrame
  <2>1. co'[q] = w[q] /\ co[q] \in FrameRecord /\ w[q] \in FrameRecord
    BY <1>4 DEF SeesWrite, FramesOK
  <2>2. w[q] = co[q] \/ w[q] = [co[q] EXCEPT !.fresh = FALSE] BY DEF SeesWrite
  <2>3. co[q].pc = "idle" => co[q] = IdleFrame BY DEF FrameInv, Frame
  <2>4. QED BY <2>1, <2>2, <2>3 DEF FrameRecord, IdleFrame
<1>5. FramesOK' BY <1>4 DEF FramesOK, Leaves, Left
<1>6. FrameInv'
  <2>1. ASSUME NEW q \in Proc, q # p
        PROVE  Frame(q)' /\ Refers(q)' /\ InMemory(q)' /\ Transaction(q)' /\ Starting(q)'
    <3>1. Frame(q)' BY <1>4, <2>1 DEF FrameInv, Frame
    <3>2. Refers(q)' BY <1>1, <1>4, <2>1, NoneAssumption DEF FrameInv, Refers, FramesOK, FrameRecord
    <3>3. InMemory(q)' BY <1>2, <1>4, <2>1 DEF FrameInv, Frame, InMemory
    <3>4. Transaction(q)'
      <4>1. co[q].fresh => co[q].job \in Job
        BY NoneAssumption DEF FrameInv, Frame, IdleFrame
      <4>2. QED BY <1>2, <1>4, <2>1, <4>1 DEF FrameInv, Transaction, Rewritten
    <3>5. Starting(q)' BY <1>4, <2>1 DEF Starting
    <3>6. QED BY <3>1, <3>2, <3>3, <3>4, <3>5
  <2>2. ASSUME p \in Proc
        PROVE  Frame(p)' /\ Refers(p)' /\ InMemory(p)' /\ Transaction(p)' /\ Starting(p)'
    <3>1. co'[p] = x /\ Leaves(p, S, x) /\ co[p].pc # "idle" BY <2>2
    <3>2. co[p].job \in Job /\ (p \in Req => db[co[p].job].loaded)
          /\ (p \in Req \/ co[p].cont = "cancel")
      BY <2>2, <3>1 DEF FrameInv, Frame, InMemory
    <3>3. x = IdleFrame => x.pc = "idle" /\ ~x.fresh /\ x.cont = None /\ x.ret = None
      BY DEF IdleFrame
    <3>4. Frame(p)'
      <4>1. CASE x = IdleFrame BY <3>1, <4>1 DEF Frame, IdleFrame, HandlerPc, Api, SendPc
      <4>2. CASE p \in Req /\ x.cont = None /\ x.pc \in HandlerPc \ {"start_run"}
                 /\ x.job = co[p].job /\ ~x.fresh /\ x.op = None
        BY <3>1, <3>2, <4>2, NoneAssumption DEF Frame, HandlerPc, Api, SendPc, Cont
      <4>3. CASE x.pc = "returned" /\ x.cont = co[p].cont /\ x.cont \in Cont \ {"run_status"}
                 /\ x.job = co[p].job /\ ~x.fresh
        BY <3>1, <3>2, <4>3 DEF Frame, HandlerPc, Api, SendPc
      <4>4. QED BY <3>1, <4>1, <4>2, <4>3 DEF Leaves, Left
    <3>5. Refers(p)' /\ Transaction(p)' /\ Starting(p)'
      BY <3>1, <3>3 DEF Refers, Transaction, Starting, Leaves, Left
    <3>6. InMemory(p)' BY <1>2, <3>1, <3>2, <3>3 DEF InMemory, Leaves, Left
    <3>7. QED BY <3>4, <3>5, <3>6
  <2>3. QED BY <2>1, <2>2 DEF FrameInv
<1>7. OneController'
  <2>1. ASSUME NEW i \in Job, db'[i].runStatusOp # None
        PROVE  LET c == op'[db'[i].runStatusOp]
               IN  /\ c.alive /\ c.job = i /\ c.name \in ControlOps
                   /\ db'[i].loaded /\ db'[i].status \in Active
    <3>1. /\ db'[i].runStatusOp = db[i].runStatusOp /\ db[i].runStatusOp \notin S
          /\ db[i].runStatusOp \in Op /\ d[i].status \in Active
      BY <1>2, <2>1 DEF Rewritten, JobsOK, JobRecord
    <3>2. QED BY <1>1, <1>2, <2>1, <3>1 DEF OneController
  <2>2. ASSUME NEW o \in Op, op'[o].alive, op'[o].name \in ControlOps
        PROVE  db'[op'[o].job].runStatusOp = o
    <3>1. o \notin S /\ op'[o] = op[o] /\ op[o].job \in Job
      BY <1>1, <2>2 DEF OpInv, NoOp
    <3>2. QED BY <1>2, <2>2, <3>1 DEF OneController
  <2>3. QED BY <2>1, <2>2 DEF OneController
<1>8. NoOrphanOp'
  <2>1. ASSUME NEW o \in Op, op'[o].alive
        PROVE  (\E q \in Proc : co'[q].op = o) \/ db'[op'[o].job].runStatusOp = o
    <3>1. o \notin S /\ op'[o] = op[o] /\ op[o].job \in Job
      BY <1>1, <2>1 DEF OpInv, NoOp
    <3>2. CASE db[op[o].job].runStatusOp = o BY <1>2, <3>1, <3>2
    <3>3. ASSUME NEW q \in Proc, co[q].op = o, db[op[o].job].runStatusOp # o
          PROVE  co'[q].op = o
      <4>1. q # p BY <3>1, <3>3, NoneAssumption DEF Leaves, FrameInv, Refers
      <4>2. QED BY <1>4, <3>3, <4>1
    <3>4. QED BY <2>1, <3>1, <3>2, <3>3 DEF NoOrphanOp
  <2>2. QED BY <2>1 DEF NoOrphanOp
<1>9. QED BY <1>1, <1>3, <1>5, <1>6, <1>7, <1>8

LEMMA DestroyOrWriteKeeps ==
    ASSUME Inductive, NEW p \in Proc, running \in {p, None},
           co[p].pc \notin {"idle", "start_run"}, NEW S, NEW x, NEW d,
           S \subseteq {co[p].op, db[co[p].job].runStatusOp} \ {None},
           d \in JobRecord, db[co[p].job].loaded => d.loaded,
           d.runStatusOp = db[co[p].job].runStatusOp,
           \/ db[co[p].job].runStatusOp \in S \union {None} \/ d.status \in Active,
           Leaves(p, S, x),
           (Destroy(p, S, x) /\ d = db[co[p].job]) \/ Write(p, S, x, d)
    PROVE  Inductive'
<1> USE DEF Inductive
<1> DEFINE j == co[p].job
           dd == [db EXCEPT ![j] = d]
           w == IF Write(p, S, x, d) THEN Touched(co, j) ELSE co
<1>1. j \in Job BY DEF FrameInv, Frame
<1>2. \A o \in S : o \in Op /\ op[o].job = j
  <2>1. co[p].op # None => co[p].op \in Op /\ op[co[p].op].job = j
    BY DEF FrameInv, Refers, FramesOK, FrameRecord
  <2>2. db[j].runStatusOp # None => db[j].runStatusOp \in Op /\ op[db[j].runStatusOp].job = j
    BY <1>1 DEF OneController, JobsOK, JobRecord
  <2>3. QED BY <2>1, <2>2
<1>3. SeesWrite(w) /\ (Write(p, S, x, d) => \A q \in Proc : co[q].job = j => ~w[q].fresh)
  <2>1. SeesWrite(w) BY TouchedSees
  <2>2. CASE Write(p, S, x, d) BY <2>1, <2>2, TouchedSees
  <2>3. QED BY <2>1, <2>2
<1>4. /\ op' = OpsWithout(S, p) /\ clock' = clock /\ delivered' = delivered
      /\ running' \in Proc \union {None} /\ db' = [db EXCEPT ![j] = Released(d, S)]
      /\ co' = [w EXCEPT ![p] = x]
  BY DEF Destroy, Write
<1>5. db' = [i \in Job |-> Released(dd[i], S)]
  <2>1. ASSUME NEW i \in Job, i # j PROVE Released(db[i], S) = db[i]
    <3>1. db[i] \in JobRecord BY DEF JobsOK
    <3>2. db[i].runStatusOp \notin S BY <1>2, <2>1, NoneAssumption DEF OneController
    <3>3. QED BY <3>1, <3>2 DEF Released, JobRecord
  <2>2. QED BY <1>4, <2>1 DEF JobsOK
<1>6. /\ co' = [q \in Proc |-> co'[q]] /\ co'[p] = x
      /\ \A q \in Proc : q # p => co'[q] = w[q]
  BY <1>3, <1>4 DEF SeesWrite
<1>7. Rewritten(dd, S, w)
  <2>1. dd[j] = d /\ \A i \in Job : i # j => dd[i] = db[i] BY <1>1 DEF JobsOK
  <2>2. dd \in [Job -> JobRecord] BY <1>1 DEF JobsOK
  <2>3. \A i \in Job : db[i].runStatusOp = None \/ db[i].status \in Active
    BY DEF OneController
  <2>4. \/ d = db[j]
        \/ \A q \in Proc : co[q].job = j => ~w[q].fresh
    BY <1>3
  <2> HIDE DEF dd, w
  <2>5. QED BY <2>1, <2>2, <2>3, <2>4 DEF Rewritten
<1>8. \A q \in Proc : co[q].pc # "start_run"
  <2>1. CASE running = None BY <2>1, StartingRuns
  <2>2. CASE running = p BY <2>2, StartingElsewhere
  <2>3. QED BY <2>1, <2>2
<1> HIDE DEF dd, w
<1>9. QED BY <1>3, <1>4, <1>5, <1>6, <1>7, <1>8, DestroyKeeps

\* The frames and records that the steps after a send leave behind.
LEMMA WithoutType ==
    ASSUME NEW p \in Proc, co[p] \in FrameRecord, NEW pc \in Pc, NEW x, x = Without(p, pc)
    PROVE  /\ x \in FrameRecord /\ x.pc = pc /\ x.op = None /\ x.cont = None
           /\ x.job = co[p].job /\ ~x.fresh
BY DEF Without, FrameRecord

LEMMA WithStatusType ==
    ASSUME JobsOK, NEW j \in Job, NEW s \in Status
    PROVE  LET d == WithStatus(j, s)
           IN  /\ d \in JobRecord /\ d.status = s /\ d.loaded = db[j].loaded
               /\ d.runStatusOp = db[j].runStatusOp /\ d.serial = db[j].serial
BY DEF WithStatus, JobsOK, JobRecord

LEMMA MissingType ==
    ASSUME JobsOK, NEW p \in Proc, co[p] \in FrameRecord, co[p].job \in Job,
           NEW d, d = Missing(p)
    PROVE  /\ d \in JobRecord /\ d.status = "missing" /\ d.serial = 0
           /\ d.loaded = db[co[p].job].loaded /\ d.runStatusOp = db[co[p].job].runStatusOp
<1>1. "missing" \in Status /\ co[p].hash \in Hash \union {None} /\ 0 \in Nat
  BY DEF Status, Exit, FrameRecord
<1>2. db[co[p].job] \in JobRecord BY DEF JobsOK
<1>3. QED BY <1>1, <1>2 DEF Missing, JobRecord

\* p destroys its operation, and whatever its job does not need in status s.
LEMMA DestroyOwnKeeps ==
    ASSUME Inductive, NEW p \in Proc, running = p, co[p].pc \notin {"idle", "start_run"},
           NEW x, Left(p, x), Destroy(p, OwnOp(p), x)
    PROVE  Inductive'
<1> DEFINE j == co[p].job
           d == db[j]
           S == OwnOp(p)
<1>1. d \in JobRecord BY DEF Inductive, FrameInv, Frame, JobsOK
<1>2. d.runStatusOp = None \/ d.status \in Active
  BY DEF Inductive, OneController, FrameInv, Frame
<1>3. S \subseteq {co[p].op, d.runStatusOp} \ {None} BY DEF OwnOp
<1>4. Leaves(p, S, x) BY NoneAssumption DEF Leaves, OwnOp
<1> HIDE DEF d, S
<1>5. QED BY <1>1, <1>2, <1>3, <1>4, DestroyOrWriteKeeps DEF d, S

LEMMA DestroyNoneKeeps ==
    ASSUME Inductive, NEW p \in Proc, running = p, co[p].pc \notin {"idle", "start_run"},
           NEW x, Left(p, x), Destroy(p, {}, x), db[co[p].job].runStatusOp = co[p].op
    PROVE  Inductive'
<1> DEFINE j == co[p].job
           d == db[j]
<1>1. d \in JobRecord BY DEF Inductive, FrameInv, Frame, JobsOK
<1>2. d.runStatusOp = None \/ d.status \in Active
  BY DEF Inductive, OneController, FrameInv, Frame
<1>3. Leaves(p, {}, x) BY DEF Leaves
<1>4. QED BY <1>1, <1>2, <1>3, DestroyOrWriteKeeps

LEMMA WriteKeeps ==
    ASSUME Inductive, NEW p \in Proc, running \in {p, None},
           co[p].pc \notin {"idle", "start_run"}, NEW x, Left(p, x), NEW s, NEW d,
           d \in JobRecord, d.loaded = db[co[p].job].loaded, d.status = s,
           d.runStatusOp = db[co[p].job].runStatusOp,
           Write(p, OwnOp(p) \union Ended(co[p].job, s), x, d)
    PROVE  Inductive'
<1> DEFINE j == co[p].job
           S == OwnOp(p) \union Ended(j, s)
<1>1. S \subseteq {co[p].op, db[j].runStatusOp} \ {None} BY DEF OwnOp, Ended
<1>2. db[j].runStatusOp \in S \union {None} \/ d.status \in Active BY DEF Ended
<1>3. Leaves(p, S, x) BY NoneAssumption DEF Leaves, OwnOp
<1> HIDE DEF S
<1>4. QED BY <1>1, <1>2, <1>3, DestroyOrWriteKeeps DEF S

LEMMA WriteStatusKeeps ==
    ASSUME Inductive, NEW p \in Proc, running = p, co[p].pc \notin {"idle", "start_run"},
           NEW x, Left(p, x), NEW s \in Status,
           Write(p, OwnOp(p) \union Ended(co[p].job, s), x, WithStatus(co[p].job, s))
    PROVE  Inductive'
<1> DEFINE d == WithStatus(co[p].job, s)
<1>1. co[p].job \in Job /\ JobsOK BY DEF Inductive, FrameInv, Frame
<1>2. /\ d \in JobRecord /\ d.loaded = db[co[p].job].loaded /\ d.status = s
      /\ d.runStatusOp = db[co[p].job].runStatusOp
  BY <1>1, WithStatusType
<1> HIDE DEF d
<1>3. QED BY <1>2, WriteKeeps DEF d

LEMMA LeftIdle == ASSUME NEW p PROVE Left(p, IdleFrame)
BY IdleFrameType DEF Left, IdleFrame

LEMMA LeftFor ==
    ASSUME FramesOK, NEW p \in Req, NEW pc \in HandlerPc \ {"start_run"}
    PROVE  Left(p, Without(p, pc))
<1>1. pc \in Pc /\ co[p] \in FrameRecord BY DEF HandlerPc, Pc, Api, FramesOK, Proc
<1>2. QED BY <1>1, WithoutType DEF Left, Proc

\* Where p is when its send is over.
LEMMA ReturnedFacts ==
    ASSUME Inductive, NEW p \in Proc, NEW cont \in Cont, Returned(p, cont)
    PROVE  /\ running = p /\ co[p].pc \notin {"idle", "start_run"} /\ co[p].job \in Job
           /\ co[p].cont = cont /\ (cont # "cancel" => p \in Req) /\ co[p] \in FrameRecord
           /\ cont = "run_status" => co[p].ret \in Answer("run_status") \union {None}
BY NoneAssumption DEF Returned, At, Inductive, FrameInv, Frame, FramesOK

LEMMA ReturnRunKeeps ==
    ASSUME Inductive, NEW p \in Proc, ReturnRun(p)
    PROVE  Inductive'
<1> DEFINE j == co[p].job
<1>1. Returned(p, "run") /\ "run" \in Cont /\ JobsOK /\ FramesOK
  BY DEF ReturnRun, Cont, Inductive
<1>2. Left(p, IdleFrame) /\ Left(p, Without(p, "run_status"))
  BY <1>1, ReturnedFacts, LeftIdle, LeftFor DEF HandlerPc
<1>3. CASE Destroy(p, OwnOp(p), IdleFrame)
  BY <1>1, <1>2, <1>3, ReturnedFacts, DestroyOwnKeeps
<1>4. CASE Write(p, OwnOp(p) \union Ended(j, "error"), IdleFrame, WithStatus(j, "error"))
  BY <1>1, <1>2, <1>4, ReturnedFacts, WriteStatusKeeps DEF Status, Exit
<1>5. CASE Destroy(p, {}, Without(p, "run_status")) /\ db[j].runStatusOp = co[p].op
  BY <1>1, <1>2, <1>5, ReturnedFacts, DestroyNoneKeeps
<1>6. QED BY <1>3, <1>4, <1>5 DEF ReturnRun

LEMMA ReturnRunStatusKeeps ==
    ASSUME Inductive, NEW p \in Proc, ReturnRunStatus(p)
    PROVE  Inductive'
<1> DEFINE j == co[p].job
           next == Without(p, "status_reply")
           r == co[p].ret
<1>1. Returned(p, "run_status") /\ "run_status" \in Cont /\ JobsOK /\ FramesOK
  BY DEF ReturnRunStatus, Cont, Inductive
<1>2. Left(p, next) BY <1>1, ReturnedFacts, LeftFor DEF HandlerPc
<1>3. CASE Destroy(p, OwnOp(p), next)
  BY <1>1, <1>2, <1>3, ReturnedFacts, DestroyOwnKeeps
<1>4. CASE Destroy(p, {}, next) /\ db[j].runStatusOp = co[p].op
  BY <1>1, <1>2, <1>4, ReturnedFacts, DestroyNoneKeeps
<1>5. CASE Write(p, OwnOp(p), next, WithStatus(j, "error")) /\ db[j].runStatusOp = co[p].op
  <2>1. OwnOp(p) = OwnOp(p) \union Ended(j, "error") BY <1>5 DEF OwnOp, Ended
  <2>2. Write(p, OwnOp(p) \union Ended(j, "error"), next, WithStatus(j, "error"))
    BY <1>5, <2>1
  <2>3. QED BY <1>1, <1>2, <2>2, ReturnedFacts, WriteStatusKeeps DEF Status, Exit
<1>6. CASE /\ Write(p, OwnOp(p) \union Ended(j, r), next, WithStatus(j, r))
           /\ r \notin {None, "unknown", "unknown_error"}
  <2>1. r \in Status BY <1>1, <1>6, ReturnedFacts DEF Answer, Status, Active, Exit
  <2>2. QED BY <1>1, <1>2, <1>6, <2>1, ReturnedFacts, WriteStatusKeeps
<1>7. QED BY <1>3, <1>4, <1>5, <1>6 DEF ReturnRunStatus

LEMMA ReturnSingleKeeps ==
    ASSUME Inductive, NEW p \in Proc, ReturnSingle(p)
    PROVE  Inductive'
<1>1. PICK cont \in Cont : Returned(p, cont) BY DEF ReturnSingle, Cont
<1>2. QED BY <1>1, ReturnedFacts, LeftIdle, DestroyOwnKeeps DEF ReturnSingle

LEMMA ReturnResultKeeps ==
    ASSUME Inductive, NEW p \in Proc, ReturnResult(p)
    PROVE  Inductive'
<1> DEFINE j == co[p].job
           next == IF co[p].run THEN Without(p, "api_runSimulation") ELSE IdleFrame
<1>1. Returned(p, "result") /\ "result" \in Cont /\ JobsOK /\ FramesOK
  BY DEF ReturnResult, Cont, Inductive
<1>2. Left(p, IdleFrame) /\ Left(p, next)
  BY <1>1, ReturnedFacts, LeftIdle, LeftFor DEF HandlerPc, Api
<1>3. CASE \E x \in {next, IdleFrame} : Destroy(p, OwnOp(p), x)
  BY <1>1, <1>2, <1>3, ReturnedFacts, DestroyOwnKeeps
<1>4. CASE Write(p, OwnOp(p) \union Ended(j, "missing"), next, Missing(p))
  <2> HIDE DEF next
  <2>1. QED BY <1>1, <1>2, <1>4, ReturnedFacts, MissingType, WriteKeeps
<1>5. QED BY <1>3, <1>4 DEF ReturnResult

LEMMA RaiseKeeps ==
    ASSUME Inductive, NEW p \in Proc, Raise(p)
    PROVE  Inductive'
<1> DEFINE j == co[p].job
<1>1. /\ running = p /\ co[p].pc \notin {"idle", "start_run"} /\ j \in Job /\ JobsOK
  BY DEF Raise, At, Inductive, FrameInv, Frame
<1>2. CASE Destroy(p, OwnOp(p), IdleFrame) BY <1>1, <1>2, LeftIdle, DestroyOwnKeeps
<1>3. CASE Write(p, OwnOp(p) \union Ended(j, "error"), IdleFrame, WithStatus(j, "error"))
  BY <1>1, <1>3, LeftIdle, WriteStatusKeeps DEF Status, Exit
<1>4. QED BY <1>2, <1>3 DEF Raise

LEMMA ReplyGotKeeps ==
    ASSUME Inductive, NEW p \in Proc, ReplyGot(p)
    PROVE  Inductive'
<1> DEFINE j == co[p].job
           x == [co[p] EXCEPT !.pc = "returned", !.op = None, !.ret = "missing"]
<1>1. CASE op[co[p].op].reply # "run_dir_not_found" BY <1>1, ReplyGotPlain
<1>2. CASE op[co[p].op].reply = "run_dir_not_found"
  <2>1. /\ co[p].pc = "awaitReply" /\ running = None /\ j \in Job /\ co[p] \in FrameRecord
        /\ co[p].cont \in Cont /\ co[p].op \in Op /\ JobsOK
    BY DEF ReplyGot, Woken, Inductive, FrameInv, Frame, FramesOK, SendPc
  <2>2. "run_dir_not_found" \in Answer(op[co[p].op].name) /\ op[co[p].op].name \in OpName
    <3>1. "run_dir_not_found" \in Answers BY DEF Answers, Answer, OpName
    <3>2. "run_dir_not_found" \notin {None, "null"} BY <3>1, NoneAssumption
    <3>3. op[co[p].op] # NoOp BY <2>1, NoneAssumption DEF Inductive, FrameInv, Refers
    <3>4. QED BY <1>2, <2>1, <3>2, <3>3 DEF Inductive, OpInv
  <2>3. co[p].cont \notin {"run", "run_status"} /\ ~co[p].fresh
    BY <2>1, <2>2, NoneAssumption DEF Inductive, FrameInv, Frame, Refers, Answer, Active
  <2>4. Left(p, x)
    <3>1. /\ x \in FrameRecord /\ x.pc = "returned" /\ x.op = None /\ x.job = j
          /\ x.cont = co[p].cont /\ x.fresh = co[p].fresh
      BY <2>1 DEF FrameRecord, Pc
    <3> HIDE DEF x
    <3>2. QED BY <2>1, <2>3, <3>1 DEF Left
  <2>5. Write(p, OwnOp(p) \union Ended(j, "missing"), x, Missing(p))
    <3>1. OwnOp(p) = {co[p].op} BY <2>1, NoneAssumption DEF OwnOp
    <3>2. QED BY <1>2, <3>1 DEF ReplyGot
  <2> HIDE DEF x
  <2>6. QED BY <2>1, <2>4, <2>5, MissingType, WriteKeeps
<1>3. QED BY <1>1, <1>2

-----------------------------------------------------------------------------
\* The operations in S are destroyed, and an OP_CANCEL takes p's place.
LEMMA CancelJobKeeps ==
    ASSUME Inductive, NEW p \in Proc, running \in {p, None}, co[p].pc # "start_run",
           NEW j \in Job, NEW k \in Kind, NEW S, NEW f \in FrameRecord,
           f.job = j, ~f.fresh, co[p].op = None,
           p \in Req => db[j].loaded,
           \A o \in S : o \in Op /\ op[o] # NoOp /\ op[o].job = j,
           db[j].runStatusOp \in S \union {None},
           CancelJob(p, f, j, k, S)
    PROVE  Inductive'
<1> USE DEF Inductive
<1>1. PICK c \in Op :
        /\ Fresh(c)
        /\ op' = [OpsWithout(S, p) EXCEPT ![c] = NewOp("cancel", j, k)]
        /\ co' = [Touched(co, j) EXCEPT ![p] = Sending(f, c, "cancel")]
  BY DEF CancelJob
<1> DEFINE u == OpsWithout(S, p)
           w == Touched(co, j)
           x == Sending(f, c, "cancel")
           y == NewOp("cancel", j, k)
<1>2. /\ u \in [Op -> OpRecord]
      /\ \A o \in Op : \/ u[o] = NoOp
                       \/ /\ u[o].name \in OpName
                          /\ u[o].job \in Job
                          /\ u[o].kind \in Kind
                          /\ u[o].reply \in Answer(u[o].name) \union {None, "null"}
      /\ \A o \in Op : o \notin S => u[o] = op[o]
      /\ \A o \in Op : o \in S => ~u[o].alive
      /\ \A o \in Op : op[o] # NoOp /\ (\E q \in Proc \ {p} : co[q].op = o) =>
           /\ u[o] # NoOp /\ u[o].job = op[o].job /\ u[o].name = op[o].name
  BY OpsWithoutFacts
<1>3. /\ y \in OpRecord /\ y # NoOp /\ y.alive /\ y.name = "cancel" /\ y.job = j /\ y.kind = k
      /\ y.reply = None
  BY DEF NewOp, NoOp, OpRecord, OpName
<1>4. /\ x \in FrameRecord /\ x.pc = "agent_ready" /\ x.op = c /\ x.job = j
      /\ x.cont = "cancel" /\ x.ret = None /\ ~x.fresh
  <2>1. "cancel" \in Cont BY DEF Cont
  <2>2. QED BY <2>1, SendingType
<1>5. SeesWrite(w) /\ \A q \in Proc : co[q].job = j => ~w[q].fresh
  BY TouchedSees
<1>6. op[c] = NoOp /\ c \notin S BY <1>1, FreshIsFree
<1>7. ASSUME NEW i \in Job
      PROVE  /\ db'[i] \in JobRecord
             /\ db[i].loaded => db'[i].loaded
             /\ i # j => db'[i] = db[i]
             /\ db'[j].runStatusOp = None
  <2> DEFINE d == Released(db[j], S)
  <2>1. /\ d \in JobRecord /\ d.loaded = db[j].loaded /\ d.runStatusOp = None
    BY DEF Released, JobsOK, JobRecord
  <2> HIDE DEF d
  <2>2. [d EXCEPT !.status = "canceled"] \in JobRecord
        /\ [d EXCEPT !.status = "canceled"].loaded = db[j].loaded
        /\ [d EXCEPT !.status = "canceled"].runStatusOp = None
    BY <2>1 DEF JobRecord, Status, Exit
  <2>3. db' = [db EXCEPT ![j] = [d EXCEPT !.status = "canceled"]] BY DEF CancelJob, d, JobsOK
  <2>4. QED BY <2>2, <2>3 DEF JobsOK
<1>8. /\ db' = [i \in Job |-> db'[i]] /\ clock' = clock /\ delivered' = delivered /\ running' = p
  BY DEF CancelJob, JobsOK
<1>9. /\ op' = [u EXCEPT ![c] = y] /\ op'[c] = y /\ \A o \in Op : o # c => op'[o] = u[o]
  BY <1>1, <1>2
<1>10. /\ co' = [w EXCEPT ![p] = x] /\ co'[p] = x /\ \A q \in Proc : q # p => co'[q] = w[q]
  BY <1>1, <1>5 DEF SeesWrite
<1> HIDE DEF u, w, x, y
<1>11. JobsOK' BY <1>7, <1>8 DEF JobsOK
<1>12. OpsOK' /\ OpInv' BY <1>2, <1>3, <1>9 DEF OpsOK, OpInv, OpName
<1>13. FramesOK' BY <1>4, <1>5, <1>8, <1>10 DEF FramesOK, SeesWrite
<1>14. ASSUME NEW q \in Proc, q # p
       PROVE  /\ co'[q].pc = co[q].pc /\ co'[q].job = co[q].job /\ co'[q].op = co[q].op
              /\ co'[q].cont = co[q].cont /\ co'[q].serial = co[q].serial
              /\ co'[q].ret = co[q].ret
              /\ co'[q].fresh => co[q].fresh /\ co[q].job # j
              /\ co'[q].pc = "idle" => co'[q] = IdleFrame
  <2>1. co'[q] = w[q] /\ co[q] \in FrameRecord /\ w[q] \in FrameRecord
    BY <1>5, <1>10, <1>14 DEF SeesWrite, FramesOK
  <2>2. w[q] = co[q] \/ w[q] = [co[q] EXCEPT !.fresh = FALSE] BY <1>5 DEF SeesWrite
  <2>3. co[q].pc = "idle" => co[q] = IdleFrame BY DEF FrameInv, Frame
  <2>4. QED BY <1>5, <2>1, <2>2, <2>3 DEF FrameRecord, IdleFrame
<1>15. FrameInv'
  <2>1. ASSUME NEW q \in Proc, q # p
        PROVE  Frame(q)' /\ Refers(q)' /\ InMemory(q)' /\ Transaction(q)' /\ Starting(q)'
    <3>1. Frame(q)' BY <1>14, <2>1 DEF FrameInv, Frame
    <3>2. Refers(q)'
      <4>1. co[q].op # None => /\ co[q].op \in Op /\ op[co[q].op] # NoOp
                              /\ op'[co[q].op] = u[co[q].op]
        BY <1>6, <1>9 DEF FrameInv, Refers, FramesOK, FrameRecord
      <4>2. QED BY <1>2, <1>14, <2>1, <4>1 DEF FrameInv, Refers
    <3>3. InMemory(q)' BY <1>7, <1>14, <2>1 DEF FrameInv, Frame, InMemory
    <3>4. Transaction(q)'
      <4>1. co[q].fresh => co[q].job \in Job
        BY NoneAssumption DEF FrameInv, Frame, IdleFrame
      <4>2. QED BY <1>7, <1>14, <2>1, <4>1 DEF FrameInv, Transaction
    <3>5. Starting(q)'
      <4>1. co[q].pc # "start_run"
        <5>1. CASE running = None BY <5>1, StartingRuns
        <5>2. CASE running = p BY <5>2, StartingElsewhere
        <5>3. QED BY <5>1, <5>2
      <4>2. QED BY <1>14, <2>1, <4>1 DEF Starting
    <3>6. QED BY <3>1, <3>2, <3>3, <3>4, <3>5
  <2>2. Frame(p)' BY <1>4, <1>10 DEF Frame, HandlerPc, Api, SendPc, Cont
  <2>3. Refers(p)' /\ InMemory(p)' /\ Transaction(p)' /\ Starting(p)'
    BY <1>3, <1>4, <1>7, <1>9, <1>10 DEF Refers, InMemory, Transaction, Starting
  <2>4. QED BY <2>1, <2>2, <2>3 DEF FrameInv
<1>16. OneController'
  <2>1. ASSUME NEW i \in Job, db'[i].runStatusOp # None
        PROVE  LET o == op'[db'[i].runStatusOp]
               IN  /\ o.alive /\ o.job = i /\ o.name \in ControlOps
                   /\ db'[i].loaded /\ db'[i].status \in Active
    <3>1. i # j /\ db'[i] = db[i] BY <1>7, <2>1
    <3>2. db[i].runStatusOp \in Op /\ op[db[i].runStatusOp].alive /\ op[db[i].runStatusOp].job = i
      BY <2>1, <3>1 DEF OneController, JobsOK, JobRecord
    <3>3. op'[db[i].runStatusOp] = op[db[i].runStatusOp]
      BY <1>2, <1>6, <1>9, <3>1, <3>2 DEF NoOp
    <3>4. QED BY <2>1, <3>1, <3>3 DEF OneController
  <2>2. ASSUME NEW o \in Op, op'[o].alive, op'[o].name \in ControlOps
        PROVE  db'[op'[o].job].runStatusOp = o
    <3>1. o # c BY <1>3, <1>9, <2>2 DEF ControlOps
    <3>2. o \notin S /\ op'[o] = op[o] /\ op[o].job \in Job
      BY <1>2, <1>9, <2>2, <3>1 DEF OpInv, NoOp
    <3>3. db[op[o].job].runStatusOp = o BY <2>2, <3>2 DEF OneController
    <3>4. op[o].job # j BY <3>2, <3>3, NoneAssumption
    <3>5. QED BY <1>7, <3>2, <3>3, <3>4
  <2>3. QED BY <2>1, <2>2 DEF OneController
<1>17. NoOrphanOp'
  <2>1. ASSUME NEW o \in Op, op'[o].alive
        PROVE  (\E q \in Proc : co'[q].op = o) \/ db'[op'[o].job].runStatusOp = o
    <3>1. CASE o = c BY <1>4, <1>10, <3>1
    <3>2. CASE o # c
      <4>1. o \notin S /\ op'[o] = op[o] /\ op[o].job \in Job
        BY <1>2, <1>9, <2>1, <3>2 DEF OpInv, NoOp
      <4>2. CASE db[op[o].job].runStatusOp = o
        <5>1. op[o].job # j BY <4>1, <4>2, NoneAssumption
        <5>2. QED BY <1>7, <4>1, <4>2, <5>1
      <4>3. ASSUME NEW q \in Proc, co[q].op = o PROVE co'[q].op = o
        <5>1. q # p BY <4>3, NoneAssumption
        <5>2. QED BY <1>14, <4>3, <5>1
      <4>4. QED BY <2>1, <4>1, <4>2, <4>3 DEF NoOrphanOp
    <3>3. QED BY <3>1, <3>2
  <2>2. QED BY <2>1 DEF NoOrphanOp
<1>18. QED BY <1>11, <1>12, <1>13, <1>15, <1>16, <1>17

LEMMA RunCancelKeeps ==
    ASSUME Inductive, NEW p \in Proc, RunCancel(p)
    PROVE  Inductive'
<1> USE DEF Inductive
<1> DEFINE j == co[p].job
           f == Only(co[p])
           S == Ended(j, "canceled")
<1>1. running = p /\ co[p].pc = "api_runCancel" BY DEF RunCancel, At
<1>2. /\ p \in Req /\ j \in Job /\ db[j].loaded /\ co[p].op = None
      /\ "cancel" \in OpName /\ co[p].pc \in HandlerPc
  BY <1>1 DEF FrameInv, Frame, InMemory, HandlerPc, Api, OpName
<1>3. CASE Reply(p) BY <1>1, <1>2, <1>3, ReplyKeeps
<1>4. CASE CancelJob(p, f, j, KindOf(j, "cancel"), S)
  <2>1. S = {db[j].runStatusOp} \ {None} BY DEF Ended, Active
  <2>2. \A o \in S : o \in Op /\ op[o] # NoOp /\ op[o].job = j
    BY <1>2, <2>1 DEF OneController, JobsOK, JobRecord, NoOp
  <2>3. f \in FrameRecord /\ f.job = j /\ ~f.fresh BY OnlyType DEF FramesOK
  <2> HIDE DEF f, S
  <2>4. QED BY <1>1, <1>2, <1>4, <2>1, <2>2, <2>3, KindOfType, CancelJobKeeps
<1>5. QED BY <1>3, <1>4 DEF RunCancel

LEMMA OpTimeoutKeeps ==
    ASSUME Inductive, NEW p \in Timer, NEW o \in Op, OpTimeout(p, o)
    PROVE  Inductive'
<1> USE DEF Inductive
<1> DEFINE j == op[o].job
           f == [IdleFrame EXCEPT !.job = j]
           S == {o} \union Ended(j, "canceled")
<1>1. /\ running = None /\ co[p].pc = "idle" /\ op[o].alive /\ p \in Proc
      /\ CancelJob(p, f, j, op[o].kind, S)
  BY DEF OpTimeout, Proc
<1>2. /\ co[p].op = None /\ p \notin Req /\ op[o] # NoOp /\ j \in Job /\ op[o].kind \in Kind
  BY <1>1, ProcAssumption DEF FrameInv, Frame, IdleFrame, OpInv, NoOp
<1>3. S = {o} \union ({db[j].runStatusOp} \ {None}) BY DEF Ended, Active
<1>4. \A i \in S : i \in Op /\ op[i] # NoOp /\ op[i].job = j
  BY <1>2, <1>3 DEF OneController, JobsOK, JobRecord, NoOp
<1>5. f \in FrameRecord /\ f.job = j /\ ~f.fresh
  <2> DEFINE i == IdleFrame
  <2>1. i \in FrameRecord /\ ~i.fresh BY IdleFrameType DEF IdleFrame
  <2>2. f = [i EXCEPT !.job = j] OBVIOUS
  <2> HIDE DEF i, f
  <2>3. QED BY <1>2, <2>1, <2>2 DEF FrameRecord
<1> HIDE DEF f, S
<1>6. db[j].runStatusOp \in S \union {None} BY <1>3
<1>7. QED BY <1>1, <1>2, <1>4, <1>5, <1>6, CancelJobKeeps

\* An agent's report of a run's state, and the end of a driver's agent.
LEMMA AgentUpdateKeeps ==
    ASSUME Inductive, NEW j \in Job, NEW s \in Active \union {"completed", "error"},
           AgentUpdate(j, s)
    PROVE  Inductive'
<1> USE DEF Inductive
<1> DEFINE t == IF db[j].status \in Exit THEN db[j].status ELSE s
           S == Ended(j, t)
           dj == WithStatus(j, t)
           d == [db EXCEPT ![j] = dj]
           w == Touched(co, j)
<1>1. /\ running = None /\ running' = None /\ clock' = clock /\ delivered' = delivered
      /\ op' = OpsWithout(S, None) /\ co' = w /\ db' = [db EXCEPT ![j] = Released(dj, S)]
  BY DEF AgentUpdate
<1>2. t \in Status BY DEF JobsOK, JobRecord, Status, Exit, Active
<1>3. /\ dj \in JobRecord /\ dj.status = t /\ dj.loaded = db[j].loaded
      /\ dj.runStatusOp = db[j].runStatusOp
  BY <1>2, WithStatusType
<1>4. SeesWrite(w) /\ \A q \in Proc : co[q].job = j => ~w[q].fresh BY TouchedSees
<1>5. S \subseteq {db[j].runStatusOp} \ {None}
      /\ (db[j].runStatusOp \in S \union {None} \/ t \in Active)
  BY DEF Ended
<1> HIDE DEF S, t, dj, w
<1>6. Rewritten(d, S, w)
  <2>1. d[j] = dj /\ (\A i \in Job : i # j => d[i] = db[i]) /\ d \in [Job -> JobRecord]
    BY <1>3 DEF JobsOK
  <2>2. \A i \in Job : db[i].runStatusOp = None \/ db[i].status \in Active
    BY DEF OneController
  <2> HIDE DEF d
  <2>3. QED BY <1>3, <1>4, <1>5, <2>1, <2>2 DEF Rewritten
<1>7. db' = [i \in Job |-> Released(d[i], S)]
  <2>1. ASSUME NEW i \in Job, i # j PROVE Released(db[i], S) = db[i]
    <3>1. db[i] \in JobRecord BY DEF JobsOK
    <3>2. db[i].runStatusOp \notin S BY <1>5, <2>1, NoneAssumption DEF OneController
    <3>3. QED BY <3>1, <3>2 DEF Released, JobRecord
  <2>2. QED BY <1>1, <2>1 DEF JobsOK
<1>8. co' = [q \in Proc |-> co'[q]] BY <1>1, <1>4 DEF SeesWrite
<1>9. None \notin Proc BY NoneAssumption DEF Proc
<1> HIDE DEF d
<1>10. QED BY <1>1, <1>4, <1>6, <1>7, <1>8, <1>9, StartingRuns, DestroyKeeps

LEMMA FreeResourcesKeeps ==
    ASSUME Inductive, NEW k, FreeResources(k)
    PROVE  Inductive'
<1> USE DEF Inductive
<1> DEFINE S == {o \in Op : op[o].prepared /\ op[o].kind = k}
<1>1. /\ running = None /\ running' = None /\ clock' = clock /\ delivered' = delivered
      /\ op' = OpsWithout(S, None) /\ co' = co
      /\ db' = [i \in Job |-> Released(db[i], S)]
  BY DEF FreeResources
<1> HIDE DEF S
<1>2. Rewritten(db, S, co) BY DEF Rewritten, JobsOK, OneController
<1>3. SeesWrite(co) BY TouchedSees
<1>4. co' = [q \in Proc |-> co'[q]] /\ None \notin Proc
  BY <1>1, NoneAssumption DEF FramesOK, Proc
<1>5. QED BY <1>1, <1>2, <1>3, <1>4, StartingRuns, DestroyKeeps

-----------------------------------------------------------------------------
\* A job that leaves memory, or is not in memory, has no request and no
\* operation that controls it.
LEMMA ForgetKeeps ==
    ASSUME Inductive, NEW j \in Job, CacheTimeout(j) \/ Purge(j)
    PROVE  Inductive'
<1> USE DEF Inductive
<1>1. /\ running = None /\ running' = None /\ clock' = clock /\ delivered' = delivered
      /\ op' = op /\ co' = co
  BY DEF CacheTimeout, Purge
<1>2. db[j].runStatusOp = None
  BY NoneAssumption DEF CacheTimeout, Purge, OneController, JobsOK, JobRecord, ControlOps
<1>3. \A p \in Req : co[p].pc # "idle" => co[p].job # j
  BY DEF CacheTimeout, Purge, FrameInv, InMemory, Proc
<1>4. PICK d \in JobRecord : /\ db' = [db EXCEPT ![j] = d]
                             /\ d.runStatusOp = None
  <2>1. CASE CacheTimeout(j)
    <3>1. db' = [db EXCEPT ![j] = [db[j] EXCEPT !.loaded = FALSE]]
      BY <2>1 DEF CacheTimeout, JobsOK
    <3>2. [db[j] EXCEPT !.loaded = FALSE] \in JobRecord
          /\ [db[j] EXCEPT !.loaded = FALSE].runStatusOp = None
      BY <1>2 DEF JobsOK, JobRecord
    <3>3. QED BY <3>1, <3>2
  <2>2. CASE Purge(j)
    <3>1. db' = [db EXCEPT ![j] = [db[j] EXCEPT !.status = "job_run_purged", !.serial = 0]]
      BY <2>2 DEF Purge, JobsOK
    <3>2. [db[j] EXCEPT !.status = "job_run_purged", !.serial = 0] \in JobRecord
          /\ [db[j] EXCEPT !.status = "job_run_purged", !.serial = 0].runStatusOp = None
      BY <1>2 DEF JobsOK, JobRecord, Status, Exit
    <3>3. QED BY <3>1, <3>2
  <2>3. QED BY <2>1, <2>2
<1>5. db'[j] = d /\ \A i \in Job : i # j => db'[i] = db[i] BY <1>4 DEF JobsOK
<1>6. JobsOK' BY <1>1, <1>4 DEF JobsOK
<1>7. OpsOK' /\ OpInv' /\ FramesOK' BY <1>1 DEF OpsOK, OpInv, FramesOK
<1>8. FrameInv'
  <2>1. ASSUME NEW p \in Proc
        PROVE  Frame(p)' /\ Refers(p)' /\ InMemory(p)' /\ Transaction(p)' /\ Starting(p)'
    <3>1. Frame(p)' /\ Refers(p)' BY <1>1 DEF FrameInv, Frame, Refers
    <3>2. InMemory(p)' BY <1>1, <1>3, <1>5 DEF FrameInv, Frame, InMemory
    <3>3. Transaction(p)'
      <4>1. co[p].fresh => p \in Req /\ co[p].pc # "idle" /\ co[p].job \in Job
        BY DEF FrameInv, Frame, IdleFrame
      <4>2. QED BY <1>1, <1>3, <1>5, <4>1 DEF FrameInv, Transaction
    <3>4. Starting(p)' BY <1>1, StartingRuns DEF Starting
    <3>5. QED BY <3>1, <3>2, <3>3, <3>4
  <2>2. QED BY <2>1 DEF FrameInv
<1>9. OneController' BY <1>1, <1>2, <1>4, <1>5, NoneAssumption DEF OneController, OpInv, NoOp
<1>10. NoOrphanOp' BY <1>1, <1>2, <1>5, NoneAssumption DEF NoOrphanOp, OpInv, NoOp
<1>11. QED BY <1>6, <1>7, <1>8, <1>9, <1>10

\* Nothing is in memory and no coroutine runs.
LEMMA AllIdle ==
    ASSUME JobsOK, op = [o \in Op |-> NoOp], co = [p \in Proc |-> IdleFrame], running = None,
           \A j \in Job : db[j].runStatusOp = None
    PROVE  Inductive
<1>1. OpsOK /\ OpInv BY NoOpType DEF OpsOK, OpInv
<1>2. FramesOK BY IdleFrameType DEF FramesOK
<1>3. FrameInv
  BY DEF FrameInv, Frame, Refers, InMemory, Transaction, Starting, IdleFrame, HandlerPc, Api, SendPc
<1>4. OneController /\ NoOrphanOp BY DEF OneController, NoOrphanOp, NoOp
<1>5. QED BY <1>1, <1>2, <1>3, <1>4 DEF Inductive

LEMMA InitInductive == Init => Inductive /\ DriversOK
<1> SUFFICES ASSUME Init PROVE Inductive /\ DriversOK OBVIOUS
<1>1. JobsOK BY DEF Init, JobsOK, JobRecord, Status, Exit
<1>2. Inductive BY <1>1, AllIdle DEF Init
<1>3. DriversOK BY DEF Init, DriversOK, DriverRecord, NoAgent
<1>4. QED BY <1>2, <1>3

LEMMA RestartKeeps ==
    ASSUME Inductive, Restart
    PROVE  Inductive'
<1>1. JobsOK'
  <2>1. \A j \in Job : [db[j] EXCEPT !.loaded = FALSE, !.runStatusOp = None] \in JobRecord
    BY DEF Inductive, JobsOK, JobRecord
  <2>2. QED BY <2>1 DEF Restart, Inductive, JobsOK
<1>2. \A j \in Job : db'[j].runStatusOp = None
  BY DEF Restart, Inductive, JobsOK, JobRecord
<1>3. QED
  <2>1. OpsOK' /\ OpInv' BY NoOpType DEF Restart, OpsOK, OpInv
  <2>2. FramesOK' BY IdleFrameType DEF Restart, FramesOK
  <2>3. FrameInv'
    BY DEF Restart, FrameInv, Frame, Refers, InMemory, Transaction, Starting, IdleFrame, HandlerPc,
           Api, SendPc
  <2>4. OneController' /\ NoOrphanOp'
    BY <1>2 DEF Restart, OneController, NoOrphanOp, NoOp
  <2>5. QED BY <1>1, <2>1, <2>2, <2>3, <2>4 DEF Inductive


\* The steps of coroutines that leave the drivers alone.
LEMMA DriversSame ==
    ASSUME NEW p \in Proc,
           Step(p) \/ SbatchLoginNeeded(p) \/ (\E o \in Op : OpTimeout(p, o))
             \/ (p \in Req /\ Request(p)),
           ~AgentReady(p)
    PROVE  driver' = driver
<1>1. CASE Handle(p)
  BY <1>1 DEF Handle, RunSimulation, StartRun, RunStatus, StatusReply, ReadData, RunCancel,
              CancelJob, SendOp, Reply, Goto
<1>2. CASE SendSteps(p)
  BY <1>2 DEF SendSteps, AgentWoken, AllocSlots, SlotGranted, Send, ReplyGot, Resume, Write
<1>3. CASE Return(p)
  BY <1>3 DEF Return, ReturnRun, ReturnRunStatus, ReturnSingle, ReturnResult, Raise, Destroy, Write
<1>4. CASE SbatchLoginNeeded(p) BY <1>4 DEF SbatchLoginNeeded, Goto
<1>5. CASE \E o \in Op : OpTimeout(p, o) BY <1>5 DEF OpTimeout, CancelJob
<1>6. CASE Request(p) BY <1>6 DEF Request, Receive
<1>7. QED BY <1>1, <1>2, <1>3, <1>4, <1>5, <1>6 DEF Step

LEMMA DriversKeep ==
    ASSUME DriversOK, [Next]_vars
    PROVE  DriversOK'
<1>1. CASE driver' = driver BY <1>1 DEF DriversOK
<1>2. ASSUME NEW p \in Proc, AgentReady(p) \/ AgentStartFails(p) PROVE DriversOK'
  <2> DEFINE k == op[co[p].op].kind
             d1 == [driver[k] EXCEPT !.started = TRUE, !.starting = TRUE]
             d2 == [driver[k] EXCEPT !.started = FALSE, !.freeing = TRUE]
             d3 == [driver[k] EXCEPT !.started = driver[k].started, !.freeing = TRUE]
  <2>1. driver' = driver \/ (\E d \in {d1, d2, d3} : driver' = [driver EXCEPT ![k] = d])
    BY <1>2 DEF AgentReady, AgentStartFails, Goto, DriversOK
  <2>2. k \in Kind => d1 \in DriverRecord /\ d2 \in DriverRecord /\ d3 \in DriverRecord
    BY DEF DriversOK, DriverRecord
  <2> HIDE DEF d1, d2, d3
  <2>3. CASE k \in Kind BY <1>1, <2>1, <2>2, <2>3 DEF DriversOK
  <2>4. CASE k \notin Kind
    <3>1. driver' = driver BY <2>1, <2>4 DEF DriversOK
    <3>2. QED BY <1>1, <3>1
  <2>5. QED BY <2>3, <2>4
<1>3. ASSUME NEW k \in Kind, \/ AgentAlive(k) \/ SocketClose(k) \/ KillIfIdle(k)
                             \/ ReadyTimeout(k) \/ FreeResources(k)
      PROVE  DriversOK'
  <2>1. \E d \in DriverRecord : driver' = [driver EXCEPT ![k] = d]
    <3>1. CASE AgentAlive(k)
      <4> DEFINE d == [driver[k] EXCEPT !.starting = FALSE, !.ready = TRUE, !.socket = TRUE]
      <4>1. driver' = [driver EXCEPT ![k] = d] BY <3>1 DEF AgentAlive, DriversOK
      <4>2. d \in DriverRecord BY DEF DriversOK, DriverRecord
      <4>3. QED BY <4>1, <4>2
    <3>2. CASE SocketClose(k)
      <4> DEFINE d == [driver[k] EXCEPT !.socket = FALSE, !.freeing = TRUE]
      <4>1. driver' = [driver EXCEPT ![k] = d] BY <3>2 DEF SocketClose, DriversOK
      <4>2. d \in DriverRecord BY DEF DriversOK, DriverRecord
      <4>3. QED BY <4>1, <4>2
    <3>3. CASE KillIfIdle(k)
      <4> DEFINE d == [driver[k] EXCEPT !.freeing = TRUE]
      <4>1. driver' = [driver EXCEPT ![k] = d] BY <3>3 DEF KillIfIdle, DriversOK
      <4>2. d \in DriverRecord BY DEF DriversOK, DriverRecord
      <4>3. QED BY <4>1, <4>2
    <3>4. CASE ReadyTimeout(k)
      <4> DEFINE d == [driver[k] EXCEPT !.starting = FALSE, !.freeing = TRUE]
      <4>1. driver' = [driver EXCEPT ![k] = d] BY <3>4 DEF ReadyTimeout, DriversOK
      <4>2. d \in DriverRecord BY DEF DriversOK, DriverRecord
      <4>3. QED BY <4>1, <4>2
    <3>5. CASE FreeResources(k)
      <4>1. PICK lives \in {FALSE, driver[k].started} :
                driver' = [driver EXCEPT ![k] = [NoAgent EXCEPT !.started = lives]]
        BY <3>5 DEF FreeResources
      <4>2. [NoAgent EXCEPT !.started = lives] \in DriverRecord
        BY DEF DriversOK, DriverRecord, NoAgent
      <4>3. QED BY <4>1, <4>2
    <3>6. QED BY <1>3, <3>1, <3>2, <3>3, <3>4, <3>5
  <2>2. QED BY <2>1 DEF DriversOK
<1>4. CASE Restart BY <1>4 DEF Restart, DriversOK, DriverRecord, NoAgent
<1>5. CASE \/ \E o \in Op, r \in Answers : AgentReply(o, r)
           \/ \E j \in Job, s \in Active \union {"completed", "error"} : AgentUpdate(j, s)
           \/ \E j \in Job : CacheTimeout(j) \/ Purge(j)
  BY <1>1, <1>5 DEF AgentReply, AgentUpdate, CacheTimeout, Purge
<1>6. CASE Environment
  <2>1. ASSUME NEW o \in Op, NEW r, AgentReply(o, r) PROVE DriversOK'
    BY <1>1, <2>1 DEF AgentReply
  <2>2. QED BY <1>3, <1>4, <1>5, <1>6, <2>1 DEF Environment
<1>7. CASE UNCHANGED vars BY <1>1, <1>7 DEF vars
<1>8. Req \subseteq Proc /\ Timer \subseteq Proc BY DEF Proc
<1>9. QED BY <1>1, <1>2, <1>6, <1>7, <1>8, DriversSame DEF Next

LEMMA StepKeeps ==
    ASSUME Inductive, DriversOK, NEW p \in Proc, Step(p)
    PROVE  Inductive'
<1>1. CASE Handle(p) BY <1>1, HandlersKeep, RunCancelKeeps DEF Handle
<1>2. CASE SendSteps(p) BY <1>2, SendStepsKeep, SendKeeps, ReplyGotKeeps DEF SendSteps
<1>3. CASE Return(p)
  BY <1>3, ReturnRunKeeps, ReturnRunStatusKeeps, ReturnSingleKeeps, ReturnResultKeeps, RaiseKeeps
  DEF Return
<1>4. QED BY <1>1, <1>2, <1>3 DEF Step

LEMMA StutterKeeps ==
    ASSUME Inductive, UNCHANGED vars
    PROVE  Inductive'
<1> USE DEF Inductive, vars
<1>1. JobsOK' /\ OpsOK' /\ FramesOK' /\ OpInv' BY DEF JobsOK, OpsOK, FramesOK, OpInv
<1>2. FrameInv' BY DEF FrameInv, Frame, Refers, InMemory, Transaction, Starting
<1>3. OneController' /\ NoOrphanOp' BY DEF OneController, NoOrphanOp
<1>4. QED BY <1>1, <1>2, <1>3

LEMMA NextKeeps ==
    ASSUME Inductive, DriversOK, [Next]_vars
    PROVE  Inductive'
<1>1. ASSUME NEW p \in Req, Request(p) PROVE Inductive'
  <2>1. PICK a \in Apis, j \in Job, h \in Hash, serial \in {0, clock}, force \in BOOLEAN :
          Receive(p, a, j, h, serial, force)
    BY <1>1 DEF Request
  <2>2. a \in Api /\ serial \in Nat BY ApisAssumption DEF Inductive, JobsOK
  <2>3. QED BY <2>1, <2>2, ReceiveKeeps
<1>2. ASSUME NEW p \in Timer, NEW o \in Op, OpTimeout(p, o) PROVE Inductive'
  BY <1>2, OpTimeoutKeeps
<1>3. ASSUME NEW p \in Proc, Step(p) \/ SbatchLoginNeeded(p) \/ AgentStartFails(p)
      PROVE  Inductive'
  BY <1>3, StepKeeps, SendStepsKeep
<1>4. CASE Environment
  <2>1. ASSUME NEW k, AgentAlive(k) \/ SocketClose(k) \/ KillIfIdle(k) \/ ReadyTimeout(k)
        PROVE  Inductive'
    BY <2>1, AgentKeeps
  <2>2. ASSUME NEW k, FreeResources(k) PROVE Inductive' BY <2>2, FreeResourcesKeeps
  <2>3. ASSUME NEW o \in Op, NEW r, AgentReply(o, r) PROVE Inductive' BY <2>3, AgentKeeps
  <2>4. ASSUME NEW j \in Job, NEW s \in Active \union {"completed", "error"}, AgentUpdate(j, s)
        PROVE  Inductive'
    BY <2>4, AgentUpdateKeeps
  <2>5. ASSUME NEW j \in Job, CacheTimeout(j) \/ Purge(j) PROVE Inductive' BY <2>5, ForgetKeeps
  <2>6. CASE Restart BY <2>6, RestartKeeps
  <2>7. QED BY <1>4, <2>1, <2>2, <2>3, <2>4, <2>5, <2>6 DEF Environment
<1>5. CASE UNCHANGED vars BY <1>5, StutterKeeps
<1>6. QED BY <1>1, <1>2, <1>3, <1>4, <1>5 DEF Next

\* The invariant holds in every reachable state.
LEMMA InductiveHolds == Spec => [](Inductive /\ DriversOK)
<1>1. Init => Inductive /\ DriversOK BY InitInductive
<1>2. Inductive /\ DriversOK /\ [Next]_vars => (Inductive /\ DriversOK)'
  BY NextKeeps, DriversKeep
<1>3. QED BY <1>1, <1>2, PTL DEF Spec

-----------------------------------------------------------------------------
\* At most one live operation controls a job's run (_run_status_op): two
\* requests never write the status of one run, and line 1004 of
\* job_supervisor.py never raises its AssertionError.
THEOREM SpecOneController == Spec => []OneController
<1>1. Inductive => OneController BY DEF Inductive
<1>2. QED BY <1>1, InductiveHolds, PTL

\* Every live operation has a coroutine or a job that will destroy it.
THEOREM SpecNoOrphanOp == Spec => []NoOrphanOp
<1>1. Inductive => NoOrphanOp BY DEF Inductive
<1>2. QED BY <1>1, InductiveHolds, PTL
===============================================================================
