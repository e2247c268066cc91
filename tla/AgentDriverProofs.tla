-------------------------- MODULE AgentDriverProofs --------------------------
(***************************************************************************)
(* Proofs about AgentDriver: for any senders, callbacks, agents and losses, *)
(* the type invariant, that nobody waits for an agent that is gone, and     *)
(* that starts and kills of local agents do not overtake each other.        *)
(***************************************************************************)
EXTENDS AgentDriver, TLAPS

State == {"idle", "scheduled", "lock", "awaitExit", "exitSet", "starting", "started",
          "awaitReady", "woken", "slots", "sent"}

Kinded == remote \in BOOLEAN

\* Only a remote host is called with the lock held.
StartIsRemote == \A s \in Sender : task[s] \in {"starting", "started"} => remote

\* A callback that waits for an exit has the lock.
KillLocks == \A f \in Free : task[f] \in {"awaitExit", "exitSet"} => holder = f /\ ~remote

Awaits(state) == \E f \in Free : task[f] = state

\* While no agent has died on its own, an agent that was told to stop is the driver's process,
\* and its exit is awaited; _agent_exit is set for the callback that awaited it only.
KilledIsAwaited ==
    /\ \A a \in Agent : agent[a] \in {"killed", "exited"} => process = a /\ Awaits("awaitExit")
    /\ exited => Awaits("exitSet")
    /\ Awaits("exitSet") => process = None

\* An agent nobody starts or believes in will be stopped.
RunningIsWanted ==
    process \in Running => ready \/ timeout \/ Awaits("scheduled") \/ Awaits("lock") \/ Awaits("awaitExit")

Local == ~remote /\ died = 0 => KilledIsAwaited /\ RunningIsWanted

IInv == TypeOK /\ Kinded /\ AgentBehind /\ StartIsRemote /\ KillLocks /\ Local

-----------------------------------------------------------------------------
\* A step of sender s that leaves the callbacks alone.
Moves(s) ==
    /\ task' \in [Task -> State]
    /\ awaited' \subseteq Sender /\ destroyed' \subseteq Sender
    /\ \A x \in Task : x # s => task'[x] = task[x]
    /\ task'[s] \in {"idle", "sent", "slots", "awaitReady"}
    /\ task'[s] = "sent" => websocket # None

\* The same, and a callback is scheduled.
MovesAndFrees(s) ==
    /\ task' \in [Task -> State]
    /\ awaited' \subseteq Sender /\ destroyed' \subseteq Sender
    /\ \E f \in Free : task[f] = "idle" /\ task'[f] = "scheduled"
                       /\ \A x \in Task : x # s /\ x # f => task'[x] = task[x]
    /\ task'[s] = "idle"

LEMMA TasksDiffer == \A s \in Sender, f \in Free : s # f /\ s \in Task /\ f \in Task
BY IdAssumption DEF Task

\* What Leave, GoOn and AwaitReady do to the coroutines.
LEMMA LeaveMoves ==
    ASSUME TypeOK, NEW s \in Sender, Leave(s, [task EXCEPT ![s] = "idle"])
    PROVE  Moves(s)
BY TasksDiffer DEF TypeOK, Leave, Moves, State, Task

LEMMA GoOnMoves ==
    ASSUME TypeOK, NEW s \in Sender, GoOn(s)
    PROVE  Moves(s)
<1>1. CASE Leave(s, [task EXCEPT ![s] = "idle"])
  BY <1>1, LeaveMoves
<1>2. CASE websocket # None /\ task' = [task EXCEPT ![s] = "sent"] /\ UNCHANGED senderVars
  BY <1>2, TasksDiffer DEF TypeOK, Moves, State, Task, senderVars
<1>3. CASE task' = [task EXCEPT ![s] = "slots"] /\ awaited' = awaited \union {s} /\ UNCHANGED destroyed
  BY <1>3, TasksDiffer DEF TypeOK, Moves, State, Task
<1> QED
  BY <1>1, <1>2, <1>3 DEF GoOn

LEMMA AwaitReadyMoves ==
    ASSUME TypeOK, NEW s \in Sender, AwaitReady(s)
    PROVE  Moves(s)
<1>1. CASE task' = [task EXCEPT ![s] = "awaitReady"] /\ UNCHANGED senderVars
  BY <1>1, TasksDiffer DEF TypeOK, Moves, State, Task, senderVars
<1> QED
  BY <1>1, LeaveMoves, GoOnMoves DEF AwaitReady

LEMMA ScheduledFrees ==
    ASSUME TypeOK, CanSchedule
    PROVE  \E f \in Free : task[f] = "idle" /\ Scheduled(task) = [task EXCEPT ![f] = "scheduled"]
<1>1. \E f \in Free : task[f] = "idle"
  BY DEF CanSchedule, Freeing
<1> QED
  BY <1>1 DEF Scheduled

LEMMA LeaveFrees ==
    ASSUME TypeOK, NEW s \in Sender, CanSchedule, Leave(s, [Scheduled(task) EXCEPT ![s] = "idle"])
    PROVE  MovesAndFrees(s)
<1>1. PICK f \in Free : task[f] = "idle" /\ Scheduled(task) = [task EXCEPT ![f] = "scheduled"]
  BY ScheduledFrees
<1>2. task' = [[task EXCEPT ![f] = "scheduled"] EXCEPT ![s] = "idle"]
  BY <1>1 DEF Leave
<1>3. s # f /\ s \in Task /\ f \in Task
  BY TasksDiffer
<1>4. awaited' \subseteq Sender /\ destroyed' \subseteq Sender
  BY DEF Leave, TypeOK
<1>5. task \in [Task -> State]
  BY DEF TypeOK, State
<1> QED
  BY <1>1, <1>2, <1>3, <1>4, <1>5 DEF MovesAndFrees, State

\* The lock after Unlock.
LEMMA UnlockTypes ==
    ASSUME TypeOK, Unlock
    PROVE  holder' \in Task \union {None} /\ waiters' \in Seq(Task)
<1>1. CASE waiters = <<>>
  BY <1>1 DEF TypeOK, Unlock
<1>2. CASE waiters # <<>>
  <2>1. Head(waiters) \in Task /\ Tail(waiters) \in Seq(Task)
    BY <1>2 DEF TypeOK
  <2> QED
    BY <1>2, <2>1 DEF Unlock
<1> QED
  BY <1>1, <1>2

LEMMA LineUpTypes ==
    ASSUME TypeOK, NEW t \in Task, LineUp(t)
    PROVE  holder' \in Task \union {None} /\ waiters' \in Seq(Task)
BY DEF TypeOK, LineUp

-----------------------------------------------------------------------------
(***************************************************************************)
(* The invariant after a step of a sender that leaves agents and events    *)
(* alone, with the lock its own, or untouched.                             *)
(***************************************************************************)
LockFree(s) == holder = None \/ holder = s \/ remote

LEMMA MovesKeeps ==
    ASSUME IInv, NEW s \in Sender, Moves(s),
           holder' \in Task \union {None}, waiters' \in Seq(Task),
           holder' = holder \/ LockFree(s),
           UNCHANGED <<eventVars, agentVars>>
    PROVE  IInv'
<1>1. TypeOK'
  BY DEF IInv, TypeOK, Moves, State, eventVars, agentVars
<1>2. \A f \in Free : task'[f] = task[f]
  BY TasksDiffer DEF Moves
<1>3. \A state : Awaits(state)' <=> Awaits(state)
  BY <1>2 DEF Awaits
<1>4. AgentBehind'
  <2>1. Freeing' = Freeing
    BY <1>2 DEF Freeing
  <2>2. Prepared' # {} => Prepared # {} \/ websocket # None
    BY DEF Prepared, Moves, Task
  <2> QED
    BY <2>1, <2>2 DEF IInv, AgentBehind, eventVars
<1>5. StartIsRemote'
  BY DEF IInv, StartIsRemote, Moves, agentVars, Task
<1>6. KillLocks'
  BY <1>2, TasksDiffer, IdAssumption DEF IInv, KillLocks, LockFree, agentVars, Task
<1>7. Local'
  BY <1>3 DEF IInv, Local, KilledIsAwaited, RunningIsWanted, Running, eventVars, agentVars
<1> QED
  BY <1>1, <1>4, <1>5, <1>6, <1>7 DEF IInv, Kinded, agentVars

\* The same, when a callback is scheduled too.
LEMMA MovesAndFreesKeeps ==
    ASSUME IInv, NEW s \in Sender, MovesAndFrees(s),
           holder' \in Task \union {None}, waiters' \in Seq(Task), LockFree(s),
           timeout' \in BOOLEAN,
           UNCHANGED <<ready, websocket, idleTimer, agentVars>>
    PROVE  IInv'
<1>1. TypeOK'
  BY DEF IInv, TypeOK, MovesAndFrees, State, agentVars
<1>2. PICK f \in Free : task[f] = "idle" /\ task'[f] = "scheduled"
                        /\ \A x \in Task : x # s /\ x # f => task'[x] = task[x]
  BY DEF MovesAndFrees
<1>3. \A g \in Free : g # f => task'[g] = task[g]
  BY <1>2, TasksDiffer
<1>4. Awaits("scheduled")'
  BY <1>2 DEF Awaits
<1>5. /\ Awaits("awaitExit")' <=> Awaits("awaitExit")
      /\ Awaits("exitSet")' <=> Awaits("exitSet")
  BY <1>2, <1>3 DEF Awaits
<1>6. AgentBehind'
  BY <1>2 DEF AgentBehind, Freeing
<1>7. StartIsRemote'
  BY <1>2, TasksDiffer DEF IInv, StartIsRemote, MovesAndFrees, agentVars, Task
<1>8. KillLocks'
  BY <1>2, <1>3, TasksDiffer, IdAssumption DEF IInv, KillLocks, LockFree, agentVars, Task
<1>9. Local'
  BY <1>4, <1>5 DEF IInv, Local, KilledIsAwaited, RunningIsWanted, agentVars
<1> QED
  BY <1>1, <1>6, <1>7, <1>8, <1>9 DEF IInv, Kinded, agentVars

\* _agent_start with the lock.  A process that is started over another one leaves the wait for
\* an exit alone: nobody awaits one, since the callback would have the lock.
LEMMA StartAgentKeeps ==
    ASSUME IInv, NEW s \in Sender, holder = None \/ holder = s, ~ready, ~timeout, StartAgent(s)
    PROVE  IInv'
<1>1. LockFree(s)
  BY DEF LockFree
<1>2. ASSUME ~remote, NEW a \in Agent, agent[a] = "none", agent' = [agent EXCEPT ![a] = "started"],
             process' = a, Unlock, AwaitReady(s)
      PROVE  IInv'
  <2>1. Moves(s)
    BY <1>2, AwaitReadyMoves DEF IInv
  <2>2. UNCHANGED <<ready, websocket, idleTimer, exited, broken, died, remote>> /\ timeout' = TRUE
    BY DEF StartAgent
  <2>3. holder' \in Task \union {None} /\ waiters' \in Seq(Task)
    BY <1>2, UnlockTypes DEF IInv
  <2>4. TypeOK'
    BY <1>2, <2>1, <2>2, <2>3 DEF IInv, TypeOK, Moves, State
  <2>5. \A f \in Free : task'[f] = task[f] /\ task[f] \notin {"awaitExit", "exitSet"}
    BY <2>1, TasksDiffer, IdAssumption DEF Moves, IInv, KillLocks
  <2>6. AgentBehind'
    <3>1. Freeing' = Freeing
      BY <2>5 DEF Freeing
    <3>2. Prepared' # {} => Prepared # {} \/ websocket # None
      BY <2>1 DEF Prepared, Moves, Task
    <3> QED
      BY <3>1, <3>2, <2>2 DEF IInv, AgentBehind
  <2>7. StartIsRemote'
    BY <2>1, <2>2 DEF IInv, StartIsRemote, Moves, Task
  <2>8. KillLocks'
    BY <2>5 DEF KillLocks
  <2>9. Local'
    <3>1. ~Awaits("awaitExit") /\ ~Awaits("exitSet") /\ ~Awaits("exitSet")'
      BY <2>5 DEF Awaits
    <3>2. ASSUME died = 0
          PROVE  KilledIsAwaited' /\ RunningIsWanted'
      <4>1. \A b \in Agent : agent[b] \notin {"killed", "exited"}
        BY <3>1, <3>2, <1>2 DEF IInv, Local, KilledIsAwaited
      <4>2. \A b \in Agent : agent'[b] \notin {"killed", "exited"}
        BY <4>1, <1>2 DEF IInv, TypeOK
      <4> QED
        BY <3>1, <3>2, <4>2, <1>2, <2>2 DEF IInv, Local, KilledIsAwaited, RunningIsWanted
    <3> QED
      BY <3>2, <2>2 DEF Local
  <2> QED
    BY <2>2, <2>4, <2>6, <2>7, <2>8, <2>9 DEF IInv, Kinded
<1>3. ASSUME CanSchedule, Unlock, Leave(s, [Scheduled(task) EXCEPT ![s] = "idle"]),
             UNCHANGED <<agent, process>>
      PROVE  IInv'
  <2>1. MovesAndFrees(s)
    BY <1>3, LeaveFrees DEF IInv
  <2>2. holder' \in Task \union {None} /\ waiters' \in Seq(Task)
    BY <1>3, UnlockTypes DEF IInv
  <2>3. timeout' \in BOOLEAN /\ UNCHANGED <<ready, websocket, idleTimer, agentVars>>
    BY <1>3 DEF StartAgent, agentVars
  <2> QED
    BY <1>1, <2>1, <2>2, <2>3, MovesAndFreesKeeps
<1>4. ASSUME remote, holder' = s, task' = [task EXCEPT ![s] = "starting"],
             UNCHANGED <<waiters, agent, process, senderVars>>
      PROVE  IInv'
  <2>1. UNCHANGED <<ready, websocket, idleTimer, exited, broken, died, remote>> /\ timeout' = TRUE
    BY DEF StartAgent
  <2>2. \A f \in Free : task'[f] = task[f]
    BY <1>4, TasksDiffer DEF IInv, TypeOK
  <2>3. task' \in [Task -> State] /\ holder' \in Task
    BY <1>4 DEF IInv, TypeOK, State, Task
  <2>4. TypeOK'
    BY <1>4, <2>1, <2>3 DEF IInv, TypeOK, State, senderVars
  <2>5. AgentBehind'
    <3>1. Freeing' = Freeing
      BY <2>2 DEF Freeing
    <3>2. Prepared' \subseteq Prepared
      BY <1>4 DEF Prepared, IInv, TypeOK, Task
    <3> QED
      BY <3>1, <3>2, <2>1 DEF IInv, AgentBehind
  <2>6. StartIsRemote' /\ KillLocks' /\ Local'
    BY <1>4, <2>1, <2>2 DEF IInv, StartIsRemote, KillLocks, Local
  <2> QED
    BY <2>1, <2>4, <2>5, <2>6 DEF IInv, Kinded
<1> QED
  BY <1>2, <1>3, <1>4 DEF StartAgent

\* The whole of _agent_ready.
LEMMA AgentReadyKeeps ==
    ASSUME IInv, NEW s \in Sender, AgentReady(s)
    PROVE  IInv'
<1>1. CASE (GoOn(s) \/ AwaitReady(s)) /\ UNCHANGED <<eventVars, lockVars, agentVars>>
  <2>1. Moves(s)
    BY <1>1, GoOnMoves, AwaitReadyMoves DEF IInv
  <2>2. holder' = holder /\ holder' \in Task \union {None} /\ waiters' \in Seq(Task)
    BY <1>1 DEF IInv, TypeOK, lockVars
  <2> QED
    BY <1>1, <2>1, <2>2, MovesKeeps
<1>2. CASE ~ready /\ ~timeout /\ holder = None /\ StartAgent(s)
  BY <1>2, StartAgentKeeps
<1>3. CASE LineUp(s) /\ task' = [task EXCEPT ![s] = "lock"] /\ UNCHANGED <<eventVars, agentVars, senderVars>>
  <2>1. holder' = holder /\ holder' \in Task \union {None} /\ waiters' \in Seq(Task)
    BY <1>3, LineUpTypes DEF LineUp, IInv, Task
  <2>2. \A f \in Free : task'[f] = task[f]
    BY <1>3, TasksDiffer DEF IInv, TypeOK
  <2>3. task' \in [Task -> State]
    BY <1>3 DEF IInv, TypeOK, State
  <2>4. TypeOK'
    BY <1>3, <2>1, <2>3 DEF IInv, TypeOK, State, eventVars, agentVars, senderVars
  <2>5. AgentBehind'
    <3>1. Freeing' = Freeing
      BY <2>2 DEF Freeing
    <3>2. Prepared' \subseteq Prepared
      BY <1>3 DEF Prepared, IInv, TypeOK, Task
    <3> QED
      BY <1>3, <3>1, <3>2 DEF IInv, AgentBehind, eventVars
  <2>6. StartIsRemote' /\ KillLocks'
    BY <1>3, <2>1, <2>2 DEF IInv, StartIsRemote, KillLocks, agentVars, TypeOK, Task
  <2>7. \A state : Awaits(state)' <=> Awaits(state)
    BY <2>2 DEF Awaits
  <2>8. Local'
    BY <1>3, <2>7 DEF IInv, Local, KilledIsAwaited, RunningIsWanted, Running, eventVars, agentVars
  <2> QED
    BY <1>3, <2>4, <2>5, <2>6, <2>8 DEF IInv, Kinded, agentVars
<1> QED
  BY <1>1, <1>2, <1>3 DEF AgentReady

-----------------------------------------------------------------------------
LEMMA SlotsReadyKeeps ==
    ASSUME IInv, NEW s \in Sender, SlotsReady(s)
    PROVE  IInv'
<1>1. CASE Leave(s, [task EXCEPT ![s] = "idle"]) /\ UNCHANGED <<eventVars, lockVars, agentVars>>
  <2>1. holder' = holder /\ holder' \in Task \union {None} /\ waiters' \in Seq(Task)
    BY <1>1 DEF IInv, TypeOK, lockVars
  <2> QED
    BY <1>1, <2>1, LeaveMoves, MovesKeeps DEF IInv
<1> QED
  BY <1>1, AgentReadyKeeps DEF SlotsReady

LEMMA LockGrantedKeeps ==
    ASSUME IInv, NEW s \in Sender, LockGranted(s)
    PROVE  IInv'
<1>1. CASE Unlock /\ AwaitReady(s) /\ UNCHANGED <<eventVars, agentVars>>
  <2>1. Moves(s)
    BY <1>1, AwaitReadyMoves DEF IInv
  <2>2. holder' \in Task \union {None} /\ waiters' \in Seq(Task) /\ LockFree(s)
    BY <1>1, UnlockTypes DEF IInv, LockGranted, LockFree
  <2> QED
    BY <1>1, <2>1, <2>2, MovesKeeps
<1> QED
  BY <1>1, StartAgentKeeps DEF LockGranted

LEMMA StartReturnsKeeps ==
    ASSUME IInv, NEW s \in Sender, StartReturns(s)
    PROVE  IInv'
<1>1. Moves(s)
  BY AwaitReadyMoves DEF IInv, StartReturns
<1>2. holder' \in Task \union {None} /\ waiters' \in Seq(Task)
  BY UnlockTypes DEF IInv, StartReturns
<1>3. LockFree(s)
  BY DEF IInv, StartIsRemote, StartReturns, LockFree
<1> QED
  BY <1>1, <1>2, <1>3, MovesKeeps DEF StartReturns

LEMMA StartRaisesKeeps ==
    ASSUME IInv, NEW s \in Sender, StartRaises(s)
    PROVE  IInv'
<1>1. MovesAndFrees(s)
  BY LeaveFrees DEF IInv, StartRaises
<1>2. holder' \in Task \union {None} /\ waiters' \in Seq(Task)
  BY UnlockTypes DEF IInv, StartRaises
<1>3. LockFree(s)
  BY DEF IInv, StartIsRemote, StartRaises, LockFree
<1>4. timeout' \in BOOLEAN /\ UNCHANGED <<ready, websocket, idleTimer, agentVars>>
  BY DEF StartRaises, eventVars, IInv, TypeOK
<1> QED
  BY <1>1, <1>2, <1>3, <1>4, MovesAndFreesKeeps

\* Steps of a sender that change nothing but its own place.
LEMMA QuietKeeps ==
    ASSUME IInv, NEW s \in Sender, Woken(s) \/ Reply(s)
    PROVE  IInv'
<1>1. Moves(s) /\ UNCHANGED <<eventVars, lockVars, agentVars>>
  BY LeaveMoves, GoOnMoves DEF IInv, Woken, Reply
<1>2. holder' = holder /\ holder' \in Task \union {None} /\ waiters' \in Seq(Task)
  BY <1>1 DEF IInv, TypeOK, lockVars
<1> QED
  BY <1>1, <1>2, MovesKeeps

LEMMA DestroyOpKeeps ==
    ASSUME IInv, NEW s \in Sender, DestroyOp(s)
    PROVE  IInv'
<1>1. holder' = holder /\ holder' \in Task \union {None} /\ waiters' \in Seq(Task)
  BY DEF DestroyOp, IInv, TypeOK, lockVars
<1>2. CASE Leave(s, [task EXCEPT ![s] = "idle"])
  BY <1>1, <1>2, LeaveMoves, MovesKeeps DEF IInv, DestroyOp
<1>3. CASE destroyed' = destroyed \union {s} /\ UNCHANGED <<task, awaited>>
  <2>1. UNCHANGED <<eventVars, lockVars, agentVars>>
    BY DEF DestroyOp
  <2>2. TypeOK'
    BY <1>3, <2>1 DEF IInv, TypeOK, eventVars, lockVars, agentVars
  <2>3. AgentBehind' /\ StartIsRemote' /\ KillLocks'
    BY <1>3, <2>1 DEF IInv, AgentBehind, Prepared, Freeing, StartIsRemote, KillLocks, eventVars, lockVars, agentVars
  <2>4. Local'
    BY <1>3, <2>1 DEF IInv, Local, KilledIsAwaited, RunningIsWanted, Running, Awaits, eventVars, agentVars
  <2> QED
    BY <2>1, <2>2, <2>3, <2>4 DEF IInv, Kinded, agentVars
<1> QED
  BY <1>2, <1>3 DEF DestroyOp

\* A connection that goes down is still the driver's.
LEMMA DownTypes ==
    ASSUME NEW w \in [agent : Agent, up : BOOLEAN], NEW down, down = [w EXCEPT !.up = FALSE]
    PROVE  down \in [agent : Agent, up : BOOLEAN] /\ down # None
<1>1. down = [agent |-> w.agent, up |-> FALSE] /\ w.agent \in Agent
  OBVIOUS
<1>2. down \in [agent : Agent, up : BOOLEAN]
  BY <1>1
<1> QED
  BY <1>2, IdAssumption

LEMMA RemoteStartKeeps ==
    ASSUME IInv, NEW s \in Sender, RemoteStart(s)
    PROVE  IInv'
<1>1. UNCHANGED <<ready, timeout, idleTimer, lockVars, process, exited, broken, died, remote, senderVars>>
  BY DEF RemoteStart
<1>2. task' = [task EXCEPT ![s] = "started"]
  BY DEF RemoteStart
<1>3. remote
  BY DEF RemoteStart, IInv, StartIsRemote
<1>4. /\ websocket' \in [agent : Agent, up : BOOLEAN] \union {None}
      /\ websocket' = None <=> websocket = None
  <2>1. CASE websocket = None
    BY <2>1 DEF RemoteStart
  <2>2. CASE websocket # None
    <3>1. websocket \in [agent : Agent, up : BOOLEAN]
      BY <2>2 DEF IInv, TypeOK
    <3>2. websocket' = [websocket EXCEPT !.up = FALSE]
      BY <2>2 DEF RemoteStart
    <3> QED
      BY <3>1, <3>2, <2>2, DownTypes
  <2> QED
    BY <2>1, <2>2
<1>5. agent' \in [Agent -> {"none", "started", "killed", "exited"}]
  BY DEF RemoteStart
<1>6. task' \in [Task -> State] /\ \A f \in Free : task'[f] = task[f]
  BY <1>2, TasksDiffer DEF IInv, TypeOK, State
<1>7. TypeOK'
  BY <1>1, <1>4, <1>5, <1>6 DEF IInv, TypeOK, State, lockVars, senderVars
<1>8. AgentBehind'
  <2>1. Freeing' = Freeing
    BY <1>6 DEF Freeing
  <2>2. Prepared' \subseteq Prepared
    BY <1>2 DEF Prepared, IInv, TypeOK, Task
  <2> QED
    BY <1>1, <1>4, <2>1, <2>2 DEF IInv, AgentBehind
<1>9. StartIsRemote' /\ KillLocks' /\ Local'
  BY <1>1, <1>3, <1>6 DEF IInv, StartIsRemote, KillLocks, Local, lockVars
<1> QED
  BY <1>1, <1>7, <1>8, <1>9 DEF IInv, Kinded

-----------------------------------------------------------------------------
(***************************************************************************)
(* What follows kill, by a callback that has the lock.  While no agent has *)
(* died on its own there is no process left to lose.                       *)
(***************************************************************************)
LEMMA CleanUpKeeps ==
    ASSUME IInv, NEW f \in Free, CleanUp(f), holder = None \/ holder = f,
           process' = process, exited' \in BOOLEAN,
           agent' \in [Agent -> {"none", "started", "killed", "exited"}],
           ~remote /\ died = 0 => process = None /\ agent' = agent /\ exited' = FALSE
    PROVE  IInv'
<1>1. task' = [x \in Task |-> IF x = f \/ x \in Prepared THEN "idle" ELSE task[x]]
  BY DEF CleanUp
<1>2. holder' \in Task \union {None} /\ waiters' \in Seq(Task)
  BY UnlockTypes DEF IInv, CleanUp
<1>3. task' \in [Task -> State]
  BY <1>1 DEF IInv, TypeOK, State
<1>4. TypeOK'
  BY <1>2, <1>3 DEF IInv, TypeOK, State, CleanUp
<1>5. Prepared' = {}
  BY <1>1 DEF Prepared, Task
<1>6. AgentBehind'
  BY <1>5 DEF AgentBehind, CleanUp
<1>7. StartIsRemote'
  BY <1>1 DEF IInv, StartIsRemote, CleanUp, Task
<1>8. \A g \in Free : task'[g] \notin {"awaitExit", "exitSet"}
  BY <1>1, IdAssumption DEF IInv, KillLocks, Task
<1>9. KillLocks'
  BY <1>8 DEF KillLocks
<1>10. ASSUME ~remote, died = 0
       PROVE  KilledIsAwaited' /\ RunningIsWanted'
  <2>1. process = None /\ agent' = agent /\ exited' = FALSE
    BY <1>10
  <2>2. \A a \in Agent : agent[a] \notin {"killed", "exited"}
    BY <1>10, <2>1, IdAssumption DEF IInv, Local, KilledIsAwaited
  <2>3. process' \notin Running'
    BY <2>1, IdAssumption DEF Running
  <2> QED
    BY <2>1, <2>2, <2>3 DEF KilledIsAwaited, RunningIsWanted
<1>11. Local'
  BY <1>10 DEF Local, CleanUp
<1> QED
  BY <1>4, <1>6, <1>7, <1>9, <1>11 DEF IInv, Kinded, CleanUp

LEMMA KillKeeps ==
    ASSUME IInv, NEW f \in Free, Kill(f), holder = None \/ holder = f,
           task[f] \in {"scheduled", "lock"}
    PROVE  IInv'
<1>1. ~Awaits("awaitExit") /\ ~Awaits("exitSet")
  BY IdAssumption DEF IInv, KillLocks, Awaits, Task
<1>2. ASSUME ~remote, process # None, ~exited,
             agent' = [agent EXCEPT ![process] = IF @ = "started" THEN "killed" ELSE @],
             holder' = f, task' = [task EXCEPT ![f] = "awaitExit"],
             UNCHANGED <<eventVars, waiters, process, exited, senderVars, broken, died, remote>>
      PROVE  IInv'
  <2>1. f \in Task /\ process \in Agent
    BY <1>2 DEF IInv, TypeOK, Task
  <2>2. task' \in [Task -> State] /\ \A x \in Task : x # f => task'[x] = task[x]
    BY <1>2 DEF IInv, TypeOK, State
  <2>3. agent' \in [Agent -> {"none", "started", "killed", "exited"}]
    BY <1>2, <2>1 DEF IInv, TypeOK
  <2>4. TypeOK'
    BY <1>2, <2>1, <2>2, <2>3 DEF IInv, TypeOK, State, eventVars, senderVars
  <2>5. task'[f] = "awaitExit"
    BY <1>2, <2>1 DEF IInv, TypeOK
  <2>6. AgentBehind'
    BY <2>5 DEF AgentBehind, Freeing
  <2>7. StartIsRemote'
    BY <1>2, <2>2, TasksDiffer DEF IInv, StartIsRemote
  <2>8. \A g \in Free : g # f => task'[g] \notin {"awaitExit", "exitSet"}
    BY <1>1, <2>2 DEF Awaits, Task
  <2>9. KillLocks'
    BY <1>2, <2>8 DEF KillLocks
  <2>10. Awaits("awaitExit")' /\ ~Awaits("exitSet")'
    BY <2>5, <2>8 DEF Awaits
  <2>11. ASSUME died = 0
         PROVE  \A a \in Agent : agent'[a] \in {"killed", "exited"} => process = a
    BY <1>1, <1>2, <2>1, <2>11 DEF IInv, Local, KilledIsAwaited, TypeOK
  <2>12. Local'
    BY <1>2, <2>10, <2>11 DEF Local, KilledIsAwaited, RunningIsWanted
  <2> QED
    BY <1>2, <2>4, <2>6, <2>7, <2>9, <2>12 DEF IInv, Kinded
<1>3. ASSUME ~remote, process # None, exited,
             agent' = [agent EXCEPT ![process] = IF @ = "started" THEN "killed" ELSE @],
             exited' = FALSE, CleanUp(f), UNCHANGED process
      PROVE  IInv'
  <2>1. died # 0
    BY <1>1, <1>3 DEF IInv, Local, KilledIsAwaited
  <2>2. agent' \in [Agent -> {"none", "started", "killed", "exited"}]
    BY <1>3 DEF IInv, TypeOK
  <2> QED
    BY <1>3, <2>1, <2>2, CleanUpKeeps
<1>4. ASSUME ~remote, process = None, CleanUp(f), UNCHANGED <<process, exited, agent>>
      PROVE  IInv'
  <2>1. died = 0 => exited' = FALSE
    BY <1>1, <1>4 DEF IInv, Local, KilledIsAwaited, TypeOK
  <2>2. exited' \in BOOLEAN /\ agent' \in [Agent -> {"none", "started", "killed", "exited"}]
    BY <1>4 DEF IInv, TypeOK
  <2> QED
    BY <1>4, <2>1, <2>2, CleanUpKeeps
<1>5. ASSUME remote, CleanUp(f), UNCHANGED <<process, exited>>,
             agent' = [a \in Agent |-> IF Connected(a) /\ agent[a] = "started" THEN "killed"
                                       ELSE agent[a]]
      PROVE  IInv'
  <2>1. exited' \in BOOLEAN /\ agent' \in [Agent -> {"none", "started", "killed", "exited"}]
    BY <1>5 DEF IInv, TypeOK
  <2> QED
    BY <1>5, <2>1, CleanUpKeeps
<1> QED
  BY <1>2, <1>3, <1>4, <1>5 DEF Kill

LEMMA FreeResourcesKeeps ==
    ASSUME IInv, NEW f \in Free, FreeResources(f)
    PROVE  IInv'
<1>1. CASE holder = None /\ Kill(f)
  BY <1>1, KillKeeps DEF FreeResources
<1>2. CASE /\ holder # None /\ LineUp(f) /\ task' = [task EXCEPT ![f] = "lock"]
           /\ UNCHANGED <<eventVars, agentVars, senderVars>>
  <2>1. holder' = holder /\ holder' \in Task \union {None} /\ waiters' \in Seq(Task)
    BY <1>2, LineUpTypes DEF LineUp, IInv, Task
  <2>2. f \in Task /\ task[f] = "scheduled"
    BY DEF FreeResources, Task
  <2>3. task' \in [Task -> State] /\ \A x \in Task : x # f => task'[x] = task[x]
    BY <1>2 DEF IInv, TypeOK, State
  <2>4. task'[f] = "lock"
    BY <1>2, <2>2 DEF IInv, TypeOK
  <2>5. TypeOK'
    BY <1>2, <2>1, <2>3 DEF IInv, TypeOK, State, eventVars, agentVars, senderVars
  <2>6. AgentBehind'
    BY <2>4 DEF AgentBehind, Freeing
  <2>7. StartIsRemote'
    BY <1>2, <2>3, TasksDiffer DEF IInv, StartIsRemote, agentVars
  <2>8. KillLocks'
    BY <1>2, <2>1, <2>3, <2>4 DEF IInv, KillLocks, agentVars, Task
  <2>9. /\ Awaits("awaitExit")' <=> Awaits("awaitExit")
        /\ Awaits("exitSet")' <=> Awaits("exitSet")
        /\ Awaits("lock")'
    BY <2>2, <2>3, <2>4 DEF Awaits, Task
  <2>10. Local'
    BY <1>2, <2>9 DEF IInv, Local, KilledIsAwaited, RunningIsWanted, agentVars
  <2> QED
    BY <1>2, <2>5, <2>6, <2>7, <2>8, <2>10 DEF IInv, Kinded, agentVars
<1> QED
  BY <1>1, <1>2 DEF FreeResources

LEMMA FreeExitedKeeps ==
    ASSUME IInv, NEW f \in Free, FreeExited(f)
    PROVE  IInv'
<1>1. task[f] = "exitSet" /\ exited' = FALSE /\ CleanUp(f) /\ process' = process /\ agent' = agent
  BY DEF FreeExited
<1>2. holder = f
  BY <1>1 DEF IInv, KillLocks
<1>3. ~remote /\ died = 0 => process = None
  BY <1>1 DEF IInv, Local, KilledIsAwaited, Awaits
<1>4. agent' \in [Agent -> {"none", "started", "killed", "exited"}]
  BY <1>1 DEF IInv, TypeOK
<1> QED
  BY <1>1, <1>2, <1>3, <1>4, CleanUpKeeps

LEMMA FreeStepKeeps ==
    ASSUME IInv, NEW f \in Free, FreeStep(f)
    PROVE  IInv'
BY FreeResourcesKeeps, FreeExitedKeeps, KillKeeps DEF FreeStep, FreeLocked

-----------------------------------------------------------------------------
LEMMA AgentAliveKeeps ==
    ASSUME IInv, NEW a \in Agent, AgentAlive(a)
    PROVE  IInv'
<1>1. /\ timeout' = FALSE /\ ready' = TRUE /\ idleTimer' = ~remote
      /\ websocket' = [agent |-> a, up |-> TRUE]
      /\ task' = [t \in Task |-> IF task[t] = "awaitReady" THEN "woken" ELSE task[t]]
      /\ UNCHANGED <<lockVars, agentVars, senderVars>>
  BY DEF AgentAlive
<1>2. websocket' \in [agent : Agent, up : BOOLEAN]
  BY <1>1
<1>3. task' \in [Task -> State]
  BY <1>1 DEF IInv, TypeOK, State
<1>4. TypeOK'
  BY <1>1, <1>2, <1>3 DEF IInv, TypeOK, State, Kinded, lockVars, agentVars, senderVars
<1>5. AgentBehind'
  <2>1. websocket' # None
    BY <1>2, IdAssumption
  <2> QED
    BY <2>1 DEF AgentBehind
<1>6. StartIsRemote' /\ KillLocks'
  BY <1>1 DEF IInv, StartIsRemote, KillLocks, lockVars, agentVars, Task
<1>7. /\ Awaits("awaitExit")' <=> Awaits("awaitExit")
      /\ Awaits("exitSet")' <=> Awaits("exitSet")
  BY <1>1 DEF Awaits, Task
<1>8. Local'
  BY <1>1, <1>7 DEF IInv, Local, KilledIsAwaited, RunningIsWanted, agentVars
<1> QED
  BY <1>1, <1>4, <1>5, <1>6, <1>8 DEF IInv, Kinded, agentVars

(***************************************************************************)
(* The callbacks of the event loop that only schedule a free_resources.    *)
(***************************************************************************)
LEMMA SchedulesKeeps ==
    ASSUME IInv, CanSchedule, task' = Scheduled(task),
           websocket' \in [agent : Agent, up : BOOLEAN] \union {None},
           timeout' \in BOOLEAN, idleTimer' \in BOOLEAN,
           UNCHANGED <<ready, lockVars, agentVars, senderVars>>
    PROVE  IInv'
<1>1. PICK f \in Free : task[f] = "idle" /\ task' = [task EXCEPT ![f] = "scheduled"]
  BY ScheduledFrees DEF IInv
<1>2. f \in Task
  BY DEF Task
<1>3. task' \in [Task -> State] /\ task'[f] = "scheduled" /\ \A x \in Task : x # f => task'[x] = task[x]
  BY <1>1, <1>2 DEF IInv, TypeOK, State
<1>4. TypeOK'
  BY <1>3 DEF IInv, TypeOK, State, lockVars, agentVars, senderVars
<1>5. AgentBehind'
  BY <1>3 DEF AgentBehind, Freeing
<1>6. StartIsRemote' /\ KillLocks'
  BY <1>3, TasksDiffer DEF IInv, StartIsRemote, KillLocks, lockVars, agentVars, Task
<1>7. /\ Awaits("awaitExit")' <=> Awaits("awaitExit")
      /\ Awaits("exitSet")' <=> Awaits("exitSet")
      /\ Awaits("scheduled")'
  BY <1>1, <1>3 DEF Awaits, Task
<1>8. Local'
  BY <1>7 DEF IInv, Local, KilledIsAwaited, RunningIsWanted, agentVars
<1> QED
  BY <1>4, <1>5, <1>6, <1>8 DEF IInv, Kinded, agentVars

LEMMA TimersKeep ==
    ASSUME IInv, WebsocketOnClose \/ ReadyTimeout \/ KillIfIdle
    PROVE  IInv'
<1>1. /\ CanSchedule /\ task' = Scheduled(task)
      /\ UNCHANGED <<ready, lockVars, agentVars, senderVars>>
      /\ websocket' \in {websocket, None} /\ timeout' \in {timeout, FALSE} /\ idleTimer' \in {idleTimer, FALSE}
  BY DEF WebsocketOnClose, ReadyTimeout, KillIfIdle
<1>2. /\ websocket' \in [agent : Agent, up : BOOLEAN] \union {None}
      /\ timeout' \in BOOLEAN /\ idleTimer' \in BOOLEAN
  BY <1>1 DEF IInv, TypeOK
<1> QED
  BY <1>1, <1>2, SchedulesKeeps

LEMMA BreakKeeps ==
    ASSUME IInv, Break
    PROVE  IInv'
<1>1. /\ websocket' \in [agent : Agent, up : BOOLEAN] /\ websocket' # None
      /\ broken' \in 0..MaxLost
      /\ UNCHANGED <<ready, timeout, idleTimer, lockVars, process, exited, agent, died, remote, task, senderVars>>
  <2>1. websocket \in [agent : Agent, up : BOOLEAN]
    BY DEF Break, IInv, TypeOK
  <2>2. websocket' \in [agent : Agent, up : BOOLEAN] /\ websocket' # None
    BY <2>1, DownTypes DEF Break
  <2>3. broken' \in 0..MaxLost
    BY LossAssumption DEF Break, IInv, TypeOK
  <2> QED
    BY <2>2, <2>3 DEF Break
<1>2. TypeOK'
  BY <1>1 DEF IInv, TypeOK, lockVars, senderVars
<1>3. AgentBehind' /\ StartIsRemote' /\ KillLocks'
  BY <1>1 DEF IInv, AgentBehind, StartIsRemote, KillLocks, lockVars
<1>4. Local'
  BY <1>1 DEF IInv, Local, KilledIsAwaited, RunningIsWanted, Running, Awaits
<1> QED
  BY <1>1, <1>2, <1>3, <1>4 DEF IInv, Kinded

LEMMA ExitKeeps ==
    ASSUME IInv, NEW a \in Agent, Exit(a)
    PROVE  IInv'
<1>1. /\ UNCHANGED <<ready, timeout, idleTimer, lockVars, process, exited, broken, task, remote, senderVars>>
      /\ agent' = [agent EXCEPT ![a] = IF remote THEN "none" ELSE "exited"]
  BY DEF Exit
<1>2. /\ websocket' \in [agent : Agent, up : BOOLEAN] \union {None}
      /\ websocket # None => websocket' # None
  <2>1. CASE Connected(a)
    <3>1. websocket \in [agent : Agent, up : BOOLEAN] /\ websocket' = [websocket EXCEPT !.up = FALSE]
      BY <2>1 DEF Exit, Down, Connected, IInv, TypeOK
    <3> QED
      BY <3>1, DownTypes
  <2>2. CASE ~Connected(a)
    BY <2>2 DEF Exit, Down, IInv, TypeOK
  <2> QED
    BY <2>1, <2>2
<1>3. died' \in 0..MaxDied /\ (died' = 0 => agent[a] = "killed" /\ died = 0)
  BY LossAssumption DEF Exit, IInv, TypeOK
<1>4. agent' \in [Agent -> {"none", "started", "killed", "exited"}]
  BY <1>1 DEF IInv, TypeOK
<1>5. TypeOK'
  BY <1>1, <1>2, <1>3, <1>4 DEF IInv, TypeOK, lockVars, senderVars
<1>6. AgentBehind' /\ StartIsRemote' /\ KillLocks'
  BY <1>1, <1>2 DEF IInv, AgentBehind, Prepared, Freeing, StartIsRemote, KillLocks, lockVars
<1>7. \A state : Awaits(state)' <=> Awaits(state)
  BY <1>1 DEF Awaits
<1>8. Local'
  <2>1. ASSUME ~remote, died' = 0
        PROVE  KilledIsAwaited' /\ RunningIsWanted'
    <3>1. KilledIsAwaited /\ RunningIsWanted /\ agent[a] = "killed"
      BY <1>3, <2>1 DEF IInv, Local
    <3>2. \A b \in Agent : b # a => agent'[b] = agent[b]
      BY <1>1 DEF IInv, TypeOK
    <3>3. agent'[a] = "exited"
      BY <1>1, <2>1 DEF IInv, TypeOK
    <3>4. KilledIsAwaited'
      BY <1>1, <1>7, <3>1, <3>2 DEF KilledIsAwaited
    <3>5. RunningIsWanted'
      BY <1>1, <1>7, <3>1, <3>2, <3>3 DEF KilledIsAwaited, RunningIsWanted, Running
    <3> QED
      BY <3>4, <3>5
  <2> QED
    BY <1>1, <2>1 DEF Local
<1> QED
  BY <1>1, <1>5, <1>6, <1>8 DEF IInv, Kinded

LEMMA AgentOnExitKeeps ==
    ASSUME IInv, NEW a \in Agent, AgentOnExit(a)
    PROVE  IInv'
<1>1. /\ agent[a] = "exited" /\ agent' = [agent EXCEPT ![a] = "none"]
      /\ exited' = TRUE /\ process' = None
      /\ task' = [t \in Task |-> IF task[t] = "awaitExit" THEN "exitSet" ELSE task[t]]
      /\ UNCHANGED <<eventVars, lockVars, broken, died, remote, senderVars>>
  BY DEF AgentOnExit
<1>2. task' \in [Task -> State] /\ agent' \in [Agent -> {"none", "started", "killed", "exited"}]
  BY <1>1 DEF IInv, TypeOK, State
<1>3. TypeOK'
  BY <1>1, <1>2 DEF IInv, TypeOK, State, eventVars, lockVars, senderVars
<1>4. Prepared' = Prepared /\ Freeing' = Freeing
  BY <1>1 DEF Prepared, Freeing, Task
<1>5. AgentBehind'
  BY <1>1, <1>4 DEF IInv, AgentBehind, eventVars
<1>6. StartIsRemote' /\ KillLocks'
  BY <1>1 DEF IInv, StartIsRemote, KillLocks, lockVars, Task
<1>7. Local'
  <2>1. ASSUME ~remote, died = 0
        PROVE  KilledIsAwaited' /\ RunningIsWanted'
    <3>1. KilledIsAwaited /\ process = a /\ Awaits("awaitExit")
      BY <1>1, <2>1 DEF IInv, Local, KilledIsAwaited
    <3>2. Awaits("exitSet")'
      BY <1>1, <3>1 DEF Awaits, Task
    <3>3. \A b \in Agent : agent'[b] \notin {"killed", "exited"}
      BY <1>1, <3>1 DEF KilledIsAwaited, IInv, TypeOK
    <3>4. process' \notin Running'
      BY <1>1, IdAssumption DEF Running
    <3> QED
      BY <1>1, <3>2, <3>3, <3>4 DEF KilledIsAwaited, RunningIsWanted
  <2> QED
    BY <1>1, <2>1 DEF Local
<1> QED
  BY <1>1, <1>3, <1>5, <1>6, <1>7 DEF IInv, Kinded

-----------------------------------------------------------------------------
LEMMA InitInv == Init => IInv
<1> SUFFICES ASSUME Init PROVE IInv
  OBVIOUS
<1>1. <<>> \in Seq(Task)
  OBVIOUS
<1>2. TypeOK /\ Kinded
  <2>1. waiters \in Seq(Task)
    BY <1>1 DEF Init
  <2>2. broken \in 0..MaxLost /\ died \in 0..MaxDied
    BY LossAssumption DEF Init
  <2>3. Kinded
    BY KindAssumption DEF Init, Kinded
  <2> QED
    BY <2>1, <2>2, <2>3 DEF Init, TypeOK
<1>3. Freeing = {} /\ Prepared = {}
  BY DEF Init, Freeing, Prepared, Task
<1>4. AgentBehind
  BY <1>3 DEF Init, AgentBehind
<1>5. StartIsRemote /\ KillLocks
  BY DEF Init, StartIsRemote, KillLocks, Task
<1>6. Local
  BY IdAssumption DEF Init, Local, KilledIsAwaited, RunningIsWanted, Running, Awaits, Task
<1> QED
  BY <1>2, <1>4, <1>5, <1>6 DEF IInv

LEMMA NextInv == IInv /\ [Next]_vars => IInv'
<1> SUFFICES ASSUME IInv, [Next]_vars PROVE IInv'
  OBVIOUS
<1>1. ASSUME NEW s \in Sender, PrepareSend(s) PROVE IInv'
  BY <1>1, AgentReadyKeeps DEF PrepareSend
<1>2. ASSUME NEW s \in Sender, SlotsReady(s) PROVE IInv'
  BY <1>2, SlotsReadyKeeps
<1>3. ASSUME NEW s \in Sender, SenderStep(s) PROVE IInv'
  BY <1>3, LockGrantedKeeps, StartReturnsKeeps, QuietKeeps DEF SenderStep
<1>4. ASSUME NEW s \in Sender, RemoteStart(s) PROVE IInv'
  BY <1>4, RemoteStartKeeps
<1>5. ASSUME NEW s \in Sender, StartRaises(s) PROVE IInv'
  BY <1>5, StartRaisesKeeps
<1>6. ASSUME NEW s \in Sender, Reply(s) PROVE IInv'
  BY <1>6, QuietKeeps
<1>7. ASSUME NEW s \in Sender, DestroyOp(s) PROVE IInv'
  BY <1>7, DestroyOpKeeps
<1>8. ASSUME NEW f \in Free, FreeStep(f) PROVE IInv'
  BY <1>8, FreeStepKeeps
<1>9. ASSUME NEW a \in Agent, AgentAlive(a) \/ Exit(a) \/ AgentOnExit(a) PROVE IInv'
  BY <1>9, AgentAliveKeeps, ExitKeeps, AgentOnExitKeeps
<1>10. CASE WebsocketOnClose \/ ReadyTimeout \/ KillIfIdle
  BY <1>10, TimersKeep
<1>11. CASE Break
  BY <1>11, BreakKeeps
<1>12. CASE UNCHANGED vars
  <2>1. UNCHANGED <<ready, timeout, websocket, idleTimer>> /\ UNCHANGED <<holder, waiters>>
        /\ UNCHANGED <<process, exited, agent, task, awaited, destroyed, broken, died, remote>>
    BY <1>12 DEF vars
  <2>2. TypeOK' /\ Kinded' /\ AgentBehind' /\ StartIsRemote' /\ KillLocks'
    BY <2>1 DEF IInv, TypeOK, Kinded, AgentBehind, Prepared, Freeing, StartIsRemote, KillLocks
  <2>3. Local'
    BY <2>1 DEF IInv, Local, KilledIsAwaited, RunningIsWanted, Running, Awaits
  <2> QED
    BY <2>2, <2>3 DEF IInv
<1> QED
  BY <1>1, <1>2, <1>3, <1>4, <1>5, <1>6, <1>7, <1>8, <1>9, <1>10, <1>11, <1>12 DEF Next

\* Only _do_agent_start of a LocalDriver replaces the process.
LEMMA StartReplaces ==
    ASSUME IInv, Next, process' # process, process' # None
    PROVE  \E s \in Sender : ~ready /\ ~timeout /\ ~remote /\ (holder = None \/ holder = s)
<1> USE DEF eventVars, lockVars, agentVars, senderVars
<1>1. ASSUME NEW s \in Sender, StartAgent(s), ~ready, ~timeout, holder = None \/ holder = s
      PROVE  ~remote
  BY <1>1 DEF StartAgent
<1>2. ASSUME NEW s \in Sender, AgentReady(s)
      PROVE  ~ready /\ ~timeout /\ ~remote /\ (holder = None \/ holder = s)
  BY <1>1, <1>2 DEF AgentReady
<1>3. ASSUME NEW s \in Sender, PrepareSend(s) \/ SlotsReady(s)
      PROVE  ~ready /\ ~timeout /\ ~remote /\ (holder = None \/ holder = s)
  BY <1>2, <1>3 DEF PrepareSend, SlotsReady
<1>4. ASSUME NEW s \in Sender, SenderStep(s)
      PROVE  ~ready /\ ~timeout /\ ~remote /\ (holder = None \/ holder = s)
  BY <1>1, <1>4 DEF SenderStep, LockGranted, StartReturns, Woken
<1>5. ASSUME NEW s \in Sender, RemoteStart(s) \/ StartRaises(s) \/ Reply(s) \/ DestroyOp(s)
      PROVE  FALSE
  BY <1>5 DEF RemoteStart, StartRaises, Reply, DestroyOp
<1>6. ASSUME NEW f \in Free, FreeStep(f)
      PROVE  FALSE
  BY <1>6 DEF FreeStep, FreeResources, FreeLocked, FreeExited, Kill, CleanUp
<1>7. ASSUME NEW a \in Agent, AgentAlive(a) \/ Exit(a) \/ AgentOnExit(a)
      PROVE  FALSE
  BY <1>7 DEF AgentAlive, Exit, AgentOnExit
<1>8. CASE WebsocketOnClose \/ ReadyTimeout \/ KillIfIdle \/ Break
  BY <1>8 DEF WebsocketOnClose, ReadyTimeout, KillIfIdle, Break
<1> QED
  BY <1>3, <1>4, <1>5, <1>6, <1>7, <1>8 DEF Next

LEMMA StartsOverTimedOut ==
    IInv /\ [Next]_vars =>
        [(died = 0 /\ process \in Running /\ process' \notin {None, process})
         => holder \notin Free /\ \E f \in Free : task[f] \in {"scheduled", "lock"}]_vars
<1> SUFFICES ASSUME IInv, Next, died = 0, process \in Running, process' \notin {None, process}
             PROVE  holder \notin Free /\ \E f \in Free : task[f] \in {"scheduled", "lock"}
  OBVIOUS
<1>1. PICK s \in Sender : ~ready /\ ~timeout /\ ~remote /\ (holder = None \/ holder = s)
  BY StartReplaces
<1>2. holder \notin Free
  BY <1>1, IdAssumption
<1>3. ~Awaits("awaitExit")
  BY <1>2 DEF IInv, KillLocks, Awaits
<1>4. Awaits("scheduled") \/ Awaits("lock")
  BY <1>1, <1>3 DEF IInv, Local, RunningIsWanted
<1> QED
  BY <1>2, <1>4 DEF Awaits

-----------------------------------------------------------------------------
(***************************************************************************)
(* Every variable of the driver (DriverBase) keeps its type.               *)
(***************************************************************************)
THEOREM DriverTypes == Spec => []TypeOK
<1>1. IInv => TypeOK
  BY DEF IInv
<1> QED
  BY InitInv, NextInv, <1>1, PTL DEF Spec

(***************************************************************************)
(* Whoever believes in an agent, or waits for its reply, has a websocket   *)
(* or will be told by free_resources.                                      *)
(***************************************************************************)
THEOREM DriverAgentBehind == Spec => []AgentBehind
<1>1. IInv => AgentBehind
  BY DEF IInv
<1> QED
  BY InitInv, NextInv, <1>1, PTL DEF Spec

(***************************************************************************)
(* _agent_start starts over a local agent that runs only between the       *)
(* timeout of its start and the free_resources that timeout schedules.     *)
(***************************************************************************)
THEOREM DriverStartsOver == Spec => StartsOverTimedOutOnly
BY InitInv, NextInv, StartsOverTimedOut, PTL DEF Spec, StartsOverTimedOutOnly
=============================================================================
