------------------------------ MODULE AgentDriver ------------------------------
(***************************************************************************)
(* One driver (sirepo/job_driver/__init__.py with local.py, or sbatch.py)  *)
(* and the agents it starts: the coroutines of operations that need a      *)
(* ready agent, the websocket the agent connects, the timers, and the      *)
(* free_resources callbacks that tear everything down.                     *)
(*                                                                         *)
(* One await is one step: everything a coroutine does up to its next await *)
(* is one action.  tornado's Lock and Event hand over to their waiters,    *)
(* which go on in steps of their own.  Slots are another component; here   *)
(* an operation may or may not have to wait for them.                      *)
(***************************************************************************)
EXTENDS Naturals, Sequences, FiniteSets

CONSTANTS
    Kinds,      \* the drivers to look at: TRUE is SbatchDriver, FALSE is LocalDriver
    Hangs,      \* whether a call of SbatchDriver._do_agent_start may hang
    Sender,     \* coroutines that send an operation, and then another one
    Free,       \* bound: callbacks of free_resources alive at once
    Agent,      \* bound: agent processes alive at once
    MaxLost,    \* bound: connections that break
    MaxDied,    \* bound: agents that exit without being told to
    None

ASSUME KindAssumption == Kinds \subseteq BOOLEAN /\ Hangs \in BOOLEAN
ASSUME IdAssumption ==
    /\ Sender \intersect Free = {}
    /\ None \notin Sender \union Free \union Agent
    /\ None \notin [agent : Agent, up : BOOLEAN]
ASSUME LossAssumption == MaxLost \in Nat /\ MaxDied \in Nat

Task == Sender \union Free

VARIABLES
    ready,      \* _websocket_ready is set
    timeout,    \* _websocket_ready_timeout is set: an agent is starting
    websocket,  \* [agent, up]: the agent's connection and whether it works, or None
    idleTimer,  \* _idle_timer is set
    holder,     \* the task that holds _agent_life_change_lock, or None
    waiters,    \* the tasks in line for it
    process,    \* LocalDriver.subprocess: an agent, or None
    exited,     \* LocalDriver._agent_exit is set
    agent,      \* state of every agent process
    task,       \* where every coroutine is
    awaited,    \* the senders that wait, or waited, for slots
    destroyed,  \* the suspended senders whose operation was destroyed
    broken,     \* connections that broke
    died,       \* agents that exited without being told to
    remote      \* TRUE: SbatchDriver, FALSE: LocalDriver

vars == <<remote, ready, timeout, websocket, idleTimer, holder, waiters, process, exited,
          agent, task, awaited, destroyed, broken, died>>
eventVars == <<ready, timeout, websocket, idleTimer>>
lockVars == <<holder, waiters>>
agentVars == <<remote, process, exited, agent, broken, died>>
senderVars == <<awaited, destroyed>>

Init ==
    /\ ready = FALSE
    /\ timeout = FALSE
    /\ websocket = None
    /\ idleTimer = FALSE
    /\ holder = None
    /\ waiters = <<>>
    /\ process = None
    /\ exited = FALSE
    /\ agent = [a \in Agent |-> "none"]
    /\ task = [t \in Task |-> "idle"]
    /\ awaited = {}
    /\ destroyed = {}
    /\ broken = 0
    /\ died = 0
    /\ remote \in Kinds

-----------------------------------------------------------------------------
\* The operations in _prepared_sends.
Prepared == {s \in Sender : task[s] = "sent"}

\* The agents that run, told to stop or not.
Running == {a \in Agent : agent[a] \in {"started", "killed"}}

\* The callbacks of free_resources that are scheduled or under way.
Freeing == {f \in Free : task[f] # "idle"}

Connected(a) == websocket # None /\ websocket.agent = a /\ websocket.up

\* tasks t after _start_free_resources.
Scheduled(t) ==
    LET f == CHOOSE f \in Free : t[f] = "idle"
    IN  [t EXCEPT ![f] = "scheduled"]

CanSchedule == Freeing # Free

\* Wrong: the line gets the lock, not the first in it.
UnlockLine ==
    /\ holder' = IF waiters = <<>> THEN None ELSE waiters
    /\ waiters' = IF waiters = <<>> THEN <<>> ELSE Tail(waiters)

\* The lock goes to the next in line.
Unlock ==
    /\ holder' = IF waiters = <<>> THEN None ELSE Head(waiters)
    /\ waiters' = IF waiters = <<>> THEN <<>> ELSE Tail(waiters)

\* t has to wait for the lock.
LineUp(t) == waiters' = Append(waiters, t) /\ UNCHANGED holder

\* The websocket after a connection of agent a went down.
Down(a) == IF Connected(a) THEN [websocket EXCEPT !.up = FALSE] ELSE websocket

-----------------------------------------------------------------------------
(***************************************************************************)
(* Senders: prepare_send, _agent_ready, _agent_start and send.             *)
(***************************************************************************)

\* s is done with its operation.
Leave(s, t) ==
    /\ task' = t
    /\ awaited' = awaited \ {s}
    /\ destroyed' = destroyed \ {s}

\* _agent_ready returned True: the slots are free, or were waited for before,
\* and the operation is prepared and sent at once; or it waits for them.  A
\* connection that is down may still take the message.
GoOn(s) ==
    \/ /\ websocket # None
       /\ task' = [task EXCEPT ![s] = "sent"]
       /\ UNCHANGED senderVars
    \/ /\ websocket # None => ~websocket.up
       /\ Leave(s, [task EXCEPT ![s] = "idle"])
    \/ /\ s \notin awaited
       /\ task' = [task EXCEPT ![s] = "slots"]
       /\ awaited' = awaited \union {s}
       /\ UNCHANGED destroyed

\* s awaits _websocket_ready, which may be set.
AwaitReady(s) ==
    \/ s \in destroyed /\ Leave(s, [task EXCEPT ![s] = "idle"])
    \/ s \notin destroyed /\ ready /\ GoOn(s)
    \/ /\ s \notin destroyed /\ ~ready
       /\ task' = [task EXCEPT ![s] = "awaitReady"]
       /\ UNCHANGED senderVars

\* With the lock, s starts an agent.  A local process is there, or is not, at
\* once; the lock is held while a remote host is called.
StartAgent(s) ==
    /\ timeout' = TRUE
    /\ \/ /\ ~remote
          /\ \E a \in Agent :
                /\ agent[a] = "none"
                /\ agent' = [agent EXCEPT ![a] = "started"]
                /\ process' = a
          /\ Unlock
          /\ AwaitReady(s)
       \/ /\ ~remote
          /\ CanSchedule
          /\ Unlock
          /\ Leave(s, [Scheduled(task) EXCEPT ![s] = "idle"])
          /\ UNCHANGED <<agent, process>>
       \/ /\ remote
          /\ holder' = s
          /\ task' = [task EXCEPT ![s] = "starting"]
          /\ UNCHANGED <<waiters, agent, process, senderVars>>
    /\ UNCHANGED <<ready, websocket, idleTimer, exited, broken, died, remote>>

\* Wrong: who starts an agent is not locked.
AgentReadyUnlocked(s) ==
    /\ \/ ready /\ GoOn(s) /\ UNCHANGED <<eventVars, lockVars, agentVars>>
       \/ ~ready /\ timeout /\ AwaitReady(s) /\ UNCHANGED <<eventVars, lockVars, agentVars>>
       \/ ~ready /\ ~timeout /\ StartAgent(s)

\* _agent_ready.
AgentReady(s) ==
    \/ ready /\ GoOn(s) /\ UNCHANGED <<eventVars, lockVars, agentVars>>
    \/ ~ready /\ timeout /\ AwaitReady(s) /\ UNCHANGED <<eventVars, lockVars, agentVars>>
    \/ ~ready /\ ~timeout /\ holder = None /\ StartAgent(s)
    \/ /\ ~ready /\ ~timeout /\ holder # None
       /\ LineUp(s)
       /\ task' = [task EXCEPT ![s] = "lock"]
       /\ UNCHANGED <<eventVars, agentVars, senderVars>>

\* A request needs an agent for its operation.
PrepareSend(s) == task[s] = "idle" /\ AgentReady(s)

\* The operation has its slots and looks at the agent again, or was destroyed
\* while it waited for them.
SlotsReady(s) ==
    /\ task[s] = "slots"
    /\ \/ /\ s \in destroyed
          /\ Leave(s, [task EXCEPT ![s] = "idle"])
          /\ UNCHANGED <<eventVars, lockVars, agentVars>>
       \/ s \notin destroyed /\ AgentReady(s)

\* s got the lock in _agent_start.
LockGranted(s) ==
    /\ task[s] = "lock" /\ holder = s
    /\ \/ /\ ready \/ timeout
          /\ Unlock
          /\ AwaitReady(s)
          /\ UNCHANGED <<eventVars, agentVars>>
       \/ ~ready /\ ~timeout /\ StartAgent(s)

\* The remote host starts an agent, and kills the one it had.
RemoteStart(s) ==
    /\ task[s] = "starting"
    /\ \E a \in Agent :
          /\ agent[a] = "none"
          /\ agent' = [b \in Agent |-> IF b = a THEN "started" ELSE "none"]
          /\ websocket' = IF websocket = None THEN None ELSE [websocket EXCEPT !.up = FALSE]
    /\ task' = [task EXCEPT ![s] = "started"]
    /\ UNCHANGED <<ready, timeout, idleTimer, lockVars, process, exited, broken, died, remote, senderVars>>

\* _do_agent_start returns, or raises.
StartReturns(s) ==
    /\ task[s] = "started"
    /\ Unlock
    /\ AwaitReady(s)
    /\ UNCHANGED <<eventVars, agentVars>>

\* Wrong: the lock is not released by an exception.
StartRaisesLocked(s) ==
    /\ task[s] \in {"starting", "started"}
    /\ CanSchedule
    /\ Leave(s, [Scheduled(task) EXCEPT ![s] = "idle"])
    /\ UNCHANGED <<eventVars, lockVars, agentVars>>

StartRaises(s) ==
    /\ task[s] \in {"starting", "started"}
    /\ CanSchedule
    /\ Unlock
    /\ Leave(s, [Scheduled(task) EXCEPT ![s] = "idle"])
    /\ UNCHANGED <<eventVars, agentVars>>

\* Resumed by _websocket_ready, which is not looked at again.
Woken(s) ==
    /\ task[s] = "woken"
    /\ \/ s \in destroyed /\ Leave(s, [task EXCEPT ![s] = "idle"])
       \/ s \notin destroyed /\ GoOn(s)
    /\ UNCHANGED <<eventVars, lockVars, agentVars>>

\* The agent's reply.
Reply(s) ==
    /\ task[s] = "sent"
    /\ websocket # None /\ websocket.up
    /\ Leave(s, [task EXCEPT ![s] = "idle"])
    /\ UNCHANGED <<eventVars, lockVars, agentVars>>

\* The operation is destroyed, by a cancel or a timeout.
DestroyOp(s) ==
    /\ \/ task[s] = "sent" /\ Leave(s, [task EXCEPT ![s] = "idle"])
       \/ /\ task[s] \in {"slots", "lock", "starting", "started", "awaitReady", "woken"}
          /\ destroyed' = destroyed \union {s}
          /\ UNCHANGED <<task, awaited>>
    /\ UNCHANGED <<eventVars, lockVars, agentVars>>

-----------------------------------------------------------------------------
(***************************************************************************)
(* free_resources.                                                         *)
(***************************************************************************)

\* What follows kill: everything the driver holds of the agent is let go, and
\* its operations are destroyed.
CleanUp(f) ==
    /\ timeout' = FALSE
    /\ ready' = FALSE
    /\ websocket' = None
    /\ task' = [x \in Task |-> IF x = f \/ x \in Prepared THEN "idle" ELSE task[x]]
    /\ awaited' = awaited \ Prepared
    /\ destroyed' = destroyed \ Prepared
    /\ Unlock
    /\ UNCHANGED <<idleTimer, broken, died, remote>>

\* kill, by the driver's class: SIGTERM and (after a while) SIGKILL to a local
\* process, whose exit is awaited; OP_KILL to a remote agent, if it listens.
Kill(f) ==
    \/ /\ ~remote /\ process # None /\ ~exited
       /\ agent' = [agent EXCEPT ![process] = IF @ = "started" THEN "killed" ELSE @]
       /\ holder' = f
       /\ task' = [task EXCEPT ![f] = "awaitExit"]
       /\ UNCHANGED <<eventVars, waiters, process, exited, senderVars, broken, died, remote>>
    \/ /\ ~remote /\ process # None /\ exited
       /\ agent' = [agent EXCEPT ![process] = IF @ = "started" THEN "killed" ELSE @]
       /\ exited' = FALSE
       /\ CleanUp(f)
       /\ UNCHANGED process
    \/ /\ ~remote /\ process = None
       /\ CleanUp(f)
       /\ UNCHANGED <<process, exited, agent>>
    \/ /\ remote
       /\ agent' = [a \in Agent |-> IF Connected(a) /\ agent[a] = "started" THEN "killed"
                                    ELSE agent[a]]
       /\ CleanUp(f)
       /\ UNCHANGED <<process, exited>>

FreeResources(f) ==
    /\ task[f] = "scheduled"
    /\ \/ holder = None /\ Kill(f)
       \/ /\ holder # None
          /\ LineUp(f)
          /\ task' = [task EXCEPT ![f] = "lock"]
          /\ UNCHANGED <<eventVars, agentVars, senderVars>>

FreeLocked(f) == task[f] = "lock" /\ holder = f /\ Kill(f)

\* kill goes on when _agent_exit is set.
FreeExited(f) ==
    /\ task[f] = "exitSet"
    /\ exited' = FALSE
    /\ CleanUp(f)
    /\ UNCHANGED <<process, agent>>

-----------------------------------------------------------------------------
(***************************************************************************)
(* Agents, connections and timers.                                         *)
(***************************************************************************)

\* _agent_receive_alive, on a new connection.
AgentAlive(a) ==
    /\ a \in Running /\ ~Connected(a)
    /\ timeout' = FALSE
    /\ websocket' = [agent |-> a, up |-> TRUE]
    /\ ready' = TRUE
    /\ idleTimer' = ~remote
    /\ task' = [t \in Task |-> IF task[t] = "awaitReady" THEN "woken" ELSE task[t]]
    /\ UNCHANGED <<lockVars, agentVars, senderVars>>

\* Wrong: nothing is freed when the connection is lost.
WebsocketOnCloseOnly ==
    /\ websocket # None /\ ~websocket.up
    /\ websocket' = None
    /\ UNCHANGED <<ready, timeout, idleTimer, lockVars, agentVars, task, senderVars>>

\* websocket_on_close.
WebsocketOnClose ==
    /\ websocket # None /\ ~websocket.up
    /\ CanSchedule
    /\ websocket' = None
    /\ task' = Scheduled(task)
    /\ UNCHANGED <<ready, timeout, idleTimer, lockVars, agentVars, senderVars>>

\* _websocket_ready_timeout_handler.
ReadyTimeout ==
    /\ timeout /\ ~ready
    /\ CanSchedule
    /\ timeout' = FALSE
    /\ task' = Scheduled(task)
    /\ UNCHANGED <<ready, websocket, idleTimer, lockVars, agentVars, senderVars>>

\* _kill_if_idle; an agent that is not idle is looked at again later.
KillIfIdle ==
    /\ idleTimer /\ Prepared = {} /\ ~timeout
    /\ CanSchedule
    /\ idleTimer' = FALSE
    /\ task' = Scheduled(task)
    /\ UNCHANGED <<ready, timeout, websocket, lockVars, agentVars, senderVars>>

\* The connection of an agent breaks.
Break ==
    /\ broken < MaxLost
    /\ websocket # None /\ websocket.up
    /\ websocket' = [websocket EXCEPT !.up = FALSE]
    /\ broken' = broken + 1
    /\ UNCHANGED <<ready, timeout, idleTimer, lockVars, process, exited, agent, died, remote, task,
                   senderVars>>

\* An agent's process ends: it was told to, or crashed, or gave up to connect
\* (_MAX_LOOP_RETRY of job_agent.py).
Exit(a) ==
    /\ \/ agent[a] = "killed" /\ UNCHANGED died
       \/ agent[a] = "started" /\ died < MaxDied /\ died' = died + 1
    /\ agent' = [agent EXCEPT ![a] = IF remote THEN "none" ELSE "exited"]
    /\ websocket' = Down(a)
    /\ UNCHANGED <<ready, timeout, idleTimer, lockVars, process, exited, broken, task, remote, senderVars>>

\* Wrong: the exit of the process is not told.
AgentOnExitUntold(a) ==
    /\ agent[a] = "exited"
    /\ agent' = [agent EXCEPT ![a] = "none"]
    /\ process' = None
    /\ UNCHANGED <<eventVars, lockVars, exited, task, broken, died, remote, senderVars>>

\* _agent_on_exit.
AgentOnExit(a) ==
    /\ agent[a] = "exited"
    /\ agent' = [agent EXCEPT ![a] = "none"]
    /\ exited' = TRUE
    /\ process' = None
    /\ task' = [t \in Task |-> IF task[t] = "awaitExit" THEN "exitSet" ELSE task[t]]
    /\ UNCHANGED <<eventVars, lockVars, broken, died, remote, senderVars>>

-----------------------------------------------------------------------------
\* The coroutine of a sender goes on.
SenderStep(s) ==
    \/ LockGranted(s) \/ StartReturns(s) \/ Woken(s)

FreeStep(f) == FreeResources(f) \/ FreeLocked(f) \/ FreeExited(f)

Next ==
    \/ \E s \in Sender :
          \/ PrepareSend(s) \/ SlotsReady(s) \/ SenderStep(s) \/ RemoteStart(s) \/ StartRaises(s)
          \/ Reply(s) \/ DestroyOp(s)
    \/ \E f \in Free : FreeStep(f)
    \/ \E a \in Agent : AgentAlive(a) \/ Exit(a) \/ AgentOnExit(a)
    \/ WebsocketOnClose \/ ReadyTimeout \/ KillIfIdle \/ Break

(***************************************************************************)
(* Fairness: the event loop resumes coroutines, calls back, and notices    *)
(* exits and closed sockets; a process that was told to stop does (SIGKILL *)
(* after KILL_TIMEOUT_SECS); a remote start ends, unless it may hang.      *)
(***************************************************************************)
Fairness ==
    /\ \A s \in Sender : WF_vars(SenderStep(s))
    /\ \A s \in Sender : ~Hangs => WF_vars(RemoteStart(s) \/ StartRaises(s))
    /\ \A f \in Free : WF_vars(FreeStep(f))
    /\ \A a \in Agent : WF_vars(agent[a] = "killed" /\ Exit(a)) /\ WF_vars(AgentOnExit(a))
    /\ WF_vars(WebsocketOnClose) /\ WF_vars(ReadyTimeout)

Spec == Init /\ [][Next]_vars
FairSpec == Spec /\ Fairness

-----------------------------------------------------------------------------
TypeOK ==
    /\ ready \in BOOLEAN /\ timeout \in BOOLEAN /\ idleTimer \in BOOLEAN /\ exited \in BOOLEAN
    /\ websocket \in [agent : Agent, up : BOOLEAN] \union {None}
    /\ holder \in Task \union {None}
    /\ waiters \in Seq(Task)
    /\ process \in Agent \union {None}
    /\ agent \in [Agent -> {"none", "started", "killed", "exited"}]
    /\ task \in [Task -> {"idle", "scheduled", "lock", "awaitExit", "exitSet", "starting",
                          "started", "awaitReady", "woken", "slots", "sent"}]
    /\ awaited \subseteq Sender /\ destroyed \subseteq Sender
    /\ broken \in 0..MaxLost /\ died \in 0..MaxDied

(***************************************************************************)
(* Whoever is told that the agent is ready, or waits for its reply, has an *)
(* agent behind it, or will be told by a free_resources that is on its     *)
(* way: nobody waits for an agent that is gone.                            *)
(***************************************************************************)
AgentBehind ==
    ready \/ Prepared # {} => websocket # None \/ Freeing # {}

(***************************************************************************)
(* A local agent is started over one that still runs only after the start  *)
(* of that one has timed out and before the free_resources that will stop  *)
(* it holds the lock: a start never overtakes a kill, nor another start.   *)
(* (Not so once an agent has died on its own: _agent_exit stays set, and   *)
(* the next kill returns before its process exits.)                        *)
(***************************************************************************)
StartsOverTimedOutOnly ==
    [][(died = 0 /\ process \in Running /\ process' \notin {None, process})
       => holder \notin Free /\ \E f \in Free : task[f] \in {"scheduled", "lock"}]_vars

(***************************************************************************)
(* Every free_resources ends: the lock is not held forever, and no exit    *)
(* that was seen before is awaited again (unless the bound on agents is    *)
(* reached).                                                               *)
(***************************************************************************)
FreeEnds ==
    \A f \in Free : task[f] # "idle" ~> task[f] = "idle" \/ \A a \in Agent : agent[a] # "none"

(***************************************************************************)
(* The comment in _agent_start: if a call hangs, the timeout handler will  *)
(* cancel the task.                                                        *)
(***************************************************************************)
HungStartIsCanceled ==
    \A s \in Sender : task[s] = "starting" /\ ~timeout ~> task[s] # "starting"

==============================================================================
