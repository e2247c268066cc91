# A verification project for Sirepo

Sirepo runs physics codes for people with a browser. A *page* keeps one
simulation in JavaScript services: it changes and saves it, asks for reports, and starts and follows
long runs, over a websocket that it restores when it breaks. A web server stores
simulations and turns requests into messages to one *job supervisor*, a single asyncio process, which keeps a
record of every simulation run (a *compute job*), starts *agents* where codes are
run (a local process, a docker container, or a login node of a batch system), and
sends them *operations* over websockets. Two sides carry nearly everything that is hard:
the supervisor, whose coroutines share jobs, slots and drivers, with each `await` a place where any
other may get in between, with the agent's event loop at the other end of its websockets; and the page, whose callbacks of requests, timers and routes come in any order and
find state that has moved on. This project models both in TLA+, checks them with TLC on small instances, and proves
what matters most with TLAPS for all instances.

All paths below are relative to `src/`; `JS` is `sirepo/job_supervisor.py`,
`DRV` is `sirepo/job_driver/__init__.py` and `PAGE` is `sirepo/package_data/static/js/sirepo.js`.

## 1. Inventory

### Components

| component | source | state | operations | status |
|---|---|---|---|---|
| slot queues | `JS` 133-168 | queue of free slots, futures of waiters, a slot per proxy | alloc, its resumption, free, destroy | modelled: `SlotQueue` |
| compute jobs and operations | `JS` 421-1400 | record of a job, `_run_status_op`, operations, reply queues, timers | 8 kinds of request, timeouts, agent updates, cache timeout, purge, restart | partly: `ComputeJob` |
| agent drivers | `DRV`, `local.py`, `sbatch.py` | `_websocket`, `_websocket_ready`, its timeout, idle timer, life-change lock, `_prepared_sends`, process | prepare_send, agent start, send, reply, alive, close, timeouts, free_resources, kill | partly: `AgentDriver` |
| docker driver | `job_driver/docker.py` | containers of a host | as above, with docker commands | not modelled: I/O of another program |
| job agent | `pkcli/job_agent.py` (`AGENT` below) | commands and their processes, the fastcgi process with its queue and loop, websocket, countdown of retries | run, analysis, io, cancel, kill, exits, reconnect; batch jobs | partly: `JobAgent`; environment of `ComputeJob` and `AgentDriver` |
| browser message router | `PAGE` 2826-3174, `uri_router.py` | requests to send and unanswered, promises, socket, backoff timer | send, reply, open, error and close, retry, clearModels | partly: `MsgRouter` |
| browser models and saves | `PAGE` 389-960, 3703-3766 | models, saved models, last saved data, queue of saves | load, change, save, auto save, leave, reload, conflict | partly: `AppState` |
| browser simulation queue | `PAGE` 2085-2540, 3535-3701, 3769-4032 | items, intervals, panels, pending requests, controllers | run, poll, cancel, show, hide, change, route | modelled: `SimulationQueue` |
| simulation database | `simulation_db.py` | files of a user, their serials | save, load, copy, delete | partly, in `AppState`; its locking is the file lock component |
| web server | `server.py`, `uri_router.py`, `request.py`, `reply.py` | none beyond a request and a websocket | dispatch, tasks of a websocket | partly, in `MsgRouter` and `AppState` |
| rest of the browser | `sirepo-components.js`, `sirepo-plotting.js`, the codes' pages | display | forms, plots, geometry | not modelled: see section 6 |
| file locks | `file_lock.py` | a locked file that its holder unlinks, in-process bucket of an asyncio lock | acquire, release | not modelled: see section 6 |
| job API | `job_api.py` | none | requests to supervisor messages | not modelled: stateless |
| session wake-up | `spa_session.py` | a session row | begin_session | not modelled: see section 6 |
| authentication | `auth/`, `cookie.py`, `auth_db/` | login state in a cookie, roles in a database | login, logout, complete registration | not modelled: see section 6 |
| payments | `payments.py` | subscription rows | checkout, webhooks | not modelled: see section 6 |
| codes | `template/*.py` | none | generate inputs, read outputs | not modelled: pure functions of physics data |

### How they interact

    page: appState.autoSave -> requestQueue ------+
          panelState -> simulationQueue ----------+-> requestSender -> msgRouter (websocket)
          persistentSimulation -> simulationQueue +            |
                                                               v
    web server: a task per message -> save_simulation_json (serial, user lock), or
                                               v
    supervisor: _Supervisor.receive -> _ComputeJob.process_request
                                               |  creates _Op, one per send
                                               v
                        DriverBase.prepare_send: agent ready? slots? agent still ready?
                                               |                |
                         starts an agent <-----+                +---> SlotProxy.alloc (SlotQueue)
                                               v
                        websocket -> agent -> reply (opId) -> _Op.reply_put
                                              run_status_update (jid) -> _ComputeJob

In the page calls are synchronous; replies, timers, route changes and socket events are callbacks of its
one event loop. The state its services share is the saved models, the queue of saves and that of items.

In the supervisor calls are function calls and awaits in one process, except for the websocket to the
agents. The shared state is the job (`_ComputeJob.db`, `_run_status_op`), the
slots of a user's drivers and of a job's run directory, and the driver. Timers
(op timeouts, ready timeout, idle check, cache timeout) and callbacks
(`free_resources`, `websocket_on_close`, process exit) come in at any await.

### What is hard, and what makes it correct

* **Slots.** An operation may be destroyed while its `alloc` awaits a slot that was
  handed to it a moment ago. Correct means: a slot has one owner, none is lost,
  none is idle while somebody waits, a destroyed operation keeps none.
* **Runs.** Several browsers send requests for one job. A run is controlled by the
  operation in `_run_status_op` (an `OP_RUN`, or after a restart an
  `OP_RUN_STATUS`), which whoever ends the run must destroy and reset together,
  whether it is a reply, an exception, a cancel, a timeout, an agent's update or
  the loss of the agent. Correct means: one controller, never for a run that has
  ended; no operation without an owner that will destroy it; no late outcome of
  one run written to the next; a run that has ended does not come back.
* **Answers.** An operation waits for an agent, for up to three slots, for the
  agent again, and for a reply. Correct means: the request is answered in the end,
  whatever is lost, if an agent connects.
* **Agents.** Starts, kills, lost connections and three timers meet in a lock and an
  event. Correct means: starts and kills do not overtake each other, whoever
  believes in an agent that is gone is told, and every teardown ends.
* **Processes of an agent.** One fastcgi process answers analyses and downloads one by one; runs,
  cancels, exits and its own errors destroy it, and its loop may find out much later. Correct means: there is one such process at most,
  an operation is not forgotten, what a run wrote is sent before its end is noticed, and nothing of a canceled run is.
* **Restarts.** The supervisor keeps records in files and everything else in memory.
  Local runs die with it; batch jobs outlive it.

* **Connections of a page.** A socket may break before, while or after the server
  handles what was sent over it, and the page sends everything unanswered again. Correct means: a
  request is not forgotten, and one that is handled twice does no harm.
* **Saves.** A page, the same page after a reload and other browsers save one simulation; requests
  are handled in any order. Correct means: no stored change is lost, saves of a page take turns, and a
  change gets to the file or the user is told.
* **Reports and runs in the page.** Panels are changed, hidden and left while their reports are
  computed; a run is started, polled and canceled while the user goes elsewhere. Correct means:
  reports take turns and never block each other, a panel shows the answer to its last question, and
  nothing polls or starts a run behind the user's back.

`PROJECT.json` lists every such hazard at its line, with the properties that
would catch it going wrong.

## 2. Modules

    FairSlots      <- implemented by -  SlotQueue      <- proofs: SlotQueueProofs
    RunLifecycle   <- implemented by -  ComputeJob     <- proofs: ComputeJobProofs,
                                                                  ComputeJobSlots, ComputeJobRefines
                                        AgentDriver    <- proofs: AgentDriverProofs
                                        JobAgent       <- proofs: JobAgentProofs
    MsgRouter      <- extended by    -  AppState       <- proofs: AppStateProofs
                                        SimulationQueue <- proofs: SimulationQueueProofs
    MC*.tla, MC*.cfg: instances for TLC

### `SlotQueue` (`JS` 133-168, 1282-1306) and `FairSlots`

A pool of `MaxSize` slots, with tornado's `Queue` (external) as a queue of slots and
a queue of *getters*, futures that `put_nowait` may have resolved before the
coroutine that awaits them is resumed. `AllocNow`, `AllocAwait`, `AllocResume`,
`AllocResumeDestroyed`, `Free` and `Destroy` are the branches of
`SlotProxy.alloc`, `free` and `_Op.destroy`. `FairSlots` says what a pool promises: a slot
given back goes to the head of the line; nobody is overtaken.

### `ComputeJob` (`JS` 251-1370) and `RunLifecycle`

`db[j]` is the record with its `_run_status_op`; `op[o]` an operation; `co[p]` the frame of
the coroutine of a request or of an expired timer, i.e. its program counter and the
locals that outlive an await; `running` the coroutine that has the event loop. A
handler is split at its awaits and at calls that many handlers make: between two
splits without an await `running` keeps everybody else out, so nothing
interleaves that could not in the code. Points of correspondence:

* `Receive`, the handler actions (`RunSimulation`, `StartRun`, `RunStatus`, `StatusReply`,
  `ReadData`, `RunCancel`) are `process_request` and the `_receive_api_*` methods;
* `AgentReady` ... `Send` is `prepare_send` and `send`, `ReplyGot` the middle of
  `_send_with_reply`, `Return*` and `Raise` what its callers and its `finally` do;
* `Destroy` and `Write` are `destroy_op` and `_db_status_update`, which every ending shares: they
  free slots, reset `_run_status_op` and leave a tombstone for coroutines that still refer
  to the operation (its reply queue ends with a null);
* `fresh` in a frame stands for the comparison of `dbUpdateTime` before and after a
  send: any write of the record clears it (`Touched`);
* `AgentAlive`, `SocketClose`, `KillIfIdle`, `ReadyTimeout`, `AgentStartFails` and `FreeResources` are the driver's handlers and timers. `FreeResources`
  destroys what was sent; its kill may end an agent before it connects, and wakes nobody in `awaitAgent`;
* `Restart` may happen between any two steps.

Data is abstracted: a simulation's data is its `computeJobHash`; statuses, answers of an agent
and names of operations are strings of small sets; `clock` is a serial that
grows with each run.

### `AgentDriver` (`DRV`, `local.py`, `sbatch.py`)

One driver, its senders, its agents' processes, and `free_resources` callbacks. Each
action runs from one await to the next. `remote`, chosen at the start from the constant `Kinds`, selects `SbatchDriver` (the lock is
held while a host is called; `kill` only asks; a new agent kills the old by its
pid file; there is no idle timer) or `LocalDriver` (a process starts at once; `kill`
awaits `_agent_exit`, an event that an earlier exit may have left set). Slots are
another component: an operation may or may not have to wait once for them.
tornado's Lock and Event, processes and broken connections are external.

### `JobAgent` (`AGENT` 181-900)

One agent with its websocket, and of the supervisor what decides which messages an agent gets: one alive operation of a kind
(`op_slot_q`) and one that waits in a job's run directory (`run_dir_slot_q`). `cmd[o]` is the `_Cmd` that operation `o` started, if any: its process
(`running`), `destroyed` with the way it came about, its `_await_exit` (`exit`), the output of a run (`out`), and of a fastcgi
process its `_fastcgi_loop` (`loop`, `msg`). `fastcgi`, `queue` and `getters` are `fastcgi_cmd` and tornado's queue of one message
(external). `writers` is the line of tasks that await a write to the websocket, from which the split into actions comes:

* `Read` takes the next message when the reply to the last one is written (`_connect_and_loop`); the `_op_*` handlers are
  `RunDirNotFound`, `StartFastcgi`, `StartFastcgiFails`, `FastcgiOp`, `Run`, `RunFails` and `OpCancel`; a kill and a signal are `Terminate`;
* `FastcgiAccept` ... `FastcgiError` are `_fastcgi_loop`, with `StreamClosed` and `FastcgiError` the two ends of its `except` clause;
* `Exit` is the process's, `AwaitExit` the task `_await_exit`, `OnStdoutRead` a line of a run's output;
* `Lose`, `Connect` and `ConnectFails` are `loop` with its countdown `tries`.

The message of a cancel has the job of a run. It has no id of the canceled operation, since `_Op` writes its own over it (`JS` 648, 1275); that is
why a cancel of an analysis destroys nothing here. `under` and `canceled` are history: operations that were in a fastcgi process when it
was destroyed, and runs whose cancel was answered. Left out: batch jobs and their polling, `run_status`, stderr, progress of a run (a run writes
one line, its last), and an exit code other than zero after that line.

### `MsgRouter` (`PAGE` 2826-3174, `uri_router.py` 189-255)

A request is its `reqSeq`. `toSend`, `needReply`, `socket`, `retryInterval` and `socketRetryBackoff` are the
router's variables and `deferred` the promises it gave (`clearModels` sets them to null: "dropped").
`failures` counts sockets and names the present one, so that a reply to a message of an earlier
socket goes nowhere. `SocketError` is the handler of both the close and the error event, whose second call
changes nothing; `Requeue` is its condition for sending again, and `Backoff` keeps of the delay whether it is zero.
The server (`Handled`) ends the tasks of messages in any order.
A reply's `arrayBuffer()` is decoded before another socket opens: it counts as decoded before the failure, or as lost.
Uploads, requests over plain HTTP, messages the server sends unasked and `cookieCheck` (another user logs
in: the page reloads, as in `Reload`) are left out.

### `AppState` (`PAGE` 389-960, 3703-3766; `server.py` 426-494, `simulation_db.py` 527-621)

Extends `MsgRouter` with the page's models. Data is a set of changes, so "overwritten" is a change that is
no longer in the file. `SaveChanges`, `SaveQuietly`, `AutoSave`, `Leave`, `LoadModels` and `RefreshPage` are what a user or
a timer does; `Saved`, `SaveFailed`, `SaveConflicts`, `Loaded`, `LoadFailed` and `ReplyUnknown` are the callbacks of a reply, each with
the queue's next save (`NextItem`); the server's tasks are `SimulationData`, `SaveSimulationJson`, `SerialInvalid` and
`ServerError`. `ForeignSave` is another browser that loads, changes and saves. `announced` is what was broadcast as saved.
The callback that `openSection` gives `autoSave` is `Leave`. A serial grows by one; in the code it is a time made greater than the last.

### `SimulationQueue` (`PAGE` 2085-2540, 3535-4032; `JS` 932-1093)

`items` holds every item ever added, with its `qState` and interval; what is not "removing" is in `runQueue`. Operators from
`Queue` to `CancelItem` are the methods of `simulationQueue` as functions of a queue, since handlers call several of them.
`RequestData`, `ShowPanel`, `HidePanel`, `ChangeReport` are `panelState` and a plot's timer (`due`); `SaveAndRunSimulation`, `RunSimulation`,
`CancelSimulation` are `persistentSimulation`; `Open`, `OpenSection` and `ModelsLoaded` are routes, which destroy the old view's
controller and build the next; `ServerTask` is the supervisor as a page sees it: a job per simulation and report, with the version of
the models (its hash) and a serial. `handled` says which polls have the page's controller for their handler: the handler closes over its
controller's state, and resets `simulationQueueItem` whichever of them is answered for the last time. `awaited` says of a request whether the page still
has the promise of its reply: `clearModels` of the router, in `Open`, drops all of them. Abstractions: a server's step and the page's handling of its reply are one step,
as replies over one socket come in order and resends are `MsgRouter`'s; panels with reports are in one section and the
controller in the other; a change that is saved broadcasts `clearCache` in the callback of the save, which `ChangeModels` takes as one step with the
change; the socket is open, so what is sent reaches the server, also what the page forgets (a socket that is not open is `AppState`'s); a run that fails later is like one that fails to start; `$applyAsync` of `whenModelsLoaded` belongs to loading;
sbatch logins, modals and the cache of frames are left out.

### `MC*`

The MC modules only define symmetry and, for `SlotQueue`, its bounds; each `.cfg` is an instance.

## 3. What the runs show

| run | instance | shows |
|---|---|---|
| `slot_queue` | 4 operations, pool of 1 or 2 | `MutualExclusion`, `NoSlotLost`, `NoIdleSlot`, `DestroyedKeepsNothing`, `EveryWaiterResumes`; implements `FairSlots` |
| `runs` | 1 job, 2 browsers, 2 runs, 3 operations alive | `OneController`, `NoSlotLeak`, `RunDirExclusive`, `RunOutcomeIsCurrent`; implements `RunLifecycle` |
| `sbatch` | batch job, 2 browsers that poll, 2 runs | `OneController`, `NoOrphanOp`, the life of a run across restarts |
| `answers` | 1 browser with every request, 1 op timer | `NoSlotLeak` when operations are destroyed anywhere in their send; `EveryRequestReplies`, unless somebody awaits an agent for good |
| `agents` | local or remote driver, 2 senders, 1 `free_resources` at a time, 2 processes, 1 lost connection, 1 death | `AgentBehind`, `StartsOverTimedOutOnly`, `FreeEnds` |
| `job_agent` | 2 jobs, 3 operations (download; analysis or run; download or run), 1 fault, 2 tries | `OneFastcgi`, `NoneForgotten`, `FullForReason`, `LastLineIsRead`, `NoUpdateAfterCancel` |
| `saves` | 3 requests, 2 failures, 2 changes, 2 queued saves | `FirstWaits`, `SavedIsUnderWay`, `NothingOverwritten`, `StrandedByClose`, `SavedOrTold` |
| `sim_queue` | 2 panels, 2 simulations, 3 items, 2 clicks | `OneTransient`, `Followed`, `LatestItemShown`, `LooseByCallback`, `StatusIsLoaded` |
| `completed_canceled`, `agent_hung`, `conflict_foreign`, `stale_panel` | smallest that show it | the code disagrees with its own text, see section 5 |

**Bounds.** Two browsers are enough for every race here: a race is between two
coroutines at one job, and agents, timers and restarts are actors of their own.
Two runs are needed, and enough, for an outcome of one to meet the next. One job
makes its operations compete for the same slots; two pool slots let a slot be
handed on while another is free. Three operations alive allow a controller, a
cancel and one that waits. `MaxOp`, `MaxClock`, `Free`, `Agent`, `MaxLost` and `MaxDied`
cap what may be alive or happen; an action that would exceed a bound is not
enabled, which loses behaviours and adds none. The theorems of section 4
hold without these bounds.

In `agents` two senders and a `free_resources` race for the lock, and the callback, once ended, may be scheduled again, after an exit that was
noticed before. In `job_agent` three operations are one that a process computes, one in its queue, and one that finds the queue full or is a run that destroys
both; a fault is a process that dies, a start that fails or a connection that breaks, and one leaves what a second would find.

In `saves` three requests are a load and two saves, or two loads and a save; with two failures the second may come while
the timer of the first runs. A conflict needs one change of each side. In `sim_queue` three items let a third be behind a
canceled and a processed one, or a poll behind a run and an earlier poll; two clicks are a change and a route, or two routes, and starts are not
counted: a run that has escaped its controller meets a route to another simulation, and the last answer to an earlier poll. A `Simulations`
of two is what a poll of the wrong one needs.

`CHECK_DEADLOCK FALSE` is set where an instance stops: for `SlotQueue` once all operations are
destroyed, for `ComputeJob` when agents never answer and no request is left to make, for `JobAgent` when the agent has ended, for `AppState` and
`SimulationQueue` when everything has been answered and the bounds leave nothing more to do. In
`AgentDriver` deadlock is checked.

**Fairness.** `SlotQueue` and `ComputeJob`: the event loop resumes whoever can go on (weak; strong
where a restart or another coroutine may take the opportunity away for a while), expired timers are called
back, a scheduled `free_resources` ends (as `AgentDriver` shows), and an agent that is connected answers `OP_CANCEL`, which
`pkcli/job_agent.py` does at once. Nothing is assumed of any other reply: what
ends the wait for it is a timer, a cancel or the loss of the agent. Nothing is assumed of agents that connect either: one that was started may be
given up or killed, or never come, and who awaits `_websocket_ready` then goes on waiting. `EveryRequestReplies` is about the behaviours in which nobody
awaits an agent for good, which a hung remote start, whose `free_resources` does not end, makes its own sender do.
`AgentDriver`: the event loop resumes coroutines, runs callbacks and timers
and notices closed sockets and exits; a process that was told to stop does (it is
killed after `KILL_TIMEOUT_SECS`); a remote start ends, except where the run
says that it may hang. No fairness for agents that connect, for requests or for
replies. `AppState`: the timers of auto save and of the next connection fire, a socket that connects
opens (or fails), the server's tasks end and replies over a socket that stays open arrive. Nothing makes the user act
and nothing keeps a socket from failing while failures are left. `SimulationQueue` and `JobAgent` have no liveness property: what must not be
forgotten is stated as the safety it rests on (`Followed`, `NoneForgotten`).

## 4. What is proved

`SlotQueueProofs`, `ComputeJobProofs`, `ComputeJobSlots`, `ComputeJobRefines`, `AgentDriverProofs`, `AppStateProofs`,
`SimulationQueueProofs` and `JobAgentProofs` are checked by TLAPS to the last leaf. The assumptions are those of the modules: bounds
are natural numbers (pool sizes positive), requests and timers are different, operations of an agent are natural numbers (the order
in which they are sent), and `None` is nothing else. No bound is put on jobs, browsers, timers, operations, runs, senders, agents, requests, failures, changes, panels or items.

* **`SlotQueueTypes`, `SlotQueueExclusive`, `SlotQueueLosesNothing`, `SlotQueueNotIdle`, `SlotQueueDestroyed`**: the type invariant and the four safety
  invariants of `SlotQueue`. The invariant that is inductive, `IInv` (lemma `SlotQueueInv`), adds that no slot is in two places (queue, resolved
  getter, proxy), that getters are of different operations, and that whoever waits has nothing. **`SlotQueueRefines`**: every
  step is a step of `FairSlots` or none, where the owner of a slot is whoever
  holds it or was handed it.
* **`SpecOneController`, `SpecNoOrphanOp`.** Neither is inductive: a coroutine that was
  resumed may destroy an operation or write a record, so one must know what it still
  refers to. `Inductive` adds the types of jobs, operations and frames, and `FrameInv`: what the program counter says of
  the locals (`Frame`), that the operation a frame refers to is the one it created, even if
  destroyed (`Refers`), that its job is in memory (`InMemory`), that an
  unchanged `dbUpdateTime` means that the run is still its run (`Transaction`), and that
  nothing comes between the check of the status and the start of a run
  (`Starting`, the assertion at `JS` 1003). The proof has one lemma per operation: send
  steps move frames only (`MovedKeeps`), creations (`CreateKeeps`), destructions and
  writes (`DestroyKeeps`), then handlers, returns, cancel, agents and restart.
* **`SpecTypeOK`.** The type invariant; its hard part is that a queue never hands
  out more slots than it has: a step takes slots (`AllocTypes`), gives back
  (`GiveBackTypes`) or leaves them alone (`SlotSteps`).
* **`NoSlotIsLeaked`, `RunDirIsExclusive`** of `ComputeJob`, from `SlotInv` (lemma `SlotInvHolds`). `NoSlotLeak` says only whose slots may be held, and any step that
  destroys an operation could break it unless one knows where its coroutine is. `SlotInv` adds that no two coroutines send one operation (`OneCoroutine`);
  that between the points in `Turns` nobody else runs and the operation lives (`Turn`: the code between two awaits); for every point of a send which slots the
  operation holds, those before `step` and none after it (`Holds`); that who is in line awaits that slot, once, and does not hold it (`Lines`); and that what an
  agent works on has its run directory (`AtAgent`), from which `RunDirExclusive` follows as that queue has one slot. A step gives back (`GiveBackEffect`, `OthersHold`, `GiveKeepsSlots`), takes
  (`AllocFacts`, `AllocKeepsSlots`) or only moves frames (`QuietKeepsSlots`, `MovesOn`); the handlers, replies, returns and agents each have their `...KeepsSlots` on top of these.
* **`NoSlotStaysFree`, `NobodyIsOvertaken`, `NobodyWaitsInACircle`, `NoWakeupIsLost`**: what `SlotQueueRefines` shows of one pool, for the three queues that a send of `ComputeJob` takes
  one after the other, with operations destroyed at every await. `WorkConserving` needs that a line has nobody twice and no holder in it (a slot that is passed on twice would stay
  free); `InOrder` is an action property that follows from it, as a newcomer finds a free slot only where nobody waits. `NoCircularWait` needs that an operation holds
  only slots it needs (`HoldsNeeded`, with `OpStays`: its name, job and kind do not change); `NoLostWakeup` that only an alloc begins to wait (`WaitSteps`) and that a destroyed operation
  does not give back what was just handed to it (`SlotOwners`). Together: who waits for a slot waits for the holders of all of them, each of which
  waits, if for a slot at all, for a later one in the order of `_slots_ready`, so some holder does not wait for a slot. This is the part of `EveryRequestReplies` that
  does not need fairness. No run lists these four; their formulas hold in the instance of run `runs` as well.
* **`SpecRunOutcome`, `SpecImplements`.** From `Inductive`, each step that writes a record is a
  step of `RunLifecycle` (`LifeStep`: started, proceeded, canceled, lost) or writes what was there.

* **`AppStateTypes`, `OneSaveAtATime`, `SavesOverwriteNothing`, `OnlyClosesStrand`.** One inductive invariant, `IInv`, has three parts. `RouterInv`
  is about the router alone: a request is queued or sent, never both (`SentOnce`), its promise waits exactly as long
  (`PendingWaits`), messages and replies belong to promises that were made (`Begun`), and an open socket has reset the
  delay (`OpenAtOnce`). `DataInv` says of data that whoever has the file's serial has all of the file's changes: the page, its saves and
  the answers on their way (`AllFresh`); that a reply brings what was sent (`OwnAnswer`), that the page has every change it is still
  saving (`Contained`), and that nothing else is sent while it loads (`LoadAlone`). `QueueInv` says
  what the queue of saves and the modal have to do with promises. Every step of `Next` is a `RouterNext` step (`NextIsRouterNext`),
  which is why `OnlyClosesStrand` needs `RouterInv` only.
* **`SavesAreUnderWay`**, from `IInv` and `SavedInv`: what was announced is in the file or in a save that waits, and so is what the next save will be compared with and announced
  without being sent (`UnderWay`); what a queued save will announce the page has, and what the first one will announce was sent (`Announcing`); an answer without error is of what the
  file has (`OkStored`); and nothing is announced or queued without models (`Unloaded`), as a load brings others.

* **`DriverTypes`, `DriverAgentBehind`, `DriverStartsOver`** of `AgentDriver`. A sender that believes in an agent has a connection, or some `free_resources`
  will tell it (`AgentBehind`); the invariant adds what the lock is held for (`KillLocks`), which kinds of start
  there are (`Kinded`, `StartIsRemote`), and of a local driver (`Local`) that an agent told to stop is awaited by whoever told it, and that a process that
  runs is the one the driver knows, as long as none died on its own and no start timed out.
* **`QueueTypes`, `ReportsTakeTurns`, `ProcessingIsFollowed`, `PanelsShowTheLatest`, `PollsAreHeld`, `StatusOfThePage`** of `SimulationQueue`. One inductive
  invariant, `IInv`: of the queue, that reports are processed one at a time and in order (`InTurn`); of a panel, that its entry in `queueItems` is the item
  it awaits (`Awaited`, `PendingIsEmpty`) and that what it shows is of its last item (`Shown`); of the controller, that its item is the only poll but
  for loose ones (`Controlled`, `Unloaded`). `ProcessingIsFollowed` and `PollsAreHeld` are about steps: `FollowedBut` says of the queue that a call has made that what is
  processed in it has a reply to come or an interval, if it had one before the step, but for the item whose reply the handler is at. There is one lemma per action (`...Step`), under it one step per part.
* **`AgentTypes`, `AgentHasOneFastcgi`, `LastLinesAreRead`, `NoUpdatesAfterCancel`, `AgentForgetsNone`, `RefusedForReason`** of `JobAgent`, from
  `AgentInvariant` (`IInv`). `SupervisorInv` says of messages that they are read in the order of their operations, so that a cancel comes after the
  operation it is for (`MessagesOK`, `InboxOrder`), and of two alive operations that they are of different kinds (`KindsDiffer`, from the
  supervisor's slots): a full queue then holds an operation that was given up. `AgentInv` says that the agent knows only of what it has read
  (`SeenOnly`), that a loop in the line of the queue waits and that the loop of the present process never is lost from it (`GettersOK`), and that an
  operation is in the queue or in a loop (`OncePlaced`): `NoneForgotten` needs both. `WritersInv` ties a write to where its task
  waits (`WritersOK`, `OneWrite`), and says that a run has no process from the time its cancel is read (`CancelingAreDead`, `CanceledAreDead`), which makes
  `NoUpdateAfterCancel` inductive. The steps of the supervisor, the destruction of commands and the writes have lemmas of their own, which the `...OK` lemma of each action cites.

**Model-checked only.** Every invariant and action property that a passing run checks is stated by a theorem. Liveness is not
(`EveryWaiterResumes`, `EveryRequestReplies`, `FreeEnds`, `SavedOrTold`): TLAPS has no rules for fairness and ENABLED. No module
here has recursive operators.

## 5. Where the code disagrees with its text

Shown by runs:

* `CompletedIsFinal`: the timeout of an analysis or of a download marks its job canceled,
  although the run has completed (`JS` 643).
* `HungStartIsCanceled`: the timeout handler does not cancel a hung `_do_agent_start`; it
  schedules a `free_resources` that waits for the lock the start holds, forever (`DRV` 410).
* `ConflictIsForeign`: a save that was executed, whose reply was lost with its socket, is sent again and refused with "This simulation has been updated
  outside of this browser" (`PAGE` 174, 3081), although there is one browser. The server does not compare `reqSeq`, which the comment at
  `PAGE` 3035 says is there to tell resends.
* `DataIsCurrent`: a report is changed while it is computed; the old answer may come before the plot's
  timer asks again, is stored as the data of the cleared panel, and is then shown for the new models (`PAGE` 2101, 2379).

Met while modelling, in the models but without a run of their own:

* `_slots_ready` says "If `OP_IS_DESTROYED` is encountered, exit immediately with that result." (`DRV` 445), but evaluates
  `op.run_dir_slot.alloc` or `op.cpu_slot.alloc` of an operation whose slots `_Op.destroy` has removed (`DRV` 466-480): AttributeError. The
  sender raises instead of returning a canceled reply; `NoOrphanOp` and `EveryRequestReplies` hold with it.
* Between the ready timeout of an agent and the `free_resources` it schedules, another operation starts a second process over
  the first (`DRV` 231), and only the second is stopped, although `free_resources` says "Remove holds on all resources" (`DRV` 107).
  `StartsOverTimedOutOnly` shows that this is the only way to start over an agent.
* When the start of an agent is given up, or the agent is killed before it connects, those who await `_websocket_ready` are told by nobody (`DRV` 298): they
  are not among the `_prepared_sends` that `free_resources` destroys, and wait, with the slots they may hold, until another request starts an agent that connects.
  `ComputeJob` does so. `EveryRequestReplies` shows that nothing else leaves a request without its answer.
* A run started before the first status of its page is known, or by a save that calls back after its section was left, leaves
  a poll that no controller can cancel and that writes its status into whatever simulation is open (`PAGE` 3987, 4000). When it is answered for
  the last time while its controller has started another, the controller forgets that one, which is then loose, too (`PAGE` 3813). `LooseByCallback` and
  `StatusIsLoaded` show that nothing else does.
* A loose poll whose request is under way when another simulation is opened stays in the queue for good, processed and without a request or an interval:
  `msgRouter.clearModels` forgets the request and calls nobody back (`PAGE` 3115). `Followed` shows that only loose polls are lost so; no report waits for them.
* A request is stranded, its promise never settled, when its socket is closed cleanly or fails while the timer of an earlier
  failure runs (`PAGE` 3074, 3080). `StrandedByClose` shows that nothing else strands one.

* The comment at `AGENT` 441 says of `fastcgi_cmd.op_id` "Also used in op_cancel so a cancel, cancels the fastcgi process". The cancel of a timed-out analysis or
  download has the id of the cancel itself (`JS` 648, 1275) and matches no command: the process goes on with an operation nobody
  waits for, and the next but one is refused with `QueueFull`. `FullForReason` shows that the only other time of a refusal is before the process has connected.
* A run, or the cancel of a run, destroys the fastcgi process if an operation of the same job happened to start it, whatever job it computes for now
  (`AGENT` 307, 514), and nobody is told of the operations it had: their timers end them. The operation in the hands of a
  process that exits by itself is told by `_fastcgi_handle_error`, unless the exit is noticed first. `NoneForgotten` shows that nothing else loses one.
* A loop whose process was destroyed may ask the queue of the next process, take its message, find its own stream closed and destroy the new process (`AGENT` 454, 478).
* A run whose process dies without output leaves no trace: the handler's message has neither operation nor job, and raises itself at
  `self.job` first (`AGENT` 768). The supervisor takes the run for running until its timer or a cancel.
* The countdown of retries is reset only when the loop leaves by `break`, when a reply could not be written (`AGENT` 263, 283).

Everything else the project states holds of the code.

## 6. Limits of the models

* `ComputeJob` has one user; `sbatchLogin`, `beginSession`, global resources and the job lists
  keep no state of a job and are left out. A run's serial is unique; in the code it is a time in
  seconds. The replies of agents are any the agent's code can send, at any time.
* `ComputeJob` takes drivers as operations see them: started (an agent may live that has yet to connect), starting (the ready timeout is set), ready, connected,
  about to be freed. A kill ends the agent or does not. `AgentDriver`
  has the rest; the two are not composed, since their product is out of TLC's reach.
* In `AgentDriver` the event loop hears of every exit of a process.
* `EveryRequestReplies` excuses every behaviour in which some coroutine awaits an agent for good, whichever request waits: it may hold slots that others need.
* In `AppState` and `SimulationQueue` a request is answered by a result, an error or a conflict. Answers that redirect the page (login,
  plan required, an upgraded server) call nobody back, as a conflict does, and are left out: what they leave is
  a page that is about to be replaced.
* `SavedOrTold` excuses a run of requests that reaches `MaxRequest`: the next save could not be made in the instance.

### Not modelled

* The docker driver, the codes' templates, the job API, views, forms and plots: no protocol, or that of another program.
  `sirepo.js` has a few more services with state (frames of an animation, file lists, `authState`'s cookie check), each
  a request and its callback; the rest of the JavaScript in the repository is vendored libraries, geometry and drawing.
* Batch jobs in the agent: `sbatch`, `squeue` and a file in the run directory that the poller reads; what the supervisor sees of them, updates at any
  time and unknown jobs after a restart, is in `ComputeJob`.
* File locks: `flock` on a file its holder unlinks, with the inode compared after the lock. Its correctness is that of `open`, `flock`, `stat` and `unlink` on
  inodes, which a model would have to take from the operating system. `AppState` assumes that it excludes.
* Session wake-up: a time per user and a `beginSession` when it is old. The message does nothing but start the agent, which is `AgentDriver`'s.
* Authentication: a request reads the login state from its cookie and its reply writes it back. What is shared lies in database transactions of SQLAlchemy.
* Payments: the order of webhooks is an external service's; each is one transaction, and a nightly audit asks the service again.

## 7. Plan

Done: 1. `SlotQueue` with `FairSlots`, 2. `ComputeJob` with `RunLifecycle`, 3. their proofs (slots included), 4. `AgentDriver` and its proofs, 5. the page: `MsgRouter`, `AppState` and
its proofs, `SimulationQueue` and its proofs, 6. `JobAgent` and its proofs.

What would come next, if the project goes on: the safety on which `FreeEnds` and `SavedOrTold` rest, as theorems; an abstract agent that `JobAgent` implements and that replaces the environment of `ComputeJob`; batch jobs in
`JobAgent`; variations of `ComputeJob` with serials of one second's resolution and with the serials of late answers.
