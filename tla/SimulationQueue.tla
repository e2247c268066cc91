---------------------------- MODULE SimulationQueue ----------------------------
(***************************************************************************)
(* How a browser page runs simulations and follows them: simulationQueue,  *)
(* panelState and persistentSimulation of package_data/static/js/sirepo.js,*)
(* and what job_supervisor.py answers them.                                *)
(*                                                                         *)
(* The report of a panel is a transient item of the queue, and one of them *)
(* is processed at a time.  A simulation is a persistent item, started or  *)
(* polled only.  As in most applications, the panels with reports are in   *)
(* the section "source", and "visualization" has the simulation's          *)
(* controller.  The server handles requests in any order.                  *)
(***************************************************************************)
EXTENDS Naturals, Sequences, FiniteSets

CONSTANTS
    Panels,      \* the panels of a page, named for their reports
    Simulations, \* the simulations a user opens
    MaxItem,     \* items of the queue
    MaxClick     \* what the user does, the starts of a simulation not counted

ASSUME BoundsAssumption ==
    /\ "animation" \notin Panels
    /\ Simulations # {}
    /\ MaxItem \in Nat /\ MaxClick \in Nat

VARIABLES
    items,   \* every item ever added, in order; runQueue holds those not "removing"
    inbox,   \* requests on their way to the server
    jobs,    \* the server's job of each simulation and report
    sim,     \* the simulation of the page
    section, \* the section of the page
    loaded,  \* isLoaded
    version, \* of the models of each simulation that each report depends on: their last change
    clicks,  \* what the user has done so far
    hidden,  \* panelState.hidden of each simulation's models
    panels,  \* of each panel the item its data came with (0: none), loading and error
    pendingRequests,
    queueItems,          \* the item of each panel, 0 if deleted
    due,     \* panels whose timer will call requestData
    status,  \* simulationStatus: its state, and the simulation it was told of
    simulationQueueItem, \* of the page's controller, 0 for null
    handled, \* persistent items the page's controller has added: their replies come to it
    saving   \* callbacks of saveAndRunSimulation to come; TRUE those of the page's controller

queueVars == <<items, inbox>>
modelVars == <<sim, section, loaded, version>>
panelVars == <<hidden, panels, pendingRequests, queueItems, due>>
controllerVars == <<status, simulationQueueItem, handled, saving>>
vars == <<queueVars, jobs, modelVars, clicks, panelVars, controllerVars>>

Section == {"source", "visualization"}
Name == Panels \union {"animation"}
ItemId == 1..MaxItem
Item == [kind : {"transient", "persistent", "persistentStatus"}, name : Name, sim : Simulations,
         version : Nat, serial : Nat,
         qState : {"pending", "processing", "removing"}, interval : BOOLEAN]
\* The page awaits the reply or has forgotten the request; it never awaits that of runCancel.
Message ==
    {m \in [item : ItemId, api : {"runSimulation", "runStatus", "runCancel"}, awaited : BOOLEAN] :
        m.api = "runCancel" => ~m.awaited}
State == {"missing", "pending", "running", "completed", "canceled", "error"}
Job == [state : State, version : Nat, serial : Nat]

NoPanel == [data |-> 0, loading |-> FALSE, error |-> FALSE]
NoJob == [state |-> "missing", version |-> 0, serial |-> 0]

\* The simulation may run since an earlier visit.
Init ==
    /\ items = <<>> /\ inbox = {}
    /\ sim = CHOOSE s \in Simulations : TRUE
    /\ section \in Section /\ loaded = FALSE
    /\ \E job \in {NoJob, [NoJob EXCEPT !.state = "running", !.serial = 1]} :
          jobs = [s \in Simulations |-> [n \in Name |->
                     IF s = sim /\ n = "animation" THEN job ELSE NoJob]]
    /\ version = [s \in Simulations |-> [n \in Name |-> 0]]
    /\ clicks = 0
    /\ hidden = [s \in Simulations |-> {}] /\ panels = [p \in Panels |-> NoPanel]
    /\ pendingRequests = {} /\ queueItems = [p \in Panels |-> 0] /\ due = {}
    /\ status = [state |-> "missing", sim |-> sim]
    /\ simulationQueueItem = 0 /\ handled = {} /\ saving = <<>>

-----------------------------------------------------------------------------
\* A queue: its items, and the requests sent for them.  The operators below return what a call
\* makes of the queue q.
Queue == [items |-> items, inbox |-> inbox]
Becomes(q) == items' = q.items /\ inbox' = q.inbox

Live(q) == {i \in DOMAIN q.items : q.items[i].qState # "removing"}
Transient(q) == {i \in Live(q) : q.items[i].kind = "transient"}
IsProcessingItem(q, i) == q.items[i].qState = "processing"

FirstRoute(i, q) == IF q.items[i].kind = "persistentStatus" THEN "runStatus" ELSE "runSimulation"

RunItem(q, i) ==
    [items |-> [q.items EXCEPT ![i].qState = "processing"],
     inbox |-> q.inbox \union {[item |-> i, api |-> FirstRoute(i, q), awaited |-> TRUE]}]

RunFirstTransientItem(q) ==
    LET first == {i \in Transient(q) : \A j \in Transient(q) : i <= j}
    IN  IF \E i \in first : ~IsProcessingItem(q, i)
        THEN RunItem(q, CHOOSE i \in first : TRUE)
        ELSE q

AddItem(q, kind, name) ==
    LET item == [kind |-> kind, name |-> name, sim |-> sim, version |-> version[sim][name],
                 serial |-> 0, qState |-> "pending", interval |-> FALSE]
        added == [q EXCEPT !.items = Append(@, item)]
    IN  IF kind = "transient" THEN RunFirstTransientItem(added) ELSE RunItem(added, Len(q.items) + 1)

\* The items S are removed; runCancel is sent for those in cancel, and nobody takes its reply.
Removed(q, S, cancel) ==
    [items |-> [i \in DOMAIN q.items |->
                   IF i \in S
                   THEN [q.items[i] EXCEPT !.qState = "removing", !.interval = FALSE]
                   ELSE q.items[i]],
     inbox |-> q.inbox \union [item : cancel, api : {"runCancel"}, awaited : {FALSE}]]

RemoveItems(q, S) ==
    Removed(q, S, {i \in S \intersect Transient(q) : IsProcessingItem(q, i)})

RemoveItem(q, i) == RemoveItems(q, {i} \intersect Live(q))

CancelTransientItems(q) == RemoveItems(q, Transient(q))

\* Wrong: the next transient item is not run.
CancelItemOnly(q, i) ==
    IF i \in Live(q) THEN Removed(q, {i}, {j \in {i} : IsProcessingItem(q, j)}) ELSE q

CancelItem(q, i) ==
    IF i \notin Live(q)
    THEN q
    ELSE IF ~IsProcessingItem(q, i)
         THEN Removed(q, {i}, {})
         ELSE IF i \in Transient(q)
              THEN RunFirstTransientItem(Removed(q, {i}, {i}))
              ELSE Removed(q, {i}, {i})

HasRoom(q) == Len(q.items) < MaxItem
Click == clicks < MaxClick /\ clicks' = clicks + 1

-----------------------------------------------------------------------------
\* panelState.sendRequest
SendRequest(q, p) ==
    /\ HasRoom(q)
    /\ panels' = [panels EXCEPT ![p].loading = TRUE, ![p].error = FALSE]
    /\ Becomes(AddItem(q, "transient", p))
    /\ queueItems' = [queueItems EXCEPT ![p] = Len(q.items) + 1]

\* The timer of a plot.
RequestData(p) ==
    /\ p \in due /\ loaded
    /\ due' = due \ {p}
    /\ \/ /\ panels[p].data # 0
          /\ UNCHANGED <<queueVars, panels, pendingRequests, queueItems>>
       \/ /\ panels[p].data = 0
          /\ pendingRequests' = pendingRequests \union {p}
          /\ LET q == CancelItem(Queue, queueItems[p])
             IN  \/ p \notin hidden[sim] /\ SendRequest(q, p)
                 \/ p \in hidden[sim] /\ Becomes(q) /\ UNCHANGED <<panels, queueItems>>
    /\ UNCHANGED <<jobs, modelVars, clicks, hidden, controllerVars>>

ShowPanel(p) ==
    /\ loaded /\ section = "source" /\ p \in hidden[sim] /\ Click
    /\ hidden' = [hidden EXCEPT ![sim] = @ \ {p}]
    /\ \/ p \in pendingRequests /\ queueItems[p] = 0 /\ SendRequest(Queue, p)
       \/ /\ p \in pendingRequests => queueItems[p] # 0
          /\ UNCHANGED <<queueVars, panels, queueItems>>
    /\ UNCHANGED <<jobs, modelVars, pendingRequests, due, controllerVars>>

HidePanel(p) ==
    /\ loaded /\ section = "source" /\ p \notin hidden[sim] /\ Click
    /\ hidden' = [hidden EXCEPT ![sim] = @ \union {p}]
    /\ Becomes(CancelItem(Queue, queueItems[p]))
    /\ queueItems' = [queueItems EXCEPT ![p] = 0]
    /\ UNCHANGED <<jobs, modelVars, panels, pendingRequests, due, controllerVars>>

\* The plots of the view set their timers.
PlotsDue(view) == due' = IF view = "source" THEN Panels ELSE {}

Changed(names) ==
    /\ Click
    /\ version' = [version EXCEPT ![sim] = [n \in Name |-> IF n \in names THEN clicks' ELSE @[n]]]

\* The model of a report is changed: its plot clears the panel and sets its timer.
ChangeReport(p) ==
    /\ loaded /\ section = "source"
    /\ Changed({p})
    /\ panels' = [panels EXCEPT ![p] = NoPanel]
    /\ pendingRequests' = pendingRequests \ {p}
    /\ due' = due \union {p}
    /\ UNCHANGED <<queueVars, jobs, sim, section, loaded, hidden, queueItems, controllerVars>>

\* Another model is changed and saved: updateReports broadcasts clearCache first.
ChangeModels ==
    /\ loaded
    /\ Changed(Name)
    /\ Becomes(CancelTransientItems(Queue))
    /\ panels' = [p \in Panels |-> NoPanel]
    /\ pendingRequests' = {}
    /\ PlotsDue(section)
    /\ UNCHANGED <<jobs, sim, section, loaded, hidden, queueItems, controllerVars>>

-----------------------------------------------------------------------------
IsProcessing == status.state \in {"pending", "running"}

\* runStatus of the view's controller, if it has one, in the queue q.
PollStatus(q, view) ==
    \/ /\ view = "visualization" /\ HasRoom(q)
       /\ Becomes(AddItem(q, "persistentStatus", "animation"))
       /\ simulationQueueItem' = Len(q.items) + 1
       /\ handled' = {Len(q.items) + 1}
    \/ /\ view = "source"
       /\ Becomes(q)
       /\ simulationQueueItem' = 0 /\ handled' = {}

\* Wrong: $destroy removes nothing.
ControllerDestroyedOnly(q) == CancelTransientItems(q)

\* The view of the old route is destroyed with its controller.
ControllerDestroyed(q) == RemoveItem(CancelTransientItems(q), simulationQueueItem)

\* msgRouter.clearModels: what was sent goes on to the server, but nobody awaits its reply.
Forgotten(q) == [q EXCEPT !.inbox = {[m EXCEPT !.awaited = FALSE] : m \in @}]

\* A route to another simulation clears the models.  The new view waits for its own.
Open(s, view) ==
    /\ s # sim /\ Click
    /\ sim' = s /\ section' = view /\ loaded' = FALSE
    /\ Becomes(ControllerDestroyed(Forgotten(Queue)))
    /\ simulationQueueItem' = 0 /\ handled' = {} /\ saving' = <<>>
    /\ panels' = [p \in Panels |-> NoPanel]
    /\ pendingRequests' = {} /\ due' = {}
    /\ status' = [state |-> "missing", sim |-> s]
    /\ UNCHANGED <<jobs, version, hidden, queueItems>>

\* refreshSimulationData
ModelsLoaded ==
    /\ ~loaded
    /\ loaded' = TRUE
    /\ PlotsDue(section)
    /\ status' = [state |-> "pending", sim |-> sim]
    /\ PollStatus(Queue, section)
    /\ UNCHANGED <<jobs, sim, section, version, clicks, hidden, panels, pendingRequests, queueItems,
                   saving>>

\* A route to another section of the simulation: a new view and controller, the same models.
OpenSection(view) ==
    /\ loaded /\ view # section /\ Click
    /\ section' = view
    /\ PollStatus(ControllerDestroyed(Queue), view)
    /\ status' = IF view = "visualization" THEN [state |-> "missing", sim |-> sim] ELSE status
    /\ saving' = [k \in DOMAIN saving |-> FALSE]
    /\ PlotsDue(view)
    /\ UNCHANGED <<jobs, sim, loaded, version, hidden, panels, pendingRequests, queueItems>>

SaveAndRunSimulation ==
    /\ loaded /\ section = "visualization" /\ ~IsProcessing
    /\ status' = [state |-> "pending", sim |-> sim]
    /\ saving' = Append(saving, TRUE)
    /\ UNCHANGED <<queueVars, jobs, modelVars, clicks, panelVars, simulationQueueItem, handled>>

\* The callback of the save; an item of a controller that is gone has no place here.
RunSimulation ==
    /\ saving # <<>>
    /\ saving' = Tail(saving)
    /\ \/ /\ status.state = "running"
          /\ UNCHANGED <<queueVars, status, simulationQueueItem, handled>>
       \/ /\ status.state # "running"
          /\ HasRoom(Queue)
          /\ status' = [state |-> "pending", sim |-> sim]
          /\ Becomes(AddItem(Queue, "persistent", "animation"))
          /\ \/ /\ Head(saving)
                /\ simulationQueueItem' = Len(items) + 1
                /\ handled' = handled \union {Len(items) + 1}
             \/ ~Head(saving) /\ UNCHANGED <<simulationQueueItem, handled>>
    /\ UNCHANGED <<jobs, modelVars, clicks, panelVars>>

\* A save that fails has no callback: the state stays "pending".
SaveFails ==
    /\ saving # <<>>
    /\ saving' = Tail(saving)
    /\ UNCHANGED <<queueVars, jobs, modelVars, clicks, panelVars, status, simulationQueueItem, handled>>

CancelSimulation ==
    /\ loaded /\ section = "visualization" /\ IsProcessing /\ Click
    /\ status' = [state |-> "canceled", sim |-> sim]
    /\ Becomes(CancelItem(Queue, simulationQueueItem))
    /\ simulationQueueItem' = 0
    /\ UNCHANGED <<jobs, modelVars, panelVars, handled, saving>>

-----------------------------------------------------------------------------
IntervalFires(i) ==
    /\ items[i].interval
    /\ items' = [items EXCEPT ![i].interval = FALSE]
    /\ inbox' = inbox \union {[item |-> i, api |-> "runStatus", awaited |-> TRUE]}
    /\ UNCHANGED <<jobs, modelVars, clicks, panelVars, controllerVars>>

Unfinished(r) == r.state \in {"pending", "running"}

\* The responseHandler of a panel.  What is neither a result nor an error is kept as data, too.
PanelResponse(p, r) ==
    /\ \/ /\ r.state = "error"
          /\ panels' = [panels EXCEPT ![p].loading = FALSE, ![p].error = TRUE]
          /\ UNCHANGED <<pendingRequests, queueItems>>
       \/ /\ r.state # "error"
          /\ panels' = [panels EXCEPT ![p] =
                [data |-> r.item, loading |-> FALSE, error |-> r.state # "completed"]]
          /\ pendingRequests' = pendingRequests \ {p}
          /\ queueItems' = [queueItems EXCEPT ![p] = 0]
    /\ UNCHANGED <<hidden, due, controllerVars>>

\* handleStatus of a persistent simulation.  Whichever item of the page's controller it is for, a
\* reply that is not processing resets simulationQueueItem; that of another controller cannot.
StatusResponse(r) ==
    /\ status' = [state |-> r.state, sim |-> items[r.item].sim]
    /\ simulationQueueItem' =
          IF ~Unfinished(r) /\ r.item \in handled THEN 0 ELSE simulationQueueItem
    /\ UNCHANGED <<panelVars, handled, saving>>

Respond(r) ==
    IF items[r.item].kind = "transient"
    THEN PanelResponse(items[r.item].name, r)
    ELSE StatusResponse(r)

\* Wrong: only a persistent item is polled.
HandleStatusPersistent(q, r) ==
    /\ IF items[r.item].kind = "transient"
       THEN UNCHANGED <<panelVars, controllerVars>>
       ELSE StatusResponse(r)
    /\ Becomes([q EXCEPT !.items[r.item].serial = r.serial,
                         !.items[r.item].interval = items[r.item].kind # "transient"])

HandleStatus(q, r) ==
    /\ Becomes([q EXCEPT !.items[r.item].serial = r.serial, !.items[r.item].interval = TRUE])
    /\ IF items[r.item].kind = "transient"
       THEN UNCHANGED <<panelVars, controllerVars>>
       ELSE StatusResponse(r)

\* Wrong: without removeItem.
HandleResultDone(q, r) ==
    /\ Becomes(RunFirstTransientItem([q EXCEPT !.items[r.item].qState = "done"]))
    /\ Respond(r)

HandleResult(q, r) ==
    /\ Becomes(RunFirstTransientItem(Removed(q, {r.item}, {})))
    /\ Respond(r)

\* Wrong: an item that is being removed takes its reply.
ProcessAnyway(q, r) == IF Unfinished(r) THEN HandleStatus(q, r) ELSE HandleResult(q, r)

\* process; an item that is being removed ignores its reply.
Process(q, r) ==
    IF items[r.item].qState = "removing"
    THEN Becomes(q) /\ UNCHANGED <<panelVars, controllerVars>>
    ELSE IF Unfinished(r) THEN HandleStatus(q, r) ELSE HandleResult(q, r)

-----------------------------------------------------------------------------
JobOf(i) == jobs[items[i].sim][items[i].name]
SetJob(i, job) == jobs' = [jobs EXCEPT ![items[i].sim][items[i].name] = job]

\* _req_is_valid
ReqIsValid(i, api) ==
    /\ JobOf(i).version = items[i].version
    /\ api # "runSimulation" /\ items[i].serial # 0 => JobOf(i).serial = items[i].serial

\* The reply to the request m comes to the page.  Replies over one socket come in the order
\* they are written, and the page knows what the server has done by them only: the server's
\* step and the page's are one.  A reply that nobody awaits is ignored.
Reply(m, state, serial) ==
    LET q == [Queue EXCEPT !.inbox = @ \ {m}]
    IN  \/ m.awaited /\ Process(q, [item |-> m.item, state |-> state, serial |-> serial])
        \/ ~m.awaited /\ Becomes(q) /\ UNCHANGED <<panelVars, controllerVars>>

\* api_runSimulation of a job that runs, or has a result the request may take.
ReplyRun(m) ==
    LET job == JobOf(m.item)
        forceRun == items[m.item].kind = "persistent"
        valid == ReqIsValid(m.item, m.api)
    IN  /\ m.api = "runSimulation"
        /\ \/ job.state = "running" /\ (forceRun \/ ~valid) /\ Reply(m, "error", 0)
           \/ job.state = "running" /\ ~forceRun /\ valid /\ Reply(m, job.state, job.serial)
           \/ job.state = "completed" /\ ~forceRun /\ valid /\ Reply(m, job.state, job.serial)
        /\ UNCHANGED jobs

StartRun(m) ==
    LET job == JobOf(m.item)
        forceRun == items[m.item].kind = "persistent"
    IN  /\ m.api = "runSimulation"
        /\ job.state # "running"
        /\ ~forceRun /\ ReqIsValid(m.item, m.api) => job.state # "completed"
        /\ \E state \in {"running", "error"} :
              /\ SetJob(m.item, [state |-> state, version |-> items[m.item].version,
                                 serial |-> job.serial + 1])
              /\ Reply(m, state, job.serial + 1)

ReplyStatus(m) ==
    LET job == JobOf(m.item)
    IN  /\ m.api = "runStatus"
        /\ \/ ReqIsValid(m.item, m.api) /\ Reply(m, job.state, job.serial)
           \/ ~ReqIsValid(m.item, m.api) /\ Reply(m, "missing", 0)
        /\ UNCHANGED jobs

CancelRun(m) ==
    LET job == JobOf(m.item)
    IN  /\ m.api = "runCancel"
        /\ IF job.state = "running" /\ ReqIsValid(m.item, m.api)
           THEN SetJob(m.item, [job EXCEPT !.state = "canceled"])
           ELSE UNCHANGED jobs
        /\ inbox' = inbox \ {m}
        /\ UNCHANGED <<items, panelVars, controllerVars>>

ServerTask(m) ==
    /\ m \in inbox
    /\ ReplyRun(m) \/ StartRun(m) \/ ReplyStatus(m) \/ CancelRun(m)
    /\ UNCHANGED <<modelVars, clicks>>

\* A run that ends otherwise is told of like one that fails to start.
JobEnds(s, n) ==
    /\ jobs[s][n].state = "running"
    /\ jobs' = [jobs EXCEPT ![s][n].state = "completed"]
    /\ UNCHANGED <<queueVars, modelVars, clicks, panelVars, controllerVars>>

-----------------------------------------------------------------------------
Next ==
    \/ \E p \in Panels : RequestData(p) \/ ShowPanel(p) \/ HidePanel(p) \/ ChangeReport(p)
    \/ ChangeModels
    \/ \E s \in Simulations, view \in Section : Open(s, view)
    \/ \E view \in Section : OpenSection(view)
    \/ ModelsLoaded
    \/ SaveAndRunSimulation \/ RunSimulation \/ SaveFails \/ CancelSimulation
    \/ \E i \in DOMAIN items : IntervalFires(i)
    \/ \E m \in inbox : ServerTask(m)
    \/ \E s \in Simulations, n \in Name : JobEnds(s, n)

Spec == Init /\ [][Next]_vars

-----------------------------------------------------------------------------
TypeOK ==
    /\ items \in Seq(Item) /\ Len(items) <= MaxItem
    /\ inbox \subseteq Message
    /\ jobs \in [Simulations -> [Name -> Job]]
    /\ sim \in Simulations
    /\ section \in Section /\ loaded \in BOOLEAN
    /\ version \in [Simulations -> [Name -> 0..MaxClick]]
    /\ clicks \in 0..MaxClick
    /\ hidden \in [Simulations -> SUBSET Panels]
    /\ pendingRequests \subseteq Panels /\ due \subseteq Panels
    /\ panels \in [Panels -> [data : 0..MaxItem, loading : BOOLEAN, error : BOOLEAN]]
    /\ queueItems \in [Panels -> 0..MaxItem]
    /\ status \in [state : State, sim : Simulations]
    /\ simulationQueueItem \in 0..MaxItem /\ handled \subseteq ItemId /\ saving \in Seq(BOOLEAN)

(***************************************************************************)
(* One transient item at most is processed, and it is the oldest: however  *)
(* panels are hidden, changed and left, reports do not overtake each other.*)
(***************************************************************************)
OneTransient ==
    \A i \in Transient(Queue) :
        IsProcessingItem(Queue, i) <=> \A j \in Transient(Queue) : i <= j

(***************************************************************************)
(* The data of a panel came with the last item the panel has sent, for the *)
(* simulation of the page: no late reply of an earlier item replaces it.   *)
(***************************************************************************)
LatestItemShown ==
    \A p \in Panels : panels[p].data # 0 =>
        /\ items[panels[p].data].sim = sim
        /\ \A j \in DOMAIN items : j > panels[p].data => items[j].name # p

\* The persistent items that nobody could cancel.
Loose ==
    {i \in Live(Queue) : items[i].kind # "transient" /\ i # simulationQueueItem}

\* What is processed without a reply to come, nor an interval that will send a request.
Unfollowed ==
    {i \in Live(Queue) :
        /\ IsProcessingItem(Queue, i)
        /\ ~items[i].interval
        /\ ~\E m \in inbox : m.item = i /\ m.awaited}

(***************************************************************************)
(* Whatever is processed awaits a reply or has an interval that will send  *)
(* a request: no report that is never answered blocks those behind it.     *)
(* Only a loose poll may lose both, and only to a route to another         *)
(* simulation, whose clearModels forgets the requests of all.              *)
(***************************************************************************)
Followed ==
    [][Unfollowed' \subseteq Unfollowed \union (IF sim' = sim THEN {} ELSE Loose)]_vars

(***************************************************************************)
(* A poll of a simulation escapes its controller only when a save calls    *)
(* back (a start may come before the first status is known, or after the   *)
(* section was left), or when a poll that has escaped before is answered   *)
(* for the last time: then the controller forgets the one it holds.  No    *)
(* route and no cancel leaves one behind.                                  *)
(***************************************************************************)
LooseByCallback ==
    [][\/ Loose' \subseteq Loose
       \/ Len(saving') < Len(saving)
       \/ ~(Loose \subseteq Live(Queue)')]_vars

(***************************************************************************)
(* The status of the page is that of its simulation, unless a loose poll   *)
(* goes on telling of the one before.                                      *)
(***************************************************************************)
StatusIsLoaded == [][status'.sim = sim' \/ status' = status \/ Loose # {}]_vars

(***************************************************************************)
(* clearPanel: "doesn't clear the queueItems, queueItem will be canceled   *)
(* if necessary in requestData()".  After that call a panel has no data of *)
(* earlier models.                                                         *)
(***************************************************************************)
DataIsCurrent ==
    \A p \in Panels : panels[p].data # 0 /\ p \notin due =>
        items[panels[p].data].version = version[sim][p]
=============================================================================
