------------------------------- MODULE AppState -------------------------------
(***************************************************************************)
(* How a browser page keeps a simulation (appState and requestQueue of     *)
(* sirepo.js) and the web server stores it (simulation_db.py), over the    *)
(* page's message router.                                                  *)
(*                                                                         *)
(* The data of a simulation is the set of changes that were made to it.    *)
(* Another browser may change it too.                                      *)
(***************************************************************************)
EXTENDS MsgRouter

CONSTANTS
    MaxChange,  \* changes made by this page and by other browsers
    MaxQueue    \* saves queued

ASSUME ChangeAssumption == MaxChange \in Nat /\ MaxQueue \in Nat

VARIABLES
    saved,      \* savedModelValues: its changes and simulationSerial, 0 while none is loaded
    last,       \* the changes in lastAutoSaveData
    queue,      \* the requestQueue of saves: request (0: not sent), and what saveChanges will
                \* announce in its callback
    modal,      \* TRUE while the modal of a conflict asks to refresh the page
    alerted,    \* TRUE once a save or load has failed with an alert
    announced,  \* changes that were broadcast as saved since the models were loaded
    request,    \* the body of each request
    answer,     \* the body of each reply
    disk,       \* the simulation's file
    changes     \* changes made so far

appVars == <<saved, last, queue, modal, alerted, announced, request, answer, disk, changes>>
vars == <<routerVars, appVars>>

Change == 1..MaxChange
Version == [data : SUBSET Change, serial : Nat]
Body == [kind : {"none", "load", "save", "ok", "error", "conflict"}, data : SUBSET Change, serial : Nat]
Item == [req : 0..MaxRequest, announces : SUBSET Change]

NoVersion == [data |-> {}, serial |-> 0]
Say(kind, v) == [kind |-> kind, data |-> v.data, serial |-> v.serial]
Nothing == Say("none", NoVersion)

Init ==
    /\ RouterInit
    /\ saved = NoVersion /\ last = {} /\ queue = <<>>
    /\ modal = FALSE /\ alerted = FALSE /\ announced = {}
    /\ request = [r \in Request |-> Nothing]
    /\ answer = [r \in Request |-> Nothing]
    /\ disk = [data |-> {}, serial |-> 1]
    /\ changes = 0

IsLoaded == saved.serial # 0

\* reqSeq++
IsNext(r) == r = Cardinality({q \in Request : deferred[q] # "none"}) + 1

\* A save of v is sent as r for the first item of q.
SendItem(r, v, q) ==
    /\ last' = v.data
    /\ request' = [request EXCEPT ![r] = Say("save", v)]
    /\ queue' = [q EXCEPT ![1].req = r]

-----------------------------------------------------------------------------
\* autoSave when the saved models are v: they are as last sent, ...
NoChanges(v) ==
    /\ last = v.data
    /\ UNCHANGED <<last, queue, request, routerVars>>

\* Wrong: the item is sent although another one waits for its reply.
QueueSaveAnyway(v, announces) ==
    /\ last # v.data
    /\ Len(queue) < MaxQueue
    /\ \E r \in Request :
          IsNext(r) /\ Send(r) /\ SendItem(r, v, <<[req |-> 0, announces |-> announces]>> \o queue)

\* ... or a save is queued, and sent if it is the only one.
QueueSave(v, announces) ==
    LET q == Append(queue, [req |-> 0, announces |-> announces])
    IN  /\ last # v.data
        /\ Len(queue) < MaxQueue
        /\ \/ /\ queue = <<>>
              /\ \E r \in Request : IsNext(r) /\ Send(r) /\ SendItem(r, v, q)
           \/ /\ queue # <<>>
              /\ queue' = q
              /\ UNCHANGED <<last, request, routerVars>>

\* The page's models with the next change made to them, if changed.
Changed(changed) ==
    [saved EXCEPT !.data = IF changed THEN @ \union {changes + 1} ELSE @]

MakeChange(changed) ==
    /\ IsLoaded /\ ~modal
    /\ changed => changes < MaxChange
    /\ saved' = Changed(changed)
    /\ changes' = IF changed THEN changes + 1 ELSE changes
    /\ UNCHANGED <<modal, alerted, answer, disk>>

\* saveChanges of a model, which may be unchanged.
SaveChanges(changed) ==
    LET v == Changed(changed)
    IN  /\ MakeChange(changed)
        /\ \/ NoChanges(v) /\ announced' = announced \union v.data
           \/ QueueSave(v, v.data) /\ UNCHANGED announced

SaveQuietly ==
    /\ MakeChange(TRUE)
    /\ UNCHANGED <<last, queue, request, announced, routerVars>>

\* The timer, or openSection; the callback of the latter is Leave.
AutoSave ==
    /\ IsLoaded
    /\ QueueSave(saved, {})
    /\ UNCHANGED <<saved, modal, alerted, announced, answer, disk, changes>>

\* The simulations page clears the models.
Leave ==
    /\ ClearModels
    /\ saved' = NoVersion /\ queue' = <<>> /\ announced' = {}
    /\ UNCHANGED <<last, modal, alerted, request, answer, disk, changes>>

LoadModels ==
    /\ ~IsLoaded
    /\ \E r \in Request :
          /\ IsNext(r)
          /\ ClearAndSend(r)
          /\ request' = [request EXCEPT ![r] = Say("load", NoVersion)]
    /\ queue' = <<>>
    /\ UNCHANGED <<saved, last, modal, alerted, announced, answer, disk, changes>>

\* refreshPage, or the user reloads the page.
RefreshPage ==
    /\ Reload
    /\ saved' = NoVersion /\ last' = {} /\ queue' = <<>>
    /\ modal' = FALSE /\ alerted' = FALSE /\ announced' = {}
    /\ answer' = [r \in Request |-> Nothing]
    /\ UNCHANGED <<request, disk, changes>>

-----------------------------------------------------------------------------
\* The body of q is read.
Took(q) == answer' = [answer EXCEPT ![q] = Nothing]

\* The reply to a request that was cleared, or answered before.
ReplyUnknown(q) ==
    /\ q \notin needReply
    /\ Reply(q) /\ Took(q)
    /\ UNCHANGED <<saved, last, queue, modal, alerted, announced, request, disk, changes>>

\* refreshSimulationData
Loaded(q) ==
    /\ q \in needReply /\ request[q].kind = "load" /\ answer[q].kind = "ok"
    /\ Reply(q) /\ Took(q)
    /\ saved' = [data |-> answer[q].data, serial |-> answer[q].serial]
    /\ last' = answer[q].data
    /\ UNCHANGED <<queue, modal, alerted, announced, request, disk, changes>>

LoadFailed(q) ==
    /\ q \in needReply /\ request[q].kind = "load" /\ answer[q].kind = "error"
    /\ Reply(q) /\ Took(q)
    /\ alerted' = TRUE
    /\ UNCHANGED <<saved, last, queue, modal, announced, request, disk, changes>>

\* process shifts the queue and sends the next item, once the callback left saved as v and
\* lastAutoSaveData as sent.
NextItem(q, v, sent) ==
    \/ /\ Len(queue) = 1
       /\ Reply(q)
       /\ queue' = <<>> /\ last' = sent
       /\ UNCHANGED request
    \/ /\ Len(queue) > 1
       /\ \E r \in Request : IsNext(r) /\ ReplyAndSend(q, r) /\ SendItem(r, v, Tail(queue))

Saved(q) ==
    LET v == [saved EXCEPT !.serial = answer[q].serial]
    IN  /\ q \in needReply /\ request[q].kind = "save" /\ answer[q].kind = "ok"
        /\ saved' = v
        /\ announced' = announced \union Head(queue).announces
        /\ NextItem(q, v, answer[q].data) /\ Took(q)
        /\ UNCHANGED <<modal, alerted, disk, changes>>

\* Wrong: without errorCallback.
SaveFailedSilently(q) ==
    /\ q \in needReply /\ request[q].kind = "save" /\ answer[q].kind = "error"
    /\ NextItem(q, saved, last) /\ Took(q)
    /\ UNCHANGED <<saved, modal, alerted, announced, disk, changes>>

SaveFailed(q) ==
    /\ q \in needReply /\ request[q].kind = "save" /\ answer[q].kind = "error"
    /\ alerted' = TRUE
    /\ NextItem(q, saved, last) /\ Took(q)
    /\ UNCHANGED <<saved, modal, announced, disk, changes>>

\* _handleSRException shows the modal and calls nobody back: the queue stays as it is.
SaveConflicts(q) ==
    /\ q \in needReply /\ answer[q].kind = "conflict"
    /\ Reply(q) /\ Took(q)
    /\ modal' = TRUE
    /\ UNCHANGED <<saved, last, queue, alerted, announced, request, disk, changes>>

-----------------------------------------------------------------------------
Answered(m, body) ==
    /\ Handled(m)
    /\ answer' = IF m.on = failures THEN [answer EXCEPT ![m.req] = body] ELSE answer
    /\ UNCHANGED <<saved, last, queue, modal, alerted, announced, request, changes>>

\* api_simulationData
SimulationData(m) ==
    /\ request[m.req].kind = "load"
    /\ Answered(m, Say("ok", disk))
    /\ UNCHANGED disk

\* Wrong: without _serial_validate.
SaveSimulationJsonAnyway(m) ==
    /\ request[m.req].kind = "save"
    /\ disk' = [data |-> request[m.req].data, serial |-> disk.serial + 1]
    /\ Answered(m, Say("ok", disk'))

\* save_simulation_json, with the user's lock.
SaveSimulationJson(m) ==
    /\ request[m.req].kind = "save"
    /\ request[m.req].serial = disk.serial
    /\ disk' = [data |-> request[m.req].data, serial |-> disk.serial + 1]
    /\ Answered(m, Say("ok", disk'))

SerialInvalid(m) ==
    /\ request[m.req].kind = "save"
    /\ request[m.req].serial # disk.serial
    /\ Answered(m, Say("conflict", NoVersion))
    /\ UNCHANGED disk

\* Either request raises, or cannot be validated.
ServerError(m) ==
    /\ Answered(m, Say("error", NoVersion))
    /\ UNCHANGED disk

\* Another browser loads, changes and saves the simulation.
ForeignSave ==
    /\ changes < MaxChange
    /\ changes' = changes + 1
    /\ disk' = [data |-> disk.data \union {changes + 1}, serial |-> disk.serial + 1]
    /\ UNCHANGED <<saved, last, queue, modal, alerted, announced, request, answer, routerVars>>

Connection ==
    /\ \/ (SocketOnOpen \/ RetryTimer) /\ UNCHANGED answer
       \/ \E wasClean \in BOOLEAN : SocketError(wasClean) /\ answer' = [r \in Request |-> Nothing]
    /\ UNCHANGED <<saved, last, queue, modal, alerted, announced, request, disk, changes>>

PageReply(q) ==
    ReplyUnknown(q) \/ Loaded(q) \/ LoadFailed(q) \/ Saved(q) \/ SaveFailed(q) \/ SaveConflicts(q)

ServerTask(m) ==
    SimulationData(m) \/ SaveSimulationJson(m) \/ SerialInvalid(m) \/ ServerError(m)

Next ==
    \/ \E changed \in BOOLEAN : SaveChanges(changed)
    \/ SaveQuietly \/ AutoSave \/ Leave \/ LoadModels \/ RefreshPage
    \/ \E q \in replies : PageReply(q)
    \/ \E m \in inbox : ServerTask(m)
    \/ ForeignSave
    \/ Connection

(***************************************************************************)
(* Fairness: timers fire, a socket that connects opens or fails, the       *)
(* server's tasks end and replies over a socket that stays open arrive.    *)
(***************************************************************************)
Fairness ==
    /\ WF_vars(AutoSave)
    /\ WF_vars(SocketOnOpen /\ UNCHANGED appVars) /\ WF_vars(RetryTimer /\ UNCHANGED appVars)
    /\ WF_vars(\E q \in replies : PageReply(q))
    /\ WF_vars(\E m \in inbox : m.on = failures /\ ServerTask(m))

Spec == Init /\ [][Next]_vars
FairSpec == Spec /\ Fairness

-----------------------------------------------------------------------------
TypeOK ==
    /\ RouterTypeOK
    /\ saved \in Version /\ last \subseteq Change /\ queue \in Seq(Item)
    /\ modal \in BOOLEAN /\ alerted \in BOOLEAN /\ announced \subseteq Change
    /\ request \in [Request -> Body] /\ answer \in [Request -> Body]
    /\ disk \in Version /\ changes \in 0..MaxChange

(***************************************************************************)
(* No save takes a change away that some browser has saved before, however *)
(* late or often a request is handled.                                     *)
(***************************************************************************)
NothingOverwritten == [][disk.data \subseteq disk'.data]_vars

(***************************************************************************)
(* The first item of the queue of saves, and only that, waits for a reply: *)
(* no second save is sent before, and none is forgotten in the queue.      *)
(***************************************************************************)
FirstWaits ==
    {r \in Request : deferred[r] = "waiting" /\ request[r].kind = "save"}
    = IF queue = <<>> \/ modal THEN {} ELSE {Head(queue).req}

(***************************************************************************)
(* The page stops to see to a request only when its socket is closed       *)
(* cleanly, or fails while the timer of an earlier failure still runs.     *)
(***************************************************************************)
StrandedByClose ==
    [][\A r \in Request : deferred[r] = "waiting" /\ Carried(r) /\ Stranded(r)'
          => failures' # failures /\ (cleanCloses' # cleanCloses \/ retryInterval)]_vars

(***************************************************************************)
(* A change in the saved models gets to the file, unless the page is left  *)
(* or tells of a failure, or a request is stranded.                        *)
(***************************************************************************)
SavedOrTold ==
    ~(saved.data \subseteq disk.data)
    ~> \/ saved.data \subseteq disk.data \/ modal \/ alerted
       \/ \E r \in Request : Stranded(r)
       \/ deferred[MaxRequest] # "none"

(***************************************************************************)
(* What is broadcast as saved is in the file or in a save that waits for   *)
(* its reply, or the user was told of a failure.  (It need not be in the   *)
(* file: lastAutoSaveData has the changes once a save of them is sent.)    *)
(***************************************************************************)
SavedIsUnderWay ==
    \/ modal \/ alerted
    \/ announced \subseteq disk.data
          \union UNION {request[r].data : r \in {q \in Request : deferred[q] = "waiting"}}

(***************************************************************************)
(* The message of the modal, refreshModalMap: "This simulation has been    *)
(* updated outside of this browser".                                       *)
(***************************************************************************)
ConflictIsForeign == modal => ~(disk.data \subseteq saved.data)
=============================================================================
