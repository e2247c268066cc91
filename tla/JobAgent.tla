------------------------------- MODULE JobAgent -------------------------------
(***************************************************************************)
(* The agent (sirepo/pkcli/job_agent.py) as _Dispatcher and its commands:  *)
(* one task reads messages from the supervisor and replies to them, a      *)
(* process called fastcgi computes analyses and downloads one by one,      *)
(* fed by a queue of one message, and every run has a process of its own.  *)
(*                                                                         *)
(* Whoever writes to the websocket awaits the write, and writes end in the *)
(* order they were made: "writers" is the line of tasks that do.  A task   *)
(* goes on, and the supervisor has its message, when its write ends.  An   *)
(* operation starts at most one command, which has the operation's number. *)
(* Batch jobs and their polling are left out.                              *)
(***************************************************************************)
EXTENDS Naturals, Sequences, SequencesExt

CONSTANTS
    Job,        \* the jobs whose operations are sent to this agent
    Analysis,   \* the operations, 1 to some number in the order they are sent,
    Io,         \* that may be an analysis, a download, or a run
    Runs,
    MaxFault,   \* bound: connections that break, processes that die, starts that fail
    MaxRetry,   \* _MAX_LOOP_RETRY
    None

Op == Analysis \union Io \union Runs

ASSUME OpAssumption == Op \subseteq Nat
ASSUME BoundAssumption == MaxFault \in Nat /\ MaxRetry \in Nat \ {0}

Kind == {"analysis", "io", "run"}

OpType == [kind : Kind, job : Job, state : {"waiting", "running", "over"}]
CmdType == [kind : {"none", "fastcgi", "run"}, running : BOOLEAN, destroyed : {"no", "asked", "exit"},
            exit : {"wait", "send"}, loop : {"none", "accepted", "next", "get", "busy", "answered", "ended"},
            msg : Op \union {None}, out : {"none", "written", "sending", "told", "dropped"}]
MessageType == [name : {"op", "cancel"}, op : Op, job : Job \union {None}]
WriteType == [task : {"main", "loop", "stdout", "exit"}, cmd : Op \union {None}, op : Op \union {None},
              reply : {"none", "ok", "internal", "full", "notFound", "failed", "final", "canceled"}]

ASSUME NoneAssumption == None \notin Nat \union Job \union Seq(Nat) \union OpType

VARIABLES
    op,         \* the operations as the supervisor sees them, None before they are sent
    inbox,      \* messages on their way to the agent
    link,       \* the websocket: "open", "down", or "ended" with the agent
    tries,      \* t in _Dispatcher.loop
    faults,     \* connections that broke, processes that died, starts that failed
    cmd,        \* the commands
    fastcgi,    \* fastcgi_cmd
    queue,      \* _fastcgi_msg_q
    getters,    \* the fastcgi loops that wait on this queue, in line
    writers,    \* the tasks whose write to the websocket has not ended, in line
    under,      \* the operations that were in a fastcgi process when it was destroyed
    canceled    \* the runs whose cancel was answered

vars == <<op, inbox, link, tries, faults, cmd, fastcgi, queue, getters, writers, under, canceled>>
linkVars == <<link, tries, faults>>
fastcgiVars == <<fastcgi, queue, getters, under>>

Fault == faults < MaxFault /\ faults' = faults + 1

OfKind(k) == CASE k = "analysis" -> Analysis [] k = "io" -> Io [] k = "run" -> Runs

NoCmd == [kind |-> "none", running |-> FALSE, destroyed |-> "no", exit |-> "wait",
          loop |-> "none", msg |-> None, out |-> "none"]

Init ==
    /\ op = [o \in Op |-> None]
    /\ inbox = <<>>
    /\ link = "open"
    /\ tries = MaxRetry
    /\ faults = 0
    /\ cmd = [o \in Op |-> NoCmd]
    /\ fastcgi = None
    /\ queue = None
    /\ getters = <<>>
    /\ writers = <<>>
    /\ under = {}
    /\ canceled = {}

-----------------------------------------------------------------------------
(***************************************************************************)
(* The supervisor.  It has one slot per kind of operation in this agent    *)
(* and one per run directory, which a run gives back when it has started.  *)
(***************************************************************************)
Sent == {o \in Op : op[o] # None}
Alive == {o \in Sent : op[o].state # "over"}
Waiting == {o \in Sent : op[o].state = "waiting"}

\* The operations after the supervisor destroyed those of O.
Over(O) == [o \in Op |-> IF o \in O \intersect Alive THEN [op[o] EXCEPT !.state = "over"] ELSE op[o]]

Send(o, k, j) ==
    /\ link = "open"
    /\ o \in OfKind(k) \ Sent
    /\ \A p \in Op : p < o => p \in Sent
    /\ \A p \in Alive : op[p].kind # k
    /\ \A p \in Waiting : op[p].job # j
    /\ op' = [op EXCEPT ![o] = [kind |-> k, job |-> j, state |-> "waiting"]]
    /\ inbox' = Append(inbox, [name |-> "op", op |-> o, job |-> j])
    /\ UNCHANGED <<linkVars, cmd, fastcgiVars, writers, canceled>>

\* An operation times out, or the user cancels a run.  The message has the
\* job of a run; the id it has is that of the cancel operation itself, which
\* _Op writes over the id of the canceled one.
Cancel(o) ==
    /\ link = "open"
    /\ o \in Alive
    /\ op' = Over({o})
    /\ inbox' = Append(inbox, [name |-> "cancel", op |-> o,
                               job |-> IF op[o].kind = "run" THEN op[o].job ELSE None])
    /\ UNCHANGED <<linkVars, cmd, fastcgiVars, writers, canceled>>

-----------------------------------------------------------------------------
(***************************************************************************)
(* Commands.                                                               *)
(***************************************************************************)
\* dispatcher.cmds
Cmds == {c \in Op : cmd[c].kind # "none" /\ cmd[c].destroyed = "no"}
CmdsOf(j) == {c \in Cmds : op[c].job = j}

Queued == IF queue = None THEN {} ELSE Range(queue)

\* The operations that fastcgi processes have not answered.
InFastcgi == Queued \union {cmd[c].msg : c \in {d \in Op : cmd[d].loop = "busy"}}

Killed(c, why) == [c EXCEPT !.destroyed = why, !.running = FALSE]

\* Wrong: fastcgi_cmd is not reset.
DestroyKept(C, why) ==
    /\ cmd' = [c \in Op |-> IF c \in C THEN Killed(cmd[c], why) ELSE cmd[c]]
    /\ under' = IF fastcgi \in C THEN under \union (InFastcgi \intersect Alive) ELSE under
    /\ UNCHANGED fastcgi

\* _Cmd.destroy of the commands C.
Destroy(C, why) ==
    /\ cmd' = [c \in Op |-> IF c \in C THEN Killed(cmd[c], why) ELSE cmd[c]]
    /\ fastcgi' = IF fastcgi \in C THEN None ELSE fastcgi
    /\ under' = IF fastcgi \in C THEN under \union (InFastcgi \intersect Alive) ELSE under

Write(task, c, o, r) == [task |-> task, cmd |-> c, op |-> o, reply |-> r]

\* The agent reads the next message m: the reply to the last one is written.
Read(m) ==
    /\ link = "open"
    /\ \A i \in DOMAIN writers : writers[i].task # "main"
    /\ inbox # <<>>
    /\ m = Head(inbox)
    /\ inbox' = Tail(inbox)
    /\ UNCHANGED <<op, link, tries, canceled>>

ReadOp(o, isRun) ==
    /\ Read([name |-> "op", op |-> o, job |-> op[o].job])
    /\ isRun <=> op[o].kind = "run"

Respond(o, r) == writers' = Append(writers, Write("main", None, o, r))

-----------------------------------------------------------------------------
(***************************************************************************)
(* Analyses and downloads: _fastcgi_op and _fastcgi_loop.                  *)
(***************************************************************************)
RunDirNotFound(o) ==
    /\ op[o] # None
    /\ ReadOp(o, FALSE)
    /\ Respond(o, "notFound")
    /\ UNCHANGED <<cmd, fastcgiVars, faults>>

\* There is no fastcgi process: start one and leave the message to it.
StartFastcgi(o) ==
    /\ op[o] # None
    /\ ReadOp(o, FALSE)
    /\ fastcgi = None
    /\ cmd' = [cmd EXCEPT ![o].kind = "fastcgi", ![o].running = TRUE]
    /\ fastcgi' = o
    /\ queue' = <<o>>
    /\ getters' = <<>>
    /\ UNCHANGED <<writers, under, faults>>

\* It does not start: fastcgi_cmd is destroyed, and _fastcgi_op fails where it sets its op_id.
StartFastcgiFails(o) ==
    /\ op[o] # None
    /\ ReadOp(o, FALSE)
    /\ fastcgi = None
    /\ queue' = <<o>>
    /\ getters' = <<>>
    /\ Respond(o, "failed")
    /\ Fault
    /\ UNCHANGED <<cmd, fastcgi, under>>

\* Wrong: the message is queued although a loop waits for one.
PutQueued(o) ==
    \/ /\ queue = <<>>
       /\ queue' = <<o>>
       /\ UNCHANGED <<cmd, getters, writers>>
    \/ /\ queue # <<>>
       /\ Respond(o, "full")
       /\ UNCHANGED <<cmd, queue, getters>>

\* Wrong: the queue has room for more than one.
PutMore(o) ==
    \/ /\ getters # <<>>
       /\ cmd' = [cmd EXCEPT ![Head(getters)].loop = "busy", ![Head(getters)].msg = o]
       /\ getters' = Tail(getters)
       /\ UNCHANGED <<queue, writers>>
    \/ /\ getters = <<>>
       /\ queue' = Append(queue, o)
       /\ UNCHANGED <<cmd, getters, writers>>

\* tornado's Queue(1).put_nowait: to the first in line, or into the queue, or QueueFull.
Put(o) ==
    \/ /\ getters # <<>>
       /\ cmd' = [cmd EXCEPT ![Head(getters)].loop = "busy", ![Head(getters)].msg = o]
       /\ getters' = Tail(getters)
       /\ UNCHANGED <<queue, writers>>
    \/ /\ getters = <<>>
       /\ queue = <<>>
       /\ queue' = <<o>>
       /\ UNCHANGED <<cmd, getters, writers>>
    \/ /\ getters = <<>>
       /\ queue # <<>>
       /\ Respond(o, "full")
       /\ UNCHANGED <<cmd, queue, getters>>

FastcgiOp(o) ==
    /\ op[o] # None
    /\ ReadOp(o, FALSE)
    /\ fastcgi # None
    /\ Put(o)
    /\ UNCHANGED <<fastcgi, under, faults>>

\* The process connects, and its loop is called later.
FastcgiAccept(c) ==
    /\ cmd[c].kind = "fastcgi" /\ cmd[c].running /\ cmd[c].loop = "none"
    /\ cmd' = [cmd EXCEPT ![c].loop = "accepted"]
    /\ writers' = Append(writers, Write("loop", c, None, "none"))
    /\ UNCHANGED <<op, inbox, linkVars, fastcgiVars, canceled>>

\* Loop c asks the queue of the moment for its next message.
LoopGets(c) ==
    \/ /\ queue = None
       /\ cmd' = [cmd EXCEPT ![c].loop = "ended", ![c].msg = None]
       /\ UNCHANGED <<queue, getters>>
    \/ /\ queue = <<>>
       /\ cmd' = [cmd EXCEPT ![c].loop = "get", ![c].msg = None]
       /\ getters' = Append(getters, c)
       /\ UNCHANGED queue
    \/ /\ queue \notin {None, <<>>}
       /\ cmd' = [cmd EXCEPT ![c].loop = "busy", ![c].msg = Head(queue)]
       /\ queue' = <<>>
       /\ UNCHANGED getters

\* The process has computed its answer.
FastcgiAnswers(c) ==
    /\ cmd[c].loop = "busy" /\ cmd[c].running
    /\ cmd' = [cmd EXCEPT ![c].loop = "answered"]
    /\ UNCHANGED <<op, inbox, linkVars, fastcgiVars, writers, canceled>>

\* Its loop reads the answer and replies.
FastcgiReply(c) ==
    /\ cmd[c].loop = "answered"
    /\ cmd' = [cmd EXCEPT ![c].loop = "next"]
    /\ writers' = Append(writers, Write("loop", c, cmd[c].msg, "ok"))
    /\ UNCHANGED <<op, inbox, linkVars, fastcgiVars, canceled>>

\* The operations after an error was sent for those of O.  Nobody waits for
\* these writes, and the supervisor has the messages at once.
Failed(O) == Over(IF link = "open" THEN O ELSE {})

\* The loop of a process that is gone finds its stream closed and there is no
\* fastcgi_cmd: nobody is told.
StreamClosed(c) ==
    /\ cmd[c].loop = "busy" /\ ~cmd[c].running
    /\ fastcgi = None
    /\ cmd' = [cmd EXCEPT ![c].loop = "ended", ![c].msg = None]
    /\ UNCHANGED <<op, inbox, linkVars, fastcgiVars, writers, canceled>>

\* Wrong: the operation in the queue is not told.
FastcgiErrorFirst(c) ==
    /\ cmd[c].loop = "busy" /\ ~cmd[c].running
    /\ fastcgi # None
    /\ op' = Failed({cmd[c].msg})
    /\ LET ended == [cmd EXCEPT ![c].loop = "ended", ![c].msg = None]
       IN  /\ cmd' = [ended EXCEPT ![fastcgi] = Killed(@, "asked")]
           /\ under' = under \union ({cmd[d].msg : d \in {d \in Op \ {c} : cmd[d].loop = "busy"}} \intersect Alive)
    /\ fastcgi' = None
    /\ queue' = None
    /\ getters' = <<>>
    /\ UNCHANGED <<inbox, linkVars, writers, canceled>>

\* _fastcgi_handle_error: there is one, c or a later one, and it is destroyed;
\* the message of c and the one in the queue are answered with an error.
FastcgiError(c) ==
    /\ cmd[c].loop = "busy" /\ ~cmd[c].running
    /\ fastcgi # None
    /\ op' = Failed({cmd[c].msg} \union Range(queue))
    /\ LET ended == [cmd EXCEPT ![c].loop = "ended", ![c].msg = None]
       IN  /\ cmd' = [ended EXCEPT ![fastcgi] = Killed(@, "asked")]
           /\ under' = under \union ({cmd[d].msg : d \in {d \in Op \ {c} : cmd[d].loop = "busy"}} \intersect Alive)
    /\ fastcgi' = None
    /\ queue' = None
    /\ getters' = <<>>
    /\ UNCHANGED <<inbox, linkVars, writers, canceled>>

-----------------------------------------------------------------------------
(***************************************************************************)
(* Runs: a process of their own, which writes one line when it ends well.  *)
(***************************************************************************)
\* Every command of the job is destroyed, also a fastcgi process that an
\* operation of the job started, and the new process runs.
Run(o) ==
    /\ op[o] # None
    /\ ReadOp(o, TRUE)
    /\ LET old == CmdsOf(op[o].job)
       IN  /\ cmd' = [c \in Op |-> IF c = o THEN [NoCmd EXCEPT !.kind = "run", !.running = TRUE]
                                   ELSE IF c \in old THEN Killed(cmd[c], "asked") ELSE cmd[c]]
           /\ fastcgi' = IF fastcgi \in old THEN None ELSE fastcgi
           /\ under' = IF fastcgi \in old THEN under \union (InFastcgi \intersect Alive) ELSE under
    /\ Respond(o, "ok")
    /\ UNCHANGED <<queue, getters, faults>>

\* It cannot be prepared or started.
RunFails(o) ==
    /\ op[o] # None
    /\ ReadOp(o, TRUE)
    /\ Destroy(CmdsOf(op[o].job), "asked")
    /\ Respond(o, "failed")
    /\ Fault
    /\ UNCHANGED <<queue, getters>>

RunPrints(c) ==
    /\ cmd[c].kind = "run" /\ cmd[c].running /\ cmd[c].out = "none"
    /\ cmd' = [cmd EXCEPT ![c].out = "written"]
    /\ UNCHANGED <<op, inbox, linkVars, fastcgiVars, writers, canceled>>

\* Wrong: what a destroyed run wrote is sent.
OnStdoutReadAnyway(c) ==
    /\ cmd[c].out = "written"
    /\ cmd' = [cmd EXCEPT ![c].out = "sending"]
    /\ writers' = Append(writers, Write("stdout", c, c, "final"))
    /\ UNCHANGED <<op, inbox, linkVars, fastcgiVars, canceled>>

\* on_stdout_read: an update is sent, unless the run was destroyed.
OnStdoutRead(c) ==
    /\ cmd[c].out = "written"
    /\ \/ /\ cmd[c].destroyed = "no"
          /\ cmd' = [cmd EXCEPT ![c].out = "sending"]
          /\ writers' = Append(writers, Write("stdout", c, c, "final"))
       \/ /\ cmd[c].destroyed # "no"
          /\ cmd' = [cmd EXCEPT ![c].out = "dropped"]
          /\ UNCHANGED writers
    /\ UNCHANGED <<op, inbox, linkVars, fastcgiVars, canceled>>

-----------------------------------------------------------------------------
(***************************************************************************)
(* Processes that exit, cancels, and the end of the agent.                 *)
(***************************************************************************)
\* A process exits on its own: a run when it has written its line, and any
\* process by a fault.
Exit(c) ==
    /\ cmd[c].running
    /\ \/ cmd[c].out # "none" /\ UNCHANGED faults
       \/ cmd[c].out = "none" /\ Fault
    /\ cmd' = [cmd EXCEPT ![c].running = FALSE]
    /\ UNCHANGED <<op, inbox, link, tries, fastcgiVars, writers, canceled>>

\* The exit of command c was noticed, and it was not destroyed before.  The
\* error of a fastcgi process goes to the operation it was started for, that
\* of a run has no id and goes nowhere; a run that wrote its line has none.
ExitNoticed(c) ==
    /\ c \in Cmds /\ ~cmd[c].running /\ cmd[c].exit = "wait"
    /\ \/ /\ cmd[c].out = "none"
          /\ cmd' = [cmd EXCEPT ![c].exit = "send"]
          /\ writers' = Append(writers, Write("exit", c, IF cmd[c].kind = "run" THEN None ELSE c,
                                              "internal"))
          /\ UNCHANGED <<fastcgi, under>>
       \/ /\ cmd[c].out # "none"
          /\ Destroy({c}, "exit")
          /\ UNCHANGED writers
    /\ UNCHANGED <<op, inbox, linkVars, queue, getters, canceled>>

\* Wrong: its output may not have been read to the end.
AwaitExitOnly(c) == ExitNoticed(c)

\* _await_exit: all its output was read.
AwaitExit(c) == cmd[c].out \notin {"written", "sending"} /\ ExitNoticed(c)

\* _op_cancel
OpCancel(o, j) ==
    /\ Read([name |-> "cancel", op |-> o, job |-> j])
    /\ Destroy(IF j = None THEN {} ELSE CmdsOf(j), "asked")
    /\ Respond(o, "canceled")
    /\ UNCHANGED <<queue, getters, faults>>

\* terminate: a signal, OP_KILL or too many retries.
Ended ==
    /\ link' = "ended"
    /\ op' = Over(Alive)
    /\ inbox' = <<>>
    /\ writers' = <<>>
    /\ Destroy(Cmds, "asked")
    /\ UNCHANGED <<queue, getters, canceled>>

Terminate == Ended /\ UNCHANGED <<tries, faults>>

-----------------------------------------------------------------------------
(***************************************************************************)
(* Writes that end, and the connection.                                    *)
(***************************************************************************)
\* The supervisor has the reply of the first writer.
Delivered(w) ==
    IF link # "open" \/ w.op \notin Alive \/ w.reply = "canceled" THEN op
    ELSE IF op[w.op].kind = "run" /\ w.reply = "ok" THEN [op EXCEPT ![w.op].state = "running"]
    ELSE Over({w.op})

Flushed(task, c) ==
    /\ writers # <<>>
    /\ Head(writers).task = task /\ Head(writers).cmd = c
    /\ writers' = Tail(writers)
    /\ op' = Delivered(Head(writers))
    /\ UNCHANGED <<inbox, linkVars>>

MainFlushed ==
    /\ Flushed("main", None)
    /\ LET w == Head(writers)
       IN  canceled' = IF w.reply = "canceled" /\ w.op \in Sent /\ op[w.op].kind = "run"
                       THEN canceled \union {w.op} ELSE canceled
    /\ UNCHANGED <<cmd, fastcgiVars>>

LoopFlushed(c) ==
    /\ Flushed("loop", c)
    /\ LoopGets(c)
    /\ UNCHANGED <<fastcgi, under, canceled>>

StdoutFlushed(c) ==
    /\ Flushed("stdout", c)
    /\ cmd' = [cmd EXCEPT ![c].out = "told"]
    /\ UNCHANGED <<fastcgiVars, canceled>>

ExitFlushed(c) ==
    /\ Flushed("exit", c)
    /\ Destroy({c} \intersect Cmds, "exit")
    /\ UNCHANGED <<queue, getters, canceled>>

\* One try of t less: the supervisor destroys all its operations, W are the
\* writes that are left.  The agent ends with the last try.
Down(t, W) ==
    /\ tries' = t - 1
    /\ \/ /\ t > 1
          /\ link' = "down"
          /\ op' = Over(Alive)
          /\ inbox' = <<>>
          /\ writers' = W
          /\ UNCHANGED <<cmd, fastcgiVars, canceled>>
       \/ t = 1 /\ Ended

IsMain(w) == w.task = "main"

\* The connection breaks.  The countdown starts again only if the agent was
\* writing a reply.
Lose ==
    /\ link = "open"
    /\ Fault
    /\ \/ /\ \A i \in DOMAIN writers : ~IsMain(writers[i])
          /\ Down(tries, writers)
       \/ \E i \in DOMAIN writers : IsMain(writers[i]) /\ Down(MaxRetry, RemoveAt(writers, i))

Connect ==
    /\ link = "down"
    /\ link' = "open"
    /\ UNCHANGED <<op, inbox, tries, faults, cmd, fastcgiVars, writers, canceled>>

ConnectFails == link = "down" /\ Down(tries, writers) /\ UNCHANGED faults

-----------------------------------------------------------------------------
ReadNext ==
    \/ \E o \in Op : RunDirNotFound(o)
    \/ \E o \in Op : StartFastcgi(o)
    \/ \E o \in Op : StartFastcgiFails(o)
    \/ \E o \in Op : FastcgiOp(o)
    \/ \E o \in Op : Run(o)
    \/ \E o \in Op : RunFails(o)
    \/ \E o \in Op, j \in Job \union {None} : OpCancel(o, j)

Flush ==
    \/ MainFlushed
    \/ \E c \in Op : LoopFlushed(c)
    \/ \E c \in Op : StdoutFlushed(c)
    \/ \E c \in Op : ExitFlushed(c)

LoopNext(c) ==
    \/ FastcgiAccept(c)
    \/ FastcgiAnswers(c)
    \/ FastcgiReply(c)
    \/ StreamClosed(c)
    \/ FastcgiError(c)

Steps ==
    \/ \E o \in Op, k \in Kind, j \in Job : Send(o, k, j)
    \/ \E o \in Op : Cancel(o)
    \/ ReadNext
    \/ Flush
    \/ \E c \in Op : LoopNext(c)
    \/ \E c \in Op : RunPrints(c)
    \/ \E c \in Op : OnStdoutRead(c)
    \/ \E c \in Op : Exit(c)
    \/ \E c \in Op : AwaitExit(c)
    \/ Terminate
    \/ Lose
    \/ Connect
    \/ ConnectFails

\* Nothing goes on when the agent has ended.
Next == link # "ended" /\ Steps

Spec == Init /\ [][Next]_vars

-----------------------------------------------------------------------------
(***************************************************************************)
(* Properties.                                                             *)
(***************************************************************************)
\* Every variable has its type, the queue holds at most one message, and
\* _fastcgi_msg_q is there whenever fastcgi_cmd is.
TypeOK ==
    /\ op \in [Op -> OpType \union {None}]
    /\ inbox \in Seq(MessageType)
    /\ link \in {"open", "down", "ended"}
    /\ tries \in 0..MaxRetry
    /\ faults \in 0..MaxFault
    /\ cmd \in [Op -> CmdType]
    /\ fastcgi \in Op \union {None}
    /\ queue = None \/ queue = <<>> \/ \E o \in Op : queue = <<o>>
    /\ fastcgi # None => queue # None
    /\ getters \in Seq(Op)
    /\ writers \in Seq(WriteType)
    /\ under \subseteq Op
    /\ canceled \subseteq Op

\* fastcgi_cmd is the one fastcgi process that was not destroyed: whoever
\* destroys it, on whatever path, takes it out of the dispatcher, and none is
\* started while there is one (_fastcgi_op, _Cmd.destroy).
OneFastcgi == {c \in Cmds : cmd[c].kind = "fastcgi"} = {fastcgi} \ {None}

\* The operations that fastcgi loops have, until they have sent the answer.
InHand == {cmd[c].msg : c \in Op} \ {None}

Refused(o) ==
    /\ inbox # <<>> /\ Head(inbox).name = "op" /\ Head(inbox).op = o
    /\ inbox' = Tail(inbox)
    /\ writers' = Append(writers, Write("main", None, o, "full"))

FullWithReason ==
    \/ cmd[fastcgi].loop \in {"none", "accepted"}
    \/ \E p \in Queued \union InHand : p \notin Alive
RefusedWithReason == \A o \in Op : Refused(o) => FullWithReason

\* The supervisor's slots allow one analysis and one download at a time, so a
\* queue of one message is enough, except until the process has connected, or
\* when it still has an operation that the supervisor gave up (put_nowait in
\* _fastcgi_op raises QueueFull).
FullForReason == [][RefusedWithReason]_vars

\* What a run wrote before it ended is read and sent before the end of its
\* process removes the command (exit_ready awaits the end of its streams).
LastLineIsRead ==
    \A c \in Op : cmd[c].kind = "run" /\ cmd[c].destroyed = "exit" => cmd[c].out \in {"none", "told"}

\* Once a cancel was answered, no update of that run is sent any more, not
\* even of what its process wrote before it was killed.
NoUpdateAfterCancel ==
    \A i \in DOMAIN writers : writers[i].task = "stdout" => writers[i].op \notin canceled

Unread(o) == \E i \in DOMAIN inbox : inbox[i].name = "op" /\ inbox[i].op = o
InQueue(o) == fastcgi # None /\ o \in Queued
InLoop(o) ==
    \E c \in Op : cmd[c].msg = o /\ (cmd[c].loop = "busy" => cmd[c].running \/ fastcgi # None)
Replying(o) == \E i \in DOMAIN writers : writers[i].op = o /\ writers[i].reply # "canceled"

\* No operation that the supervisor waits for is forgotten: its message is on its way, it is in the
\* queue of a fastcgi process, in the hands of a loop that will get an answer or tell of the error,
\* its reply is being written, or it was in a fastcgi process when that was
\* destroyed, by a run or the cancel of a run of the job it was started for, by
\* its exit, or by the error of the process before it.
NoneForgotten ==
    \A o \in Waiting \ under : Unread(o) \/ InQueue(o) \/ InLoop(o) \/ Replying(o)
===============================================================================
