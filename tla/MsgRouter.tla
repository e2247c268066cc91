------------------------------- MODULE MsgRouter -------------------------------
(***************************************************************************)
(* The message router of a browser page (msgRouter of                      *)
(* package_data/static/js/sirepo.js), its websocket, and the web server's  *)
(* handler of that websocket (uri_router.py).                              *)
(*                                                                         *)
(* A request is its reqSeq.  The page keeps one socket; what has been sent *)
(* and not answered (needReply) is queued again when the socket breaks.    *)
(* The server starts a task for every message, so requests of one page are *)
(* handled in any order, and those of a broken socket are handled too.     *)
(***************************************************************************)
EXTENDS Naturals, Sequences, SequencesExt

CONSTANTS
    MaxRequest, \* requests a page may make
    MaxFail     \* sockets that may fail

ASSUME BoundsAssumption == MaxRequest \in Nat /\ MaxFail \in Nat

VARIABLES
    toSend,     \* requests to be sent, in order
    needReply,  \* requests sent and not answered
    deferred,   \* the promise of a request: "none" until it is made, "waiting", "done" when it
                \* is settled, "dropped" when it is set to null
    socket,     \* "null", "connecting" or "open"
    retryInterval,      \* TRUE while the timer of the next connection is set
    socketRetryBackoff, \* 0 after a socket has opened, 1 for any longer delay
    failures,   \* sockets that failed; names the present one
    cleanCloses,        \* those of them that were closed cleanly
    inbox,      \* messages on their way to the server, and the server's tasks
    replies     \* requests with a reply on its way over the present socket

pageVars == <<toSend, needReply, deferred, socket, retryInterval, socketRetryBackoff>>
routerVars == <<pageVars, failures, cleanCloses, inbox, replies>>

Request == 1..MaxRequest

\* A request sent over one of the sockets.
Message == [req : Request, on : 0..MaxFail]

RouterInit ==
    /\ toSend = <<>>
    /\ needReply = {}
    /\ deferred = [r \in Request |-> "none"]
    /\ socket = "null"
    /\ retryInterval = FALSE
    /\ socketRetryBackoff = 0
    /\ failures = 0
    /\ cleanCloses = 0
    /\ inbox = {}
    /\ replies = {}

-----------------------------------------------------------------------------
\* The loop of _send over an open socket, with q to be sent and n sent before.
Flush(q, n) ==
    /\ toSend' = <<>>
    /\ needReply' = n \union ToSet(q)
    /\ inbox' = inbox \union [req : ToSet(q), on : {failures}]

\* send, in a handler that left the queue as q, needReply as n and the promises as d.
Push(q, n, d, r) ==
    /\ d[r] = "none"
    /\ deferred' = [d EXCEPT ![r] = "waiting"]
    /\ IF socket = "open"
       THEN Flush(Append(q, r), n) /\ UNCHANGED socket
       ELSE /\ toSend' = Append(q, r)
            /\ needReply' = n
            /\ socket' = "connecting"
            /\ UNCHANGED inbox
    /\ UNCHANGED <<retryInterval, socketRetryBackoff, failures, cleanCloses>>

\* The promises after clearModels: what is queued or unanswered will never be told.
Dropped == [r \in Request |-> IF deferred[r] = "waiting" THEN "dropped" ELSE deferred[r]]

ClearModels ==
    /\ toSend' = <<>>
    /\ needReply' = {}
    /\ deferred' = Dropped
    /\ UNCHANGED <<socket, retryInterval, socketRetryBackoff, failures, cleanCloses, inbox, replies>>

Send(r) == Push(toSend, needReply, deferred, r) /\ UNCHANGED replies
ClearAndSend(r) == Push(<<>>, {}, Dropped, r) /\ UNCHANGED replies

-----------------------------------------------------------------------------
SocketOnOpen ==
    /\ socket = "connecting"
    /\ socket' = "open"
    /\ socketRetryBackoff' = 0
    /\ Flush(toSend, needReply)
    /\ UNCHANGED <<deferred, retryInterval, failures, cleanCloses, replies>>

\* Wrong: what was sent is not queued again.
RequeueNever(wasClean) == UNCHANGED <<toSend, needReply>>

\* Object.values of requests: their only sequence in the order of reqSeq.
InOrder(S) ==
    {q \in [1..Cardinality(S) -> S] : \A i, j \in 1..Cardinality(S) : i < j => q[i] < q[j]}

\* What was sent and not answered is queued again after the first failure.
Requeue(wasClean) ==
    IF ~retryInterval /\ socketRetryBackoff = 0 /\ ~wasClean
    THEN /\ \E q \in InOrder(needReply) : toSend' = q \o toSend
         /\ needReply' = {}
    ELSE UNCHANGED <<toSend, needReply>>

\* Wrong: no cap.
BackoffGrows == IF retryInterval THEN socketRetryBackoff ELSE socketRetryBackoff + 1

\* Doubled in the code while it is less than 60.
Backoff == IF retryInterval THEN socketRetryBackoff ELSE 1

\* The events error and close of one failure come together; only the first counts.  A reply
\* that is being decoded when its socket fails is decoded before another socket opens: it
\* counts as decoded before the failure, or as lost.
SocketError(wasClean) ==
    /\ socket # "null"
    /\ wasClean => socket = "open"
    /\ failures < MaxFail
    /\ socket' = "null"
    /\ failures' = failures + 1
    /\ cleanCloses' = cleanCloses + (IF wasClean THEN 1 ELSE 0)
    /\ retryInterval' = TRUE
    /\ socketRetryBackoff' = Backoff
    /\ Requeue(wasClean)
    /\ replies' = {}
    /\ UNCHANGED <<deferred, inbox>>

\* Wrong: without _socket.
RetryTimerOnce ==
    /\ retryInterval
    /\ retryInterval' = FALSE
    /\ UNCHANGED <<toSend, needReply, deferred, socket, socketRetryBackoff, failures, cleanCloses,
                   inbox, replies>>

RetryTimer ==
    /\ retryInterval
    /\ retryInterval' = FALSE
    /\ socket' = IF socket = "null" THEN "connecting" ELSE socket
    /\ UNCHANGED <<toSend, needReply, deferred, socketRetryBackoff, failures, cleanCloses, inbox,
                   replies>>

\* _reply to q.  A callback runs before any route change does; it sends nothing here ...
Reply(q) ==
    /\ q \in replies
    /\ replies' = replies \ {q}
    /\ needReply' = needReply \ {q}
    /\ deferred' = IF q \in needReply THEN [deferred EXCEPT ![q] = "done"] ELSE deferred
    /\ UNCHANGED <<toSend, socket, retryInterval, socketRetryBackoff, failures, cleanCloses, inbox>>

\* ... and the request r here.
ReplyAndSend(q, r) ==
    /\ q \in replies /\ q \in needReply
    /\ replies' = replies \ {q}
    /\ Push(toSend, needReply \ {q}, [deferred EXCEPT ![q] = "done"], r)

\* The server's task for m ends; its reply is written to the socket m came by.
Handled(m) ==
    /\ m \in inbox
    /\ inbox' = inbox \ {m}
    /\ replies' = IF m.on = failures THEN replies \union {m.req} ELSE replies
    /\ UNCHANGED <<pageVars, failures, cleanCloses>>

\* The page is reloaded: a new router, while the server's tasks go on.
Reload ==
    /\ failures < MaxFail
    /\ failures' = failures + 1
    /\ toSend' = <<>>
    /\ needReply' = {}
    /\ deferred' = [r \in Request |-> IF deferred[r] = "none" THEN "none" ELSE "done"]
    /\ socket' = "null"
    /\ retryInterval' = FALSE
    /\ socketRetryBackoff' = 0
    /\ replies' = {}
    /\ UNCHANGED <<cleanCloses, inbox>>

RouterNext ==
    \/ \E r \in Request : Send(r) \/ ClearAndSend(r) \/ Reply(r)
    \/ \E q, r \in Request : ReplyAndSend(q, r)
    \/ ClearModels \/ SocketOnOpen \/ RetryTimer \/ Reload
    \/ \E wasClean \in BOOLEAN : SocketError(wasClean)
    \/ \E m \in Message : Handled(m)

-----------------------------------------------------------------------------
RouterTypeOK ==
    /\ toSend \in Seq(Request) /\ needReply \subseteq Request
    /\ deferred \in [Request -> {"none", "waiting", "done", "dropped"}]
    /\ socket \in {"null", "connecting", "open"}
    /\ retryInterval \in BOOLEAN /\ socketRetryBackoff \in {0, 1}
    /\ failures \in 0..MaxFail /\ cleanCloses \in 0..MaxFail
    /\ inbox \subseteq Message /\ replies \subseteq Request

\* Something will answer r, or make the page send it (again).
Carried(r) ==
    \/ r \in ToSet(toSend)
    \/ socket = "open" /\ (r \in replies \/ [req |-> r, on |-> failures] \in inbox)

Stranded(r) == deferred[r] = "waiting" /\ ~Carried(r)
=============================================================================
