---------------------------- MODULE AppStateProofs ----------------------------
(***************************************************************************)
(* Proofs about AppState: for any number of requests, failures and         *)
(* changes, no save overwrites a change another browser saved, however     *)
(* late or often it is handled, the page waits for one save at a time, and *)
(* what it has announced as saved is saved, under way, or known to have    *)
(* failed.                                                                 *)
(***************************************************************************)
EXTENDS AppState, FiniteSetTheorems, SequenceTheorems, TLAPS

\* The requests the page has yet to send (again) or waits for.
Pending == needReply \union ToSet(toSend)

Promise == {"none", "waiting", "done", "dropped"}

-----------------------------------------------------------------------------
(***************************************************************************)
(* What the queue operations do to the set of queued requests.             *)
(***************************************************************************)
LEMMA ToSetAppend ==
    ASSUME NEW S, NEW s \in Seq(S), NEW x \in S
    PROVE  ToSet(Append(s, x)) = ToSet(s) \union {x} /\ Append(s, x) \in Seq(S)
<1>1. /\ Append(s, x) \in Seq(S)
      /\ Len(Append(s, x)) = Len(s) + 1
      /\ \A i \in 1..Len(s) : Append(s, x)[i] = s[i]
      /\ Append(s, x)[Len(s) + 1] = x
      /\ Len(s) \in Nat
      /\ DOMAIN s = 1..Len(s) /\ DOMAIN Append(s, x) = 1..(Len(s) + 1)
  BY AppendProperties, LenProperties
<1>2. ToSet(Append(s, x)) \subseteq ToSet(s) \union {x}
  BY <1>1 DEF ToSet
<1>3. ASSUME NEW y \in ToSet(s) PROVE y \in ToSet(Append(s, x))
  BY <1>1, <1>3 DEF ToSet
<1>4. x \in ToSet(Append(s, x))
  <2>1. Len(s) + 1 \in DOMAIN Append(s, x)
    BY <1>1
  <2> QED BY <2>1, <1>1 DEF ToSet
<1> QED BY <1>1, <1>2, <1>3, <1>4

LEMMA ToSetConcat ==
    ASSUME NEW S, NEW s \in Seq(S), NEW t \in Seq(S)
    PROVE  ToSet(s \o t) = ToSet(s) \union ToSet(t) /\ s \o t \in Seq(S)
<1>1. /\ s \o t \in Seq(S)
      /\ Len(s \o t) = Len(s) + Len(t)
      /\ \A i \in 1..(Len(s) + Len(t)) :
            (s \o t)[i] = IF i <= Len(s) THEN s[i] ELSE t[i - Len(s)]
      /\ Len(s) \in Nat /\ Len(t) \in Nat
      /\ DOMAIN s = 1..Len(s) /\ DOMAIN t = 1..Len(t)
      /\ DOMAIN (s \o t) = 1..(Len(s) + Len(t))
  BY ConcatProperties, LenProperties
<1>2. ToSet(s \o t) \subseteq ToSet(s) \union ToSet(t)
  <2> SUFFICES ASSUME NEW i \in 1..(Len(s) + Len(t))
               PROVE  (s \o t)[i] \in ToSet(s) \union ToSet(t)
    BY <1>1 DEF ToSet
  <2>1. CASE i <= Len(s)
    BY <1>1, <2>1 DEF ToSet
  <2>2. CASE i > Len(s)
    <3>1. i - Len(s) \in 1..Len(t) /\ (s \o t)[i] = t[i - Len(s)]
      BY <1>1, <2>2
    <3> QED BY <3>1, <1>1 DEF ToSet
  <2> QED BY <2>1, <2>2, <1>1
<1>3. ASSUME NEW i \in 1..Len(s) PROVE s[i] \in ToSet(s \o t)
  <2>1. i \in 1..(Len(s) + Len(t)) /\ (s \o t)[i] = s[i]
    BY <1>1
  <2> QED BY <2>1, <1>1 DEF ToSet
<1>4. ASSUME NEW i \in 1..Len(t) PROVE t[i] \in ToSet(s \o t)
  <2>1. i + Len(s) \in 1..(Len(s) + Len(t)) /\ (s \o t)[i + Len(s)] = t[i]
    BY <1>1
  <2> QED BY <2>1, <1>1 DEF ToSet
<1> QED BY <1>1, <1>2, <1>3, <1>4 DEF ToSet

LEMMA LongerThanEmpty ==
    ASSUME NEW s, Len(s) # 0
    PROVE  s # <<>>
<1> SUFFICES ASSUME s = <<>> PROVE FALSE
  OBVIOUS
<1>1. Len(<<>>) = 0
  OBVIOUS
<1> QED BY <1>1, Zenon

LEMMA ToSetEmpty == ToSet(<<>>) = {}
  BY DEF ToSet

\* Object.values of a set of requests is a sequence of all of them.
LEMMA InOrderAll ==
    ASSUME NEW S \in SUBSET Request, NEW q \in InOrder(S)
    PROVE  q \in Seq(Request) /\ ToSet(q) = S
<1> DEFINE n == Cardinality(S)
<1>1. IsFiniteSet(S) /\ n \in Nat
  <2>1. IsFiniteSet(1..MaxRequest)
    <3>1. 1 \in Int /\ MaxRequest \in Int
      BY BoundsAssumption
    <3> QED BY <3>1, FS_Interval
  <2>2. IsFiniteSet(S)
    BY <2>1, FS_Subset DEF Request
  <2> QED BY <2>2, FS_CardinalityType
<1>2. q \in [1..n -> S] /\ \A i, j \in 1..n : i < j => q[i] < q[j]
  BY DEF InOrder
<1> HIDE DEF n
<1>3. q \in Seq(Request)
  <2>1. q \in [1..n -> Request]
    BY <1>2
  <2> QED BY <1>1, <2>1, SeqDef
<1>4. ToSet(q) \subseteq S
  BY <1>2 DEF ToSet
<1>5. q \in Injection(1..n, S)
  <2> SUFFICES ASSUME NEW i \in 1..n, NEW j \in 1..n, i # j PROVE q[i] # q[j]
    BY <1>2, Zenon DEF Injection, IsInjective
  <2>1. q[i] \in Int /\ q[j] \in Int
    <3>1. q[i] \in S /\ q[j] \in S
      BY <1>2
    <3>2. S \subseteq Request
      OBVIOUS
    <3>3. Request \subseteq Int
      BY BoundsAssumption DEF Request
    <3> QED BY <3>1, <3>2, <3>3
  <2>2. i < j \/ j < i
    BY <1>1
  <2> QED BY <1>2, <2>1, <2>2
<1>6. q \in Surjection(1..n, S)
  <2>1. IsFiniteSet(1..n) /\ Cardinality(1..n) = n
    BY <1>1, FS_Interval
  <2>2. Cardinality(1..n) = Cardinality(S)
    BY <2>1 DEF n
  <2> QED BY <1>1, <1>5, <2>2, FS_Injection
<1> QED BY <1>2, <1>3, <1>4, <1>6 DEF Surjection, ToSet
-----------------------------------------------------------------------------
(***************************************************************************)
(* The router: what it has yet to send or waits for is what has a promise, *)
(* once.  These hold however the page uses it.                             *)
(***************************************************************************)
SentOnce == needReply \intersect ToSet(toSend) = {}
PendingWaits == \A r \in Request : r \in Pending <=> deferred[r] = "waiting"

\* A request has a promise before it is sent.
Begun ==
    /\ \A r \in replies : deferred[r] # "none"
    /\ \A m \in inbox : deferred[m.req] # "none"

\* socketOnOpen resets the delay.
OpenAtOnce == socket = "open" => socketRetryBackoff = 0

RouterInv ==
    /\ RouterTypeOK
    /\ cleanCloses <= failures
    /\ SentOnce
    /\ PendingWaits
    /\ Begun
    /\ OpenAtOnce

\* A flush sends every queued request once.
LEMMA FlushEffect ==
    ASSUME NEW q \in Seq(Request), NEW n \in SUBSET Request,
           inbox \subseteq Message, failures \in 0..MaxFail,
           Flush(q, n)
    PROVE  /\ toSend' \in Seq(Request) /\ ToSet(toSend') = {}
           /\ needReply' = n \union ToSet(q) /\ needReply' \subseteq Request
           /\ inbox' \subseteq Message /\ inbox \subseteq inbox'
           /\ \A m \in inbox' : m \in inbox \/ m.req \in ToSet(q)
           /\ \A r \in ToSet(q) : [req |-> r, on |-> failures] \in inbox'
<1>1. toSend' = <<>> /\ needReply' = n \union ToSet(q)
      /\ inbox' = inbox \union [req : ToSet(q), on : {failures}]
  BY DEF Flush
<1>2. ToSet(q) \subseteq Request
  BY LenProperties DEF ToSet
<1>3. <<>> \in Seq(Request)
  OBVIOUS
<1>4. [req : ToSet(q), on : {failures}] \subseteq Message
  BY <1>2 DEF Message
<1> QED BY <1>1, <1>2, <1>3, <1>4, ToSetEmpty

LEMMA PushEffect ==
    ASSUME NEW q \in Seq(Request), NEW n \in SUBSET Request,
           NEW d \in [Request -> Promise], NEW r \in Request,
           RouterTypeOK, cleanCloses <= failures, OpenAtOnce,
           Push(q, n, d, r)
    PROVE  /\ toSend' \in Seq(Request) /\ needReply' \subseteq Request
           /\ deferred' = [d EXCEPT ![r] = "waiting"] /\ deferred' \in [Request -> Promise]
           /\ d[r] = "none"
           /\ socket' \in {"open", "connecting"} /\ (socket' = "open" <=> socket = "open")
           /\ inbox' \subseteq Message /\ inbox \subseteq inbox'
           /\ Pending' = n \union ToSet(q) \union {r}
           /\ n \intersect (ToSet(q) \union {r}) = {} => SentOnce'
           /\ \A m \in inbox' : m \in inbox \/ m.req \in ToSet(q) \union {r}
           /\ \A p \in ToSet(q) : \/ p \in ToSet(toSend')
                                  \/ socket' = "open" /\ [req |-> p, on |-> failures] \in inbox'
           /\ UNCHANGED <<retryInterval, socketRetryBackoff, failures, cleanCloses>>
<1>1. ToSet(Append(q, r)) = ToSet(q) \union {r} /\ Append(q, r) \in Seq(Request)
  BY ToSetAppend
<1>2. inbox \subseteq Message /\ failures \in 0..MaxFail
  BY DEF RouterTypeOK
<1>3. /\ deferred' = [d EXCEPT ![r] = "waiting"] /\ d[r] = "none"
      /\ UNCHANGED <<retryInterval, socketRetryBackoff, failures, cleanCloses>>
  BY DEF Push
<1>4. deferred' \in [Request -> Promise]
  BY <1>3 DEF Promise
<1>5. CASE socket = "open"
  <2>1. Flush(Append(q, r), n) /\ UNCHANGED socket
    BY <1>5 DEF Push
  <2>2. /\ toSend' \in Seq(Request) /\ ToSet(toSend') = {}
        /\ needReply' = n \union ToSet(Append(q, r)) /\ needReply' \subseteq Request
        /\ inbox' \subseteq Message /\ inbox \subseteq inbox'
        /\ \A m \in inbox' : m \in inbox \/ m.req \in ToSet(Append(q, r))
        /\ \A p \in ToSet(Append(q, r)) : [req |-> p, on |-> failures] \in inbox'
    BY <1>1, <1>2, <2>1, FlushEffect
  <2>3. Pending' = n \union ToSet(q) \union {r} /\ SentOnce'
    BY <1>1, <2>2 DEF Pending, SentOnce
  <2> QED BY <1>1, <1>3, <1>4, <1>5, <2>1, <2>2, <2>3
<1>6. CASE socket # "open"
  <2>1. toSend' = Append(q, r) /\ needReply' = n /\ socket' = "connecting" /\ inbox' = inbox
    BY <1>6 DEF Push
  <2>2. Pending' = n \union ToSet(q) \union {r}
    BY <1>1, <2>1 DEF Pending
  <2>3. n \intersect (ToSet(q) \union {r}) = {} => SentOnce'
    BY <1>1, <2>1 DEF SentOnce
  <2> QED BY <1>1, <1>2, <1>3, <1>4, <1>6, <2>1, <2>2, <2>3
<1> QED BY <1>5, <1>6

LEMMA RequeueEffect ==
    ASSUME RouterTypeOK, NEW wasClean \in BOOLEAN, Requeue(wasClean)
    PROVE  /\ toSend' \in Seq(Request) /\ needReply' \subseteq Request
           /\ ToSet(toSend) \subseteq ToSet(toSend')
           /\ Pending' = Pending
           /\ SentOnce => SentOnce'
           /\ ~retryInterval /\ socketRetryBackoff = 0 /\ ~wasClean
                 => Pending \subseteq ToSet(toSend')
<1>0. toSend \in Seq(Request) /\ needReply \subseteq Request
  BY DEF RouterTypeOK
<1>1. CASE ~retryInterval /\ socketRetryBackoff = 0 /\ ~wasClean
  <2>1. PICK q \in InOrder(needReply) : toSend' = q \o toSend /\ needReply' = {}
    BY <1>1 DEF Requeue
  <2>2. q \in Seq(Request) /\ ToSet(q) = needReply
    BY <1>0, InOrderAll
  <2>3. ToSet(toSend') = needReply \union ToSet(toSend) /\ toSend' \in Seq(Request)
    BY <1>0, <2>1, <2>2, ToSetConcat
  <2> QED BY <2>1, <2>3 DEF Pending, SentOnce
<1>2. CASE ~(~retryInterval /\ socketRetryBackoff = 0 /\ ~wasClean)
  <2>1. toSend' = toSend /\ needReply' = needReply
    BY <1>2 DEF Requeue
  <2> QED BY <1>0, <1>2, <2>1 DEF Pending, SentOnce
<1> QED BY <1>1, <1>2
\* StrandedByClose says this of every step.
StrandedStep ==
    \A r \in Request :
        deferred[r] = "waiting" /\ Carried(r) /\ Stranded(r)'
        => failures' # failures /\ (cleanCloses' # cleanCloses \/ retryInterval)

LEMMA RouterInitInv == RouterInit => RouterInv
<1> SUFFICES ASSUME RouterInit PROVE RouterInv
  OBVIOUS
<1>1. toSend = <<>> /\ <<>> \in Seq(Request)
  BY DEF RouterInit
<1>2. RouterTypeOK
  <2>1. toSend \in Seq(Request)
    BY <1>1
  <2>2. failures \in 0..MaxFail /\ cleanCloses \in 0..MaxFail
    BY BoundsAssumption DEF RouterInit
  <2>3. deferred \in [Request -> {"none", "waiting", "done", "dropped"}]
    BY DEF RouterInit
  <2> QED BY <2>1, <2>2, <2>3 DEF RouterInit, RouterTypeOK
<1>3. Pending = {} /\ SentOnce
  BY <1>1, ToSetEmpty DEF RouterInit, Pending, SentOnce
<1> QED BY <1>2, <1>3 DEF RouterInit, RouterInv, PendingWaits, Begun, OpenAtOnce

\* A request of the next number joins those the page kept.
LEMMA PushKeepsInv ==
    ASSUME RouterInv,
           NEW q \in Seq(Request), NEW n \in SUBSET Request,
           NEW d \in [Request -> Promise], NEW r \in Request,
           n \intersect ToSet(q) = {},
           \A p \in Request : p \in n \union ToSet(q) <=> d[p] = "waiting",
           \A p \in Request : deferred[p] # "none" => d[p] # "none",
           \A p \in Request : deferred[p] = "waiting" /\ p # r /\ d[p] = "waiting" =>
               \/ ~Carried(p)
               \/ p \in ToSet(q)
               \/ socket = "open" /\ ([req |-> p, on |-> failures] \in inbox \/ p \in replies'),
           replies' \subseteq replies,
           Push(q, n, d, r)
    PROVE  RouterInv' /\ StrandedStep
<1>1. /\ RouterTypeOK /\ cleanCloses <= failures /\ OpenAtOnce /\ Begun
  BY DEF RouterInv
<1>2. /\ toSend' \in Seq(Request) /\ needReply' \subseteq Request
      /\ deferred' = [d EXCEPT ![r] = "waiting"] /\ deferred' \in [Request -> Promise]
      /\ d[r] = "none"
      /\ socket' \in {"open", "connecting"} /\ (socket' = "open" <=> socket = "open")
      /\ inbox' \subseteq Message /\ inbox \subseteq inbox'
      /\ Pending' = n \union ToSet(q) \union {r}
      /\ n \intersect (ToSet(q) \union {r}) = {} => SentOnce'
      /\ \A m \in inbox' : m \in inbox \/ m.req \in ToSet(q) \union {r}
      /\ \A p \in ToSet(q) : \/ p \in ToSet(toSend')
                             \/ socket' = "open" /\ [req |-> p, on |-> failures] \in inbox'
      /\ UNCHANGED <<retryInterval, socketRetryBackoff, failures, cleanCloses>>
  BY <1>1, PushEffect
<1>3. RouterTypeOK'
  BY <1>1, <1>2 DEF RouterTypeOK, Promise
<1>4. r \notin n \union ToSet(q)
  BY <1>2
<1>5. SentOnce'
  BY <1>2, <1>4
<1>6. PendingWaits'
  <2> SUFFICES ASSUME NEW p \in Request PROVE p \in Pending' <=> deferred'[p] = "waiting"
    BY DEF PendingWaits
  <2> QED BY <1>2
<1>7. Begun'
  <2>1. \A p \in Request : deferred[p] # "none" => deferred'[p] # "none"
    BY <1>2
  <2>2. ASSUME NEW p \in replies' PROVE deferred'[p] # "none"
    BY <1>1, <2>1, <2>2 DEF Begun, RouterTypeOK
  <2>3. ASSUME NEW m \in inbox' PROVE deferred'[m.req] # "none"
    <3>1. m.req \in Request
      BY <1>2 DEF Message
    <3>2. CASE m \in inbox
      BY <1>1, <2>1, <3>1, <3>2 DEF Begun
    <3>3. CASE m.req \in ToSet(q) \union {r}
      BY <1>2, <3>1, <3>3
    <3> QED BY <1>2, <3>2, <3>3
  <2> QED BY <2>2, <2>3 DEF Begun
<1>8. OpenAtOnce'
  BY <1>1, <1>2 DEF OpenAtOnce
<1>9. StrandedStep
  <2> SUFFICES ASSUME NEW p \in Request, deferred[p] = "waiting", Carried(p), Stranded(p)'
               PROVE  FALSE
    BY DEF StrandedStep
  <2>1. deferred'[p] = "waiting" /\ ~Carried(p)'
    BY DEF Stranded
  <2>2. p # r /\ d[p] = "waiting"
    BY <1>2, <2>1
  <2>3. CASE p \in ToSet(q)
    BY <1>2, <2>1, <2>3 DEF Carried
  <2>4. CASE p \notin ToSet(q)
    <3>1. socket = "open" /\ ([req |-> p, on |-> failures] \in inbox \/ p \in replies')
      BY <2>2, <2>4
    <3> QED BY <1>2, <2>1, <3>1 DEF Carried
  <2> QED BY <2>3, <2>4
<1> QED BY <1>1, <1>2, <1>3, <1>5, <1>6, <1>7, <1>8, <1>9 DEF RouterInv

LEMMA SendsKeepInv ==
    ASSUME RouterInv, NEW r \in Request,
           \/ Send(r) \/ ClearAndSend(r)
           \/ \E q \in Request : ReplyAndSend(q, r)
    PROVE  RouterInv' /\ StrandedStep
<1>1. /\ RouterTypeOK /\ SentOnce /\ PendingWaits
      /\ toSend \in Seq(Request) /\ needReply \in SUBSET Request /\ deferred \in [Request -> Promise]
  BY DEF RouterInv, RouterTypeOK, Promise
<1>2. CASE Send(r)
  <2>1. Push(toSend, needReply, deferred, r) /\ replies' = replies
    BY <1>2 DEF Send
  <2>2. \A p \in Request : p \in needReply \union ToSet(toSend) <=> deferred[p] = "waiting"
    BY <1>1 DEF PendingWaits, Pending
  <2>3. needReply \intersect ToSet(toSend) = {}
    BY <1>1 DEF SentOnce
  <2>4. \A p \in Request :
              \/ ~Carried(p) \/ p \in ToSet(toSend)
              \/ socket = "open" /\ ([req |-> p, on |-> failures] \in inbox \/ p \in replies')
    BY <2>1 DEF Carried
  <2> QED BY <1>1, <2>1, <2>2, <2>3, <2>4, PushKeepsInv
<1>3. CASE ClearAndSend(r)
  <2> DEFINE d == Dropped
  <2>1. Push(<<>>, {}, d, r) /\ replies' = replies
    BY <1>3 DEF ClearAndSend
  <2>2. d \in [Request -> Promise] /\ \A p \in Request : d[p] # "waiting"
    BY <1>1 DEF Dropped, Promise
  <2>3. \A p \in Request : deferred[p] # "none" => d[p] # "none"
    BY DEF Dropped
  <2>4. <<>> \in Seq(Request) /\ ToSet(<<>>) = {}
    BY ToSetEmpty
  <2> HIDE DEF d
  <2> QED BY <2>1, <2>2, <2>3, <2>4, PushKeepsInv
<1>4. CASE \E q \in Request : ReplyAndSend(q, r)
  <2>1. PICK q \in Request : ReplyAndSend(q, r)
    BY <1>4
  <2> DEFINE n == needReply \ {q}
             d == [deferred EXCEPT ![q] = "done"]
  <2>2. Push(toSend, n, d, r) /\ replies' = replies \ {q} /\ q \in needReply
    BY <2>1 DEF ReplyAndSend
  <2>3. d \in [Request -> Promise] /\ n \in SUBSET Request
    BY <1>1 DEF Promise
  <2>4. \A p \in Request : deferred[p] # "none" => d[p] # "none"
    BY <1>1
  <2>5. n \intersect ToSet(toSend) = {} /\ q \notin ToSet(toSend)
    BY <1>1, <2>2 DEF SentOnce
  <2>6. \A p \in Request : p \in n \union ToSet(toSend) <=> d[p] = "waiting"
    BY <1>1, <2>5 DEF PendingWaits, Pending
  <2>7. \A p \in Request : d[p] = "waiting" =>
              \/ ~Carried(p) \/ p \in ToSet(toSend)
              \/ socket = "open" /\ ([req |-> p, on |-> failures] \in inbox \/ p \in replies')
    BY <1>1, <2>2 DEF Carried
  <2> HIDE DEF n, d
  <2> QED BY <1>1, <2>2, <2>3, <2>4, <2>5, <2>6, <2>7, PushKeepsInv
<1> QED BY <1>2, <1>3, <1>4

LEMMA ReplyKeepsInv ==
    ASSUME RouterInv, NEW q \in Request, Reply(q)
    PROVE  RouterInv' /\ StrandedStep
<1>1. RouterTypeOK /\ SentOnce /\ PendingWaits /\ Begun /\ OpenAtOnce /\ cleanCloses <= failures
  BY DEF RouterInv
<1>2. /\ replies' = replies \ {q} /\ needReply' = needReply \ {q}
      /\ deferred' = IF q \in needReply THEN [deferred EXCEPT ![q] = "done"] ELSE deferred
      /\ UNCHANGED <<toSend, socket, retryInterval, socketRetryBackoff, failures, cleanCloses, inbox>>
  BY DEF Reply
<1>3. RouterTypeOK'
  <2>1. deferred' \in [Request -> {"none", "waiting", "done", "dropped"}]
    BY <1>1, <1>2 DEF RouterTypeOK
  <2> QED BY <1>1, <1>2, <2>1 DEF RouterTypeOK
<1>4. SentOnce'
  BY <1>1, <1>2 DEF SentOnce
<1>5. \A p \in Request : deferred[p] # "none" => deferred'[p] # "none"
  BY <1>1, <1>2 DEF RouterTypeOK
<1>6. PendingWaits'
  <2>1. q \in needReply => q \notin ToSet(toSend)
    BY <1>1 DEF SentOnce
  <2> QED BY <1>1, <1>2, <2>1 DEF PendingWaits, Pending, RouterTypeOK
<1>7. Begun'
  BY <1>1, <1>2, <1>5 DEF Begun, RouterTypeOK, Message
<1>8. StrandedStep
  <2> SUFFICES ASSUME NEW p \in Request, deferred[p] = "waiting", Carried(p), Stranded(p)'
               PROVE  FALSE
    BY DEF StrandedStep
  <2>1. deferred'[p] = "waiting" /\ ~Carried(p)'
    BY DEF Stranded
  <2>2. p = q => q \in ToSet(toSend)
    BY <1>1, <1>2, <2>1 DEF PendingWaits, Pending, RouterTypeOK
  <2> QED BY <1>2, <2>1, <2>2 DEF Carried
<1> QED BY <1>1, <1>2, <1>3, <1>4, <1>6, <1>7, <1>8 DEF RouterInv, OpenAtOnce

LEMMA ClearKeepsInv ==
    ASSUME RouterInv, ClearModels \/ Reload
    PROVE  RouterInv' /\ StrandedStep
<1>1. RouterTypeOK /\ Begun /\ OpenAtOnce /\ cleanCloses <= failures
  BY DEF RouterInv
<1>2. /\ toSend' = <<>> /\ needReply' = {} /\ inbox' = inbox
      /\ replies' \subseteq replies
      /\ UNCHANGED cleanCloses
      /\ \/ UNCHANGED <<failures, socket, retryInterval, socketRetryBackoff>>
         \/ /\ failures < MaxFail /\ failures' = failures + 1
            /\ socket' = "null" /\ retryInterval' = FALSE /\ socketRetryBackoff' = 0
  BY DEF ClearModels, Reload
<1>3. /\ deferred' \in [Request -> Promise]
      /\ \A p \in Request : deferred'[p] # "waiting" /\ (deferred[p] # "none" => deferred'[p] # "none")
  BY <1>1 DEF ClearModels, Reload, Dropped, RouterTypeOK, Promise
<1>4. <<>> \in Seq(Request) /\ ToSet(<<>>) = {}
  BY ToSetEmpty
<1>5. RouterTypeOK' /\ (cleanCloses <= failures)' /\ OpenAtOnce'
  <2>1. failures \in Nat /\ cleanCloses \in Nat /\ MaxFail \in Nat
    BY <1>1, BoundsAssumption DEF RouterTypeOK
  <2>2. failures' \in 0..MaxFail /\ cleanCloses' <= failures'
    BY <1>1, <1>2, <2>1 DEF RouterTypeOK
  <2>3. /\ socket' \in {"null", "connecting", "open"} /\ retryInterval' \in BOOLEAN
        /\ socketRetryBackoff' \in {0, 1} /\ OpenAtOnce'
    BY <1>1, <1>2 DEF RouterTypeOK, OpenAtOnce
  <2> QED BY <1>1, <1>2, <1>3, <1>4, <2>2, <2>3 DEF RouterTypeOK, Promise
<1>6. SentOnce' /\ PendingWaits'
  BY <1>2, <1>3, <1>4 DEF SentOnce, PendingWaits, Pending
<1>7. Begun'
  BY <1>1, <1>2, <1>3 DEF Begun, RouterTypeOK, Message
<1>8. StrandedStep
  BY <1>3 DEF StrandedStep, Stranded
<1> QED BY <1>5, <1>6, <1>7, <1>8 DEF RouterInv

LEMMA ConnectionKeepsInv ==
    ASSUME RouterInv,
           SocketOnOpen \/ RetryTimer \/ \E wasClean \in BOOLEAN : SocketError(wasClean)
    PROVE  RouterInv' /\ StrandedStep
<1>1. RouterTypeOK /\ SentOnce /\ PendingWaits /\ Begun /\ OpenAtOnce /\ cleanCloses <= failures
  BY DEF RouterInv
<1>0. /\ toSend \in Seq(Request) /\ needReply \in SUBSET Request
      /\ inbox \subseteq Message /\ failures \in 0..MaxFail
  BY <1>1 DEF RouterTypeOK
<1>2. CASE SocketOnOpen
  <2>1. /\ socket = "connecting" /\ socket' = "open" /\ socketRetryBackoff' = 0
        /\ Flush(toSend, needReply)
        /\ UNCHANGED <<deferred, retryInterval, failures, cleanCloses, replies>>
    BY <1>2 DEF SocketOnOpen
  <2>2. /\ toSend' \in Seq(Request) /\ ToSet(toSend') = {}
        /\ needReply' = needReply \union ToSet(toSend) /\ needReply' \subseteq Request
        /\ inbox' \subseteq Message /\ inbox \subseteq inbox'
        /\ \A m \in inbox' : m \in inbox \/ m.req \in ToSet(toSend)
        /\ \A r \in ToSet(toSend) : [req |-> r, on |-> failures] \in inbox'
    BY <1>0, <2>1, FlushEffect
  <2>3. RouterTypeOK'
    BY <1>1, <2>1, <2>2 DEF RouterTypeOK
  <2>4. Pending' = Pending /\ SentOnce' /\ OpenAtOnce' /\ PendingWaits'
    BY <1>1, <2>1, <2>2 DEF Pending, SentOnce, OpenAtOnce, PendingWaits
  <2>5. Begun'
    <3>1. ASSUME NEW m \in inbox' PROVE deferred[m.req] # "none"
      <4>1. m.req \in Request
        BY <2>2 DEF Message
      <4>2. m.req \in ToSet(toSend) => deferred[m.req] = "waiting"
        BY <1>1, <4>1 DEF PendingWaits, Pending
      <4> QED BY <1>1, <2>2, <4>2 DEF Begun
    <3> QED BY <1>1, <2>1, <3>1 DEF Begun
  <2>6. StrandedStep
    BY <2>1, <2>2 DEF StrandedStep, Stranded, Carried
  <2> QED BY <1>1, <2>1, <2>3, <2>4, <2>5, <2>6 DEF RouterInv
<1>3. CASE RetryTimer
  <2>1. /\ retryInterval' = FALSE /\ socket' \in {"null", "connecting", "open"}
        /\ (socket' = "open" <=> socket = "open")
        /\ UNCHANGED <<toSend, needReply, deferred, socketRetryBackoff, failures, cleanCloses, inbox,
                       replies>>
    BY <1>1, <1>3 DEF RetryTimer, RouterTypeOK
  <2>2. Pending' = Pending /\ SentOnce' /\ OpenAtOnce' /\ PendingWaits' /\ Begun' /\ RouterTypeOK'
    BY <1>1, <2>1 DEF Pending, SentOnce, OpenAtOnce, PendingWaits, Begun, RouterTypeOK
  <2>3. StrandedStep
    BY <2>1 DEF StrandedStep, Stranded, Carried
  <2> QED BY <1>1, <2>1, <2>2, <2>3 DEF RouterInv
<1>4. CASE \E wasClean \in BOOLEAN : SocketError(wasClean)
  <2>1. PICK wasClean \in BOOLEAN : SocketError(wasClean)
    BY <1>4
  <2>2. /\ socket # "null" /\ (wasClean => socket = "open")
        /\ failures < MaxFail /\ failures' = failures + 1
        /\ socket' = "null" /\ retryInterval' = TRUE
        /\ cleanCloses' = cleanCloses + (IF wasClean THEN 1 ELSE 0)
        /\ socketRetryBackoff' \in {0, 1}
        /\ Requeue(wasClean)
        /\ replies' = {} /\ deferred' = deferred /\ inbox' = inbox
    BY <1>1, <2>1 DEF SocketError, Backoff, RouterTypeOK
  <2>3. /\ toSend' \in Seq(Request) /\ needReply' \subseteq Request
        /\ ToSet(toSend) \subseteq ToSet(toSend')
        /\ Pending' = Pending
        /\ SentOnce => SentOnce'
        /\ ~retryInterval /\ socketRetryBackoff = 0 /\ ~wasClean => Pending \subseteq ToSet(toSend')
    BY <1>1, <2>2, RequeueEffect
  <2>4. /\ failures' \in 0..MaxFail /\ cleanCloses' \in 0..MaxFail /\ cleanCloses' <= failures'
        /\ failures' # failures /\ (wasClean => cleanCloses' # cleanCloses)
    <3>1. failures \in Nat /\ cleanCloses \in Nat /\ MaxFail \in Nat /\ cleanCloses <= failures
      BY <1>1, BoundsAssumption DEF RouterTypeOK
    <3> QED BY <2>2, <3>1
  <2>5. RouterTypeOK'
    BY <1>1, <2>2, <2>3, <2>4 DEF RouterTypeOK
  <2>6. PendingWaits' /\ Begun' /\ OpenAtOnce'
    BY <1>1, <2>2, <2>3 DEF PendingWaits, Begun, OpenAtOnce
  <2>7. StrandedStep
    <3> SUFFICES ASSUME NEW p \in Request, deferred[p] = "waiting", Carried(p), Stranded(p)',
                        ~retryInterval, ~wasClean
                 PROVE  FALSE
      BY <2>2, <2>4 DEF StrandedStep
    <3>1. p \in Pending /\ p \notin ToSet(toSend')
      BY <1>1 DEF PendingWaits, Stranded, Carried
    <3>2. socketRetryBackoff = 0
      BY <1>1, <2>3, <3>1 DEF Carried, OpenAtOnce
    <3> QED BY <2>3, <3>1, <3>2
  <2> QED BY <1>1, <2>3, <2>4, <2>5, <2>6, <2>7 DEF RouterInv
<1> QED BY <1>2, <1>3, <1>4

LEMMA HandledKeepsInv ==
    ASSUME RouterInv, NEW m \in Message, Handled(m)
    PROVE  RouterInv' /\ StrandedStep
<1>1. RouterTypeOK /\ SentOnce /\ PendingWaits /\ Begun /\ OpenAtOnce /\ cleanCloses <= failures
  BY DEF RouterInv
<1>2. /\ m \in inbox /\ inbox' = inbox \ {m}
      /\ replies' = IF m.on = failures THEN replies \union {m.req} ELSE replies
      /\ UNCHANGED <<toSend, needReply, deferred, socket, retryInterval, socketRetryBackoff>>
      /\ UNCHANGED <<failures, cleanCloses>>
  BY DEF Handled, pageVars
<1>3. m.req \in Request
  BY DEF Message
<1>4. RouterTypeOK'
  BY <1>1, <1>2, <1>3 DEF RouterTypeOK
<1>5. SentOnce' /\ PendingWaits' /\ OpenAtOnce'
  BY <1>1, <1>2 DEF SentOnce, PendingWaits, Pending, OpenAtOnce
<1>6. Begun'
  BY <1>1, <1>2 DEF Begun
<1>7. StrandedStep
  <2> SUFFICES ASSUME NEW p \in Request, deferred[p] = "waiting", Carried(p), ~Carried(p)'
               PROVE  FALSE
    BY DEF StrandedStep, Stranded
  <2>1. socket = "open" /\ [req |-> p, on |-> failures] = m
    BY <1>2 DEF Carried
  <2> QED BY <1>2, <2>1 DEF Carried
<1> QED BY <1>1, <1>2, <1>4, <1>5, <1>6, <1>7 DEF RouterInv

LEMMA RouterNextKeepsInv ==
    ASSUME RouterInv, RouterNext \/ UNCHANGED routerVars
    PROVE  RouterInv' /\ StrandedStep
<1>1. CASE RouterNext
  BY <1>1, SendsKeepInv, ReplyKeepsInv, ClearKeepsInv, ConnectionKeepsInv, HandledKeepsInv
     DEF RouterNext
<1>2. CASE UNCHANGED routerVars
  <2>1. RouterTypeOK' /\ Pending' = Pending /\ SentOnce' /\ Begun' /\ OpenAtOnce'
    BY <1>2 DEF RouterInv, RouterTypeOK, Pending, SentOnce, Begun, OpenAtOnce, routerVars, pageVars
  <2>2. \A p \in Request : Stranded(p)' = Stranded(p)
    BY <1>2 DEF Stranded, Carried, routerVars, pageVars
  <2>3. StrandedStep
    BY <2>2 DEF StrandedStep, Stranded
  <2> QED BY <1>2, <2>1, <2>3 DEF RouterInv, PendingWaits, routerVars, pageVars
<1> QED BY <1>1, <1>2

-----------------------------------------------------------------------------
(***************************************************************************)
(* The page and the server use the router by its actions only.             *)
(***************************************************************************)
LEMMA NextIsRouterNext ==
    ASSUME RouterInv, Next
    PROVE  RouterNext \/ UNCHANGED routerVars
<1>0. replies \subseteq Request /\ inbox \subseteq Message
  BY DEF RouterInv, RouterTypeOK
<1>1. ASSUME NEW changed \in BOOLEAN, SaveChanges(changed)
      PROVE  RouterNext \/ UNCHANGED routerVars
  BY <1>1 DEF SaveChanges, NoChanges, QueueSave, RouterNext, routerVars, pageVars
<1>2. CASE SaveQuietly \/ AutoSave \/ ForeignSave
  BY <1>2 DEF SaveQuietly, AutoSave, ForeignSave, QueueSave, RouterNext, routerVars, pageVars
<1>3. CASE Leave \/ LoadModels \/ RefreshPage \/ Connection
  BY <1>3 DEF Leave, LoadModels, RefreshPage, Connection, RouterNext
<1>4. ASSUME NEW q \in replies, PageReply(q) PROVE RouterNext
  <2>1. q \in Request
    BY <1>0
  <2>2. CASE ReplyUnknown(q) \/ Loaded(q) \/ LoadFailed(q) \/ SaveConflicts(q)
    BY <2>1, <2>2 DEF ReplyUnknown, Loaded, LoadFailed, SaveConflicts, RouterNext
  <2>3. CASE Saved(q) \/ SaveFailed(q)
    BY <2>1, <2>3 DEF Saved, SaveFailed, NextItem, RouterNext
  <2> QED BY <1>4, <2>2, <2>3 DEF PageReply
<1>5. ASSUME NEW m \in inbox, ServerTask(m) PROVE RouterNext
  <2>1. m \in Message /\ Handled(m)
    BY <1>0, <1>5 DEF ServerTask, SimulationData, SaveSimulationJson, SerialInvalid, ServerError,
                      Answered
  <2> QED BY <2>1 DEF RouterNext
<1> QED BY <1>1, <1>2, <1>3, <1>4, <1>5 DEF Next

LEMMA RouterSafe == Spec => []RouterInv /\ [][StrandedStep]_vars
<1>1. Init => RouterInv
  BY RouterInitInv DEF Init
<1>2. RouterInv /\ [Next]_vars => RouterInv' /\ StrandedStep
  <2>1. UNCHANGED vars => UNCHANGED routerVars
    BY DEF vars
  <2> QED BY <2>1, NextIsRouterNext, RouterNextKeepsInv
<1> QED BY <1>1, <1>2, PTL DEF Spec

(***************************************************************************)
(* Whatever the page asks for, and however often its sockets fail: it      *)
(* stops to see to a request only after a clean close, or a failure that   *)
(* comes before the timer of an earlier one (_socketError of sirepo.js).   *)
(***************************************************************************)
THEOREM OnlyClosesStrand == Spec => StrandedByClose
<1>1. [StrandedStep]_vars => [\A r \in Request : deferred[r] = "waiting" /\ Carried(r) /\ Stranded(r)'
          => failures' # failures /\ (cleanCloses' # cleanCloses \/ retryInterval)]_vars
  BY DEF StrandedStep
<1> QED BY <1>1, RouterSafe, PTL DEF StrandedByClose

-----------------------------------------------------------------------------
(***************************************************************************)
(* The types of what the page keeps, sends and is told.                    *)
(***************************************************************************)
AppTypeOK ==
    /\ saved \in Version /\ last \subseteq Change /\ queue \in Seq(Item)
    /\ modal \in BOOLEAN /\ alerted \in BOOLEAN /\ announced \subseteq Change
    /\ request \in [Request -> Body] /\ answer \in [Request -> Body]
    /\ disk \in Version /\ changes \in 0..MaxChange

LEMMA SayIsBody ==
    /\ NoVersion \in Version
    /\ Nothing \in Body
    /\ \A v \in Version : \A kind \in {"none", "load", "save", "ok", "error", "conflict"} :
          /\ Say(kind, v) \in Body
          /\ Say(kind, v).kind = kind /\ Say(kind, v).data = v.data /\ Say(kind, v).serial = v.serial
<1>1. NoVersion \in Version
  BY DEF NoVersion, Version
<1>2. \A v \in Version : \A kind \in {"none", "load", "save", "ok", "error", "conflict"} :
          /\ Say(kind, v) \in Body
          /\ Say(kind, v).kind = kind /\ Say(kind, v).data = v.data /\ Say(kind, v).serial = v.serial
  BY DEF Say, Version, Body
<1>3. Nothing \in Body
  BY <1>1, <1>2 DEF Nothing
<1> QED BY <1>1, <1>2, <1>3

LEMMA ChangedIsVersion ==
    ASSUME AppTypeOK, NEW changed \in BOOLEAN, changed => changes < MaxChange
    PROVE  /\ Changed(changed) \in Version
           /\ saved.data \subseteq Changed(changed).data
           /\ Changed(changed).serial = saved.serial
<1>1. saved \in Version /\ (changed => changes + 1 \in Change)
  BY ChangeAssumption DEF AppTypeOK, Change
<1>2. CASE changed
  <2>1. Changed(changed) = [saved EXCEPT !.data = saved.data \union {changes + 1}]
    BY <1>2 DEF Changed
  <2> QED BY <1>1, <1>2, <2>1 DEF Version
<1>3. CASE ~changed
  <2>1. Changed(changed) = [saved EXCEPT !.data = saved.data]
    BY <1>3 DEF Changed
  <2> QED BY <1>1, <2>1 DEF Version
<1> QED BY <1>2, <1>3

LEMMA SendItemEffect ==
    ASSUME AppTypeOK, NEW r \in Request, NEW v \in Version, NEW q \in Seq(Item), q # <<>>,
           SendItem(r, v, q)
    PROVE  /\ last' = v.data /\ last' \subseteq Change
           /\ request' = [request EXCEPT ![r] = Say("save", v)] /\ request' \in [Request -> Body]
           /\ queue' \in Seq(Item) /\ queue' # <<>> /\ Head(queue').req = r
<1>1. last' = v.data /\ request' = [request EXCEPT ![r] = Say("save", v)]
      /\ queue' = [q EXCEPT ![1] = [q[1] EXCEPT !.req = r]]
  BY DEF SendItem
<1>2. Say("save", v) \in Body
  BY SayIsBody
<1>3. request' \in [Request -> Body]
  BY <1>1, <1>2 DEF AppTypeOK
<1> DEFINE i == [q[1] EXCEPT !.req = r]
<1>4. 1 \in 1..Len(q) /\ q[1] \in Item
  OBVIOUS
<1>5. i \in Item /\ i.req = r
  BY <1>4, BoundsAssumption DEF Item, Request
<1> HIDE DEF i
<1>6. queue' = [q EXCEPT ![1] = i]
  BY <1>1 DEF i
<1>7. queue' \in Seq(Item) /\ Len(queue') = Len(q) /\ queue'[1] = i
  BY <1>4, <1>5, <1>6, ExceptSeq
<1>8. queue' # <<>> /\ Head(queue') = i
  BY <1>4, <1>7
<1> QED BY <1>1, <1>3, <1>5, <1>7, <1>8 DEF Version

\* What queueing a save of v does.
LEMMA QueueSaveEffect ==
    ASSUME AppTypeOK, NEW v \in Version, NEW a \in SUBSET Change, QueueSave(v, a)
    PROVE  /\ last' \subseteq Change /\ queue' \in Seq(Item) /\ request' \in [Request -> Body]
           /\ queue' # <<>> /\ last # v.data
           /\ \/ /\ queue = <<>>
                 /\ \E r \in Request : /\ Send(r)
                                       /\ request' = [request EXCEPT ![r] = Say("save", v)]
                                       /\ Head(queue').req = r
              \/ /\ queue # <<>>
                 /\ Head(queue') = Head(queue)
                 /\ UNCHANGED <<last, request, routerVars>>
<1> DEFINE i == [req |-> 0, announces |-> a]
           q == Append(queue, i)
<1>1. i \in Item
  BY BoundsAssumption DEF Item
<1>2. queue \in Seq(Item) /\ request \in [Request -> Body] /\ last \subseteq Change
  BY DEF AppTypeOK
<1>3. /\ last # v.data
      /\ \/ /\ queue = <<>>
            /\ \E r \in Request : IsNext(r) /\ Send(r) /\ SendItem(r, v, q)
         \/ /\ queue # <<>>
            /\ queue' = q
            /\ UNCHANGED <<last, request, routerVars>>
  BY DEF QueueSave
<1> HIDE DEF i
<1>4. q \in Seq(Item) /\ q # <<>> /\ (queue # <<>> => Head(q) = Head(queue))
  BY <1>1, <1>2
<1> HIDE DEF q
<1>5. CASE queue = <<>>
  <2>1. PICK r \in Request : Send(r) /\ SendItem(r, v, q)
    BY <1>3, <1>5
  <2>2. /\ last' \subseteq Change
        /\ request' = [request EXCEPT ![r] = Say("save", v)] /\ request' \in [Request -> Body]
        /\ queue' \in Seq(Item) /\ queue' # <<>> /\ Head(queue').req = r
    BY <1>4, <2>1, SendItemEffect
  <2> QED BY <1>3, <1>5, <2>1, <2>2
<1>6. CASE queue # <<>>
  BY <1>2, <1>3, <1>4, <1>6
<1> QED BY <1>5, <1>6

\* What the reply to the first save does to the queue, once the models are v.
LEMMA NextItemEffect ==
    ASSUME AppTypeOK, NEW q \in Request, NEW v \in Version, NEW s \in SUBSET Change,
           NextItem(q, v, s)
    PROVE  /\ queue # <<>>
           /\ last' \subseteq Change /\ queue' \in Seq(Item) /\ request' \in [Request -> Body]
           /\ \/ /\ Reply(q) /\ queue' = <<>>
                 /\ UNCHANGED request
              \/ \E r \in Request : /\ ReplyAndSend(q, r)
                                    /\ request' = [request EXCEPT ![r] = Say("save", v)]
                                    /\ queue' # <<>> /\ Head(queue').req = r
<1>1. queue \in Seq(Item) /\ request \in [Request -> Body]
  BY DEF AppTypeOK
<1>2. CASE Len(queue) = 1 /\ Reply(q) /\ queue' = <<>> /\ last' = s /\ UNCHANGED request
  <2>1. <<>> \in Seq(Item)
    OBVIOUS
  <2>2. queue # <<>>
    <3>1. Len(queue) # 0
      BY <1>2
    <3> QED BY <3>1, LongerThanEmpty, Zenon
  <2>3. queue' \in Seq(Item) /\ request' \in [Request -> Body] /\ last' \subseteq Change
    BY <1>1, <1>2, <2>1
  <2> QED BY <1>2, <2>2, <2>3
<1>3. CASE Len(queue) > 1 /\ \E r \in Request : ReplyAndSend(q, r) /\ SendItem(r, v, Tail(queue))
  <2>1. PICK r \in Request : ReplyAndSend(q, r) /\ SendItem(r, v, Tail(queue))
    BY <1>3
  <2> DEFINE t == Tail(queue)
  <2>2. t \in Seq(Item) /\ t # <<>> /\ queue # <<>>
    <3>1. queue # <<>>
      BY <1>1, <1>3
    <3>2. t \in Seq(Item) /\ Len(t) = Len(queue) - 1
      BY <1>1, <3>1, HeadTailProperties
    <3>3. Len(t) # 0
      BY <1>1, <1>3, <3>2
    <3>4. t # <<>>
      BY <3>3, LongerThanEmpty, Zenon
    <3> QED BY <3>1, <3>2, <3>4
  <2> HIDE DEF t
  <2>3. SendItem(r, v, t)
    BY <2>1 DEF t
  <2>4. /\ last' \subseteq Change
        /\ request' = [request EXCEPT ![r] = Say("save", v)] /\ request' \in [Request -> Body]
        /\ queue' \in Seq(Item) /\ queue' # <<>> /\ Head(queue').req = r
    BY <2>2, <2>3, SendItemEffect
  <2> QED BY <2>1, <2>2, <2>4
<1> QED BY <1>2, <1>3 DEF NextItem

LEMMA PageKeepsType ==
    ASSUME AppTypeOK, RouterTypeOK,
           \/ \E changed \in BOOLEAN : SaveChanges(changed)
           \/ SaveQuietly \/ AutoSave \/ Leave \/ LoadModels \/ RefreshPage
           \/ ForeignSave \/ Connection
    PROVE  AppTypeOK'
<1>0. /\ saved \in Version /\ last \subseteq Change /\ queue \in Seq(Item)
      /\ announced \subseteq Change /\ disk \in Version
      /\ request \in [Request -> Body] /\ answer \in [Request -> Body]
      /\ changes \in 0..MaxChange /\ MaxChange \in Nat
  BY ChangeAssumption DEF AppTypeOK
<1>1. ASSUME NEW changed \in BOOLEAN, MakeChange(changed)
      PROVE  /\ Changed(changed) \in Version /\ saved' \in Version
             /\ changes' \in 0..MaxChange
             /\ UNCHANGED <<modal, alerted, answer, disk>>
  <2>1. /\ changed => changes < MaxChange
        /\ saved' = Changed(changed)
        /\ changes' = IF changed THEN changes + 1 ELSE changes
        /\ UNCHANGED <<modal, alerted, answer, disk>>
    BY <1>1 DEF MakeChange
  <2>2. Changed(changed) \in Version
    BY <2>1, ChangedIsVersion
  <2>3. changes' \in 0..MaxChange
    BY <1>0, <2>1
  <2> QED BY <2>1, <2>2, <2>3
<1>2. CASE \E changed \in BOOLEAN : SaveChanges(changed)
  <2>1. PICK changed \in BOOLEAN : SaveChanges(changed)
    BY <1>2
  <2> DEFINE v == Changed(changed)
  <2>2. /\ MakeChange(changed)
        /\ \/ NoChanges(v) /\ announced' = announced \union v.data
           \/ QueueSave(v, v.data) /\ UNCHANGED announced
    BY <2>1 DEF SaveChanges
  <2>3. v \in Version /\ saved' \in Version /\ changes' \in 0..MaxChange
        /\ UNCHANGED <<modal, alerted, answer, disk>>
    BY <1>1, <2>2
  <2> HIDE DEF v
  <2>4. v.data \in SUBSET Change
    BY <2>3 DEF Version
  <2>5. CASE NoChanges(v) /\ announced' = announced \union v.data
    BY <2>3, <2>4, <2>5 DEF AppTypeOK, NoChanges
  <2>6. CASE QueueSave(v, v.data) /\ UNCHANGED announced
    <3>1. last' \subseteq Change /\ queue' \in Seq(Item) /\ request' \in [Request -> Body]
      BY <2>3, <2>4, <2>6, QueueSaveEffect
    <3> QED BY <2>3, <2>6, <3>1 DEF AppTypeOK
  <2> QED BY <2>2, <2>5, <2>6
<1>3. CASE SaveQuietly
  <2>1. /\ saved' \in Version /\ changes' \in 0..MaxChange
        /\ UNCHANGED <<modal, alerted, answer, disk>>
    BY <1>1, <1>3 DEF SaveQuietly
  <2> QED BY <1>3, <2>1 DEF SaveQuietly, AppTypeOK
<1>4. CASE AutoSave
  <2>1. QueueSave(saved, {}) /\ UNCHANGED <<saved, modal, alerted, announced, answer, disk, changes>>
    BY <1>4 DEF AutoSave
  <2>2. last' \subseteq Change /\ queue' \in Seq(Item) /\ request' \in [Request -> Body]
    BY <1>0, <2>1, QueueSaveEffect
  <2> QED BY <2>1, <2>2 DEF AppTypeOK
<1>5. CASE Leave
  <2>1. <<>> \in Seq(Item)
    OBVIOUS
  <2> QED BY <1>5, <2>1, SayIsBody DEF Leave, AppTypeOK
<1>6. CASE LoadModels
  <2>1. <<>> \in Seq(Item)
    OBVIOUS
  <2>2. PICK r \in Request : request' = [request EXCEPT ![r] = Say("load", NoVersion)]
    BY <1>6 DEF LoadModels
  <2>3. Say("load", NoVersion) \in Body
    BY SayIsBody
  <2>4. request' \in [Request -> Body]
    BY <1>0, <2>2, <2>3
  <2> QED BY <1>6, <2>1, <2>4 DEF LoadModels, AppTypeOK
<1>7. CASE RefreshPage
  <2>1. <<>> \in Seq(Item)
    OBVIOUS
  <2>2. answer' \in [Request -> Body]
    BY <1>7, SayIsBody DEF RefreshPage
  <2> QED BY <1>7, <2>1, <2>2, SayIsBody DEF RefreshPage, AppTypeOK
<1>8. CASE ForeignSave
  <2>1. changes + 1 \in Change /\ changes' \in 0..MaxChange
    BY <1>0, <1>8 DEF ForeignSave, Change
  <2>2. disk' \in Version
    BY <1>0, <1>8, <2>1 DEF ForeignSave, Version
  <2> QED BY <1>8, <2>1, <2>2 DEF ForeignSave, AppTypeOK
<1>9. CASE Connection
  <2>1. answer' \in [Request -> Body]
    BY <1>0, <1>9, SayIsBody DEF Connection
  <2> QED BY <1>9, <2>1 DEF Connection, AppTypeOK
<1> QED BY <1>2, <1>3, <1>4, <1>5, <1>6, <1>7, <1>8, <1>9

LEMMA ReplyKeepsType ==
    ASSUME AppTypeOK, NEW q \in Request, PageReply(q)
    PROVE  AppTypeOK'
<1>0. /\ saved \in Version /\ last \subseteq Change /\ queue \in Seq(Item)
      /\ announced \subseteq Change
      /\ request \in [Request -> Body] /\ answer \in [Request -> Body]
  BY DEF AppTypeOK
<1>1. answer[q].data \in SUBSET Change /\ answer[q].serial \in Nat
  BY <1>0 DEF Body
<1>2. answer' \in [Request -> Body]
  <2>1. answer' = [answer EXCEPT ![q] = Nothing]
    BY DEF PageReply, ReplyUnknown, Loaded, LoadFailed, Saved, SaveFailed, SaveConflicts, Took
  <2> QED BY <1>0, <2>1, SayIsBody
<1>3. CASE ReplyUnknown(q) \/ LoadFailed(q) \/ SaveConflicts(q)
  BY <1>2, <1>3 DEF ReplyUnknown, LoadFailed, SaveConflicts, AppTypeOK
<1>4. CASE Loaded(q)
  <2>1. saved' \in Version /\ last' \subseteq Change
    BY <1>1, <1>4 DEF Loaded, Version
  <2> QED BY <1>2, <1>4, <2>1 DEF Loaded, AppTypeOK
<1>5. CASE Saved(q)
  <2> DEFINE v == [saved EXCEPT !.serial = answer[q].serial]
             s == answer[q].data
  <2>1. v \in Version
    BY <1>0, <1>1 DEF Version
  <2>2. saved' = v /\ announced' = announced \union Head(queue).announces
        /\ NextItem(q, v, s)
        /\ UNCHANGED <<modal, alerted, disk, changes>>
    BY <1>5 DEF Saved
  <2>3. s \in SUBSET Change
    BY <1>1
  <2> HIDE DEF v, s
  <2>4. /\ queue # <<>>
        /\ last' \subseteq Change /\ queue' \in Seq(Item) /\ request' \in [Request -> Body]
    BY <2>1, <2>2, <2>3, NextItemEffect
  <2>5. Head(queue) \in Item
    BY <1>0, <2>4
  <2>6. announced' \subseteq Change
    BY <1>0, <2>2, <2>5 DEF Item
  <2> QED BY <1>2, <2>1, <2>2, <2>4, <2>6 DEF AppTypeOK
<1>6. CASE SaveFailed(q)
  <2>1. NextItem(q, saved, last) /\ alerted' = TRUE
        /\ UNCHANGED <<saved, modal, announced, disk, changes>>
    BY <1>6 DEF SaveFailed
  <2>2. last' \subseteq Change /\ queue' \in Seq(Item) /\ request' \in [Request -> Body]
    BY <1>0, <2>1, NextItemEffect
  <2> QED BY <1>2, <2>1, <2>2 DEF AppTypeOK
<1> QED BY <1>3, <1>4, <1>5, <1>6 DEF PageReply

LEMMA ServerKeepsType ==
    ASSUME AppTypeOK, NEW m \in Message, ServerTask(m)
    PROVE  AppTypeOK'
<1>0. /\ request \in [Request -> Body] /\ answer \in [Request -> Body]
      /\ disk \in Version /\ m.req \in Request
  BY DEF AppTypeOK, Message
<1>1. ASSUME NEW b \in Body, Answered(m, b), disk' \in Version PROVE AppTypeOK'
  <2>1. answer' \in [Request -> Body]
    BY <1>0, <1>1 DEF Answered
  <2> QED BY <1>1, <2>1 DEF Answered, AppTypeOK
<1>2. CASE SimulationData(m)
  BY <1>0, <1>1, <1>2, SayIsBody DEF SimulationData
<1>3. CASE SaveSimulationJson(m)
  <2>1. disk' = [data |-> request[m.req].data, serial |-> disk.serial + 1]
        /\ Answered(m, Say("ok", disk'))
    BY <1>3 DEF SaveSimulationJson
  <2>2. disk' \in Version
    BY <1>0, <2>1 DEF Version, Body
  <2>3. Say("ok", disk') \in Body
    BY <2>2, SayIsBody
  <2> QED BY <1>1, <2>1, <2>2, <2>3
<1>4. CASE SerialInvalid(m)
  BY <1>0, <1>1, <1>4, SayIsBody DEF SerialInvalid
<1>5. CASE ServerError(m)
  BY <1>0, <1>1, <1>5, SayIsBody DEF ServerError
<1> QED BY <1>2, <1>3, <1>4, <1>5 DEF ServerTask

LEMMA InitTypes == Init => RouterInv /\ AppTypeOK
<1> SUFFICES ASSUME Init PROVE RouterInv /\ AppTypeOK
  OBVIOUS
<1>1. <<>> \in Seq(Item)
  OBVIOUS
<1>2. [data |-> {}, serial |-> 1] \in Version
  BY DEF Version
<1>3. queue \in Seq(Item) /\ disk \in Version
  BY <1>1, <1>2 DEF Init
<1>4. request \in [Request -> Body] /\ answer \in [Request -> Body] /\ saved \in Version
  BY SayIsBody DEF Init
<1>5. changes \in 0..MaxChange
  BY ChangeAssumption DEF Init
<1>6. AppTypeOK
  BY <1>3, <1>4, <1>5 DEF Init, AppTypeOK
<1> QED BY <1>6, RouterInitInv DEF Init

LEMMA StepTypes ==
    ASSUME RouterInv, AppTypeOK, [Next]_vars
    PROVE  RouterInv' /\ AppTypeOK'
<1>1. RouterTypeOK /\ replies \subseteq Request /\ inbox \subseteq Message
  BY DEF RouterInv, RouterTypeOK
<1>2. CASE Next
  <2>1. RouterInv'
    BY <1>2, NextIsRouterNext, RouterNextKeepsInv
  <2>2. AppTypeOK'
    BY <1>1, <1>2, PageKeepsType, ReplyKeepsType, ServerKeepsType DEF Next
  <2> QED BY <2>1, <2>2
<1>3. CASE UNCHANGED vars
  <2>1. RouterInv'
    BY <1>3, RouterNextKeepsInv DEF vars
  <2>2. AppTypeOK'
    BY <1>3 DEF vars, appVars, AppTypeOK
  <2> QED BY <2>1, <2>2
<1> QED BY <1>2, <1>3

(***************************************************************************)
(* Type correctness.                                                       *)
(***************************************************************************)
THEOREM AppStateTypes == Spec => []TypeOK
<1>1. Init => RouterInv /\ AppTypeOK
  BY InitTypes
<1>2. RouterInv /\ AppTypeOK /\ [Next]_vars => RouterInv' /\ AppTypeOK'
  BY StepTypes
<1>3. RouterInv /\ AppTypeOK => TypeOK
  BY DEF RouterInv, AppTypeOK, TypeOK
<1> QED BY <1>1, <1>2, <1>3, PTL DEF Spec

-----------------------------------------------------------------------------
(***************************************************************************)
(* Nothing is overwritten: a version of the models with the serial of the  *)
(* file contains what is in the file, wherever it is.                      *)
(***************************************************************************)
Waits(r) == deferred[r] = "waiting"

\* A version that the server may accept has every change of the file.
Fresh(v) == v.serial <= disk.serial /\ (v.serial = disk.serial => disk.data \subseteq v.data)

AllFresh ==
    /\ disk.serial # 0
    /\ Fresh(saved)
    /\ \A r \in Request : request[r].kind = "save" => Fresh(request[r])
    /\ \A r \in replies : answer[r].kind = "ok" => Fresh(answer[r])

\* The reply to a save has the data that was sent.
OwnAnswer ==
    \A r \in replies : request[r].kind = "save" /\ answer[r].kind = "ok"
                       => answer[r].data = request[r].data

\* The page has every change it still saves.
Contained ==
    \A r \in Request : Waits(r) /\ request[r].kind = "save" => request[r].data \subseteq saved.data

\* Nothing is sent while the models are loaded.
LoadAlone ==
    \A r \in Request : Waits(r) /\ request[r].kind = "load"
                       => saved.serial = 0 /\ \A p \in Request : Waits(p) => p = r

DataInv == AllFresh /\ OwnAnswer /\ Contained /\ LoadAlone

\* The effect of each use of the router on the promises.
LEMMA WaitsEffect ==
    ASSUME RouterInv, NEW r \in Request
    PROVE  /\ Send(r) =>
                /\ deferred[r] = "none" /\ replies' = replies
                /\ \A p \in Request : Waits(p)' <=> p = r \/ Waits(p)
           /\ ClearAndSend(r) =>
                /\ deferred[r] = "none" /\ replies' = replies
                /\ \A p \in Request : Waits(p)' <=> p = r
           /\ \A q \in Request : ReplyAndSend(q, r) =>
                /\ deferred[r] = "none" /\ r # q /\ Waits(q) /\ replies' = replies \ {q}
                /\ \A p \in Request : Waits(p)' <=> p = r \/ (p # q /\ Waits(p))
           /\ Reply(r) =>
                /\ replies' = replies \ {r}
                /\ \A p \in Request : Waits(p)' <=> Waits(p) /\ ~(p = r /\ r \in needReply)
<1>1. /\ deferred \in [Request -> Promise] /\ PendingWaits
  BY DEF RouterInv, RouterTypeOK, Promise
<1>2. ASSUME Send(r)
      PROVE  /\ deferred[r] = "none" /\ replies' = replies
             /\ \A p \in Request : Waits(p)' <=> p = r \/ Waits(p)
  BY <1>1, <1>2 DEF Send, Push, Waits
<1>3. ASSUME ClearAndSend(r)
      PROVE  /\ deferred[r] = "none" /\ replies' = replies
             /\ \A p \in Request : Waits(p)' <=> p = r
  <2>1. /\ Dropped[r] = "none" /\ replies' = replies
        /\ deferred' = [Dropped EXCEPT ![r] = "waiting"]
    BY <1>3 DEF ClearAndSend, Push
  <2>2. /\ DOMAIN Dropped = Request
        /\ \A p \in Request : Dropped[p] # "waiting" /\ (Dropped[p] = "none" => deferred[p] = "none")
    BY <1>1 DEF Dropped
  <2> QED BY <2>1, <2>2 DEF Waits
<1>4. ASSUME NEW q \in Request, ReplyAndSend(q, r)
      PROVE  /\ deferred[r] = "none" /\ r # q /\ Waits(q) /\ replies' = replies \ {q}
             /\ \A p \in Request : Waits(p)' <=> p = r \/ (p # q /\ Waits(p))
  <2> DEFINE d == [deferred EXCEPT ![q] = "done"]
  <2>1. d[r] = "none" /\ deferred' = [d EXCEPT ![r] = "waiting"]
        /\ q \in needReply /\ replies' = replies \ {q}
    BY <1>4 DEF ReplyAndSend, Push
  <2>2. \A p \in Request : d[p] = IF p = q THEN "done" ELSE deferred[p]
    BY <1>1
  <2>3. DOMAIN d = Request
    BY <1>1
  <2> HIDE DEF d
  <2>4. Waits(q)
    BY <1>1, <2>1 DEF PendingWaits, Pending, Waits
  <2> QED BY <2>1, <2>2, <2>3, <2>4 DEF Waits
<1>5. ASSUME Reply(r)
      PROVE  /\ replies' = replies \ {r}
             /\ \A p \in Request : Waits(p)' <=> Waits(p) /\ ~(p = r /\ r \in needReply)
  BY <1>1, <1>5 DEF Reply, Waits
<1> QED BY <1>2, <1>3, <1>4, <1>5

\* Steps that send nothing and leave the file alone.
LEMMA QuietKeepsData ==
    ASSUME RouterInv, RouterInv', DataInv,
           \A p \in Request : Waits(p)' => Waits(p),
           replies' \subseteq replies, disk' = disk, request' = request,
           \A p \in replies' : answer'[p] = answer[p],
           Fresh(saved)',
           \/ \A p \in Request : ~Waits(p)'
           \/ /\ saved.data \subseteq saved'.data
              /\ \/ saved'.serial = saved.serial
                 \/ \A p \in Request : Waits(p)' => request[p].kind # "load"
    PROVE  DataInv'
<1>1. replies' \subseteq Request
  BY DEF RouterInv, RouterTypeOK
<1>2. AllFresh'
  <2>1. ASSUME NEW p \in Request, request'[p].kind = "save" PROVE Fresh(request[p])'
    BY <2>1 DEF DataInv, AllFresh, Fresh
  <2>2. ASSUME NEW p \in replies', answer'[p].kind = "ok" PROVE Fresh(answer[p])'
    BY <2>2 DEF DataInv, AllFresh, Fresh
  <2>3. disk'.serial # 0
    BY DEF DataInv, AllFresh
  <2> QED BY <2>1, <2>2, <2>3 DEF AllFresh
<1>3. OwnAnswer'
  BY DEF DataInv, OwnAnswer
<1>4. Contained'
  BY DEF DataInv, Contained
<1>5. LoadAlone'
  BY DEF DataInv, LoadAlone
<1> QED BY <1>2, <1>3, <1>4, <1>5 DEF DataInv

\* A save of the page's models v is sent as r.
LEMMA SendKeepsData ==
    ASSUME AppTypeOK, RouterInv, RouterInv', DataInv, NEW r \in Request, NEW v \in Version,
           deferred[r] = "none",
           request' = [request EXCEPT ![r] = Say("save", v)],
           \A p \in Request : Waits(p)' => p = r \/ Waits(p),
           \A p \in Request : Waits(p) => request[p].kind # "load",
           replies' \subseteq replies, disk' = disk,
           \A p \in replies' : answer'[p] = answer[p],
           Fresh(v), saved' = v, saved.data \subseteq v.data
    PROVE  DataInv'
<1>0. request \in [Request -> Body]
  BY DEF AppTypeOK
<1>1. replies' \subseteq Request /\ r \notin replies'
  BY DEF RouterInv, RouterTypeOK, Begun
<1>2. /\ \A p \in Request : p # r => request'[p] = request[p]
      /\ request'[r].kind = "save" /\ request'[r].data = v.data /\ request'[r].serial = v.serial
  BY <1>0, SayIsBody
<1>3. AllFresh'
  <2>1. ASSUME NEW p \in Request, request'[p].kind = "save" PROVE Fresh(request[p])'
    <3>1. CASE p = r
      BY <1>2, <3>1 DEF Fresh
    <3>2. CASE p # r
      BY <1>2, <2>1, <3>2 DEF DataInv, AllFresh, Fresh
    <3> QED BY <3>1, <3>2
  <2>2. ASSUME NEW p \in replies', answer'[p].kind = "ok" PROVE Fresh(answer[p])'
    BY <2>2 DEF DataInv, AllFresh, Fresh
  <2>3. Fresh(saved)'
    BY DEF Fresh
  <2>4. disk'.serial # 0
    BY DEF DataInv, AllFresh
  <2> QED BY <2>1, <2>2, <2>3, <2>4 DEF AllFresh
<1>4. OwnAnswer'
  BY <1>1, <1>2 DEF DataInv, OwnAnswer
<1>5. Contained'
  <2> SUFFICES ASSUME NEW p \in Request, Waits(p)', request'[p].kind = "save"
               PROVE  request'[p].data \subseteq saved'.data
    BY DEF Contained
  <2>1. CASE p = r
    BY <1>2, <2>1
  <2>2. CASE p # r
    BY <1>2, <2>2 DEF DataInv, Contained
  <2> QED BY <2>1, <2>2
<1>6. LoadAlone'
  BY <1>2 DEF LoadAlone
<1> QED BY <1>3, <1>4, <1>5, <1>6 DEF DataInv

\* A save is queued, with the models v: sent at once, or nothing happens to the router.
LEMMA QueueSaveKeepsData ==
    ASSUME AppTypeOK, RouterInv, RouterInv', DataInv, NEW v \in Version, NEW a \in SUBSET Change,
           QueueSave(v, a),
           IsLoaded, saved' = v, saved.data \subseteq v.data, v.serial = saved.serial,
           UNCHANGED <<answer, disk>>
    PROVE  DataInv'
<1>1. Fresh(v) /\ Fresh(saved)'
  BY DEF DataInv, AllFresh, Fresh
<1>2. \A p \in Request : Waits(p) => request[p].kind # "load"
  BY DEF DataInv, LoadAlone, IsLoaded
<1>3. CASE \E r \in Request : Send(r) /\ request' = [request EXCEPT ![r] = Say("save", v)]
  <2>1. PICK r \in Request : Send(r) /\ request' = [request EXCEPT ![r] = Say("save", v)]
    BY <1>3
  <2>2. /\ deferred[r] = "none" /\ replies' = replies
        /\ \A p \in Request : Waits(p)' <=> p = r \/ Waits(p)
    BY <2>1, WaitsEffect
  <2> QED BY <1>1, <1>2, <2>1, <2>2, SendKeepsData
<1>4. CASE UNCHANGED <<request, routerVars>>
  <2>1. /\ replies' = replies /\ request' = request
        /\ \A p \in Request : Waits(p)' <=> Waits(p)
    BY <1>4 DEF routerVars, pageVars, Waits
  <2> QED BY <1>1, <2>1, QuietKeepsData
<1> QED BY <1>3, <1>4, QueueSaveEffect

LEMMA PageKeepsData ==
    ASSUME AppTypeOK, RouterInv, RouterInv', DataInv,
           \/ \E changed \in BOOLEAN : SaveChanges(changed)
           \/ SaveQuietly \/ AutoSave \/ Leave \/ LoadModels \/ RefreshPage \/ Connection
    PROVE  DataInv'
<1>0. saved \in Version
  BY DEF AppTypeOK
<1>1. ASSUME NEW changed \in BOOLEAN, MakeChange(changed)
      PROVE  /\ saved' = Changed(changed) /\ saved' \in Version /\ IsLoaded
             /\ saved.data \subseteq saved'.data /\ saved'.serial = saved.serial
             /\ UNCHANGED <<answer, disk>>
             /\ Fresh(saved)'
  <2>1. /\ saved' = Changed(changed) /\ IsLoaded /\ (changed => changes < MaxChange)
        /\ UNCHANGED <<answer, disk>>
    BY <1>1 DEF MakeChange
  <2>2. /\ Changed(changed) \in Version /\ saved.data \subseteq Changed(changed).data
        /\ Changed(changed).serial = saved.serial
    BY <2>1, ChangedIsVersion
  <2> QED BY <2>1, <2>2 DEF DataInv, AllFresh, Fresh
<1>2. CASE \E changed \in BOOLEAN : SaveChanges(changed)
  <2>1. PICK changed \in BOOLEAN : SaveChanges(changed)
    BY <1>2
  <2> DEFINE v == Changed(changed)
  <2>2. MakeChange(changed) /\ (NoChanges(v) \/ QueueSave(v, v.data))
    BY <2>1 DEF SaveChanges
  <2>3. /\ saved' = v /\ saved' \in Version /\ IsLoaded
        /\ saved.data \subseteq saved'.data /\ saved'.serial = saved.serial
        /\ UNCHANGED <<answer, disk>>
        /\ Fresh(saved)'
    BY <1>1, <2>2
  <2> HIDE DEF v
  <2>4. CASE NoChanges(v)
    <3>1. /\ replies' = replies /\ request' = request
          /\ \A p \in Request : Waits(p)' <=> Waits(p)
      BY <2>4 DEF NoChanges, routerVars, pageVars, Waits
    <3> QED BY <2>3, <3>1, QuietKeepsData
  <2>5. CASE QueueSave(v, v.data)
    <3>1. v \in Version /\ v.data \in SUBSET Change
      BY <2>3 DEF Version
    <3> QED BY <2>3, <2>5, <3>1, QueueSaveKeepsData
  <2> QED BY <2>2, <2>4, <2>5
<1>3. CASE SaveQuietly
  <2>1. MakeChange(TRUE) /\ UNCHANGED <<request, routerVars>>
    BY <1>3 DEF SaveQuietly
  <2>2. /\ saved.data \subseteq saved'.data /\ saved'.serial = saved.serial
        /\ UNCHANGED <<answer, disk>>
        /\ Fresh(saved)'
    BY <1>1, <2>1
  <2>3. /\ replies' = replies /\ request' = request
        /\ \A p \in Request : Waits(p)' <=> Waits(p)
    BY <2>1 DEF routerVars, pageVars, Waits
  <2> QED BY <2>2, <2>3, QuietKeepsData
<1>4. CASE AutoSave
  <2>1. QueueSave(saved, {}) /\ IsLoaded /\ UNCHANGED <<saved, answer, disk>>
    BY <1>4 DEF AutoSave
  <2>2. {} \in SUBSET Change /\ saved' = saved /\ saved.data \subseteq saved.data
    BY <2>1
  <2> QED BY <1>0, <2>1, <2>2, QueueSaveKeepsData
<1>5. CASE Leave
  <2>1. /\ replies' = replies /\ UNCHANGED <<request, answer, disk>> /\ saved' = NoVersion
        /\ \A p \in Request : ~Waits(p)'
    BY <1>5 DEF Leave, ClearModels, Dropped, Waits
  <2>2. Fresh(saved)'
    BY <2>1 DEF DataInv, AllFresh, Fresh, NoVersion, AppTypeOK, Version
  <2> QED BY <2>1, <2>2, QuietKeepsData
<1>6. CASE LoadModels
  <2>1. /\ ~IsLoaded /\ UNCHANGED <<saved, answer, disk>>
    BY <1>6 DEF LoadModels
  <2>2. PICK r \in Request : ClearAndSend(r)
                             /\ request' = [request EXCEPT ![r] = Say("load", NoVersion)]
    BY <1>6 DEF LoadModels
  <2>3. /\ deferred[r] = "none" /\ replies' = replies
        /\ \A p \in Request : Waits(p)' <=> p = r
    BY <2>2, WaitsEffect
  <2>4. /\ \A p \in Request : p # r => request'[p] = request[p]
        /\ request'[r].kind = "load"
    BY <2>2, SayIsBody DEF AppTypeOK
  <2>5. replies' \subseteq Request /\ r \notin replies
    BY <2>3 DEF RouterInv, RouterTypeOK, Begun
  <2>6. AllFresh'
    BY <2>1, <2>3, <2>4 DEF DataInv, AllFresh, Fresh
  <2>7. OwnAnswer'
    BY <2>1, <2>3, <2>4, <2>5 DEF DataInv, OwnAnswer
  <2>8. Contained' /\ LoadAlone'
    BY <2>1, <2>3, <2>4 DEF Contained, LoadAlone, IsLoaded
  <2> QED BY <2>6, <2>7, <2>8 DEF DataInv
<1>7. CASE RefreshPage
  <2>1. /\ replies' = {} /\ UNCHANGED <<request, disk>> /\ saved' = NoVersion
        /\ \A p \in Request : ~Waits(p)'
    BY <1>7 DEF RefreshPage, Reload, Waits
  <2>2. Fresh(saved)'
    BY <2>1 DEF DataInv, AllFresh, Fresh, NoVersion, AppTypeOK, Version
  <2> QED BY <2>1, <2>2, QuietKeepsData
<1>8. CASE Connection
  <2>1. /\ UNCHANGED <<saved, request, disk, deferred>>
        /\ \/ replies' = replies /\ answer' = answer
           \/ replies' = {}
    BY <1>8 DEF Connection, SocketOnOpen, RetryTimer, SocketError
  <2>2. Fresh(saved)' /\ \A p \in Request : Waits(p)' <=> Waits(p)
    BY <2>1 DEF DataInv, AllFresh, Fresh, Waits
  <2> QED BY <2>1, <2>2, QuietKeepsData
<1> QED BY <1>2, <1>3, <1>4, <1>5, <1>6, <1>7, <1>8

LEMMA ReplyKeepsData ==
    ASSUME AppTypeOK, RouterInv, RouterInv', DataInv, NEW q \in Request, q \in replies, PageReply(q)
    PROVE  DataInv'
<1>0. /\ request \in [Request -> Body] /\ answer \in [Request -> Body]
      /\ saved \in Version /\ Fresh(saved) /\ disk' = disk
  BY DEF AppTypeOK, DataInv, AllFresh, PageReply, ReplyUnknown, Loaded, LoadFailed, Saved, SaveFailed,
         SaveConflicts
<1>1. \A p \in Request : p # q => answer'[p] = answer[p]
  <2>1. answer' = [answer EXCEPT ![q] = Nothing]
    BY DEF PageReply, ReplyUnknown, Loaded, LoadFailed, Saved, SaveFailed, SaveConflicts, Took
  <2> QED BY <1>0, <2>1
<1>2. ASSUME Reply(q), UNCHANGED request, Fresh(saved)',
             \/ UNCHANGED saved
             \/ /\ saved.data \subseteq saved'.data
                /\ \A p \in Request : Waits(p)' => request[p].kind # "load"
             \/ \A p \in Request : ~Waits(p)'
      PROVE  DataInv'
  <2>1. /\ replies' = replies \ {q} /\ replies' \subseteq Request
        /\ \A p \in Request : Waits(p)' => Waits(p)
    BY <1>2, WaitsEffect DEF RouterInv, RouterTypeOK
  <2>2. \A p \in replies' : answer'[p] = answer[p]
    BY <1>1, <2>1
  <2> QED BY <1>0, <1>2, <2>1, <2>2, QuietKeepsData
<1>3. ASSUME NEW v \in Version, NEW s \in SUBSET Change, NextItem(q, v, s), saved' = v,
             saved.data \subseteq v.data, Fresh(v),
             Waits(q), request[q].kind = "save"
      PROVE  DataInv'
  <2>1. \A p \in Request : Waits(p) => request[p].kind # "load"
    BY <1>3 DEF DataInv, LoadAlone
  <2>2. CASE Reply(q) /\ UNCHANGED request
    <3>1. Fresh(saved)'
      BY <1>0, <1>3 DEF Fresh
    <3>2. \A p \in Request : Waits(p)' => request[p].kind # "load"
      BY <2>1, <2>2, WaitsEffect
    <3> QED BY <1>2, <1>3, <2>2, <3>1, <3>2
  <2>3. CASE \E r \in Request : ReplyAndSend(q, r) /\ request' = [request EXCEPT ![r] = Say("save", v)]
    <3>1. PICK r \in Request : ReplyAndSend(q, r) /\ request' = [request EXCEPT ![r] = Say("save", v)]
      BY <2>3
    <3>2. /\ deferred[r] = "none" /\ replies' = replies \ {q} /\ replies' \subseteq Request
          /\ \A p \in Request : Waits(p)' => p = r \/ Waits(p)
      BY <3>1, WaitsEffect DEF RouterInv, RouterTypeOK
    <3>3. \A p \in replies' : answer'[p] = answer[p]
      BY <1>1, <3>2
    <3> QED BY <1>0, <1>3, <2>1, <3>1, <3>2, <3>3, SendKeepsData
  <2> QED BY <1>3, <2>2, <2>3, NextItemEffect
<1>4. q \in needReply => Waits(q)
  BY DEF RouterInv, PendingWaits, Pending, Waits
<1>5. CASE ReplyUnknown(q) \/ LoadFailed(q) \/ SaveConflicts(q)
  <2>1. Reply(q) /\ UNCHANGED <<request, saved>>
    BY <1>5 DEF ReplyUnknown, LoadFailed, SaveConflicts
  <2>2. Fresh(saved)'
    BY <1>0, <2>1 DEF Fresh
  <2> QED BY <1>2, <2>1, <2>2
<1>6. CASE Loaded(q)
  <2>1. /\ Reply(q) /\ UNCHANGED request /\ q \in needReply
        /\ request[q].kind = "load" /\ answer[q].kind = "ok"
        /\ saved' = [data |-> answer[q].data, serial |-> answer[q].serial]
    BY <1>6 DEF Loaded
  <2>2. Fresh(saved)'
    BY <1>0, <2>1 DEF DataInv, AllFresh, Fresh
  <2>3. \A p \in Request : ~Waits(p)'
    BY <1>4, <2>1, WaitsEffect DEF DataInv, LoadAlone
  <2> QED BY <1>2, <2>1, <2>2, <2>3
<1>7. CASE Saved(q)
  <2> DEFINE v == [saved EXCEPT !.serial = answer[q].serial]
             s == answer[q].data
  <2>1. /\ q \in needReply /\ request[q].kind = "save" /\ answer[q].kind = "ok"
        /\ saved' = v /\ NextItem(q, v, s)
    BY <1>7 DEF Saved
  <2>2. s \in SUBSET Change /\ answer[q].serial \in Nat
    BY <1>0 DEF Body
  <2>3. v \in Version /\ v.data = saved.data /\ v.serial = answer[q].serial
    BY <1>0, <2>2 DEF Version
  <2> HIDE DEF v
  <2>4. Fresh(answer[q]) /\ s = request[q].data /\ request[q].data \subseteq saved.data
    BY <1>4, <2>1 DEF DataInv, AllFresh, OwnAnswer, Contained
  <2>5. Fresh(v)
    BY <2>3, <2>4 DEF Fresh
  <2> QED BY <1>3, <1>4, <2>1, <2>2, <2>3, <2>5
<1>8. CASE SaveFailed(q)
  <2>1. /\ q \in needReply /\ request[q].kind = "save"
        /\ saved' = saved /\ NextItem(q, saved, last) /\ last \in SUBSET Change
    BY <1>8 DEF SaveFailed, AppTypeOK
  <2> QED BY <1>0, <1>3, <1>4, <2>1
<1> QED BY <1>5, <1>6, <1>7, <1>8 DEF PageReply

\* The file gets a later serial: every version that is kept is too old to be accepted, but the
\* answer to the request that changed it.
LEMMA DiskKeepsData ==
    ASSUME AppTypeOK, AppTypeOK', RouterInv, DataInv,
           disk'.serial = disk.serial + 1,
           UNCHANGED <<saved, request, deferred>>,
           \A r \in replies' : \/ r \in replies /\ answer'[r] = answer[r]
                               \/ /\ answer'[r] = Say("ok", disk')
                                  /\ request[r].kind = "save" /\ request[r].data = disk'.data
    PROVE  DataInv'
<1>0. /\ disk.serial \in Nat /\ disk' \in Version /\ saved.serial \in Nat
      /\ \A r \in Request : request[r].serial \in Nat /\ answer[r].serial \in Nat
  BY DEF AppTypeOK, Version, Body
<1>1. ASSUME NEW v, v.serial \in Nat, v.serial <= disk.serial
      PROVE  v.serial <= disk'.serial /\ v.serial # disk'.serial
  BY <1>0, <1>1
<1>2. replies \subseteq Request
  BY DEF RouterInv, RouterTypeOK
<1>3. Say("ok", disk').kind = "ok" /\ Say("ok", disk').serial = disk'.serial
      /\ Say("ok", disk').data = disk'.data
  BY <1>0, SayIsBody
<1>4. AllFresh'
  <2>1. Fresh(saved)' /\ disk'.serial # 0
    BY <1>0, <1>1 DEF DataInv, AllFresh, Fresh
  <2>2. ASSUME NEW r \in Request, request'[r].kind = "save" PROVE Fresh(request[r])'
    BY <1>0, <1>1, <2>2 DEF DataInv, AllFresh, Fresh
  <2>3. ASSUME NEW r \in replies', answer'[r].kind = "ok" PROVE Fresh(answer[r])'
    <3>1. CASE r \in replies /\ answer'[r] = answer[r]
      BY <1>0, <1>1, <1>2, <2>3, <3>1 DEF DataInv, AllFresh, Fresh
    <3>2. CASE answer'[r] = Say("ok", disk')
      BY <1>0, <1>3, <3>2 DEF Fresh
    <3> QED BY <3>1, <3>2
  <2> QED BY <2>1, <2>2, <2>3 DEF AllFresh
<1>5. OwnAnswer'
  BY <1>3 DEF DataInv, OwnAnswer
<1>6. Contained' /\ LoadAlone'
  BY DEF DataInv, Contained, LoadAlone, Waits
<1> QED BY <1>4, <1>5, <1>6 DEF DataInv

LEMMA ServerKeepsData ==
    ASSUME AppTypeOK, AppTypeOK', RouterInv, DataInv, NEW m \in Message, ServerTask(m)
    PROVE  DataInv' /\ disk.data \subseteq disk'.data
<1>0. /\ request \in [Request -> Body] /\ answer \in [Request -> Body]
      /\ disk \in Version /\ m.req \in Request
      /\ replies \subseteq Request
      /\ UNCHANGED <<saved, request, deferred>>
  BY DEF AppTypeOK, Message, RouterInv, RouterTypeOK, ServerTask, SimulationData, SaveSimulationJson,
         SerialInvalid, ServerError, Answered, Handled, pageVars
<1>1. ASSUME NEW b, Answered(m, b)
      PROVE  \A r \in replies' : \/ r \in replies /\ answer'[r] = answer[r]
                                 \/ r = m.req /\ answer'[r] = b
  <2>1. /\ replies' = IF m.on = failures THEN replies \union {m.req} ELSE replies
        /\ answer' = IF m.on = failures THEN [answer EXCEPT ![m.req] = b] ELSE answer
    BY <1>1 DEF Answered, Handled
  <2> QED BY <1>0, <2>1
<1>2. ASSUME disk' = disk, NEW b \in Body, Answered(m, b),
             b.kind = "ok" => Fresh(b) /\ request[m.req].kind # "save"
      PROVE  DataInv'
  <2>1. AllFresh'
    <3>1. ASSUME NEW r \in replies', answer'[r].kind = "ok" PROVE Fresh(answer[r])'
      <4>1. Fresh(answer'[r])
        BY <1>1, <1>2, <3>1 DEF DataInv, AllFresh
      <4> QED BY <1>2, <4>1 DEF Fresh
    <3> QED BY <1>0, <1>2, <3>1 DEF DataInv, AllFresh, Fresh
  <2>2. OwnAnswer'
    BY <1>0, <1>1, <1>2 DEF DataInv, OwnAnswer
  <2>3. Contained' /\ LoadAlone'
    BY <1>0 DEF DataInv, Contained, LoadAlone, Waits
  <2> QED BY <2>1, <2>2, <2>3 DEF DataInv
<1>3. CASE SimulationData(m)
  <2>1. /\ request[m.req].kind = "load" /\ disk' = disk
        /\ Answered(m, Say("ok", disk))
    BY <1>3 DEF SimulationData
  <2>2. Say("ok", disk) \in Body /\ Fresh(Say("ok", disk))
    <3>1. Say("ok", disk).serial = disk.serial /\ Say("ok", disk).data = disk.data
      BY <1>0, SayIsBody
    <3> QED BY <1>0, <3>1, SayIsBody DEF Fresh, Version
  <2> QED BY <1>2, <2>1, <2>2
<1>4. CASE SaveSimulationJson(m)
  <2>1. /\ request[m.req].kind = "save" /\ request[m.req].serial = disk.serial
        /\ disk' = [data |-> request[m.req].data, serial |-> disk.serial + 1]
        /\ Answered(m, Say("ok", disk'))
    BY <1>4 DEF SaveSimulationJson
  <2>2. disk.data \subseteq disk'.data
    BY <1>0, <2>1 DEF DataInv, AllFresh, Fresh
  <2> QED BY <1>0, <1>1, <2>1, <2>2, DiskKeepsData
<1>5. CASE SerialInvalid(m) \/ ServerError(m)
  <2>1. PICK kind \in {"conflict", "error"} : disk' = disk /\ Answered(m, Say(kind, NoVersion))
    BY <1>5 DEF SerialInvalid, ServerError
  <2>2. Say(kind, NoVersion) \in Body /\ Say(kind, NoVersion).kind # "ok"
    BY SayIsBody
  <2> QED BY <1>2, <2>1, <2>2
<1> QED BY <1>3, <1>4, <1>5 DEF ServerTask

LEMMA NextKeepsData ==
    ASSUME AppTypeOK, AppTypeOK', RouterInv, RouterInv', DataInv, Next
    PROVE  DataInv' /\ disk.data \subseteq disk'.data
<1>0. replies \subseteq Request /\ inbox \subseteq Message
  BY DEF RouterInv, RouterTypeOK
<1>1. CASE \/ \E changed \in BOOLEAN : SaveChanges(changed)
           \/ SaveQuietly \/ AutoSave \/ Leave \/ LoadModels \/ RefreshPage \/ Connection
  <2>1. disk' = disk
    BY <1>1 DEF SaveChanges, MakeChange, SaveQuietly, AutoSave, Leave, LoadModels, RefreshPage,
                Connection
  <2> QED BY <1>1, <2>1, PageKeepsData
<1>2. CASE \E q \in replies : PageReply(q)
  <2>1. disk' = disk
    BY <1>2 DEF PageReply, ReplyUnknown, Loaded, LoadFailed, Saved, SaveFailed, SaveConflicts
  <2> QED BY <1>0, <1>2, <2>1, ReplyKeepsData
<1>3. CASE \E m \in inbox : ServerTask(m)
  BY <1>0, <1>3, ServerKeepsData
<1>4. CASE ForeignSave
  <2>1. /\ disk' = [data |-> disk.data \union {changes + 1}, serial |-> disk.serial + 1]
        /\ UNCHANGED <<saved, request, deferred, replies, answer>>
    BY <1>4 DEF ForeignSave, routerVars, pageVars
  <2> QED BY <2>1, DiskKeepsData
<1> QED BY <1>1, <1>2, <1>3, <1>4 DEF Next

-----------------------------------------------------------------------------
(***************************************************************************)
(* The queue of saves.                                                     *)
(***************************************************************************)
WaitingSave(r) == Waits(r) /\ request[r].kind = "save"

\* FirstWaits, element by element.
QueueWaits ==
    \A r \in Request : WaitingSave(r) <=> queue # <<>> /\ ~modal /\ r = Head(queue).req

\* The first item has been sent.
HeadSent == queue # <<>> => Head(queue).req \in Request

\* Only a save conflicts.
ConflictOfSave == \A r \in replies : answer[r].kind = "conflict" => request[r].kind = "save"

\* Under the modal nothing changes: there is nothing to save.
ModalSettled == modal /\ queue = <<>> /\ IsLoaded => last = saved.data

QueueInv == QueueWaits /\ HeadSent /\ ConflictOfSave /\ ModalSettled

\* The replies that are left are to the same requests as before.
LEMMA ConflictsKept ==
    ASSUME RouterInv, QueueInv, replies' \subseteq replies,
           \A p \in replies' : answer'[p] = answer[p] /\ request'[p] = request[p]
    PROVE  ConflictOfSave'
  BY DEF QueueInv, ConflictOfSave

LEMMA QueueSaveKeepsQueue ==
    ASSUME AppTypeOK, RouterInv, QueueInv, NEW v \in Version, NEW a \in SUBSET Change,
           QueueSave(v, a),
           IsLoaded, modal /\ queue = <<>> => last = v.data,
           UNCHANGED <<modal, answer>>
    PROVE  QueueInv'
<1>0. request \in [Request -> Body]
  BY DEF AppTypeOK
<1>1. CASE /\ queue = <<>> /\ queue' # <<>>
           /\ \E r \in Request : /\ Send(r)
                                 /\ request' = [request EXCEPT ![r] = Say("save", v)]
                                 /\ Head(queue').req = r
  <2>1. PICK r \in Request : /\ Send(r)
                             /\ request' = [request EXCEPT ![r] = Say("save", v)]
                             /\ Head(queue').req = r
    BY <1>1
  <2>2. /\ deferred[r] = "none" /\ replies' = replies /\ r \notin replies
        /\ \A p \in Request : Waits(p)' <=> p = r \/ Waits(p)
    BY <2>1, WaitsEffect DEF RouterInv, Begun
  <2>3. \A p \in Request : request'[p].kind = IF p = r THEN "save" ELSE request[p].kind
    BY <1>0, <2>1, SayIsBody
  <2>4. ~modal
    BY <1>1, QueueSaveEffect
  <2>5. QueueWaits' /\ HeadSent' /\ ModalSettled'
    BY <1>1, <2>1, <2>2, <2>3, <2>4 DEF QueueInv, QueueWaits, HeadSent, ModalSettled, WaitingSave
  <2>6. \A p \in replies' : request'[p] = request[p]
    BY <1>0, <2>1, <2>2
  <2>7. ConflictOfSave'
    BY <2>2, <2>6, ConflictsKept
  <2> QED BY <2>5, <2>7 DEF QueueInv
<1>2. CASE /\ queue # <<>> /\ queue' # <<>>
           /\ Head(queue') = Head(queue)
           /\ UNCHANGED <<last, request, routerVars>>
  BY <1>2 DEF QueueInv, QueueWaits, HeadSent, ConflictOfSave, ModalSettled, WaitingSave, Waits,
              routerVars, pageVars
<1> QED BY <1>1, <1>2, QueueSaveEffect

LEMMA PageKeepsQueue ==
    ASSUME AppTypeOK, RouterInv, QueueInv,
           \/ \E changed \in BOOLEAN : SaveChanges(changed)
           \/ SaveQuietly \/ AutoSave \/ Leave \/ LoadModels \/ RefreshPage
           \/ ForeignSave \/ Connection
    PROVE  QueueInv'
<1>0. saved \in Version
  BY DEF AppTypeOK
<1>1. ASSUME UNCHANGED <<queue, modal, request, deferred, replies, answer>>, ModalSettled'
      PROVE  QueueInv'
  BY <1>1 DEF QueueInv, QueueWaits, HeadSent, ConflictOfSave, WaitingSave, Waits
<1>2. CASE \E changed \in BOOLEAN : SaveChanges(changed)
  <2>1. PICK changed \in BOOLEAN : SaveChanges(changed)
    BY <1>2
  <2> DEFINE v == Changed(changed)
  <2>2. /\ ~modal /\ IsLoaded /\ (changed => changes < MaxChange)
        /\ UNCHANGED <<modal, answer>>
        /\ NoChanges(v) \/ QueueSave(v, v.data)
    BY <2>1 DEF SaveChanges, MakeChange
  <2>3. v \in Version
    BY <2>2, ChangedIsVersion
  <2> HIDE DEF v
  <2>4. CASE NoChanges(v)
    BY <1>1, <2>2, <2>4 DEF NoChanges, ModalSettled, routerVars, pageVars
  <2>5. CASE QueueSave(v, v.data)
    <3>1. v.data \in SUBSET Change
      BY <2>3 DEF Version
    <3> QED BY <2>2, <2>3, <2>5, <3>1, QueueSaveKeepsQueue
  <2> QED BY <2>2, <2>4, <2>5
<1>3. CASE SaveQuietly
  BY <1>1, <1>3 DEF SaveQuietly, MakeChange, ModalSettled, routerVars, pageVars
<1>4. CASE AutoSave
  <2>1. /\ QueueSave(saved, {}) /\ IsLoaded /\ UNCHANGED <<modal, answer>>
        /\ {} \in SUBSET Change
    BY <1>4 DEF AutoSave
  <2> QED BY <1>0, <2>1, QueueSaveKeepsQueue DEF QueueInv, ModalSettled
<1>5. CASE Leave
  <2>1. /\ queue' = <<>> /\ ~IsLoaded' /\ replies' = replies /\ UNCHANGED <<request, answer>>
        /\ \A p \in Request : ~Waits(p)'
    BY <1>5 DEF Leave, ClearModels, Dropped, Waits, IsLoaded, NoVersion
  <2> QED BY <2>1 DEF QueueInv, QueueWaits, HeadSent, ConflictOfSave, ModalSettled, WaitingSave
<1>6. CASE LoadModels
  <2>1. /\ queue' = <<>> /\ ~IsLoaded' /\ UNCHANGED answer
    BY <1>6 DEF LoadModels, IsLoaded
  <2>2. PICK r \in Request : ClearAndSend(r)
                             /\ request' = [request EXCEPT ![r] = Say("load", NoVersion)]
    BY <1>6 DEF LoadModels
  <2>3. /\ deferred[r] = "none" /\ replies' = replies /\ r \notin replies
        /\ \A p \in Request : Waits(p)' <=> p = r
    BY <2>2, WaitsEffect DEF RouterInv, Begun
  <2>4. /\ \A p \in Request : p # r => request'[p] = request[p]
        /\ request'[r].kind = "load"
    BY <2>2, SayIsBody DEF AppTypeOK
  <2>5. QueueWaits' /\ HeadSent' /\ ModalSettled'
    BY <2>1, <2>3, <2>4 DEF QueueWaits, HeadSent, ModalSettled, WaitingSave
  <2>6. \A p \in replies' : request'[p] = request[p] /\ answer'[p] = answer[p]
    BY <2>1, <2>3, <2>4 DEF RouterInv, RouterTypeOK
  <2>7. ConflictOfSave'
    BY <2>3, <2>6, ConflictsKept
  <2> QED BY <2>5, <2>7 DEF QueueInv
<1>7. CASE RefreshPage
  <2>1. /\ queue' = <<>> /\ modal' = FALSE /\ replies' = {}
        /\ \A p \in Request : ~Waits(p)'
    BY <1>7 DEF RefreshPage, Reload, Waits
  <2> QED BY <2>1 DEF QueueInv, QueueWaits, HeadSent, ConflictOfSave, ModalSettled, WaitingSave
<1>8. CASE ForeignSave
  BY <1>1, <1>8 DEF ForeignSave, QueueInv, ModalSettled, IsLoaded, routerVars, pageVars
<1>9. CASE Connection
  <2>1. /\ UNCHANGED <<saved, last, queue, modal, request, deferred>>
        /\ \/ replies' = replies /\ answer' = answer
           \/ replies' = {}
    BY <1>9 DEF Connection, SocketOnOpen, RetryTimer, SocketError
  <2> QED BY <2>1 DEF QueueInv, QueueWaits, HeadSent, ConflictOfSave, ModalSettled, WaitingSave, Waits,
                      IsLoaded
<1> QED BY <1>2, <1>3, <1>4, <1>5, <1>6, <1>7, <1>8, <1>9

LEMMA ReplyKeepsQueue ==
    ASSUME AppTypeOK, RouterInv, QueueInv, NEW q \in Request, q \in replies, PageReply(q)
    PROVE  QueueInv'
<1>0. request \in [Request -> Body] /\ answer \in [Request -> Body] /\ saved \in Version
      /\ replies \subseteq Request
  BY DEF AppTypeOK, RouterInv, RouterTypeOK
<1>1. \A p \in Request : p # q => answer'[p] = answer[p]
  <2>1. answer' = [answer EXCEPT ![q] = Nothing]
    BY DEF PageReply, ReplyUnknown, Loaded, LoadFailed, Saved, SaveFailed, SaveConflicts, Took
  <2> QED BY <1>0, <2>1
<1>2. q \in needReply => Waits(q)
  BY DEF RouterInv, PendingWaits, Pending, Waits
<1>3. ASSUME Reply(q), UNCHANGED request PROVE ConflictOfSave'
  <2>1. replies' = replies \ {q}
    BY <1>3, WaitsEffect
  <2>2. \A p \in replies' : answer'[p] = answer[p] /\ request'[p] = request[p]
    BY <1>0, <1>1, <1>3, <2>1
  <2> QED BY <2>1, <2>2, ConflictsKept
<1>4. CASE ReplyUnknown(q) \/ LoadFailed(q) \/ Loaded(q)
  <2>1. /\ Reply(q) /\ UNCHANGED <<queue, modal, request>>
        /\ q \in needReply => request[q].kind = "load"
    BY <1>4 DEF ReplyUnknown, LoadFailed, Loaded
  <2>2. \A p \in Request : WaitingSave(p)' <=> WaitingSave(p)
    BY <2>1, WaitsEffect DEF WaitingSave
  <2>3. ModalSettled'
    <3>1. CASE UNCHANGED <<saved, last>>
      BY <2>1, <3>1 DEF QueueInv, ModalSettled, IsLoaded
    <3>2. CASE Loaded(q)
      BY <3>2 DEF Loaded, ModalSettled
    <3> QED BY <1>4, <3>1, <3>2 DEF ReplyUnknown, LoadFailed
  <2> QED BY <1>3, <2>1, <2>2, <2>3 DEF QueueInv, QueueWaits, HeadSent
<1>5. CASE SaveConflicts(q)
  <2>1. /\ Reply(q) /\ UNCHANGED <<saved, last, queue, request>> /\ modal' = TRUE
        /\ q \in needReply /\ answer[q].kind = "conflict"
    BY <1>5 DEF SaveConflicts
  <2>2. WaitingSave(q)
    BY <1>2, <2>1 DEF QueueInv, ConflictOfSave, WaitingSave
  <2>3. queue # <<>> /\ \A p \in Request : WaitingSave(p) => p = q
    BY <2>2 DEF QueueInv, QueueWaits
  <2>4. \A p \in Request : ~WaitingSave(p)'
    BY <2>1, <2>3, WaitsEffect DEF WaitingSave
  <2> QED BY <1>3, <2>1, <2>3, <2>4 DEF QueueInv, QueueWaits, HeadSent, ModalSettled
<1>6. ASSUME NEW v \in Version, NEW s \in SUBSET Change, NextItem(q, v, s),
             WaitingSave(q), q \in needReply, UNCHANGED modal
      PROVE  QueueInv'
  <2>1. ~modal /\ \A p \in Request : WaitingSave(p) => p = q
    BY <1>6 DEF QueueInv, QueueWaits
  <2>2. CASE Reply(q) /\ queue' = <<>> /\ UNCHANGED request
    <3>1. \A p \in Request : WaitingSave(p)' => Waits(p) /\ request[p].kind = "save" /\ ~(p = q /\ q \in needReply)
      BY <2>2, WaitsEffect DEF WaitingSave
    <3>2. \A p \in Request : WaitingSave(p)' => p = q
      BY <2>1, <3>1 DEF WaitingSave
    <3> QED BY <1>3, <1>6, <2>1, <2>2, <3>1, <3>2 DEF QueueInv, QueueWaits, HeadSent, ModalSettled
  <2>3. CASE \E r \in Request : /\ ReplyAndSend(q, r)
                                /\ request' = [request EXCEPT ![r] = Say("save", v)]
                                /\ queue' # <<>> /\ Head(queue').req = r
    <3>1. PICK r \in Request : /\ ReplyAndSend(q, r)
                               /\ request' = [request EXCEPT ![r] = Say("save", v)]
                               /\ queue' # <<>> /\ Head(queue').req = r
      BY <2>3
    <3>2. /\ deferred[r] = "none" /\ replies' = replies \ {q} /\ r \notin replies
          /\ \A p \in Request : Waits(p)' <=> p = r \/ (p # q /\ Waits(p))
      BY <3>1, WaitsEffect DEF RouterInv, Begun
    <3>3. \A p \in Request : request'[p].kind = IF p = r THEN "save" ELSE request[p].kind
      BY <1>0, <3>1, SayIsBody
    <3>4. \A p \in replies' : answer'[p] = answer[p] /\ request'[p] = request[p]
      BY <1>0, <1>1, <3>1, <3>2
    <3>5. QueueWaits'
      BY <1>6, <2>1, <3>1, <3>2, <3>3 DEF QueueWaits, WaitingSave
    <3>6. ConflictOfSave'
      BY <3>2, <3>4, ConflictsKept
    <3> QED BY <3>1, <3>5, <3>6 DEF QueueInv, HeadSent, ModalSettled
  <2> QED BY <1>6, <2>2, <2>3, NextItemEffect
<1>7. CASE Saved(q)
  <2> DEFINE v == [saved EXCEPT !.serial = answer[q].serial]
             s == answer[q].data
  <2>1. /\ q \in needReply /\ request[q].kind = "save" /\ UNCHANGED modal
        /\ NextItem(q, v, s)
    BY <1>7 DEF Saved
  <2>2. s \in SUBSET Change /\ answer[q].serial \in Nat
    BY <1>0 DEF Body
  <2>3. v \in Version
    BY <1>0, <2>2 DEF Version
  <2> HIDE DEF v, s
  <2> QED BY <1>2, <1>6, <2>1, <2>2, <2>3 DEF WaitingSave
<1>8. CASE SaveFailed(q)
  <2>1. /\ q \in needReply /\ request[q].kind = "save" /\ UNCHANGED modal
        /\ NextItem(q, saved, last) /\ last \in SUBSET Change
    BY <1>8 DEF SaveFailed, AppTypeOK
  <2> QED BY <1>0, <1>2, <1>6, <2>1 DEF WaitingSave
<1> QED BY <1>4, <1>5, <1>7, <1>8 DEF PageReply

LEMMA ServerKeepsQueue ==
    ASSUME AppTypeOK, RouterInv, QueueInv, NEW m \in Message, ServerTask(m)
    PROVE  QueueInv'
<1>1. UNCHANGED <<saved, last, queue, modal, request, deferred>>
  BY DEF ServerTask, SimulationData, SaveSimulationJson, SerialInvalid, ServerError, Answered, Handled,
         pageVars
<1>2. ConflictOfSave'
  <2>1. PICK b :
           /\ Answered(m, b)
           /\ b.kind = "conflict" => request[m.req].kind = "save"
    <3>1. CASE SimulationData(m)
      BY <3>1 DEF SimulationData, Say
    <3>2. CASE SaveSimulationJson(m)
      BY <3>2 DEF SaveSimulationJson
    <3>3. CASE SerialInvalid(m)
      BY <3>3 DEF SerialInvalid
    <3>4. CASE ServerError(m)
      BY <3>4 DEF ServerError, Say
    <3> QED BY <3>1, <3>2, <3>3, <3>4 DEF ServerTask
  <2>2. /\ replies' = IF m.on = failures THEN replies \union {m.req} ELSE replies
        /\ answer' = IF m.on = failures THEN [answer EXCEPT ![m.req] = b] ELSE answer
    BY <2>1 DEF Answered, Handled
  <2>3. ASSUME NEW r \in replies', answer'[r].kind = "conflict" PROVE request[r].kind = "save"
    <3>1. CASE r = m.req /\ m.on = failures /\ answer'[r] = b
      BY <2>1, <2>3, <3>1
    <3>2. CASE r \in replies /\ answer'[r] = answer[r]
      BY <2>3, <3>2 DEF QueueInv, ConflictOfSave
    <3>3. DOMAIN answer = Request /\ m.req \in Request /\ replies \subseteq Request
      BY DEF AppTypeOK, Message, RouterInv, RouterTypeOK
    <3> QED BY <2>2, <2>3, <3>1, <3>2, <3>3
  <2> QED BY <1>1, <2>3 DEF ConflictOfSave
<1> QED BY <1>1, <1>2 DEF QueueInv, QueueWaits, HeadSent, ModalSettled, WaitingSave, Waits, IsLoaded

LEMMA NextKeepsQueue ==
    ASSUME AppTypeOK, RouterInv, QueueInv, Next
    PROVE  QueueInv'
<1>0. replies \subseteq Request /\ inbox \subseteq Message
  BY DEF RouterInv, RouterTypeOK
<1> QED BY <1>0, PageKeepsQueue, ReplyKeepsQueue, ServerKeepsQueue DEF Next

-----------------------------------------------------------------------------
(***************************************************************************)
(* The inductive invariant and what follows from it.                       *)
(***************************************************************************)
IInv == RouterInv /\ AppTypeOK /\ DataInv /\ QueueInv

LEMMA StateSafe == Spec => []IInv /\ [][disk.data \subseteq disk'.data]_vars
<1>1. Init => RouterInv /\ AppTypeOK
  BY InitTypes
<1>2. Init => DataInv
  <2> SUFFICES ASSUME Init PROVE DataInv
    OBVIOUS
  <2>1. replies = {} /\ \A r \in Request : request[r].kind = "none" /\ ~Waits(r)
    BY DEF Init, RouterInit, Nothing, Say, Waits
  <2>2. Fresh(saved) /\ disk.serial # 0
    BY DEF Init, Fresh, NoVersion
  <2> QED BY <2>1, <2>2 DEF DataInv, AllFresh, OwnAnswer, Contained, LoadAlone
<1>4. IInv /\ [Next]_vars => IInv' /\ disk.data \subseteq disk'.data
  <2> SUFFICES ASSUME IInv, [Next]_vars
               PROVE  IInv' /\ disk.data \subseteq disk'.data
    OBVIOUS
  <2>1. RouterInv' /\ AppTypeOK'
    BY StepTypes DEF IInv
  <2>2. CASE Next
    BY <2>1, <2>2, NextKeepsData, NextKeepsQueue DEF IInv
  <2>3. CASE UNCHANGED vars
    <3>1. DataInv'
      BY <2>3 DEF vars, appVars, routerVars, pageVars, DataInv, AllFresh, OwnAnswer, Contained, LoadAlone, Fresh,
                  Waits, IInv
    <3>2. QueueInv'
      BY <2>3 DEF vars, appVars, routerVars, pageVars, QueueInv, QueueWaits, HeadSent, ConflictOfSave,
                  ModalSettled, WaitingSave, Waits, IsLoaded, IInv
    <3> QED BY <2>1, <2>3, <3>1, <3>2 DEF vars, appVars, IInv
  <2> QED BY <2>2, <2>3
<1>3. Init => QueueInv
  BY DEF Init, RouterInit, NoVersion, IsLoaded, QueueInv, QueueWaits, HeadSent, ConflictOfSave,
         ModalSettled, WaitingSave, Waits
<1> QED BY <1>1, <1>2, <1>3, <1>4, PTL DEF Spec, IInv

(***************************************************************************)
(* However late or often a save is handled (save_simulation_json), it does *)
(* not take a change away that another browser saved.                      *)
(***************************************************************************)
THEOREM SavesOverwriteNothing == Spec => NothingOverwritten
<1>1. Spec => [][disk.data \subseteq disk'.data]_vars
  BY StateSafe, PTL
<1> QED BY <1>1 DEF NothingOverwritten

(***************************************************************************)
(* The page waits for the reply to one save at a time, the first of its    *)
(* queue (requestQueue of sirepo.js), whatever happens to its sockets.     *)
(***************************************************************************)
THEOREM OneSaveAtATime == Spec => []FirstWaits
<1>1. IInv => FirstWaits
  <2> SUFFICES ASSUME IInv PROVE FirstWaits
    OBVIOUS
  <2>1. QueueWaits /\ HeadSent
    BY DEF IInv, QueueInv
  <2>2. \A r \in Request : deferred[r] = "waiting" /\ request[r].kind = "save"
                           <=> queue # <<>> /\ ~modal /\ r = Head(queue).req
    BY <2>1 DEF QueueWaits, WaitingSave, Waits
  <2> QED BY <2>1, <2>2 DEF FirstWaits, HeadSent
<1> QED BY <1>1, StateSafe, PTL

-----------------------------------------------------------------------------
(***************************************************************************)
(* What is broadcast as saved is in the file or on its way there.          *)
(***************************************************************************)
LoadsNothing == \A r \in Request : request[r].kind = "load" => request[r].data = {}

\* What the server told the page is in the file.
OkStored == \A r \in replies : answer[r].kind = "ok" => answer[r].serial # 0 /\ answer[r].data \subseteq disk.data

\* Without models there is nothing to save or to tell.
Unloaded == ~IsLoaded => queue = <<>> /\ announced = {}

Announces(q) == {q[i].announces : i \in DOMAIN q}

\* What a save will announce, the page has; what the save that was sent will announce, was sent.
Announcing ==
    /\ \A a \in Announces(queue) : a \subseteq saved.data
    /\ queue # <<>> => Head(queue).announces \subseteq request[Head(queue).req].data

OnItsWay == disk.data \union UNION {request[r].data : r \in {q \in Request : Waits(q)}}

\* What was announced, and what a save will be compared with and announced without being sent.
UnderWay == ~modal /\ ~alerted => announced \subseteq OnItsWay /\ (IsLoaded => last \subseteq OnItsWay)

SavedInv == LoadsNothing /\ OkStored /\ Unloaded /\ Announcing /\ UnderWay

\* What the items of a queue announce when its first item is sent ...
LEMMA SendItemAnnounces ==
    ASSUME NEW r \in Request, NEW v, NEW q \in Seq(Item), q # <<>>, SendItem(r, v, q)
    PROVE  /\ last' = v.data /\ request' = [request EXCEPT ![r] = Say("save", v)]
           /\ queue' # <<>> /\ Head(queue').req = r /\ Head(queue').announces = Head(q).announces
           /\ Announces(queue') = Announces(q)
<1>1. last' = v.data /\ request' = [request EXCEPT ![r] = Say("save", v)]
      /\ queue' = [q EXCEPT ![1] = [q[1] EXCEPT !.req = r]]
  BY DEF SendItem
<1> DEFINE i == [q[1] EXCEPT !.req = r]
<1>2. 1 \in DOMAIN q /\ 1 \in 1..Len(q) /\ q[1] \in Item /\ Head(q) = q[1]
  OBVIOUS
<1>3. i \in Item /\ i.req = r /\ i.announces = q[1].announces
  BY <1>2, BoundsAssumption DEF Item, Request
<1> HIDE DEF i
<1>4. queue' = [q EXCEPT ![1] = i]
  BY <1>1 DEF i
<1>5. queue' \in Seq(Item) /\ Len(queue') = Len(q) /\ queue'[1] = i
  BY <1>2, <1>3, <1>4, ExceptSeq
<1>6. queue' # <<>> /\ Head(queue') = i
  BY <1>2, <1>5
<1>7. DOMAIN queue' = DOMAIN q /\ \A j \in DOMAIN q : queue'[j].announces = q[j].announces
  BY <1>2, <1>3, <1>4
<1> QED BY <1>1, <1>2, <1>3, <1>6, <1>7 DEF Announces

LEMMA HeadAnnounces ==
    ASSUME NEW q \in Seq(Item), q # <<>>
    PROVE  Head(q).announces \in Announces(q)
<1>1. 1 \in DOMAIN q /\ Head(q) = q[1]
  OBVIOUS
<1> QED BY <1>1 DEF Announces

\* ... when a save of v that announces a is queued ...
LEMMA QueueSaveAnnounces ==
    ASSUME AppTypeOK, NEW v \in Version, NEW a \in SUBSET Change, QueueSave(v, a)
    PROVE  /\ queue' # <<>> /\ Announces(queue') \subseteq Announces(queue) \union {a}
           /\ \/ /\ queue = <<>>
                 /\ last' = v.data /\ Head(queue').announces = a
                 /\ \E r \in Request : /\ Send(r)
                                       /\ request' = [request EXCEPT ![r] = Say("save", v)]
                                       /\ Head(queue').req = r
              \/ /\ queue # <<>> /\ Head(queue') = Head(queue)
                 /\ UNCHANGED <<last, request, routerVars>>
<1> DEFINE i == [req |-> 0, announces |-> a]
           q == Append(queue, i)
<1>1. i \in Item /\ i.announces = a
  BY BoundsAssumption DEF Item
<1>2. queue \in Seq(Item)
  BY DEF AppTypeOK
<1>3. \/ /\ queue = <<>>
         /\ \E r \in Request : IsNext(r) /\ Send(r) /\ SendItem(r, v, q)
      \/ /\ queue # <<>>
         /\ queue' = q
         /\ UNCHANGED <<last, request, routerVars>>
  BY DEF QueueSave
<1> HIDE DEF i
<1>4. /\ q \in Seq(Item) /\ q # <<>>
      /\ queue # <<>> => Head(q) = Head(queue)
      /\ queue = <<>> => Head(q) = i
      /\ DOMAIN q = 1..Len(queue) + 1 /\ DOMAIN queue = 1..Len(queue)
      /\ \A j \in DOMAIN q : IF j = Len(queue) + 1 THEN q[j] = i ELSE j \in DOMAIN queue /\ q[j] = queue[j]
  BY <1>1, <1>2
<1> HIDE DEF q
<1>5. Announces(q) \subseteq Announces(queue) \union {a}
  BY <1>1, <1>4 DEF Announces
<1>6. CASE queue = <<>>
  <2>1. PICK r \in Request : Send(r) /\ SendItem(r, v, q)
    BY <1>3, <1>6
  <2> QED BY <1>1, <1>4, <1>5, <1>6, <2>1, SendItemAnnounces
<1>7. CASE queue # <<>>
  BY <1>3, <1>4, <1>5, <1>7
<1> QED BY <1>6, <1>7

\* ... and when the reply to the first save came, with the models v.
LEMMA NextItemAnnounces ==
    ASSUME AppTypeOK, NEW q \in Request, NEW v \in Version, NEW s \in SUBSET Change,
           NextItem(q, v, s)
    PROVE  /\ queue # <<>> /\ Announces(queue') \subseteq Announces(queue)
           /\ \/ Reply(q) /\ queue' = <<>> /\ last' = s /\ UNCHANGED request
              \/ /\ last' = v.data
                 /\ \E r \in Request : /\ ReplyAndSend(q, r)
                                       /\ request' = [request EXCEPT ![r] = Say("save", v)]
                                       /\ queue' # <<>> /\ Head(queue').req = r
                                       /\ Head(queue').announces \in Announces(queue)
<1>1. queue \in Seq(Item) /\ queue # <<>>
  BY NextItemEffect DEF AppTypeOK
<1>2. CASE Reply(q) /\ queue' = <<>> /\ last' = s /\ UNCHANGED request
  <2>1. Announces(queue') = {}
    BY <1>2 DEF Announces
  <2> QED BY <1>1, <1>2, <2>1
<1>3. CASE Len(queue) > 1 /\ \E r \in Request : ReplyAndSend(q, r) /\ SendItem(r, v, Tail(queue))
  <2>1. PICK r \in Request : ReplyAndSend(q, r) /\ SendItem(r, v, Tail(queue))
    BY <1>3
  <2> DEFINE t == Tail(queue)
  <2>2. /\ t \in Seq(Item) /\ Len(t) = Len(queue) - 1
        /\ \A j \in 1..Len(t) : t[j] = queue[j + 1]
    BY <1>1, HeadTailProperties
  <2>3. t # <<>>
    <3>1. Len(t) # 0
      BY <1>1, <1>3, <2>2
    <3> QED BY <3>1, LongerThanEmpty, Zenon
  <2> HIDE DEF t
  <2>4. Announces(t) \subseteq Announces(queue)
    <3> SUFFICES ASSUME NEW j \in DOMAIN t PROVE t[j].announces \in Announces(queue)
      BY DEF Announces
    <3>1. j \in 1..Len(t) /\ t[j] = queue[j + 1] /\ j + 1 \in DOMAIN queue
      BY <1>1, <2>2
    <3> QED BY <3>1 DEF Announces
  <2>5. SendItem(r, v, t)
    BY <2>1 DEF t
  <2>6. Head(t).announces \in Announces(t)
    BY <2>2, <2>3, HeadAnnounces
  <2> QED BY <1>1, <2>1, <2>2, <2>3, <2>4, <2>5, <2>6, SendItemAnnounces
<1> QED BY <1>2, <1>3 DEF NextItem

\* The way to the file only gets wider: a request that waits no more is in the file.
LEMMA WayKept ==
    ASSUME disk.data \subseteq disk'.data,
           \A p \in Request : Waits(p) => \/ Waits(p)' /\ request'[p] = request[p]
                                          \/ request[p].data \subseteq disk.data
    PROVE  OnItsWay \subseteq OnItsWay'
  BY DEF OnItsWay

\* The replies that are left are the same as before.
LEMMA AnswersKept ==
    ASSUME RouterInv, SavedInv, replies' \subseteq replies, disk' = disk,
           \A p \in replies' : answer'[p] = answer[p]
    PROVE  OkStored'
  BY DEF SavedInv, OkStored

\* Steps that neither send nor take from the queue.
LEMMA QuietKeepsSaved ==
    ASSUME RouterInv, SavedInv,
           disk.data \subseteq disk'.data, OkStored',
           UNCHANGED <<queue, announced, request>>,
           \A p \in Request : Waits(p) => Waits(p)' \/ request[p].data = {} \/ modal',
           modal => modal', alerted => alerted',
           IsLoaded' => IsLoaded, IsLoaded => IsLoaded',
           saved.data \subseteq saved'.data, last' = last
    PROVE  SavedInv'
<1>1. LoadsNothing' /\ Unloaded' /\ Announcing'
  BY DEF SavedInv, LoadsNothing, Unloaded, Announcing, Announces, IsLoaded
<1>2. UnderWay'
  <2> SUFFICES ASSUME ~modal', ~alerted'
               PROVE  announced' \subseteq OnItsWay' /\ (IsLoaded' => last' \subseteq OnItsWay')
    BY DEF UnderWay
  <2>1. OnItsWay \subseteq OnItsWay'
    BY WayKept
  <2> QED BY <2>1 DEF SavedInv, UnderWay, IsLoaded
<1> QED BY <1>1, <1>2 DEF SavedInv

\* A save is queued, with the models v and the announcement a.
LEMMA QueueSaveKeepsSaved ==
    ASSUME AppTypeOK, RouterInv, QueueInv, SavedInv, NEW v \in Version, NEW a \in SUBSET Change,
           QueueSave(v, a), IsLoaded, a \subseteq v.data,
           saved' = v, saved.data \subseteq v.data, v.serial = saved.serial,
           UNCHANGED <<modal, alerted, announced, answer, disk>>
    PROVE  SavedInv'
<1>0. request \in [Request -> Body]
  BY DEF AppTypeOK
<1>1. /\ queue' # <<>> /\ Announces(queue') \subseteq Announces(queue) \union {a}
      /\ \/ /\ queue = <<>>
            /\ last' = v.data /\ Head(queue').announces = a
            /\ \E r \in Request : /\ Send(r)
                                  /\ request' = [request EXCEPT ![r] = Say("save", v)]
                                  /\ Head(queue').req = r
         \/ /\ queue # <<>> /\ Head(queue') = Head(queue)
            /\ UNCHANGED <<last, request, routerVars>>
  BY QueueSaveAnnounces
<1>2. Unloaded' /\ \A b \in Announces(queue') : b \subseteq saved'.data
  BY <1>1 DEF SavedInv, Unloaded, Announcing, IsLoaded
<1>3. CASE /\ last' = v.data /\ Head(queue').announces = a
           /\ \E r \in Request : /\ Send(r)
                                 /\ request' = [request EXCEPT ![r] = Say("save", v)]
                                 /\ Head(queue').req = r
  <2>1. PICK r \in Request : /\ Send(r)
                             /\ request' = [request EXCEPT ![r] = Say("save", v)]
                             /\ Head(queue').req = r
    BY <1>3
  <2>2. /\ deferred[r] = "none" /\ replies' = replies
        /\ \A p \in Request : Waits(p)' <=> p = r \/ Waits(p)
    BY <2>1, WaitsEffect
  <2>3. /\ request'[r].kind = "save" /\ request'[r].data = v.data
        /\ \A p \in Request : p # r => request'[p] = request[p]
    BY <1>0, <2>1, SayIsBody
  <2>4. LoadsNothing' /\ OkStored' /\ Announcing'
    BY <1>2, <1>3, <2>1, <2>2, <2>3 DEF SavedInv, LoadsNothing, OkStored, Announcing
  <2>5. OnItsWay \subseteq OnItsWay'
    BY <2>2, <2>3, WayKept DEF Waits
  <2>6. last' \subseteq OnItsWay'
    BY <1>3, <2>2, <2>3 DEF OnItsWay
  <2>7. UnderWay'
    BY <2>5, <2>6 DEF SavedInv, UnderWay
  <2> QED BY <1>2, <2>4, <2>7 DEF SavedInv
<1>4. CASE /\ queue # <<>> /\ Head(queue') = Head(queue)
           /\ UNCHANGED <<last, request, routerVars>>
  <2>1. replies' = replies /\ \A p \in Request : Waits(p)' <=> Waits(p)
    BY <1>4 DEF routerVars, pageVars, Waits
  <2>2. LoadsNothing' /\ OkStored' /\ Announcing'
    BY <1>2, <1>4, <2>1 DEF SavedInv, LoadsNothing, OkStored, Announcing
  <2>3. OnItsWay \subseteq OnItsWay'
    BY <1>4, <2>1, WayKept
  <2>4. UnderWay'
    BY <1>4, <2>3 DEF SavedInv, UnderWay, IsLoaded
  <2> QED BY <1>2, <2>2, <2>4 DEF SavedInv
<1> QED BY <1>1, <1>3, <1>4

LEMMA PageKeepsSaved ==
    ASSUME AppTypeOK, RouterInv, QueueInv, SavedInv,
           \/ \E changed \in BOOLEAN : SaveChanges(changed)
           \/ SaveQuietly \/ AutoSave \/ Leave \/ LoadModels \/ RefreshPage
           \/ ForeignSave \/ Connection
    PROVE  SavedInv'
<1>0. saved \in Version /\ request \in [Request -> Body]
  BY DEF AppTypeOK
<1>1. ASSUME NEW changed \in BOOLEAN, MakeChange(changed)
      PROVE  /\ saved' = Changed(changed) /\ saved' \in Version /\ IsLoaded
             /\ saved.data \subseteq saved'.data /\ saved'.serial = saved.serial
             /\ UNCHANGED <<modal, alerted, answer, disk>>
  <2>1. /\ saved' = Changed(changed) /\ IsLoaded /\ (changed => changes < MaxChange)
        /\ UNCHANGED <<modal, alerted, answer, disk>>
    BY <1>1 DEF MakeChange
  <2> QED BY <2>1, ChangedIsVersion
<1>2. CASE \E changed \in BOOLEAN : SaveChanges(changed)
  <2>1. PICK changed \in BOOLEAN : SaveChanges(changed)
    BY <1>2
  <2> DEFINE v == Changed(changed)
  <2>2. /\ MakeChange(changed)
        /\ \/ NoChanges(v) /\ announced' = announced \union v.data
           \/ QueueSave(v, v.data) /\ UNCHANGED announced
    BY <2>1 DEF SaveChanges
  <2>3. /\ saved' = v /\ saved' \in Version /\ IsLoaded
        /\ saved.data \subseteq saved'.data /\ saved'.serial = saved.serial
        /\ UNCHANGED <<modal, alerted, answer, disk>>
    BY <1>1, <2>2
  <2> HIDE DEF v
  <2>4. CASE NoChanges(v) /\ announced' = announced \union v.data
    <3>1. /\ last = v.data
          /\ UNCHANGED <<last, queue, request, replies, deferred>>
      BY <2>4 DEF NoChanges, routerVars, pageVars
    <3>2. OnItsWay \subseteq OnItsWay'
      BY <2>3, <3>1, WayKept DEF Waits
    <3>3. UnderWay'
      BY <2>3, <2>4, <3>1, <3>2 DEF SavedInv, UnderWay
    <3>4. LoadsNothing' /\ OkStored' /\ Unloaded' /\ Announcing'
      BY <2>3, <3>1 DEF SavedInv, LoadsNothing, OkStored, Unloaded, Announcing, Announces, IsLoaded
    <3> QED BY <3>3, <3>4 DEF SavedInv
  <2>5. CASE QueueSave(v, v.data) /\ UNCHANGED announced
    <3>1. v \in Version /\ v.data \in SUBSET Change
      BY <2>3 DEF Version
    <3> QED BY <2>3, <2>5, <3>1, QueueSaveKeepsSaved
  <2> QED BY <2>2, <2>4, <2>5
<1>3. CASE SaveQuietly
  <2>1. MakeChange(TRUE) /\ UNCHANGED <<last, queue, request, announced, replies, deferred>>
    BY <1>3 DEF SaveQuietly, routerVars, pageVars
  <2>2. /\ saved.data \subseteq saved'.data /\ saved'.serial = saved.serial
        /\ UNCHANGED <<modal, alerted, answer, disk>>
    BY <1>1, <2>1
  <2>3. OkStored'
    BY <2>1, <2>2, AnswersKept
  <2> QED BY <2>1, <2>2, <2>3, QuietKeepsSaved DEF IsLoaded, Waits
<1>4. CASE AutoSave
  <2>1. /\ QueueSave(saved, {}) /\ IsLoaded
        /\ UNCHANGED <<saved, modal, alerted, announced, answer, disk>>
    BY <1>4 DEF AutoSave
  <2>2. {} \in SUBSET Change /\ saved' = saved /\ saved.data \subseteq saved.data
    BY <2>1
  <2> QED BY <1>0, <2>1, <2>2, QueueSaveKeepsSaved
<1>5. CASE Leave \/ RefreshPage
  <2>1. /\ saved' = NoVersion /\ queue' = <<>> /\ announced' = {} /\ UNCHANGED <<request, disk>>
        /\ replies' \subseteq replies
        /\ \A p \in replies' : answer'[p] = answer[p]
    BY <1>5 DEF Leave, ClearModels, RefreshPage, Reload
  <2>2. ~IsLoaded'
    BY <2>1 DEF NoVersion, IsLoaded
  <2>3. OkStored'
    BY <2>1, AnswersKept
  <2>4. LoadsNothing' /\ Unloaded' /\ Announcing' /\ UnderWay'
    BY <2>1, <2>2 DEF SavedInv, LoadsNothing, Unloaded, Announcing, Announces, UnderWay
  <2> QED BY <2>3, <2>4 DEF SavedInv
<1>6. CASE LoadModels
  <2>1. /\ queue' = <<>> /\ ~IsLoaded /\ ~IsLoaded' /\ UNCHANGED <<announced, answer, disk>>
    BY <1>6 DEF LoadModels, IsLoaded
  <2>2. PICK r \in Request : ClearAndSend(r)
                             /\ request' = [request EXCEPT ![r] = Say("load", NoVersion)]
    BY <1>6 DEF LoadModels
  <2>3. replies' = replies
    BY <2>2, WaitsEffect
  <2>4. /\ \A p \in Request : p # r => request'[p] = request[p]
        /\ request'[r].data = {}
    BY <1>0, <2>2, SayIsBody DEF NoVersion
  <2>5. OkStored'
    BY <2>1, <2>3, AnswersKept
  <2>6. LoadsNothing' /\ Unloaded' /\ Announcing' /\ UnderWay'
    BY <2>1, <2>4 DEF SavedInv, LoadsNothing, Unloaded, Announcing, Announces, UnderWay
  <2> QED BY <2>5, <2>6 DEF SavedInv
<1>7. CASE ForeignSave
  <2>1. /\ disk.data \subseteq disk'.data
        /\ UNCHANGED <<saved, last, queue, modal, alerted, announced, request, answer, replies, deferred>>
    BY <1>7 DEF ForeignSave, routerVars, pageVars
  <2>2. OkStored'
    BY <2>1 DEF SavedInv, OkStored
  <2> QED BY <2>1, <2>2, QuietKeepsSaved DEF IsLoaded, Waits
<1>8. CASE Connection
  <2>1. /\ UNCHANGED <<saved, last, queue, modal, alerted, announced, request, disk, deferred>>
        /\ \/ replies' = replies /\ answer' = answer
           \/ replies' = {}
    BY <1>8 DEF Connection, SocketOnOpen, RetryTimer, SocketError
  <2>2. OkStored'
    BY <2>1, AnswersKept
  <2> QED BY <2>1, <2>2, QuietKeepsSaved DEF IsLoaded, Waits
<1> QED BY <1>2, <1>3, <1>4, <1>5, <1>6, <1>7, <1>8

LEMMA ReplyKeepsSaved ==
    ASSUME AppTypeOK, RouterInv, DataInv, QueueInv, SavedInv,
           NEW q \in Request, q \in replies, PageReply(q)
    PROVE  SavedInv'
<1>0. request \in [Request -> Body] /\ answer \in [Request -> Body] /\ saved \in Version
      /\ replies \subseteq Request /\ queue \in Seq(Item) /\ disk' = disk
  BY DEF AppTypeOK, RouterInv, RouterTypeOK, PageReply, ReplyUnknown, Loaded, LoadFailed, Saved, SaveFailed,
         SaveConflicts
<1>1. \A p \in Request : p # q => answer'[p] = answer[p]
  <2>1. answer' = [answer EXCEPT ![q] = Nothing]
    BY DEF PageReply, ReplyUnknown, Loaded, LoadFailed, Saved, SaveFailed, SaveConflicts, Took
  <2> QED BY <1>0, <2>1
<1>2. q \in needReply => Waits(q)
  BY DEF RouterInv, PendingWaits, Pending, Waits
<1>3. ASSUME replies' = replies \ {q} PROVE OkStored'
  BY <1>0, <1>1, <1>3, AnswersKept
<1>4. CASE ReplyUnknown(q) \/ LoadFailed(q) \/ SaveConflicts(q)
  <2>1. /\ Reply(q) /\ UNCHANGED <<saved, last, queue, announced, request>>
        /\ (modal => modal') /\ (alerted => alerted')
        /\ q \in needReply => modal' \/ request[q].kind = "load"
    BY <1>4 DEF ReplyUnknown, LoadFailed, SaveConflicts, AppTypeOK
  <2>2. replies' = replies \ {q} /\ \A p \in Request : Waits(p)' <=> Waits(p) /\ ~(p = q /\ q \in needReply)
    BY <2>1, WaitsEffect
  <2>3. \A p \in Request : Waits(p) => Waits(p)' \/ request[p].data = {} \/ modal'
    BY <2>1, <2>2 DEF SavedInv, LoadsNothing
  <2>4. OkStored' /\ disk.data \subseteq disk'.data
    BY <1>0, <1>3, <2>2
  <2>5. (IsLoaded' <=> IsLoaded) /\ saved.data \subseteq saved'.data /\ last' = last
    BY <2>1 DEF IsLoaded
  <2> QED BY <2>1, <2>3, <2>4, <2>5, QuietKeepsSaved
<1>5. CASE Loaded(q)
  <2>1. /\ Reply(q) /\ q \in needReply /\ request[q].kind = "load" /\ answer[q].kind = "ok"
        /\ saved' = [data |-> answer[q].data, serial |-> answer[q].serial] /\ last' = answer[q].data
        /\ UNCHANGED <<queue, modal, alerted, announced, request>>
    BY <1>5 DEF Loaded
  <2>2. queue = <<>> /\ announced = {}
    BY <1>2, <2>1 DEF DataInv, LoadAlone, SavedInv, Unloaded, IsLoaded
  <2>3. answer[q].data \subseteq disk.data
    BY <2>1 DEF SavedInv, OkStored
  <2>4. replies' = replies \ {q}
    BY <2>1, WaitsEffect
  <2>5. LoadsNothing' /\ Unloaded' /\ Announcing' /\ UnderWay'
    BY <1>0, <2>1, <2>2, <2>3 DEF SavedInv, LoadsNothing, Unloaded, Announcing, Announces, UnderWay, OnItsWay
  <2> QED BY <1>3, <2>4, <2>5 DEF SavedInv
<1>6. ASSUME NEW v \in Version, NEW s \in SUBSET Change, NextItem(q, v, s),
             saved' = v, v.data = saved.data, IsLoaded => IsLoaded', UNCHANGED <<modal>>,
             ~IsLoaded => announced' = announced
      PROVE  /\ LoadsNothing' /\ Unloaded' /\ Announcing' /\ OkStored'
             /\ \/ alerted' \/ ~(request[q].data \subseteq disk.data)
                \/ OnItsWay \subseteq OnItsWay' /\ (last' = s \/ last' \subseteq OnItsWay')
  <2>1. /\ queue # <<>> /\ Announces(queue') \subseteq Announces(queue)
        /\ \/ Reply(q) /\ queue' = <<>> /\ last' = s /\ UNCHANGED request
           \/ /\ last' = v.data
              /\ \E r \in Request : /\ ReplyAndSend(q, r)
                                    /\ request' = [request EXCEPT ![r] = Say("save", v)]
                                    /\ queue' # <<>> /\ Head(queue').req = r
                                    /\ Head(queue').announces \in Announces(queue)
    BY <1>6, NextItemAnnounces
  <2>2. Unloaded' /\ \A a \in Announces(queue') : a \subseteq saved'.data
    BY <1>6, <2>1 DEF SavedInv, Unloaded, Announcing
  <2>3. CASE Reply(q) /\ queue' = <<>> /\ last' = s /\ UNCHANGED request
    <3>1. replies' = replies \ {q} /\ \A p \in Request : p # q => (Waits(p)' <=> Waits(p))
      BY <2>3, WaitsEffect
    <3>2. LoadsNothing' /\ Announcing'
      BY <2>2, <2>3 DEF SavedInv, LoadsNothing, Announcing
    <3>3. request[q].data \subseteq disk.data => OnItsWay \subseteq OnItsWay'
      BY <1>0, <2>3, <3>1, WayKept
    <3> QED BY <1>3, <2>2, <2>3, <3>1, <3>2, <3>3
  <2>4. CASE /\ last' = v.data
             /\ \E r \in Request : /\ ReplyAndSend(q, r)
                                   /\ request' = [request EXCEPT ![r] = Say("save", v)]
                                   /\ queue' # <<>> /\ Head(queue').req = r
                                   /\ Head(queue').announces \in Announces(queue)
    <3>1. PICK r \in Request : /\ ReplyAndSend(q, r)
                               /\ request' = [request EXCEPT ![r] = Say("save", v)]
                               /\ queue' # <<>> /\ Head(queue').req = r
                               /\ Head(queue').announces \in Announces(queue)
      BY <2>4
    <3>2. /\ deferred[r] = "none" /\ replies' = replies \ {q}
          /\ \A p \in Request : Waits(p)' <=> p = r \/ (p # q /\ Waits(p))
      BY <3>1, WaitsEffect
    <3>3. /\ request'[r].kind = "save" /\ request'[r].data = v.data
          /\ \A p \in Request : p # r => request'[p] = request[p]
      BY <1>0, <3>1, SayIsBody
    <3>4. LoadsNothing' /\ Announcing'
      BY <1>6, <2>2, <3>1, <3>3 DEF SavedInv, LoadsNothing, Announcing
    <3>5. request[q].data \subseteq disk.data => OnItsWay \subseteq OnItsWay'
      <4>1. \A p \in Request : Waits(p) /\ p # q => Waits(p)' /\ request'[p] = request[p]
        BY <3>2, <3>3 DEF Waits
      <4> QED BY <1>0, <4>1, WayKept
    <3>6. last' \subseteq OnItsWay'
      BY <2>4, <3>2, <3>3 DEF OnItsWay
    <3> QED BY <1>3, <2>2, <3>2, <3>4, <3>5, <3>6
  <2> QED BY <2>1, <2>3, <2>4
<1>7. CASE Saved(q)
  <2> DEFINE v == [saved EXCEPT !.serial = answer[q].serial]
             s == answer[q].data
  <2>1. /\ q \in needReply /\ request[q].kind = "save" /\ answer[q].kind = "ok"
        /\ saved' = v /\ NextItem(q, v, s)
        /\ announced' = announced \union Head(queue).announces
        /\ UNCHANGED <<modal, alerted>>
    BY <1>7 DEF Saved
  <2>2. s \in SUBSET Change /\ answer[q].serial \in Nat /\ answer[q].serial # 0
    BY <1>0, <2>1 DEF Body, SavedInv, OkStored
  <2>3. v \in Version /\ v.data = saved.data /\ v.serial = answer[q].serial
    BY <1>0, <2>2 DEF Version
  <2> HIDE DEF v
  <2>4. queue # <<>> /\ Head(queue).req = q /\ ~modal
    BY <1>2, <2>1 DEF QueueInv, QueueWaits, WaitingSave
  <2>5. s = request[q].data /\ s \subseteq disk.data /\ Head(queue).announces \subseteq s
    BY <2>1, <2>4 DEF DataInv, OwnAnswer, SavedInv, OkStored, Announcing
  <2>6. IsLoaded /\ IsLoaded'
    BY <2>1, <2>2, <2>3, <2>4 DEF SavedInv, Unloaded, IsLoaded
  <2>7. /\ LoadsNothing' /\ Unloaded' /\ Announcing' /\ OkStored'
        /\ \/ alerted'
           \/ OnItsWay \subseteq OnItsWay' /\ (last' = s \/ last' \subseteq OnItsWay')
    <3> HIDE DEF s
    <3> QED BY <1>6, <2>1, <2>2, <2>3, <2>5, <2>6
  <2>8. disk.data \subseteq OnItsWay'
    BY <1>0 DEF OnItsWay
  <2>9. UnderWay'
    BY <2>1, <2>4, <2>5, <2>7, <2>8 DEF SavedInv, UnderWay
  <2> QED BY <2>7, <2>9 DEF SavedInv
<1>8. CASE SaveFailed(q)
  <2>1. /\ NextItem(q, saved, last) /\ last \in SUBSET Change /\ alerted'
        /\ UNCHANGED <<saved, modal, announced>>
    BY <1>8 DEF SaveFailed, AppTypeOK
  <2>2. LoadsNothing' /\ Unloaded' /\ Announcing' /\ OkStored'
    BY <1>0, <1>6, <2>1 DEF IsLoaded
  <2> QED BY <2>1, <2>2 DEF SavedInv, UnderWay
<1> QED BY <1>4, <1>5, <1>7, <1>8 DEF PageReply

LEMMA ServerKeepsSaved ==
    ASSUME AppTypeOK, RouterInv, DataInv, SavedInv, NEW m \in Message, ServerTask(m),
           disk.data \subseteq disk'.data
    PROVE  SavedInv'
<1>0. /\ request \in [Request -> Body] /\ answer \in [Request -> Body] /\ disk \in Version
      /\ m.req \in Request /\ replies \subseteq Request
      /\ UNCHANGED <<saved, last, queue, modal, alerted, announced, request, deferred>>
  BY DEF AppTypeOK, Message, RouterInv, RouterTypeOK, ServerTask, SimulationData, SaveSimulationJson,
         SerialInvalid, ServerError, Answered, Handled, pageVars
<1>1. PICK b : /\ Answered(m, b)
               /\ b.kind = "ok" => b.serial # 0 /\ b.data \subseteq disk'.data
  <2>1. CASE SimulationData(m)
    BY <1>0, <2>1, SayIsBody DEF SimulationData, DataInv, AllFresh
  <2>2. CASE SaveSimulationJson(m)
    <3>1. /\ disk' = [data |-> request[m.req].data, serial |-> disk.serial + 1]
          /\ Answered(m, Say("ok", disk'))
      BY <2>2 DEF SaveSimulationJson
    <3>2. Say("ok", disk').serial = disk.serial + 1 /\ Say("ok", disk').data = disk'.data
          /\ disk.serial \in Nat
      BY <1>0, <3>1 DEF Say, Version
    <3> QED BY <3>1, <3>2
  <2>3. CASE SerialInvalid(m)
    BY <2>3 DEF SerialInvalid, Say
  <2>4. CASE ServerError(m)
    BY <2>4 DEF ServerError, Say
  <2> QED BY <2>1, <2>2, <2>3, <2>4 DEF ServerTask
<1>2. OkStored'
  <2>1. /\ replies' = IF m.on = failures THEN replies \union {m.req} ELSE replies
        /\ answer' = IF m.on = failures THEN [answer EXCEPT ![m.req] = b] ELSE answer
    BY <1>1 DEF Answered, Handled
  <2>2. ASSUME NEW r \in replies', answer'[r].kind = "ok"
        PROVE  answer'[r].serial # 0 /\ answer'[r].data \subseteq disk'.data
    <3>1. CASE r = m.req /\ m.on = failures
      BY <1>0, <1>1, <2>1, <2>2, <3>1
    <3>2. CASE ~(r = m.req /\ m.on = failures)
      <4>1. r \in replies /\ answer'[r] = answer[r]
        BY <1>0, <2>1, <3>2
      <4> QED BY <2>2, <4>1 DEF SavedInv, OkStored
    <3> QED BY <3>1, <3>2
  <2> QED BY <2>2 DEF OkStored
<1> QED BY <1>0, <1>2, QuietKeepsSaved DEF IsLoaded, Waits

LEMMA NextKeepsSaved ==
    ASSUME AppTypeOK, RouterInv, DataInv, QueueInv, SavedInv, Next, disk.data \subseteq disk'.data
    PROVE  SavedInv'
<1>0. replies \subseteq Request /\ inbox \subseteq Message
  BY DEF RouterInv, RouterTypeOK
<1>1. CASE \E q \in replies : PageReply(q)
  BY <1>0, <1>1, ReplyKeepsSaved
<1>2. CASE \E m \in inbox : ServerTask(m)
  BY <1>0, <1>2, ServerKeepsSaved
<1> QED BY <1>1, <1>2, PageKeepsSaved DEF Next

(***************************************************************************)
(* What saveChanges and autoSave broadcast as saved is in the file or in a *)
(* save that waits for its reply, or the user was told of a failure: also  *)
(* when saves are queued, and when a save is found to have no changes.     *)
(***************************************************************************)
THEOREM SavesAreUnderWay == Spec => []SavedIsUnderWay
<1>1. Init => SavedInv
  <2> SUFFICES ASSUME Init PROVE SavedInv
    OBVIOUS
  <2>1. /\ replies = {} /\ queue = <<>> /\ announced = {} /\ last = {}
        /\ \A r \in Request : request[r].kind = "none"
    BY DEF Init, RouterInit, Nothing, Say
  <2> QED BY <2>1 DEF SavedInv, LoadsNothing, OkStored, Unloaded, Announcing, Announces, UnderWay
<1>2. IInv /\ disk.data \subseteq disk'.data /\ SavedInv /\ [Next]_vars => SavedInv'
  <2> SUFFICES ASSUME IInv, disk.data \subseteq disk'.data, SavedInv, [Next]_vars PROVE SavedInv'
    OBVIOUS
  <2>1. CASE Next
    BY <2>1, NextKeepsSaved DEF IInv
  <2>2. CASE UNCHANGED vars
    BY <2>2 DEF vars, appVars, routerVars, pageVars, SavedInv, LoadsNothing, OkStored, Unloaded, Announcing,
                Announces, UnderWay, OnItsWay, IsLoaded, Waits
  <2> QED BY <2>1, <2>2
<1>3. SavedInv => SavedIsUnderWay
  <2> SUFFICES ASSUME SavedInv, ~modal, ~alerted PROVE announced \subseteq OnItsWay
    BY DEF SavedIsUnderWay, OnItsWay, Waits
  <2> QED BY DEF SavedInv, UnderWay
<1>4. Spec => []IInv /\ [][disk.data \subseteq disk'.data]_vars
  BY StateSafe
<1>5. IInv /\ SavedInv /\ [Next]_vars /\ [disk.data \subseteq disk'.data]_vars => SavedInv'
  BY <1>2 DEF vars, appVars
<1> QED BY <1>1, <1>3, <1>4, <1>5, PTL DEF Spec
===============================================================================
