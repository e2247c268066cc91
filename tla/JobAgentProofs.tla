---------------------------- MODULE JobAgentProofs ----------------------------
(***************************************************************************)
(* Proofs about JobAgent: for any jobs, operations, faults and tries, the  *)
(* type invariant and every safety property of the agent.                  *)
(***************************************************************************)
EXTENDS JobAgent, SequenceTheorems, TLAPS

\* Operations are sent in order.
SentInOrder == \A o \in Sent, p \in Op : p < o => p \in Sent

\* Messages are of sent operations, with their jobs, in the order of the operations; a cancel comes
\* after the message of its operation.
MessagesOK ==
    \A i \in DOMAIN inbox :
        /\ inbox[i].op \in Sent
        /\ inbox[i].name = "op" => inbox[i].job = op[inbox[i].op].job
        /\ inbox[i].name = "cancel" /\ op[inbox[i].op].kind = "run" => inbox[i].job = op[inbox[i].op].job
InboxOrder == \A i, k \in DOMAIN inbox : i < k /\ inbox[k].name = "op" => inbox[i].op < inbox[k].op

\* Nobody waits for an agent that has no connection.
Quiet == link # "open" => Alive = {} /\ inbox = <<>>

\* An operation that was sent when another of its kind was alive is of another kind.
KindsDiffer == \A p \in Alive, o \in Sent : p < o => op[p].kind # op[o].kind

\* The operations whose message the agent has read, or lost with a connection.
Seen == {o \in Sent : \A i \in DOMAIN inbox : inbox[i].name = "op" => o < inbox[i].op}

\* Whatever the agent knows of, it has read.
SeenOnly ==
    /\ \A o \in Op \ Seen : cmd[o] = NoCmd
    /\ \A o \in Queued : o \in Seen /\ op[o].kind # "run"
    /\ \A c \in Op : cmd[c].msg # None => cmd[c].msg \in Seen /\ op[cmd[c].msg].kind # "run"

NoMsg == {"none", "accepted", "get", "ended"}

CmdOK(c) ==
    /\ cmd[c].kind = "none" => cmd[c] = NoCmd
    /\ cmd[c].destroyed # "no" => ~cmd[c].running
    /\ cmd[c].kind # "fastcgi" => cmd[c].loop = "none"
    /\ cmd[c].kind # "run" => cmd[c].out = "none"
    /\ cmd[c].msg = None <=> cmd[c].loop \in NoMsg
    /\ cmd[c].out = "dropped" => cmd[c].destroyed # "no"
    /\ cmd[c].exit = "send" => ~cmd[c].running /\ cmd[c].out = "none"

CmdsOK == \A c \in Op : CmdOK(c)

\* Who writes is where he waits for his write.
WriterOK(w) ==
    /\ w.task = "loop" => /\ w.cmd \in Op /\ cmd[w.cmd].loop \in {"accepted", "next"}
                         /\ w.op = cmd[w.cmd].msg
    /\ w.task = "stdout" => w.cmd \in Op /\ cmd[w.cmd].out = "sending" /\ w.op = w.cmd
    /\ w.task = "exit" => w.cmd \in Op /\ cmd[w.cmd].exit = "send"
    /\ w.reply = "canceled" => w.task = "main" /\ w.op \in Seen
WritersOK == \A i \in DOMAIN writers : WriterOK(writers[i])
OneWrite ==
    \A i, k \in DOMAIN writers :
        i # k /\ writers[i].task = writers[k].task /\ writers[i].task \in {"loop", "stdout"}
        => writers[i].cmd # writers[k].cmd

\* A run whose cancel was read has no process and will have none.
Dead(o) == o \in Seen /\ (cmd[o].kind = "run" => cmd[o].destroyed # "no")
CanceledAreDead == \A o \in canceled : Dead(o)
CancelingAreDead ==
    \A i \in DOMAIN writers :
        writers[i].reply = "canceled" /\ op[writers[i].op].kind = "run"
        => /\ Dead(writers[i].op)
           /\ \A k \in DOMAIN writers : i < k /\ writers[k].task = "stdout" => writers[k].op # writers[i].op

\* Loops in line wait, and a loop that waits on the queue of its process is in line.
GettersOK ==
    /\ \A i \in DOMAIN getters : cmd[getters[i]].loop = "get"
    /\ \A i, k \in DOMAIN getters : i # k => getters[i] # getters[k]
    /\ fastcgi # None /\ cmd[fastcgi].loop = "get" => \E i \in DOMAIN getters : getters[i] = fastcgi
    /\ fastcgi # None => cmd[fastcgi].loop # "ended"

\* An operation is in the queue or in a loop, not in both.
OncePlaced == \A c \in Op : cmd[c].msg \notin Queued

SupervisorInv == SentInOrder /\ MessagesOK /\ InboxOrder /\ Quiet /\ KindsDiffer
AgentInv == SeenOnly /\ CmdsOK /\ OneFastcgi /\ GettersOK /\ OncePlaced
WritersInv == WritersOK /\ OneWrite /\ CanceledAreDead /\ CancelingAreDead /\ NoUpdateAfterCancel

IInv == TypeOK /\ SupervisorInv /\ AgentInv /\ WritersInv /\ LastLineIsRead /\ NoneForgotten

-----------------------------------------------------------------------------
(***************************************************************************)
(* The supervisor's operations and the messages.                           *)
(***************************************************************************)
\* A step after which the operations are the same, but for their states, which go on.
Fades ==
    /\ op' \in [Op -> OpType \union {None}]
    /\ \A o \in Op : op'[o] = None <=> op[o] = None
    /\ \A o \in Sent : op'[o].kind = op[o].kind /\ op'[o].job = op[o].job
    /\ \A o \in Sent : op'[o].state # "over" => op[o].state # "over"
    /\ \A o \in Sent : op'[o].state = "waiting" => op[o].state = "waiting"

Ebbs == inbox' = inbox \/ (inbox # <<>> /\ inbox' = Tail(inbox)) \/ inbox' = <<>>

StaysQuiet == link' = link \/ link' = "open" \/ (Alive' = {} /\ inbox' = <<>>)

\* What the agent's part needs to know of a step of the supervisor's part.
Forward ==
    /\ Seen \subseteq Seen'
    /\ \A o \in Sent : o \in Sent' /\ op'[o].kind = op[o].kind /\ op'[o].job = op[o].job
    /\ \A o \in Seen : o \in Waiting' => o \in Waiting

\* The constants: operations are numbers, and None is none of the other values.
LEMMA OpIsNat == Op \subseteq Nat /\ None \notin Op /\ None \notin Job /\ \A r \in OpType : r # None
BY OpAssumption, NoneAssumption

\* Operations that were sent have their type.
LEMMA SentType ==
    ASSUME TypeOK
    PROVE  /\ Sent \subseteq Op /\ Alive \subseteq Sent /\ Waiting \subseteq Alive /\ Seen \subseteq Sent
           /\ \A o \in Sent : op[o] \in OpType
<1>1. \A o \in Op : op[o] \in OpType \union {None}
  BY DEF TypeOK
<1>2. \A o \in Sent : op[o] \in OpType
  BY <1>1 DEF Sent
<1> QED
  BY <1>2 DEF Sent, Alive, Waiting, Seen

\* Operations that stay the same fade.
LEMMA SameFades == ASSUME TypeOK, op' = op PROVE Fades
BY DEF TypeOK, Fades

\* Operations the supervisor destroys fade, and are not alive afterwards.
LEMMA OverFades ==
    ASSUME TypeOK, NEW O, op' = Over(O)
    PROVE  Fades /\ Alive' = Alive \ O
<1>1. op' \in [Op -> OpType \union {None}]
  <2>1. ASSUME NEW o \in Op PROVE (IF o \in O \intersect Alive THEN [op[o] EXCEPT !.state = "over"] ELSE op[o]) \in OpType \union {None}
    <3>1. CASE o \in Alive
      <4>1. op[o] \in OpType
        BY <3>1, SentType
      <4>2. [op[o] EXCEPT !.state = "over"] \in OpType
        BY <4>1 DEF OpType
      <4> QED
        BY <4>1, <4>2
    <3>2. CASE o \notin Alive
      BY <3>2 DEF TypeOK
    <3> QED
      BY <3>1, <3>2
  <2> QED
    BY <2>1 DEF Over
<1>2. \A o \in O \intersect Alive : op'[o] = [op[o] EXCEPT !.state = "over"] /\ op[o] \in OpType /\ op[o] # None
  BY SentType DEF Over, Sent
<1>3. \A o \in Op \ (O \intersect Alive) : op'[o] = op[o]
  BY DEF Over
<1>4. \A o \in O \intersect Alive : op'[o].state = "over" /\ op'[o].kind = op[o].kind /\ op'[o].job = op[o].job /\ op'[o] # None
  <2>1. ASSUME NEW o \in O \intersect Alive PROVE op'[o].state = "over" /\ op'[o].kind = op[o].kind /\ op'[o].job = op[o].job /\ op'[o] \in OpType
    BY <1>2 DEF OpType
  <2> QED
    BY <2>1, OpIsNat
<1>5. Fades
  BY <1>1, <1>3, <1>4, SentType DEF Fades, Sent, Alive
<1>6. Alive' = Alive \ O
  BY <1>3, <1>4, SentType DEF Sent, Alive
<1> QED
  BY <1>5, <1>6

\* No operation is sent, revived or waits again in such a step.
LEMMA FadesFacts ==
    ASSUME TypeOK, Fades
    PROVE  Sent' = Sent /\ Alive' \subseteq Alive /\ Waiting' \subseteq Waiting
BY DEF Fades, Sent, Alive, Waiting

\* The messages after an ebb are messages of before, in the same order.
LEMMA EbbsFacts ==
    ASSUME TypeOK, Ebbs
    PROVE  /\ inbox' \in Seq(MessageType)
           /\ \E d \in {0, 1} : \A i \in DOMAIN inbox' : i + d \in DOMAIN inbox /\ inbox'[i] = inbox[i + d] /\ i \in Nat
<1>1. CASE inbox' = inbox
  BY <1>1 DEF TypeOK
<1>2. CASE inbox # <<>> /\ inbox' = Tail(inbox)
  <2>1. inbox \in Seq(MessageType)
    BY DEF TypeOK
  <2>2. Len(inbox) \in Nat /\ Len(inbox) > 0 /\ DOMAIN inbox = 1..Len(inbox)
    BY <1>2, <2>1, EmptySeq
  <2>3. inbox' \in Seq(MessageType) /\ Len(inbox') = Len(inbox) - 1 /\ \A i \in 1..Len(inbox') : inbox'[i] = inbox[i + 1]
    BY <1>2, <2>1, HeadTailProperties
  <2>4. DOMAIN inbox' = 1..Len(inbox')
    BY <2>3
  <2> QED
    BY <2>2, <2>3, <2>4
<1>3. CASE inbox' = <<>>
  <2>1. <<>> \in Seq(MessageType) /\ DOMAIN <<>> = {}
    OBVIOUS
  <2> QED
    BY <1>3, <2>1
<1> QED
  BY <1>1, <1>2, <1>3 DEF Ebbs

\* The supervisor's part survives a step that sends nothing.
LEMMA EbbKeeps ==
    ASSUME TypeOK, SupervisorInv, Fades, Ebbs, StaysQuiet
    PROVE  SupervisorInv' /\ Forward
<1> USE FadesFacts, SentType
<1>1. PICK d \in {0, 1} : \A i \in DOMAIN inbox' : i + d \in DOMAIN inbox /\ inbox'[i] = inbox[i + d] /\ i \in Nat
  BY EbbsFacts
<1>2. SentInOrder'
  BY DEF SupervisorInv, SentInOrder
<1>3. MessagesOK'
  BY <1>1 DEF SupervisorInv, MessagesOK, Fades
<1>4. InboxOrder'
  <2>1. ASSUME NEW i \in DOMAIN inbox', NEW k \in DOMAIN inbox', i < k, inbox'[k].name = "op"
        PROVE  inbox'[i].op < inbox'[k].op
    <3>1. i + d < k + d /\ inbox'[i] = inbox[i + d] /\ inbox'[k] = inbox[k + d] /\ i + d \in DOMAIN inbox /\ k + d \in DOMAIN inbox
      BY <1>1, <2>1
    <3> QED
      BY <2>1, <3>1 DEF SupervisorInv, InboxOrder
  <2> QED
    BY <2>1 DEF InboxOrder
<1>5. Quiet'
  <2>1. CASE link' = link
    <3>1. link # "open" => Alive' = {} /\ inbox' = <<>>
      <4>1. inbox = <<>> => inbox' = <<>>
        BY DEF Ebbs
      <4> QED
        BY <4>1 DEF SupervisorInv, Quiet
    <3> QED
      BY <2>1, <3>1 DEF Quiet
  <2>2. CASE link' = "open" \/ (Alive' = {} /\ inbox' = <<>>)
    BY <2>2 DEF Quiet
  <2> QED
    BY <2>1, <2>2 DEF StaysQuiet
<1>6. KindsDiffer'
  BY DEF SupervisorInv, KindsDiffer, Fades
<1>7. Seen \subseteq Seen'
  BY <1>1 DEF Seen
<1>8. \A o \in Sent : o \in Sent' /\ op'[o].kind = op[o].kind /\ op'[o].job = op[o].job
  BY DEF Fades
<1> QED
  BY <1>2, <1>3, <1>4, <1>5, <1>6, <1>7, <1>8 DEF SupervisorInv, Forward

\* What a sequence is after one element was appended.
LEMMA AppendFacts ==
    ASSUME NEW S, NEW s \in Seq(S), NEW e \in S, NEW t, t = Append(s, e)
    PROVE  /\ t \in Seq(S) /\ Len(s) \in Nat
           /\ DOMAIN s = 1..Len(s) /\ DOMAIN t = 1..(Len(s) + 1)
           /\ \A i \in 1..Len(s) : t[i] = s[i]
           /\ t[Len(s) + 1] = e
BY AppendProperties

\* The supervisor's part survives a new operation.
LEMMA SendKeeps ==
    ASSUME TypeOK, SupervisorInv, NEW o \in Op, NEW k \in Kind, NEW j \in Job, Send(o, k, j)
    PROVE  /\ op' \in [Op -> OpType \union {None}] /\ inbox' \in Seq(MessageType)
           /\ SupervisorInv' /\ Forward /\ o \notin Seen
           /\ Waiting' = Waiting \union {o} /\ \E i \in DOMAIN inbox' : inbox'[i].name = "op" /\ inbox'[i].op = o
           /\ \A i \in DOMAIN inbox : i \in DOMAIN inbox' /\ inbox'[i] = inbox[i]
<1> DEFINE r == [kind |-> k, job |-> j, state |-> "waiting"]
           m == [name |-> "op", op |-> o, job |-> j]
<1>1. r \in OpType /\ m \in MessageType /\ r.kind = k /\ r.job = j /\ r.state = "waiting" /\ m.name = "op" /\ m.op = o /\ m.job = j
  BY DEF OpType, MessageType
<1>2. op' = [op EXCEPT ![o] = r] /\ inbox' = Append(inbox, m) /\ o \notin Sent
  BY DEF Send
<1> HIDE DEF r, m
<1>3. r # None
  BY <1>1, OpIsNat
<1>4. op \in [Op -> OpType \union {None}] /\ inbox \in Seq(MessageType)
  BY DEF TypeOK
<1>5. op' \in [Op -> OpType \union {None}] /\ op'[o] = r /\ \A p \in Op : p # o => op'[p] = op[p]
  BY <1>1, <1>2, <1>4
<1>6. Sent' = Sent \union {o} /\ Alive' = Alive \union {o} /\ Waiting' = Waiting \union {o}
  <2>1. \A p \in Sent : p # o /\ op'[p] = op[p]
    BY <1>2, <1>5, SentType
  <2>2. Sent' = Sent \union {o}
    BY <1>3, <1>5, <2>1 DEF Sent
  <2> QED
    BY <1>1, <1>5, <2>1, <2>2 DEF Alive, Waiting
<1>7. \A p \in Sent : p < o /\ p # o /\ op'[p] = op[p]
  <2>1. \A p \in Sent : p \in Op /\ p # o
    BY <1>2, SentType
  <2>2. \A p \in Sent : ~(o < p)
    BY <1>2 DEF SupervisorInv, SentInOrder
  <2>3. o \in Nat /\ \A p \in Sent : p \in Nat
    BY <2>1, OpIsNat
  <2> QED
    BY <1>5, <2>1, <2>2, <2>3
<1>8. SentInOrder'
  <2>1. \A p \in Op : p < o => p \in Sent
    BY DEF Send
  <2> QED
    BY <1>6, <2>1 DEF SupervisorInv, SentInOrder
<1>9. /\ inbox' \in Seq(MessageType) /\ Len(inbox) \in Nat
      /\ DOMAIN inbox = 1..Len(inbox) /\ DOMAIN inbox' = 1..(Len(inbox) + 1)
      /\ \A i \in 1..Len(inbox) : inbox'[i] = inbox[i]
      /\ inbox'[Len(inbox) + 1] = m
  BY <1>1, <1>2, <1>4, AppendFacts
<1>10. \A i \in DOMAIN inbox : inbox[i].op \in Sent
  BY DEF SupervisorInv, MessagesOK
<1>11. MessagesOK'
  <2>1. ASSUME NEW i \in DOMAIN inbox'
        PROVE  /\ inbox'[i].op \in Sent'
               /\ inbox'[i].name = "op" => inbox'[i].job = op'[inbox'[i].op].job
               /\ inbox'[i].name = "cancel" /\ op'[inbox'[i].op].kind = "run" => inbox'[i].job = op'[inbox'[i].op].job
    <3>1. CASE i \in DOMAIN inbox
      <4>1. inbox'[i] = inbox[i] /\ inbox[i].op \in Sent /\ op'[inbox[i].op] = op[inbox[i].op]
        BY <1>7, <1>9, <1>10, <3>1
      <4> QED
        BY <1>6, <3>1, <4>1 DEF SupervisorInv, MessagesOK
    <3>2. CASE i = Len(inbox) + 1
      BY <1>1, <1>5, <1>6, <1>9, <3>2
    <3> QED
      BY <1>9, <3>1, <3>2
  <2> QED
    BY <2>1 DEF MessagesOK
<1>12. InboxOrder'
  <2>1. ASSUME NEW i \in DOMAIN inbox', NEW n \in DOMAIN inbox', i < n, inbox'[n].name = "op"
        PROVE  inbox'[i].op < inbox'[n].op
    <3>1. i \in DOMAIN inbox
      BY <1>9, <2>1
    <3>2. CASE n \in DOMAIN inbox
      BY <1>9, <2>1, <3>1, <3>2 DEF SupervisorInv, InboxOrder
    <3>3. CASE n = Len(inbox) + 1
      BY <1>1, <1>7, <1>9, <1>10, <3>1, <3>3
    <3> QED
      BY <1>9, <3>2, <3>3
  <2> QED
    BY <2>1 DEF InboxOrder
<1>13. Quiet'
  BY DEF Send, linkVars, Quiet
<1>14. KindsDiffer'
  <2>1. \A p \in Alive : op[p].kind # k
    BY DEF Send
  <2>2. Alive \subseteq Sent
    BY SentType
  <2>3. ASSUME NEW p \in Alive', NEW q \in Sent', p < q PROVE op'[p].kind # op'[q].kind
    <3>1. CASE q = o
      BY <1>1, <1>5, <1>6, <1>7, <2>1, <2>2, <2>3, <3>1, OpIsNat
    <3>2. CASE q \in Sent
      <4>1. p # o
        <5>1. q < o /\ q \in Nat /\ o \in Nat
          BY <1>7, <3>2, OpIsNat, SentType
        <5> QED
          BY <2>3, <5>1
      <4> QED
        BY <1>6, <1>7, <2>2, <2>3, <3>2, <4>1 DEF SupervisorInv, KindsDiffer
    <3> QED
      BY <1>6, <3>1, <3>2
  <2> QED
    BY <2>3 DEF KindsDiffer
<1>15. Forward
  <2>1. Seen \subseteq Seen'
    <3>1. ASSUME NEW p \in Seen PROVE p \in Seen'
      <4>1. p \in Sent /\ \A i \in DOMAIN inbox : inbox[i].name = "op" => p < inbox[i].op
        BY DEF Seen
      <4>2. ASSUME NEW i \in DOMAIN inbox', inbox'[i].name = "op" PROVE p < inbox'[i].op
        BY <1>1, <1>7, <1>9, <4>1, <4>2
      <4> QED
        BY <1>6, <4>1, <4>2 DEF Seen
    <3> QED
      BY <3>1
  <2> QED
    BY <1>2, <1>6, <1>7, <2>1, SentType DEF Forward
<1> QED
  BY <1>1, <1>2, <1>5, <1>6, <1>8, <1>9, <1>11, <1>12, <1>13, <1>14, <1>15, SentType DEF SupervisorInv

\* The supervisor's part survives a cancel.
LEMMA CancelKeeps ==
    ASSUME TypeOK, SupervisorInv, NEW o \in Op, Cancel(o)
    PROVE  /\ op' \in [Op -> OpType \union {None}] /\ inbox' \in Seq(MessageType)
           /\ SupervisorInv' /\ Forward /\ Waiting' \subseteq Waiting
           /\ \A i \in DOMAIN inbox : i \in DOMAIN inbox' /\ inbox'[i] = inbox[i]
<1> DEFINE m == [name |-> "cancel", op |-> o, job |-> IF op[o].kind = "run" THEN op[o].job ELSE None]
<1>1. o \in Alive /\ op' = Over({o}) /\ inbox' = Append(inbox, m)
  BY DEF Cancel
<1>2. Fades /\ Alive' = Alive \ {o}
  BY <1>1, OverFades
<1>3. o \in Sent /\ op[o] \in OpType
  BY <1>1, SentType
<1>4. m \in MessageType /\ m.name = "cancel" /\ m.op = o /\ (op[o].kind = "run" => m.job = op[o].job)
  BY <1>3 DEF MessageType, OpType
<1> HIDE DEF m
<1>5. /\ inbox' \in Seq(MessageType) /\ Len(inbox) \in Nat
      /\ DOMAIN inbox = 1..Len(inbox) /\ DOMAIN inbox' = 1..(Len(inbox) + 1)
      /\ \A i \in 1..Len(inbox) : inbox'[i] = inbox[i]
      /\ inbox'[Len(inbox) + 1] = m
  <2>1. inbox \in Seq(MessageType)
    BY DEF TypeOK
  <2> QED
    BY <1>1, <1>4, <2>1, AppendFacts
<1>6. Sent' = Sent /\ Alive' \subseteq Alive /\ Waiting' \subseteq Waiting
  BY <1>2, FadesFacts
<1>7. SentInOrder'
  BY <1>6 DEF SupervisorInv, SentInOrder
<1>8. MessagesOK'
  <2>1. ASSUME NEW i \in DOMAIN inbox'
        PROVE  /\ inbox'[i].op \in Sent'
               /\ inbox'[i].name = "op" => inbox'[i].job = op'[inbox'[i].op].job
               /\ inbox'[i].name = "cancel" /\ op'[inbox'[i].op].kind = "run" => inbox'[i].job = op'[inbox'[i].op].job
    <3>1. CASE i \in DOMAIN inbox
      <4>1. inbox'[i] = inbox[i] /\ inbox[i].op \in Sent
        BY <1>5, <3>1 DEF SupervisorInv, MessagesOK
      <4> QED
        BY <1>2, <1>6, <3>1, <4>1 DEF SupervisorInv, MessagesOK, Fades
    <3>2. CASE i = Len(inbox) + 1
      BY <1>2, <1>3, <1>4, <1>5, <1>6, <3>2 DEF Fades
    <3> QED
      BY <1>5, <3>1, <3>2
  <2> QED
    BY <2>1 DEF MessagesOK
<1>9. InboxOrder'
  BY <1>4, <1>5 DEF SupervisorInv, InboxOrder
<1>10. Quiet'
  BY DEF Cancel, linkVars, Quiet
<1>11. KindsDiffer'
  BY <1>2, <1>6, SentType DEF SupervisorInv, KindsDiffer, Fades
<1>12. Forward
  BY <1>2, <1>4, <1>5, <1>6, SentType DEF Forward, Fades, Seen
<1> QED
  BY <1>2, <1>5, <1>6, <1>7, <1>8, <1>9, <1>10, <1>11, <1>12 DEF SupervisorInv, Fades

-----------------------------------------------------------------------------
(***************************************************************************)
(* What the actions do to commands.                                        *)
(***************************************************************************)
\* Command c changes, the others do not.
Changes(c, running, exit, loop, msg, out) ==
    /\ cmd' \in [Op -> CmdType]
    /\ \A d \in Op : d # c => cmd'[d] = cmd[d]
    /\ cmd'[c].kind = cmd[c].kind /\ cmd'[c].destroyed = cmd[c].destroyed
    /\ cmd'[c].running = running /\ cmd'[c].exit = exit /\ cmd'[c].loop = loop
    /\ cmd'[c].msg = msg /\ cmd'[c].out = out

\* Command o begins as r.
Begins(o, r) ==
    /\ cmd' \in [Op -> CmdType]
    /\ \A d \in Op : d # o => cmd'[d] = cmd[d]
    /\ cmd'[o] = r

\* The commands C are destroyed.
Kills(C, why) ==
    /\ cmd' \in [Op -> CmdType]
    /\ \A d \in Op \ C : cmd'[d] = cmd[d]
    /\ \A c \in C : /\ cmd'[c].kind = cmd[c].kind /\ cmd'[c].exit = cmd[c].exit
                    /\ cmd'[c].loop = cmd[c].loop /\ cmd'[c].msg = cmd[c].msg /\ cmd'[c].out = cmd[c].out
                    /\ cmd'[c].destroyed = why /\ ~cmd'[c].running

\* The values the fields of a command have.
LEMMA CmdFields ==
    \A r \in CmdType : /\ r.running \in BOOLEAN /\ r.msg \in Op \union {None}
                       /\ r.kind \in {"none", "fastcgi", "run"} /\ r.destroyed \in {"no", "asked", "exit"}
                       /\ r.exit \in {"wait", "send"} /\ r.out \in {"none", "written", "sending", "told", "dropped"}
                       /\ r.loop \in {"none", "accepted", "next", "get", "busy", "answered", "ended"}
BY DEF CmdType

\* Every command has its type.
LEMMA CmdTyped == ASSUME TypeOK PROVE cmd \in [Op -> CmdType] /\ \A c \in Op : cmd[c] \in CmdType
BY DEF TypeOK

\* A new state of a loop changes that command alone.
LEMMA LoopChanges ==
    ASSUME TypeOK, NEW c \in Op,
           NEW l \in {"none", "accepted", "next", "get", "busy", "answered", "ended"},
           cmd' = [cmd EXCEPT ![c].loop = l]
    PROVE  Changes(c, cmd[c].running, cmd[c].exit, l, cmd[c].msg, cmd[c].out)
<1> DEFINE r == [cmd[c] EXCEPT !.loop = l]
<1>1. cmd \in [Op -> CmdType] /\ cmd[c] \in CmdType
  BY CmdTyped
<1>2. cmd' = [cmd EXCEPT ![c] = r]
  BY <1>1
<1>3. /\ r \in CmdType /\ r.kind = cmd[c].kind /\ r.destroyed = cmd[c].destroyed
      /\ r.running = cmd[c].running /\ r.exit = cmd[c].exit /\ r.loop = l /\ r.msg = cmd[c].msg /\ r.out = cmd[c].out
  BY <1>1 DEF CmdType
<1> HIDE DEF r
<1> QED
  BY <1>1, <1>2, <1>3 DEF Changes

\* So does a new state with a new message.
LEMMA LoopMsgChanges ==
    ASSUME TypeOK, NEW c \in Op, NEW m \in Op \union {None},
           NEW l \in {"none", "accepted", "next", "get", "busy", "answered", "ended"},
           cmd' = [cmd EXCEPT ![c].loop = l, ![c].msg = m]
    PROVE  Changes(c, cmd[c].running, cmd[c].exit, l, m, cmd[c].out)
<1> DEFINE r == [cmd[c] EXCEPT !.loop = l, !.msg = m]
<1>1. cmd \in [Op -> CmdType] /\ cmd[c] \in CmdType
  BY CmdTyped
<1>2. cmd' = [cmd EXCEPT ![c] = r]
  BY <1>1
<1>3. /\ r \in CmdType /\ r.kind = cmd[c].kind /\ r.destroyed = cmd[c].destroyed
      /\ r.running = cmd[c].running /\ r.exit = cmd[c].exit /\ r.loop = l /\ r.msg = m /\ r.out = cmd[c].out
  BY <1>1 DEF CmdType
<1> HIDE DEF r
<1> QED
  BY <1>1, <1>2, <1>3 DEF Changes

\* So does a new state of a run's output,
LEMMA OutChanges ==
    ASSUME TypeOK, NEW c \in Op, NEW u \in {"none", "written", "sending", "told", "dropped"},
           cmd' = [cmd EXCEPT ![c].out = u]
    PROVE  Changes(c, cmd[c].running, cmd[c].exit, cmd[c].loop, cmd[c].msg, u)
<1> DEFINE r == [cmd[c] EXCEPT !.out = u]
<1>1. cmd \in [Op -> CmdType] /\ cmd[c] \in CmdType
  BY CmdTyped
<1>2. cmd' = [cmd EXCEPT ![c] = r]
  BY <1>1
<1>3. /\ r \in CmdType /\ r.kind = cmd[c].kind /\ r.destroyed = cmd[c].destroyed
      /\ r.running = cmd[c].running /\ r.exit = cmd[c].exit /\ r.loop = cmd[c].loop /\ r.msg = cmd[c].msg /\ r.out = u
  BY <1>1 DEF CmdType
<1> HIDE DEF r
<1> QED
  BY <1>1, <1>2, <1>3 DEF Changes

\* the end of a process,
LEMMA RunningChanges ==
    ASSUME TypeOK, NEW c \in Op, cmd' = [cmd EXCEPT ![c].running = FALSE]
    PROVE  Changes(c, FALSE, cmd[c].exit, cmd[c].loop, cmd[c].msg, cmd[c].out)
<1> DEFINE r == [cmd[c] EXCEPT !.running = FALSE]
<1>1. cmd \in [Op -> CmdType] /\ cmd[c] \in CmdType
  BY CmdTyped
<1>2. cmd' = [cmd EXCEPT ![c] = r]
  BY <1>1
<1>3. /\ r \in CmdType /\ r.kind = cmd[c].kind /\ r.destroyed = cmd[c].destroyed
      /\ r.running = FALSE /\ r.exit = cmd[c].exit /\ r.loop = cmd[c].loop /\ r.msg = cmd[c].msg /\ r.out = cmd[c].out
  BY <1>1 DEF CmdType
<1> HIDE DEF r
<1> QED
  BY <1>1, <1>2, <1>3 DEF Changes

\* and the note that its exit is being sent.
LEMMA ExitChanges ==
    ASSUME TypeOK, NEW c \in Op, cmd' = [cmd EXCEPT ![c].exit = "send"]
    PROVE  Changes(c, cmd[c].running, "send", cmd[c].loop, cmd[c].msg, cmd[c].out)
<1> DEFINE r == [cmd[c] EXCEPT !.exit = "send"]
<1>1. cmd \in [Op -> CmdType] /\ cmd[c] \in CmdType
  BY CmdTyped
<1>2. cmd' = [cmd EXCEPT ![c] = r]
  BY <1>1
<1>3. /\ r \in CmdType /\ r.kind = cmd[c].kind /\ r.destroyed = cmd[c].destroyed
      /\ r.running = cmd[c].running /\ r.exit = "send" /\ r.loop = cmd[c].loop /\ r.msg = cmd[c].msg /\ r.out = cmd[c].out
  BY <1>1 DEF CmdType
<1> HIDE DEF r
<1> QED
  BY <1>1, <1>2, <1>3 DEF Changes

\* What _Cmd.destroy leaves of a command.
LEMMA KilledFields ==
    ASSUME NEW r \in CmdType, NEW why \in {"asked", "exit"}
    PROVE  /\ Killed(r, why) \in CmdType
           /\ Killed(r, why).kind = r.kind /\ Killed(r, why).exit = r.exit /\ Killed(r, why).loop = r.loop
           /\ Killed(r, why).msg = r.msg /\ Killed(r, why).out = r.out
           /\ Killed(r, why).destroyed = why /\ ~Killed(r, why).running
BY DEF Killed, CmdType

\* Destroy kills the commands it is given.
LEMMA DestroyKills ==
    ASSUME TypeOK, NEW C \in SUBSET Op, NEW why \in {"asked", "exit"}, Destroy(C, why)
    PROVE  Kills(C, why)
<1>1. cmd' = [c \in Op |-> IF c \in C THEN Killed(cmd[c], why) ELSE cmd[c]]
  BY DEF Destroy
<1>2. \A c \in Op : /\ Killed(cmd[c], why) \in CmdType
                    /\ Killed(cmd[c], why).kind = cmd[c].kind /\ Killed(cmd[c], why).exit = cmd[c].exit
                    /\ Killed(cmd[c], why).loop = cmd[c].loop
                    /\ Killed(cmd[c], why).msg = cmd[c].msg /\ Killed(cmd[c], why).out = cmd[c].out
                    /\ Killed(cmd[c], why).destroyed = why /\ ~Killed(cmd[c], why).running
  BY CmdTyped, KilledFields
<1> QED
  BY <1>1, <1>2, CmdTyped DEF Kills

-----------------------------------------------------------------------------
(***************************************************************************)
(* The commands and fastcgi.                                               *)
(***************************************************************************)
\* What a command of an operation that was seen does not change back.
CmdForward ==
    \A c \in Seen : cmd'[c].kind = cmd[c].kind /\ (cmd[c].destroyed # "no" => cmd'[c].destroyed # "no")

\* The agent has read the message of every command; fastcgi is one of them, and the only process of
\* its kind.
LEMMA CmdsSeen ==
    ASSUME TypeOK, AgentInv
    PROVE  /\ Cmds \subseteq Seen /\ Cmds \subseteq Op
           /\ \A c \in Op : cmd[c].kind # "none" => c \in Seen
           /\ fastcgi # None => fastcgi \in Cmds /\ cmd[fastcgi].kind = "fastcgi" /\ queue # None
           /\ \A c \in Op : cmd[c].kind = "fastcgi" /\ cmd[c].destroyed = "no" => c = fastcgi
<1>1. \A c \in Op : cmd[c].kind # "none" => c \in Seen
  BY DEF AgentInv, SeenOnly, NoCmd
<1>2. fastcgi # None => fastcgi \in Cmds /\ cmd[fastcgi].kind = "fastcgi" /\ queue # None
  BY DEF AgentInv, OneFastcgi, TypeOK
<1>3. \A c \in Op : cmd[c].kind = "fastcgi" /\ cmd[c].destroyed = "no" => c = fastcgi
  BY DEF AgentInv, OneFastcgi, Cmds
<1> QED
  BY <1>1, <1>2, <1>3 DEF Cmds

\* The agent's part survives a step of the supervisor alone,
LEMMA SameKeeps ==
    ASSUME TypeOK, AgentInv, Forward, UNCHANGED <<cmd, fastcgi, queue, getters>>
    PROVE  AgentInv' /\ CmdForward /\ cmd' \in [Op -> CmdType]
<1>1. SeenOnly'
  BY SentType DEF AgentInv, SeenOnly, Forward, Queued
<1>2. CmdsOK' /\ OneFastcgi' /\ GettersOK' /\ OncePlaced'
  BY DEF AgentInv, CmdsOK, CmdOK, OneFastcgi, GettersOK, OncePlaced, Cmds, Queued
<1> QED
  BY <1>1, <1>2, CmdTyped DEF AgentInv, CmdForward

\* and the destruction of some commands.
LEMMA KillKeeps ==
    ASSUME TypeOK, AgentInv, Forward, NEW C \in SUBSET Cmds, NEW why \in {"asked", "exit"}, Kills(C, why),
           fastcgi' = IF fastcgi \in C THEN None ELSE fastcgi, UNCHANGED <<queue, getters>>
    PROVE  AgentInv' /\ CmdForward /\ cmd' \in [Op -> CmdType]
<1> USE CmdsSeen
<1>1. CmdForward
  <2>1. Seen \subseteq Op
    BY SentType
  <2> QED
    BY <2>1 DEF CmdForward, Kills
<1>2. SeenOnly'
  <2>1. \A o \in Op \ Seen' : cmd'[o] = NoCmd
    BY DEF AgentInv, SeenOnly, Forward, Kills
  <2>2. \A o \in Queued' : o \in Seen' /\ op'[o].kind # "run"
    BY SentType DEF AgentInv, SeenOnly, Forward, Queued
  <2>3. \A c \in Op : cmd'[c].msg # None => cmd'[c].msg \in Seen' /\ op'[cmd'[c].msg].kind # "run"
    <3>1. \A c \in Op : cmd'[c].msg = cmd[c].msg
      BY DEF Kills
    <3> QED
      BY <3>1, SentType DEF AgentInv, SeenOnly, Forward
  <2> QED
    BY <2>1, <2>2, <2>3 DEF SeenOnly
<1>3. CmdsOK'
  <2>1. ASSUME NEW c \in Op PROVE CmdOK(c)'
    <3>1. CASE c \in C
      BY <3>1 DEF AgentInv, CmdsOK, CmdOK, Kills, Cmds
    <3>2. CASE c \notin C
      BY <3>2 DEF AgentInv, CmdsOK, CmdOK, Kills
    <3> QED
      BY <3>1, <3>2
  <2> QED
    BY <2>1 DEF CmdsOK
<1>4. Cmds' = Cmds \ C
  BY DEF Cmds, Kills
<1>5. OneFastcgi'
  <2>1. \A c \in Cmds : cmd'[c].kind = cmd[c].kind
    BY DEF Kills
  <2> QED
    BY <1>4, <2>1, OpIsNat DEF AgentInv, OneFastcgi
<1>6. GettersOK'
  <2>1. \A c \in Op : cmd'[c].loop = cmd[c].loop
    BY DEF Kills
  <2>2. \A i \in DOMAIN getters : getters[i] \in Op
    BY DEF TypeOK
  <2> QED
    BY <2>1, <2>2 DEF AgentInv, GettersOK, TypeOK
<1>7. OncePlaced'
  BY DEF AgentInv, OncePlaced, Kills, Queued
<1> QED
  BY <1>1, <1>2, <1>3, <1>5, <1>6, <1>7 DEF AgentInv, Kills

\* A step of command c that is no matter of the queue.
LEMMA ChangeKeeps ==
    ASSUME TypeOK, AgentInv, Forward, NEW c \in Op, cmd[c].kind # "none",
           NEW running, NEW exit, NEW loop, NEW msg, NEW out, Changes(c, running, exit, loop, msg, out),
           CmdOK(c)', UNCHANGED <<fastcgi, queue, getters>>, msg \in {cmd[c].msg, None},
           \/ loop = cmd[c].loop
           \/ cmd[c].loop # "get" /\ loop # "get" /\ (loop = "ended" => fastcgi # c)
    PROVE  AgentInv' /\ CmdForward /\ cmd' \in [Op -> CmdType]
<1>1. c \in Seen
  BY CmdsSeen
<1>2. CmdForward
  <2>1. Seen \subseteq Op
    BY SentType
  <2> QED
    BY <2>1 DEF CmdForward, Changes
<1>3. SeenOnly'
  <2>1. \A o \in Op \ Seen' : cmd'[o] = NoCmd
    BY <1>1 DEF AgentInv, SeenOnly, Forward, Changes
  <2>2. \A o \in Queued' : o \in Seen' /\ op'[o].kind # "run"
    BY SentType DEF AgentInv, SeenOnly, Forward, Queued
  <2>3. \A d \in Op : cmd'[d].msg # None => cmd'[d].msg \in Seen' /\ op'[cmd'[d].msg].kind # "run"
    <3>1. \A d \in Op : cmd'[d].msg = cmd[d].msg \/ cmd'[d].msg = None
      BY DEF Changes
    <3> QED
      BY <3>1, SentType DEF AgentInv, SeenOnly, Forward
  <2> QED
    BY <2>1, <2>2, <2>3 DEF SeenOnly
<1>4. CmdsOK'
  <2>1. ASSUME NEW d \in Op, d # c PROVE CmdOK(d)'
    BY <2>1 DEF AgentInv, CmdsOK, CmdOK, Changes
  <2> QED
    BY <2>1 DEF CmdsOK
<1>5. Cmds' = Cmds /\ \A d \in Op : cmd'[d].kind = cmd[d].kind
  BY DEF Cmds, Changes
<1>6. OneFastcgi'
  BY <1>5 DEF AgentInv, OneFastcgi, Cmds
<1>7. GettersOK'
  <2>1. \A i \in DOMAIN getters : getters[i] \in Op
    BY DEF TypeOK
  <2>2. fastcgi # None => fastcgi \in Op
    BY DEF TypeOK
  <2>3. \A i \in DOMAIN getters : cmd'[getters[i]].loop = "get"
    BY <2>1 DEF AgentInv, GettersOK, Changes
  <2>4. fastcgi # None /\ cmd'[fastcgi].loop = "get" => \E i \in DOMAIN getters : getters[i] = fastcgi
    BY <2>2 DEF AgentInv, GettersOK, Changes
  <2>5. fastcgi # None => cmd'[fastcgi].loop # "ended"
    BY <2>2 DEF AgentInv, GettersOK, Changes
  <2> QED
    BY <2>3, <2>4, <2>5 DEF AgentInv, GettersOK
<1>8. OncePlaced'
  <2>1. None \notin Queued
    BY OpIsNat, SentType DEF AgentInv, SeenOnly
  <2> QED
    BY <2>1 DEF AgentInv, OncePlaced, Changes, Queued
<1> QED
  BY <1>2, <1>3, <1>4, <1>6, <1>7, <1>8 DEF AgentInv, Changes

\* A queue with a message is not the missing queue.
LEMMA QueueWithOne == ASSUME NEW o \in Op PROVE <<o>> # None
<1>1. o \in Nat
  BY OpIsNat
<1>2. <<o>> \in Seq(Nat)
  BY <1>1
<1> QED
  BY <1>2, NoneAssumption

\* What the queue can hold, and what that says of fastcgi.
LEMMA QueueIs ==
    ASSUME TypeOK, AgentInv
    PROVE  /\ queue = None => Queued = {}
           /\ queue = <<>> => Queued = {}
           /\ \A o \in Op : queue = <<o>> => Queued = {o}
           /\ queue \notin {None, <<>>} => Head(queue) \in Op /\ Head(queue) \in Queued /\ Queued = {Head(queue)}
           /\ None \notin Queued /\ Queued \subseteq Seen
           /\ queue = None => fastcgi = None
<1>1. \A o : <<o>> # None => Range(<<o>>) = {o}
  BY DEF Range
<1>2. Range(<<>>) = {}
  BY DEF Range
<1>3. \A o \in Op : <<o>> # None
  BY QueueWithOne
<1>4. queue = None => Queued = {}
  BY DEF Queued
<1>5. queue = <<>> => Queued = {}
  <2>1. <<>> \in Seq(Nat)
    OBVIOUS
  <2>2. <<>> # None
    BY <2>1, NoneAssumption
  <2> QED
    BY <1>2, <2>2 DEF Queued
<1>6. ASSUME NEW o \in Op, queue = <<o>> PROVE Queued = {o}
  BY <1>1, <1>3, <1>6 DEF Queued
<1>7. queue \notin {None, <<>>} => Head(queue) \in Op /\ Head(queue) \in Queued /\ Queued = {Head(queue)}
  <2>1. SUFFICES ASSUME queue \notin {None, <<>>} PROVE Head(queue) \in Op /\ Head(queue) \in Queued /\ Queued = {Head(queue)}
    OBVIOUS
  <2>2. PICK o \in Op : queue = <<o>>
    BY <2>1 DEF TypeOK
  <2> QED
    BY <1>6, <2>2
<1>8. None \notin Queued /\ Queued \subseteq Seen
  BY OpIsNat, SentType DEF AgentInv, SeenOnly
<1>9. queue = None => fastcgi = None
  BY DEF TypeOK
<1> QED
  BY <1>4, <1>5, <1>6, <1>7, <1>8, <1>9

\* The loop of c waits for a message.
LEMMA GetKeeps ==
    ASSUME TypeOK, AgentInv, Forward, NEW c \in Op, cmd[c].loop \in {"accepted", "next"},
           queue = <<>>, Changes(c, cmd[c].running, cmd[c].exit, "get", None, cmd[c].out),
           getters' = Append(getters, c), UNCHANGED <<fastcgi, queue>>
    PROVE  AgentInv' /\ CmdForward /\ getters' \in Seq(Op)
<1>1. c \in Seen /\ cmd[c].kind = "fastcgi"
  BY CmdsSeen DEF AgentInv, CmdsOK, CmdOK
<1>2. CmdForward
  BY SentType DEF CmdForward, Changes
<1>3. SeenOnly'
  <2>1. \A o \in Op \ Seen' : cmd'[o] = NoCmd
    BY <1>1 DEF AgentInv, SeenOnly, Forward, Changes
  <2>2. Queued' = {}
    BY QueueIs DEF Queued
  <2>3. \A d \in Op : cmd'[d].msg # None => cmd'[d].msg \in Seen' /\ op'[cmd'[d].msg].kind # "run"
    <3>1. \A d \in Op : cmd'[d].msg = cmd[d].msg \/ cmd'[d].msg = None
      BY DEF Changes
    <3> QED
      BY <3>1, SentType DEF AgentInv, SeenOnly, Forward
  <2> QED
    BY <2>1, <2>2, <2>3 DEF SeenOnly
<1>4. CmdsOK'
  <2>1. ASSUME NEW d \in Op PROVE CmdOK(d)'
    BY <1>1 DEF AgentInv, CmdsOK, CmdOK, Changes, NoMsg
  <2> QED
    BY <2>1 DEF CmdsOK
<1>5. Cmds' = Cmds /\ \A d \in Op : cmd'[d].kind = cmd[d].kind
  BY DEF Cmds, Changes
<1>6. OneFastcgi'
  BY <1>5 DEF AgentInv, OneFastcgi, Cmds
<1>7. /\ getters' \in Seq(Op) /\ Len(getters) \in Nat
      /\ DOMAIN getters = 1..Len(getters) /\ DOMAIN getters' = 1..(Len(getters) + 1)
      /\ \A i \in 1..Len(getters) : getters'[i] = getters[i]
      /\ getters'[Len(getters) + 1] = c
  <2>1. getters \in Seq(Op)
    BY DEF TypeOK
  <2> QED
    BY <2>1, AppendFacts
<1>8. \A i \in DOMAIN getters : getters[i] \in Op /\ getters[i] # c /\ cmd'[getters[i]].loop = "get"
  <2>1. \A i \in DOMAIN getters : getters[i] \in Op
    BY DEF TypeOK
  <2> QED
    BY <2>1 DEF AgentInv, GettersOK, Changes
<1>9. GettersOK'
  <2>1. \A i \in DOMAIN getters' : cmd'[getters'[i]].loop = "get"
    BY <1>7, <1>8 DEF Changes
  <2>2. \A i, k \in DOMAIN getters' : i # k => getters'[i] # getters'[k]
    <3>1. \A i, k \in DOMAIN getters : i # k => getters[i] # getters[k]
      BY DEF AgentInv, GettersOK
    <3> QED
      BY <1>7, <1>8, <3>1
  <2>3. fastcgi # None /\ cmd'[fastcgi].loop = "get" => \E i \in DOMAIN getters' : getters'[i] = fastcgi
    <3>1. CASE fastcgi = c
      BY <1>7, <3>1
    <3>2. CASE fastcgi # c /\ fastcgi # None
      <4>1. cmd'[fastcgi] = cmd[fastcgi]
        BY <3>2 DEF Changes, TypeOK
      <4>2. cmd[fastcgi].loop = "get" => \E i \in DOMAIN getters : getters[i] = fastcgi
        BY <3>2 DEF AgentInv, GettersOK
      <4> QED
        BY <1>7, <4>1, <4>2
    <3> QED
      BY <3>1, <3>2
  <2>4. fastcgi # None => cmd'[fastcgi].loop # "ended"
    BY DEF AgentInv, GettersOK, Changes, TypeOK
  <2> QED
    BY <2>1, <2>2, <2>3, <2>4 DEF GettersOK
<1>10. OncePlaced'
  BY QueueIs DEF OncePlaced, Queued
<1> QED
  BY <1>2, <1>3, <1>4, <1>6, <1>7, <1>9, <1>10 DEF AgentInv

\* The loop of c takes the message in the queue.
LEMMA TakeKeeps ==
    ASSUME TypeOK, AgentInv, Forward, NEW c \in Op, cmd[c].loop \in {"accepted", "next"},
           queue \notin {None, <<>>}, Changes(c, cmd[c].running, cmd[c].exit, "busy", Head(queue), cmd[c].out),
           queue' = <<>>, UNCHANGED <<fastcgi, getters>>
    PROVE  AgentInv' /\ CmdForward
<1> DEFINE m == Head(queue)
<1>1. c \in Seen /\ cmd[c].kind = "fastcgi"
  BY CmdsSeen DEF AgentInv, CmdsOK, CmdOK
<1>2. CmdForward
  BY SentType DEF CmdForward, Changes
<1>3. Queued' = {} /\ m \in Queued /\ m \in Op
  <2>1. Range(<<>>) = {}
    BY DEF Range
  <2> QED
    BY QueueIs, <2>1 DEF Queued
<1> HIDE DEF m
<1>4. m \in Seen /\ m # None /\ op[m].kind # "run"
  BY <1>3, OpIsNat DEF AgentInv, SeenOnly
<1>5. Changes(c, cmd[c].running, cmd[c].exit, "busy", m, cmd[c].out)
  BY DEF m
<1>6. SeenOnly'
  <2>1. \A o \in Op \ Seen' : cmd'[o] = NoCmd
    BY <1>1 DEF AgentInv, SeenOnly, Forward, Changes
  <2>2. \A d \in Op : cmd'[d].msg # None => cmd'[d].msg \in Seen' /\ op'[cmd'[d].msg].kind # "run"
    <3>1. \A d \in Op : cmd'[d].msg = cmd[d].msg \/ cmd'[d].msg = m
      BY <1>5 DEF Changes
    <3> QED
      BY <1>4, <3>1, SentType DEF AgentInv, SeenOnly, Forward
  <2> QED
    BY <1>3, <2>1, <2>2 DEF SeenOnly
<1>7. CmdsOK'
  <2>1. ASSUME NEW d \in Op PROVE CmdOK(d)'
    BY <1>1, <1>4, <1>5 DEF AgentInv, CmdsOK, CmdOK, Changes, NoMsg
  <2> QED
    BY <2>1 DEF CmdsOK
<1>8. Cmds' = Cmds /\ \A d \in Op : cmd'[d].kind = cmd[d].kind
  BY DEF Cmds, Changes
<1>9. OneFastcgi'
  BY <1>8 DEF AgentInv, OneFastcgi, Cmds
<1>10. GettersOK'
  <2>1. \A i \in DOMAIN getters : getters[i] \in Op
    BY DEF TypeOK
  <2>2. fastcgi # None => fastcgi \in Op
    BY DEF TypeOK
  <2> QED
    BY <2>1, <2>2 DEF AgentInv, GettersOK, Changes
<1>11. OncePlaced'
  BY <1>3 DEF OncePlaced
<1> QED
  BY <1>2, <1>6, <1>7, <1>9, <1>10, <1>11 DEF AgentInv

\* An operation that was not seen is nowhere.
LEMMA UnseenIs ==
    ASSUME TypeOK, AgentInv, NEW o \in Op, o \notin Seen
    PROVE  cmd[o] = NoCmd /\ o \notin Queued /\ o \notin Cmds /\ fastcgi # o /\ \A c \in Op : cmd[c].msg # o
<1>1. cmd[o] = NoCmd
  BY DEF AgentInv, SeenOnly
<1>2. o \notin Queued
  BY QueueIs
<1>3. o \notin Cmds /\ fastcgi # o
  BY CmdsSeen, OpIsNat
<1>4. \A c \in Op : cmd[c].msg # o
  BY OpIsNat DEF AgentInv, SeenOnly
<1> QED
  BY <1>1, <1>2, <1>3, <1>4

\* Message o is given to the first loop in line.
LEMMA PutFirstKeeps ==
    ASSUME TypeOK, AgentInv, Forward, NEW o \in Op, o \notin Seen, o \in Seen', op'[o].kind # "run",
           NEW c \in Op, getters # <<>>, c = Head(getters),
           Changes(c, cmd[c].running, cmd[c].exit, "busy", o, cmd[c].out),
           getters' = Tail(getters), UNCHANGED <<fastcgi, queue>>
    PROVE  AgentInv' /\ CmdForward /\ getters' \in Seq(Op)
<1>1. /\ getters \in Seq(Op) /\ Len(getters) \in Nat /\ Len(getters) > 0 /\ DOMAIN getters = 1..Len(getters)
      /\ getters[1] = c
  <2>1. getters \in Seq(Op)
    BY DEF TypeOK
  <2> QED
    BY <2>1, EmptySeq
<1>2. /\ getters' \in Seq(Op) /\ DOMAIN getters' = 1..(Len(getters) - 1)
      /\ \A i \in DOMAIN getters' : i + 1 \in DOMAIN getters /\ getters'[i] = getters[i + 1] /\ i + 1 # 1
  <2>1. getters' \in Seq(Op) /\ Len(getters') = Len(getters) - 1 /\ \A i \in 1..Len(getters') : getters'[i] = getters[i + 1]
    BY <1>1, HeadTailProperties
  <2> QED
    BY <1>1, <2>1
<1>3. cmd[c].loop = "get" /\ \A i \in DOMAIN getters : getters[i] \in Op /\ cmd[getters[i]].loop = "get"
  BY <1>1 DEF AgentInv, GettersOK
<1>4. cmd[c].kind = "fastcgi" /\ c \in Seen
  BY <1>3, CmdsSeen DEF AgentInv, CmdsOK, CmdOK
<1>5. CmdForward
  BY SentType DEF CmdForward, Changes
<1>6. o # None /\ Queued' = Queued
  BY OpIsNat DEF Queued
<1>7. SeenOnly'
  <2>1. \A d \in Op \ Seen' : cmd'[d] = NoCmd
    BY <1>4 DEF AgentInv, SeenOnly, Forward, Changes
  <2>2. \A d \in Queued' : d \in Seen' /\ op'[d].kind # "run"
    BY <1>6, SentType DEF AgentInv, SeenOnly, Forward
  <2>3. \A d \in Op : cmd'[d].msg # None => cmd'[d].msg \in Seen' /\ op'[cmd'[d].msg].kind # "run"
    <3>1. \A d \in Op : cmd'[d].msg = cmd[d].msg \/ cmd'[d].msg = o
      BY DEF Changes
    <3> QED
      BY <3>1, SentType DEF AgentInv, SeenOnly, Forward
  <2> QED
    BY <2>1, <2>2, <2>3 DEF SeenOnly
<1>8. CmdsOK'
  <2>1. ASSUME NEW d \in Op PROVE CmdOK(d)'
    BY <1>3, <1>4, <1>6 DEF AgentInv, CmdsOK, CmdOK, Changes, NoMsg
  <2> QED
    BY <2>1 DEF CmdsOK
<1>9. Cmds' = Cmds /\ \A d \in Op : cmd'[d].kind = cmd[d].kind
  BY DEF Cmds, Changes
<1>10. OneFastcgi'
  BY <1>9 DEF AgentInv, OneFastcgi, Cmds
<1>11. GettersOK'
  <2>1. \A i, k \in DOMAIN getters : i # k => getters[i] # getters[k]
    BY DEF AgentInv, GettersOK
  <2>2. 1 \in DOMAIN getters
    BY <1>1
  <2>3. \A i \in DOMAIN getters' : getters'[i] # c
    BY <1>1, <1>2, <2>1, <2>2
  <2>4. \A i \in DOMAIN getters' : cmd'[getters'[i]].loop = "get"
    BY <1>2, <1>3, <2>3 DEF Changes
  <2>5. \A i, k \in DOMAIN getters' : i # k => getters'[i] # getters'[k]
    <3>1. ASSUME NEW i \in DOMAIN getters', NEW k \in DOMAIN getters', i # k PROVE getters'[i] # getters'[k]
      <4>1. i + 1 # k + 1
        BY <1>1, <1>2, <3>1
      <4> QED
        BY <1>2, <2>1, <4>1
    <3> QED
      BY <3>1
  <2>6. fastcgi # None /\ cmd'[fastcgi].loop = "get" => \E i \in DOMAIN getters' : getters'[i] = fastcgi
    <3>1. SUFFICES ASSUME fastcgi # None, cmd'[fastcgi].loop = "get"
                   PROVE  \E i \in DOMAIN getters' : getters'[i] = fastcgi
      OBVIOUS
    <3>2. fastcgi # c /\ fastcgi \in Op
      BY <3>1 DEF Changes, TypeOK
    <3>3. PICK i \in DOMAIN getters : getters[i] = fastcgi
      BY <3>1, <3>2 DEF Changes, AgentInv, GettersOK
    <3>4. i # 1 /\ i - 1 \in 1..(Len(getters) - 1) /\ (i - 1) + 1 = i
      BY <1>1, <3>2, <3>3
    <3>5. getters'[i - 1] = getters[(i - 1) + 1]
      BY <1>2, <3>4
    <3> QED
      BY <1>2, <3>3, <3>4, <3>5
  <2>7. fastcgi # None => cmd'[fastcgi].loop # "ended"
    BY DEF AgentInv, GettersOK, Changes, TypeOK
  <2> QED
    BY <2>4, <2>5, <2>6, <2>7 DEF GettersOK
<1>12. OncePlaced'
  BY <1>6, UnseenIs DEF AgentInv, OncePlaced, Changes
<1> QED
  BY <1>2, <1>5, <1>7, <1>8, <1>10, <1>11, <1>12 DEF AgentInv

\* Message o is put into the queue of fastcgi, or of one that did not start.
LEMMA PutQueueKeeps ==
    ASSUME TypeOK, AgentInv, Forward, NEW o \in Op, o \notin Seen, o \in Seen', op'[o].kind # "run",
           UNCHANGED <<cmd, fastcgi>>, queue' = <<o>>,
           getters' = getters \/ (fastcgi = None /\ getters' = <<>>)
    PROVE  AgentInv' /\ CmdForward /\ cmd' \in [Op -> CmdType] /\ getters' \in Seq(Op) /\ Queued' = {o}
<1>1. CmdForward /\ cmd' \in [Op -> CmdType]
  BY CmdTyped DEF CmdForward
<1>2. Queued' = {o}
  <2>2. <<o>> # None
    BY QueueWithOne
  <2>3. Range(<<o>>) = {o}
    BY DEF Range
  <2> QED
    BY <2>2, <2>3 DEF Queued
<1>3. SeenOnly'
  BY <1>2, SentType DEF AgentInv, SeenOnly, Forward
<1>4. CmdsOK' /\ OneFastcgi'
  BY DEF AgentInv, CmdsOK, CmdOK, OneFastcgi, Cmds
<1>5. GettersOK' /\ getters' \in Seq(Op)
  <2>1. CASE getters' = getters
    BY <2>1 DEF AgentInv, GettersOK, TypeOK
  <2>2. CASE fastcgi = None /\ getters' = <<>>
    <3>1. <<>> \in Seq(Op) /\ DOMAIN <<>> = {}
      OBVIOUS
    <3> QED
      BY <2>2, <3>1 DEF GettersOK
  <2> QED
    BY <2>1, <2>2
<1>6. OncePlaced'
  BY <1>2, UnseenIs DEF OncePlaced
<1> QED
  BY <1>1, <1>2, <1>3, <1>4, <1>5, <1>6 DEF AgentInv

\* A fastcgi process is started for o.
LEMMA StartKeeps ==
    ASSUME TypeOK, AgentInv, Forward, NEW o \in Op, o \notin Seen, o \in Seen', op'[o].kind # "run",
           fastcgi = None, fastcgi' = o, queue' = <<o>>, getters' = <<>>,
           cmd' = [cmd EXCEPT ![o].kind = "fastcgi", ![o].running = TRUE]
    PROVE  /\ AgentInv' /\ CmdForward /\ cmd' \in [Op -> CmdType] /\ getters' \in Seq(Op) /\ Queued' = {o}
           /\ \A d \in Op : cmd'[d].msg = cmd[d].msg /\ cmd'[d].loop = cmd[d].loop /\ cmd'[d].out = cmd[d].out
                            /\ cmd'[d].exit = cmd[d].exit /\ cmd'[d].destroyed = cmd[d].destroyed
                            /\ (cmd[d].running => cmd'[d].running) /\ (cmd'[d].kind = "run" <=> cmd[d].kind = "run")
<1> DEFINE r == [NoCmd EXCEPT !.kind = "fastcgi", !.running = TRUE]
<1>1. cmd[o] = NoCmd /\ \A d \in Op : cmd[d].msg # o
  BY UnseenIs
<1>2. /\ r \in CmdType /\ r.kind = "fastcgi" /\ r.destroyed = "no" /\ r.running /\ r.exit = "wait"
      /\ r.loop = "none" /\ r.msg = None /\ r.out = "none"
  BY DEF NoCmd, CmdType
<1>3. cmd' = [cmd EXCEPT ![o] = r]
  BY <1>1
<1> HIDE DEF r
<1>4. Begins(o, r)
  BY <1>2, <1>3, CmdTyped DEF Begins
<1>5. /\ NoCmd.kind = "none" /\ NoCmd.destroyed = "no" /\ ~NoCmd.running /\ NoCmd.exit = "wait"
      /\ NoCmd.loop = "none" /\ NoCmd.msg = None /\ NoCmd.out = "none"
  BY DEF NoCmd
<1>6. CmdForward
  BY <1>4, SentType DEF CmdForward, Begins
<1>7. Queued' = {o} /\ o # None
  <2>2. <<o>> # None
    BY QueueWithOne
  <2>3. Range(<<o>>) = {o}
    BY DEF Range
  <2> QED
    BY <2>2, <2>3, OpIsNat DEF Queued
<1>8. SeenOnly'
  <2>1. \A d \in Op \ Seen' : cmd'[d] = NoCmd
    BY <1>4 DEF AgentInv, SeenOnly, Forward, Begins
  <2>2. \A d \in Op : cmd'[d].msg # None => cmd'[d].msg \in Seen' /\ op'[cmd'[d].msg].kind # "run"
    <3>1. \A d \in Op : cmd'[d].msg = cmd[d].msg \/ cmd'[d].msg = None
      BY <1>2, <1>4 DEF Begins
    <3> QED
      BY <3>1, SentType DEF AgentInv, SeenOnly, Forward
  <2> QED
    BY <1>7, <2>1, <2>2 DEF SeenOnly
<1>9. CmdsOK'
  <2>1. ASSUME NEW d \in Op PROVE CmdOK(d)'
    <3>1. CASE d = o
      BY <1>2, <1>4, <3>1 DEF CmdOK, Begins, NoMsg
    <3>2. CASE d # o
      BY <1>4, <3>2 DEF AgentInv, CmdsOK, CmdOK, Begins
    <3> QED
      BY <3>1, <3>2
  <2> QED
    BY <2>1 DEF CmdsOK
<1>10. OneFastcgi'
  <2>1. \A d \in Op : cmd'[d].kind = "fastcgi" /\ cmd'[d].destroyed = "no" <=> d = o
    BY <1>2, <1>4, CmdsSeen, OpIsNat DEF Begins
  <2> QED
    BY <1>7, <2>1 DEF OneFastcgi, Cmds
<1>11. GettersOK' /\ getters' \in Seq(Op)
  <2>1. <<>> \in Seq(Op) /\ DOMAIN <<>> = {}
    OBVIOUS
  <2> QED
    BY <1>2, <1>4, <2>1 DEF GettersOK, Begins
<1>12. OncePlaced'
  BY <1>1, <1>2, <1>4, <1>7 DEF OncePlaced, Begins
<1>13. \A d \in Op : cmd'[d].msg = cmd[d].msg /\ cmd'[d].loop = cmd[d].loop /\ cmd'[d].out = cmd[d].out
                     /\ cmd'[d].exit = cmd[d].exit /\ cmd'[d].destroyed = cmd[d].destroyed
                     /\ (cmd[d].running => cmd'[d].running) /\ (cmd'[d].kind = "run" <=> cmd[d].kind = "run")
  BY <1>1, <1>2, <1>4, <1>5 DEF Begins
<1> QED
  BY <1>4, <1>6, <1>7, <1>8, <1>9, <1>10, <1>11, <1>12, <1>13 DEF AgentInv, Begins

\* Run o starts and the commands C are destroyed.
LEMMA RunKeeps ==
    ASSUME TypeOK, AgentInv, Forward, NEW o \in Op, o \notin Seen, o \in Seen',
           NEW C \in SUBSET Cmds,
           cmd' = [c \in Op |-> IF c = o THEN [NoCmd EXCEPT !.kind = "run", !.running = TRUE]
                                ELSE IF c \in C THEN Killed(cmd[c], "asked") ELSE cmd[c]],
           fastcgi' = IF fastcgi \in C THEN None ELSE fastcgi, UNCHANGED <<queue, getters>>
    PROVE  /\ AgentInv' /\ CmdForward /\ cmd' \in [Op -> CmdType]
           /\ \A d \in Op : cmd'[d].msg = cmd[d].msg /\ cmd'[d].loop = cmd[d].loop /\ cmd'[d].out = cmd[d].out
                            /\ cmd'[d].exit = cmd[d].exit
           /\ \A d \in Op \ {o} : cmd'[d].kind = cmd[d].kind
                            /\ (cmd'[d].running <=> cmd[d].running /\ d \notin C)
                            /\ cmd'[d].destroyed = IF d \in C THEN "asked" ELSE cmd[d].destroyed
           /\ cmd'[o].kind = "run" /\ cmd'[o].running /\ cmd'[o].destroyed = "no"
<1> DEFINE r == [NoCmd EXCEPT !.kind = "run", !.running = TRUE]
<1>1. cmd[o] = NoCmd /\ o \notin C
  BY UnseenIs
<1>2. /\ r \in CmdType /\ r.kind = "run" /\ r.destroyed = "no" /\ r.running /\ r.exit = "wait"
      /\ r.loop = "none" /\ r.msg = None /\ r.out = "none"
  BY DEF NoCmd, CmdType
<1>3. cmd' = [c \in Op |-> IF c = o THEN r ELSE IF c \in C THEN Killed(cmd[c], "asked") ELSE cmd[c]]
  OBVIOUS
<1> HIDE DEF r
<1>4. \A c \in Op : /\ Killed(cmd[c], "asked") \in CmdType
                    /\ Killed(cmd[c], "asked").kind = cmd[c].kind /\ Killed(cmd[c], "asked").exit = cmd[c].exit
                    /\ Killed(cmd[c], "asked").loop = cmd[c].loop
                    /\ Killed(cmd[c], "asked").msg = cmd[c].msg /\ Killed(cmd[c], "asked").out = cmd[c].out
                    /\ Killed(cmd[c], "asked").destroyed = "asked" /\ ~Killed(cmd[c], "asked").running
  BY CmdTyped, KilledFields
<1>5. cmd' \in [Op -> CmdType]
  BY <1>2, <1>3, <1>4, CmdTyped
<1>6. cmd'[o] = r
  BY <1>3
<1>7. /\ NoCmd.kind = "none" /\ NoCmd.destroyed = "no" /\ ~NoCmd.running /\ NoCmd.exit = "wait"
      /\ NoCmd.loop = "none" /\ NoCmd.msg = None /\ NoCmd.out = "none"
  BY DEF NoCmd
<1>8. \A d \in C : cmd[d].destroyed = "no" /\ cmd[d].kind # "none" /\ d # o
  BY <1>1 DEF Cmds
<1>9. \A d \in Op \ {o} : /\ cmd'[d].kind = cmd[d].kind /\ cmd'[d].exit = cmd[d].exit
                          /\ cmd'[d].loop = cmd[d].loop /\ cmd'[d].msg = cmd[d].msg /\ cmd'[d].out = cmd[d].out
                          /\ (cmd'[d].running <=> cmd[d].running /\ d \notin C)
                          /\ cmd'[d].destroyed = IF d \in C THEN "asked" ELSE cmd[d].destroyed
  <2>1. ASSUME NEW d \in Op \ {o}
        PROVE  /\ cmd'[d].kind = cmd[d].kind /\ cmd'[d].exit = cmd[d].exit
               /\ cmd'[d].loop = cmd[d].loop /\ cmd'[d].msg = cmd[d].msg /\ cmd'[d].out = cmd[d].out
               /\ (cmd'[d].running <=> cmd[d].running /\ d \notin C)
               /\ cmd'[d].destroyed = IF d \in C THEN "asked" ELSE cmd[d].destroyed
    <3>1. CASE d \in C
      BY <1>3, <1>4, <3>1
    <3>2. CASE d \notin C
      BY <1>3, <3>2
    <3> QED
      BY <3>1, <3>2
  <2> QED
    BY <2>1
<1>10. \A d \in Op \ {o} : d \notin C => cmd'[d] = cmd[d]
  BY <1>3
<1> HIDE DEF r
<1>11. CmdForward
  <2>1. Seen \subseteq Op \ {o}
    BY SentType
  <2> QED
    BY <1>9, <2>1 DEF CmdForward
<1>12. SeenOnly'
  <2>1. C \subseteq Seen
    BY CmdsSeen
  <2>2. \A d \in Op \ Seen' : cmd'[d] = NoCmd
    BY <1>10, <2>1 DEF AgentInv, SeenOnly, Forward
  <2>3. \A d \in Queued' : d \in Seen' /\ op'[d].kind # "run"
    BY SentType DEF AgentInv, SeenOnly, Forward, Queued
  <2>4. \A d \in Op : cmd'[d].msg # None => cmd'[d].msg \in Seen' /\ op'[cmd'[d].msg].kind # "run"
    <3>1. \A d \in Op : cmd'[d].msg = cmd[d].msg \/ cmd'[d].msg = None
      BY <1>2, <1>6, <1>9
    <3> QED
      BY <3>1, SentType DEF AgentInv, SeenOnly, Forward
  <2> QED
    BY <2>2, <2>3, <2>4 DEF SeenOnly
<1>13. CmdsOK'
  <2>1. ASSUME NEW d \in Op PROVE CmdOK(d)'
    <3>1. CASE d = o
      BY <1>2, <1>6, <3>1 DEF CmdOK, NoMsg
    <3>2. CASE d # o
      <4>1. CmdOK(d)
        BY DEF AgentInv, CmdsOK
      <4>2. CASE d \in C
        <5>1. cmd[d].destroyed = "no" /\ cmd[d].kind # "none"
          BY <1>8, <4>2
        <5> QED
          BY <1>9, <3>2, <4>1, <4>2, <5>1 DEF CmdOK
      <4>3. CASE d \notin C
        BY <1>10, <3>2, <4>1, <4>3 DEF CmdOK
      <4> QED
        BY <4>2, <4>3
    <3> QED
      BY <3>1, <3>2
  <2> QED
    BY <2>1 DEF CmdsOK
<1>14. OneFastcgi'
  <2>1. \A d \in Op : (cmd'[d].kind = "fastcgi" /\ cmd'[d].destroyed = "no") <=> (d = fastcgi /\ d \notin C)
    <3>1. ASSUME NEW d \in Op PROVE (cmd'[d].kind = "fastcgi" /\ cmd'[d].destroyed = "no") <=> (d = fastcgi /\ d \notin C)
      <4>1. CASE d = o
        BY <1>2, <1>6, <4>1, UnseenIs
      <4>2. CASE d # o
        <5>1. d = fastcgi => cmd[d].kind = "fastcgi" /\ cmd[d].destroyed = "no"
          BY CmdsSeen, OpIsNat DEF Cmds
        <5>2. cmd[d].kind = "fastcgi" /\ cmd[d].destroyed = "no" => d = fastcgi
          BY CmdsSeen
        <5> QED
          BY <1>9, <4>2, <5>1, <5>2
      <4> QED
        BY <4>1, <4>2
    <3> QED
      BY <3>1
  <2>2. fastcgi \in Op \union {None}
    BY DEF TypeOK
  <2> QED
    BY <2>1, <2>2, OpIsNat DEF OneFastcgi, Cmds
<1>15. \A d \in Op : cmd'[d].msg = cmd[d].msg /\ cmd'[d].loop = cmd[d].loop /\ cmd'[d].out = cmd[d].out
                     /\ cmd'[d].exit = cmd[d].exit
  BY <1>1, <1>2, <1>6, <1>7, <1>9
<1>16. GettersOK'
  <2>1. \A i \in DOMAIN getters : getters[i] \in Op
    BY DEF TypeOK
  <2> QED
    BY <1>15, <2>1 DEF AgentInv, GettersOK, TypeOK
<1>17. OncePlaced'
  BY <1>15 DEF AgentInv, OncePlaced, Queued
<1> QED
  BY <1>2, <1>5, <1>6, <1>9, <1>11, <1>12, <1>13, <1>14, <1>15, <1>16, <1>17 DEF AgentInv

\* Loop c ends, fastcgi is destroyed, and there is no queue.
LEMMA ErrorKeeps ==
    ASSUME TypeOK, AgentInv, Forward, NEW c \in Op, cmd[c].loop = "busy", ~cmd[c].running, fastcgi # None,
           cmd' = [[cmd EXCEPT ![c].loop = "ended", ![c].msg = None] EXCEPT ![fastcgi] = Killed(@, "asked")],
           fastcgi' = None, queue' = None, getters' = <<>>
    PROVE  /\ AgentInv' /\ CmdForward /\ cmd' \in [Op -> CmdType] /\ getters' \in Seq(Op)
           /\ cmd'[c].loop = "ended" /\ cmd'[c].msg = None
           /\ \A d \in Op \ {c} : cmd'[d].loop = cmd[d].loop /\ cmd'[d].msg = cmd[d].msg
           /\ \A d \in Op : cmd'[d].out = cmd[d].out /\ cmd'[d].exit = cmd[d].exit /\ cmd'[d].kind = cmd[d].kind
                            /\ (d # fastcgi => cmd'[d].running = cmd[d].running /\ cmd'[d].destroyed = cmd[d].destroyed)
<1> DEFINE r == [cmd[c] EXCEPT !.loop = "ended", !.msg = None]
           ended == [cmd EXCEPT ![c] = r]
<1>1. fastcgi \in Op /\ cmd[fastcgi].kind = "fastcgi" /\ cmd[fastcgi].destroyed = "no" /\ fastcgi \in Seen
  BY CmdsSeen DEF Cmds
<1>2. cmd \in [Op -> CmdType] /\ cmd[c] \in CmdType
  BY CmdTyped
<1>3. /\ r \in CmdType /\ r.kind = cmd[c].kind /\ r.destroyed = cmd[c].destroyed
      /\ r.running = cmd[c].running /\ r.exit = cmd[c].exit /\ r.loop = "ended" /\ r.msg = None /\ r.out = cmd[c].out
  BY <1>2 DEF CmdType
<1>4. cmd' = [ended EXCEPT ![fastcgi] = Killed(ended[fastcgi], "asked")]
  OBVIOUS
<1> HIDE DEF r
<1>5. ended \in [Op -> CmdType] /\ ended[c] = r /\ \A d \in Op \ {c} : ended[d] = cmd[d]
  BY <1>2, <1>3
<1> HIDE DEF ended
<1> DEFINE k == Killed(ended[fastcgi], "asked")
<1>6. /\ k \in CmdType
      /\ k.kind = ended[fastcgi].kind /\ k.exit = ended[fastcgi].exit
      /\ k.loop = ended[fastcgi].loop
      /\ k.msg = ended[fastcgi].msg /\ k.out = ended[fastcgi].out
      /\ k.destroyed = "asked" /\ ~k.running
  BY <1>1, <1>5, KilledFields
<1>7. cmd' = [ended EXCEPT ![fastcgi] = k]
  BY <1>4
<1> HIDE DEF k
<1>8. cmd' \in [Op -> CmdType] /\ cmd'[fastcgi] = k /\ \A d \in Op \ {fastcgi} : cmd'[d] = ended[d]
  BY <1>1, <1>5, <1>6, <1>7
<1>9. \A d \in Op : cmd'[d].loop = ended[d].loop /\ cmd'[d].msg = ended[d].msg /\ cmd'[d].out = ended[d].out
                    /\ cmd'[d].exit = ended[d].exit /\ cmd'[d].kind = ended[d].kind
                    /\ (d # fastcgi => cmd'[d].running = ended[d].running /\ cmd'[d].destroyed = ended[d].destroyed)
  BY <1>6, <1>8
<1>10. cmd'[c].loop = "ended" /\ cmd'[c].msg = None
  BY <1>3, <1>5, <1>9
<1>11. \A d \in Op \ {c} : cmd'[d].loop = cmd[d].loop /\ cmd'[d].msg = cmd[d].msg
  BY <1>5, <1>9
<1>12. \A d \in Op : cmd'[d].out = cmd[d].out /\ cmd'[d].exit = cmd[d].exit /\ cmd'[d].kind = cmd[d].kind
                     /\ (d # fastcgi => cmd'[d].running = cmd[d].running /\ cmd'[d].destroyed = cmd[d].destroyed)
  <2>1. ASSUME NEW d \in Op
        PROVE  ended[d].out = cmd[d].out /\ ended[d].exit = cmd[d].exit /\ ended[d].kind = cmd[d].kind
               /\ ended[d].running = cmd[d].running /\ ended[d].destroyed = cmd[d].destroyed
    <3>1. CASE d = c
      BY <1>3, <1>5, <3>1
    <3>2. CASE d # c
      BY <1>5, <3>2
    <3> QED
      BY <3>1, <3>2
  <2>2. ASSUME NEW d \in Op
        PROVE  cmd'[d].out = cmd[d].out /\ cmd'[d].exit = cmd[d].exit /\ cmd'[d].kind = cmd[d].kind
    BY <1>9, <2>1
  <2>3. ASSUME NEW d \in Op, d # fastcgi
        PROVE  cmd'[d].running = cmd[d].running /\ cmd'[d].destroyed = cmd[d].destroyed
    <3>1. ended[d].running = cmd[d].running /\ ended[d].destroyed = cmd[d].destroyed
      BY <2>1
    <3>2. cmd'[d].running = ended[d].running /\ cmd'[d].destroyed = ended[d].destroyed
      BY <1>9, <2>3
    <3> QED
      BY <3>1, <3>2
  <2> QED
    BY <2>2, <2>3
<1>13. cmd'[fastcgi].destroyed = "asked" /\ ~cmd'[fastcgi].running
  BY <1>6, <1>8
<1>14. c \in Seen /\ cmd[c].kind = "fastcgi"
  BY CmdsSeen DEF AgentInv, CmdsOK, CmdOK
<1>15. CmdForward
  BY <1>12, <1>13, SentType DEF CmdForward
<1>16. Queued' = {}
  BY DEF Queued
<1>17. SeenOnly'
  <2>1. \A d \in Op \ Seen' : d \in Op \ {c, fastcgi} /\ d \notin Seen
    BY <1>1, <1>14 DEF Forward
  <2>2. \A d \in Op \ Seen' : cmd'[d] = cmd[d]
    BY <1>5, <1>8, <2>1
  <2>3. \A d \in Op \ Seen' : cmd'[d] = NoCmd
    BY <2>1, <2>2 DEF AgentInv, SeenOnly
  <2>4. \A d \in Op : cmd'[d].msg # None => cmd'[d].msg \in Seen' /\ op'[cmd'[d].msg].kind # "run"
    <3>1. \A d \in Op : cmd'[d].msg = cmd[d].msg \/ cmd'[d].msg = None
      BY <1>10, <1>11
    <3> QED
      BY <3>1, SentType DEF AgentInv, SeenOnly, Forward
  <2> QED
    BY <1>16, <2>3, <2>4 DEF SeenOnly
<1>18. CmdsOK'
  <2>1. ASSUME NEW d \in Op PROVE CmdOK(d)'
    <3>1. CmdOK(d) /\ CmdOK(c)
      BY DEF AgentInv, CmdsOK
    <3>2. CASE d \in {c, fastcgi}
      <4>1. cmd'[d].kind = "fastcgi" /\ cmd'[d].out = "none"
        BY <1>1, <1>12, <1>14, <3>1, <3>2 DEF CmdOK
      <4>2. ~cmd'[d].running
        BY <1>12, <1>13, <3>2
      <4>3. cmd'[d].msg = None <=> cmd'[d].loop \in NoMsg
        BY <1>10, <1>11, <3>1 DEF CmdOK, NoMsg
      <4> QED
        BY <4>1, <4>2, <4>3 DEF CmdOK
    <3>3. CASE d \notin {c, fastcgi}
      <4>1. cmd'[d] = cmd[d]
        BY <1>5, <1>8, <3>3
      <4> QED
        BY <3>1, <4>1 DEF CmdOK
    <3> QED
      BY <3>2, <3>3
  <2> QED
    BY <2>1 DEF CmdsOK
<1>19. OneFastcgi'
  <2>1. \A d \in Op : ~(cmd'[d].kind = "fastcgi" /\ cmd'[d].destroyed = "no")
    <3>1. \A d \in Op \ {fastcgi} : ~(cmd[d].kind = "fastcgi" /\ cmd[d].destroyed = "no")
      BY CmdsSeen
    <3> QED
      BY <1>12, <1>13, <3>1
  <2> QED
    BY <2>1 DEF OneFastcgi, Cmds
<1>20. GettersOK' /\ getters' \in Seq(Op)
  <2>1. <<>> \in Seq(Op) /\ DOMAIN <<>> = {}
    OBVIOUS
  <2> QED
    BY <2>1 DEF GettersOK
<1>21. OncePlaced'
  BY <1>16 DEF OncePlaced
<1> QED
  BY <1>8, <1>10, <1>11, <1>12, <1>15, <1>17, <1>18, <1>19, <1>20, <1>21 DEF AgentInv

-----------------------------------------------------------------------------
(***************************************************************************)
(* Messages that are read, replies that arrive.                            *)
(***************************************************************************)
\* What the agent knows of the message it reads: the supervisor's part holds, the operation was not
\* seen, and now is.
LEMMA ReadFacts ==
    ASSUME TypeOK, SupervisorInv, NEW m, Read(m)
    PROVE  /\ op' = op /\ link' = link /\ tries' = tries /\ canceled' = canceled
           /\ inbox' \in Seq(MessageType) /\ SupervisorInv' /\ Forward
           /\ m.op \in Seen' /\ m.op \in Op
           /\ m.name = "op" => m.op \notin Seen
           /\ m.name = "cancel" /\ op[m.op].kind = "run" => m.job = op[m.op].job
           /\ \A o : Unread(o) => Unread(o)' \/ (m.name = "op" /\ m.op = o)
<1> USE FadesFacts, SentType
<1>1. /\ op' = op /\ link' = link /\ tries' = tries /\ canceled' = canceled
      /\ inbox # <<>> /\ m = Head(inbox) /\ inbox' = Tail(inbox)
  BY DEF Read
<1>2. inbox \in Seq(MessageType)
  BY DEF TypeOK
<1>3. Len(inbox) \in Nat /\ Len(inbox) > 0 /\ DOMAIN inbox = 1..Len(inbox) /\ m = inbox[1]
  BY <1>1, <1>2, EmptySeq
<1>4. inbox' \in Seq(MessageType) /\ Len(inbox') = Len(inbox) - 1 /\ \A i \in 1..Len(inbox') : inbox'[i] = inbox[i + 1]
  BY <1>1, <1>2, HeadTailProperties
<1>5. DOMAIN inbox' = 1..(Len(inbox) - 1)
  BY <1>3, <1>4
<1>6. \A i \in DOMAIN inbox' : i + 1 \in DOMAIN inbox /\ 1 < i + 1 /\ inbox'[i] = inbox[i + 1]
  BY <1>3, <1>4, <1>5
<1>7. 1 \in DOMAIN inbox
  BY <1>3
<1>8. m.op \in Sent /\ m.op \in Op
  BY <1>3, <1>7 DEF SupervisorInv, MessagesOK
<1>9. SupervisorInv' /\ Forward
  <2>1. Fades
    BY <1>1, SameFades
  <2>2. Ebbs /\ StaysQuiet
    BY <1>1 DEF Ebbs, StaysQuiet
  <2> QED
    BY <2>1, <2>2, EbbKeeps
<1>10. m.op \in Seen'
  <2>1. ASSUME NEW i \in DOMAIN inbox', inbox'[i].name = "op" PROVE m.op < inbox'[i].op
    BY <1>3, <1>6, <1>7, <2>1 DEF SupervisorInv, InboxOrder
  <2>2. m.op \in Sent'
    BY <1>1, <1>8 DEF Sent
  <2> QED
    BY <2>1, <2>2 DEF Seen
<1>11. m.name = "op" => m.op \notin Seen
  <2>1. m.op \in Nat
    BY <1>8, OpIsNat
  <2> QED
    BY <1>3, <1>7, <2>1 DEF Seen
<1>12. m.name = "cancel" /\ op[m.op].kind = "run" => m.job = op[m.op].job
  BY <1>3, <1>7 DEF SupervisorInv, MessagesOK
<1>13. ASSUME NEW o, Unread(o) PROVE Unread(o)' \/ (m.name = "op" /\ m.op = o)
  <2>1. PICK i \in DOMAIN inbox : inbox[i].name = "op" /\ inbox[i].op = o
    BY <1>13 DEF Unread
  <2>2. CASE i = 1
    BY <1>3, <2>1, <2>2
  <2>3. CASE i # 1
    <3>1. i - 1 \in DOMAIN inbox' /\ (i - 1) + 1 = i
      BY <1>3, <1>5, <2>3
    <3>2. inbox'[i - 1] = inbox[i]
      BY <1>6, <3>1
    <3> QED
      BY <2>1, <3>1, <3>2 DEF Unread
  <2> QED
    BY <2>2, <2>3
<1> QED
  BY <1>1, <1>4, <1>8, <1>9, <1>10, <1>11, <1>12, <1>13

\* A reply that arrives ends the wait of its operation.
LEMMA DeliveredFades ==
    ASSUME TypeOK, Quiet, NEW w \in WriteType, op' = Delivered(w)
    PROVE  Fades /\ (w.reply # "canceled" => w.op \notin Waiting')
<1>1. CASE link # "open" \/ w.op \notin Alive \/ w.reply = "canceled"
  <2>1. op' = op
    BY <1>1 DEF Delivered
  <2>2. Fades
    BY <2>1, SameFades
  <2>3. w.reply # "canceled" => w.op \notin Alive
    BY <1>1 DEF Quiet
  <2> QED
    BY <2>2, <2>3, FadesFacts, SentType
<1>2. CASE ~(link # "open" \/ w.op \notin Alive \/ w.reply = "canceled") /\ op[w.op].kind = "run" /\ w.reply = "ok"
  <2> DEFINE o == w.op
             r == [op[o] EXCEPT !.state = "running"]
  <2>1. op' = [op EXCEPT ![o] = r]
    BY <1>2 DEF Delivered
  <2>2. o \in Op /\ op[o] \in OpType /\ o \in Alive
    BY <1>2, SentType
  <2>3. r \in OpType /\ r.kind = op[o].kind /\ r.job = op[o].job /\ r.state = "running"
    BY <2>2 DEF OpType
  <2> HIDE DEF r, o
  <2>4. op' \in [Op -> OpType \union {None}] /\ op'[o] = r /\ \A p \in Op : p # o => op'[p] = op[p]
    BY <2>1, <2>2, <2>3 DEF TypeOK
  <2>5. op'[o] # None /\ op[o] # None /\ op[o].state # "over"
    BY <2>2, <2>3, <2>4, OpIsNat DEF Alive
  <2>6. Fades
    BY <2>2, <2>3, <2>4, <2>5, SentType DEF Fades
  <2>7. o \notin Waiting'
    BY <2>3, <2>4 DEF Waiting
  <2> QED
    BY <2>6, <2>7 DEF o
<1>3. CASE ~(link # "open" \/ w.op \notin Alive \/ w.reply = "canceled") /\ ~(op[w.op].kind = "run" /\ w.reply = "ok")
  <2>1. op' = Over({w.op})
    BY <1>3 DEF Delivered
  <2>2. Fades /\ Alive' = Alive \ {w.op}
    BY <2>1, OverFades
  <2>3. Waiting' \subseteq Alive'
    BY DEF Waiting, Alive
  <2> QED
    BY <2>2, <2>3
<1> QED
  BY <1>1, <1>2, <1>3

\* So does an error, for every operation it is sent to.
LEMMA FailedFades ==
    ASSUME TypeOK, Quiet, NEW O, op' = Failed(O)
    PROVE  Fades /\ Waiting' \intersect O = {}
<1>1. Waiting' \subseteq Alive'
  BY DEF Waiting, Alive
<1>2. CASE link = "open"
  <2>1. op' = Over(O)
    BY <1>2 DEF Failed
  <2> QED
    BY <1>1, <2>1, OverFades
<1>3. CASE link # "open"
  <2>1. op' = Over({})
    BY <1>3 DEF Failed
  <2>2. Fades /\ Alive' = Alive \ {}
    BY <2>1, OverFades
  <2>3. Alive = {}
    BY <1>3 DEF Quiet
  <2> QED
    BY <1>1, <2>2, <2>3
<1> QED
  BY <1>2, <1>3

\* Nobody waits once the connection is gone.
LEMMA AllOver ==
    ASSUME TypeOK, op' = Over(Alive)
    PROVE  Fades /\ Alive' = {} /\ Waiting' = {}
<1>1. Fades /\ Alive' = Alive \ Alive
  BY OverFades
<1>2. Waiting' \subseteq Alive'
  BY DEF Waiting, Alive
<1> QED
  BY <1>1, <1>2

-----------------------------------------------------------------------------
(***************************************************************************)
(* Writers.                                                                *)
(***************************************************************************)
\* The writers are some of those of before, in the same order.
Thinned ==
    /\ writers' \in Seq(WriteType)
    /\ \E f : \A i \in DOMAIN writers' :
          /\ f[i] \in DOMAIN writers /\ writers'[i] = writers[f[i]]
          /\ \A k \in DOMAIN writers' : i < k => f[i] < f[k]

\* What writer w waits for is as before.
Undisturbed(w) ==
    /\ w.task = "loop" => cmd'[w.cmd].loop = cmd[w.cmd].loop /\ cmd'[w.cmd].msg = cmd[w.cmd].msg
    /\ w.task = "stdout" => cmd'[w.cmd].out = cmd[w.cmd].out
    /\ w.task = "exit" => cmd'[w.cmd].exit = cmd[w.cmd].exit

\* Writers thin out when they stay as they are, are dropped, when the first one is done, or any one
\* is removed.
LEMMA SameThinned == ASSUME TypeOK, writers' = writers PROVE Thinned
<1>1. writers' \in Seq(WriteType)
  BY DEF TypeOK
<1> DEFINE f == [i \in DOMAIN writers |-> i]
<1>2. \A i \in DOMAIN writers' : /\ f[i] \in DOMAIN writers /\ writers'[i] = writers[f[i]]
                                 /\ \A k \in DOMAIN writers' : i < k => f[i] < f[k]
  OBVIOUS
<1> QED
  BY <1>1, <1>2 DEF Thinned

\* None is left.
LEMMA NoneThinned == ASSUME writers' = <<>> PROVE Thinned
<1>1. <<>> \in Seq(WriteType) /\ DOMAIN <<>> = {}
  OBVIOUS
<1> QED
  BY <1>1 DEF Thinned

\* The first one is done.
LEMMA TailThinned ==
    ASSUME TypeOK, writers # <<>>, writers' = Tail(writers)
    PROVE  /\ Thinned /\ 1 \in DOMAIN writers /\ Head(writers) = writers[1] /\ Head(writers) \in WriteType
           /\ \A i \in DOMAIN writers' : i \in Nat /\ i + 1 \in DOMAIN writers /\ writers'[i] = writers[i + 1] /\ i + 1 # 1 /\ 1 < i + 1
           /\ \A i \in DOMAIN writers : i # 1 => i - 1 \in DOMAIN writers' /\ writers'[i - 1] = writers[i]
<1>1. writers \in Seq(WriteType)
  BY DEF TypeOK
<1>2. Len(writers) \in Nat /\ Len(writers) > 0 /\ DOMAIN writers = 1..Len(writers) /\ Head(writers) = writers[1]
  BY <1>1, EmptySeq
<1>3. writers' \in Seq(WriteType) /\ Len(writers') = Len(writers) - 1 /\ \A i \in 1..Len(writers') : writers'[i] = writers[i + 1]
  BY <1>1, HeadTailProperties
<1>4. DOMAIN writers' = 1..(Len(writers) - 1)
  BY <1>2, <1>3
<1>5. \A i \in DOMAIN writers' : i \in Nat /\ i + 1 \in DOMAIN writers /\ writers'[i] = writers[i + 1] /\ i + 1 # 1 /\ 1 < i + 1
  BY <1>2, <1>3, <1>4
<1>6. 1 \in DOMAIN writers /\ writers[1] \in WriteType
  BY <1>1, <1>2
<1>7. ASSUME NEW i \in DOMAIN writers, i # 1 PROVE i - 1 \in DOMAIN writers' /\ writers'[i - 1] = writers[i]
  <2>1. i - 1 \in DOMAIN writers' /\ (i - 1) + 1 = i
    BY <1>2, <1>4, <1>7
  <2> QED
    BY <1>5, <2>1
<1> DEFINE f == [i \in DOMAIN writers' |-> i + 1]
<1>8. ASSUME NEW i \in DOMAIN writers', NEW k \in DOMAIN writers', i < k PROVE f[i] < f[k]
  BY <1>5, <1>8
<1>9. \A i \in DOMAIN writers' : /\ f[i] \in DOMAIN writers /\ writers'[i] = writers[f[i]]
                                 /\ \A k \in DOMAIN writers' : i < k => f[i] < f[k]
  BY <1>5, <1>8
<1> QED
  BY <1>2, <1>3, <1>5, <1>6, <1>7, <1>9 DEF Thinned

\* One of them is removed.
LEMMA RemoveThinned ==
    ASSUME TypeOK, NEW n \in DOMAIN writers, writers' = RemoveAt(writers, n)
    PROVE  Thinned
<1>1. writers \in Seq(WriteType)
  BY DEF TypeOK
<1>2. n \in 1..Len(writers) /\ Len(writers) \in Nat /\ \A i \in 1..Len(writers) : writers[i] \in WriteType
  BY <1>1
<1> DEFINE A == SubSeq(writers, 1, n - 1)
           B == SubSeq(writers, n + 1, Len(writers))
<1>3. A \in Seq(WriteType) /\ B \in Seq(WriteType)
  <2>1. \A i \in 1..(n - 1) : writers[i] \in WriteType
    BY <1>2
  <2>2. \A i \in (n + 1)..Len(writers) : writers[i] \in WriteType
    BY <1>2
  <2> QED
    BY <1>1, <1>2, <2>1, <2>2, SubSeqProperties
<1>4. /\ Len(A) = n - 1 /\ Len(B) = Len(writers) - n
      /\ \A i \in 1..(n - 1) : A[i] = writers[i]
      /\ \A i \in 1..(Len(writers) - n) : B[i] = writers[n + i]
  BY <1>1, <1>2
<1>5. writers' = A \o B
  BY DEF RemoveAt
<1> HIDE DEF A, B
<1> DEFINE f == [i \in 1..(Len(writers) - 1) |-> IF i < n THEN i ELSE i + 1]
<1>6. writers' \in Seq(WriteType) /\ DOMAIN writers' = 1..(Len(writers) - 1)
  BY <1>2, <1>3, <1>4, <1>5
<1>7. ASSUME NEW i \in DOMAIN writers' PROVE f[i] \in DOMAIN writers /\ writers'[i] = writers[f[i]]
  <2>1. i \in 1..(Len(writers) - 1) /\ DOMAIN writers = 1..Len(writers)
    BY <1>1, <1>6
  <2>2. CASE i < n
    <3>1. i \in 1..(n - 1)
      BY <1>2, <2>1, <2>2
    <3>2. (A \o B)[i] = A[i]
      BY <1>2, <1>3, <1>4, <2>1, <3>1
    <3> QED
      BY <1>2, <1>4, <1>5, <2>1, <2>2, <3>1, <3>2
  <2>3. CASE ~(i < n)
    <3>1. i - Len(A) \in 1..(Len(writers) - n) /\ n + (i - Len(A)) = i + 1 /\ i + 1 \in 1..Len(writers)
      BY <1>2, <1>4, <2>1, <2>3
    <3>2. (A \o B)[i] = B[i - Len(A)]
      BY <1>2, <1>3, <1>4, <2>1, <2>3
    <3>3. B[i - Len(A)] = writers[n + (i - Len(A))]
      BY <1>4, <3>1
    <3> QED
      BY <1>5, <2>1, <2>3, <3>1, <3>2, <3>3
  <2> QED
    BY <2>2, <2>3
<1>8. ASSUME NEW i \in DOMAIN writers', NEW k \in DOMAIN writers', i < k PROVE f[i] < f[k]
  BY <1>2, <1>6, <1>8
<1>9. \A i \in DOMAIN writers' : /\ f[i] \in DOMAIN writers /\ writers'[i] = writers[f[i]]
                                 /\ \A k \in DOMAIN writers' : i < k => f[i] < f[k]
  BY <1>7, <1>8
<1> QED
  BY <1>6, <1>9 DEF Thinned

\* A dead run stays dead.
LEMMA DeadForward ==
    ASSUME TypeOK, Forward, CmdForward, NEW o, Dead(o)
    PROVE  Dead(o)' /\ op'[o].kind = op[o].kind
<1>1. o \in Seen /\ o \in Sent
  BY SentType DEF Dead
<1> QED
  BY <1>1 DEF Dead, Forward, CmdForward

\* The writers' part survives when writers leave and nothing the others wait for changes,
LEMMA WritersThin ==
    ASSUME TypeOK, WritersInv, Forward, CmdForward, Thinned, canceled' = canceled,
           \A i \in DOMAIN writers' : Undisturbed(writers'[i])
    PROVE  WritersInv' /\ writers' \in Seq(WriteType)
<1>1. PICK f : \A i \in DOMAIN writers' :
          /\ f[i] \in DOMAIN writers /\ writers'[i] = writers[f[i]]
          /\ \A k \in DOMAIN writers' : i < k => f[i] < f[k]
  BY DEF Thinned
<1>2. writers' \in Seq(WriteType) /\ \A i \in DOMAIN writers' : i \in Nat
  BY DEF Thinned
<1>3. \A i \in DOMAIN writers : i \in Nat
  BY DEF TypeOK
<1>4. WritersOK'
  <2>1. ASSUME NEW i \in DOMAIN writers' PROVE WriterOK(writers[i])'
    <3>1. WriterOK(writers'[i])
      BY <1>1 DEF WritersInv, WritersOK
    <3>2. Undisturbed(writers'[i])
      OBVIOUS
    <3> QED
      BY <3>1, <3>2 DEF WriterOK, Undisturbed, Forward
  <2> QED
    BY <2>1 DEF WritersOK
<1>5. OneWrite'
  <2>1. ASSUME NEW i \in DOMAIN writers', NEW k \in DOMAIN writers', i # k,
               writers'[i].task = writers'[k].task, writers'[i].task \in {"loop", "stdout"}
        PROVE  writers'[i].cmd # writers'[k].cmd
    <3>1. f[i] \in DOMAIN writers /\ f[k] \in DOMAIN writers /\ writers'[i] = writers[f[i]] /\ writers'[k] = writers[f[k]]
      BY <1>1
    <3>2. f[i] # f[k]
      <4>1. i < k \/ k < i
        BY <1>2, <2>1
      <4>2. f[i] < f[k] \/ f[k] < f[i]
        BY <1>1, <4>1
      <4> QED
        BY <1>3, <3>1, <4>2
    <3> QED
      BY <2>1, <3>1, <3>2 DEF WritersInv, OneWrite
  <2> QED
    BY <2>1 DEF OneWrite
<1>6. CanceledAreDead'
  BY DeadForward DEF WritersInv, CanceledAreDead, Dead
<1>7. CancelingAreDead'
  <2>1. ASSUME NEW i \in DOMAIN writers', writers'[i].reply = "canceled", op'[writers'[i].op].kind = "run"
        PROVE  /\ Dead(writers[i].op)'
               /\ \A k \in DOMAIN writers' : i < k /\ writers'[k].task = "stdout" => writers'[k].op # writers'[i].op
    <3>1. f[i] \in DOMAIN writers /\ writers'[i] = writers[f[i]] /\ writers'[i].op \in Seen
      BY <1>1, <2>1 DEF WritersInv, WritersOK, WriterOK
    <3>2. op[writers'[i].op].kind = "run"
      BY <2>1, <3>1, SentType DEF Forward
    <3>3. /\ Dead(writers'[i].op)
          /\ \A k \in DOMAIN writers : f[i] < k /\ writers[k].task = "stdout" => writers[k].op # writers'[i].op
      BY <2>1, <3>1, <3>2 DEF WritersInv, CancelingAreDead
    <3>4. Dead(writers[i].op)'
      BY <3>3, DeadForward DEF Dead
    <3>5. ASSUME NEW k \in DOMAIN writers', i < k, writers'[k].task = "stdout" PROVE writers'[k].op # writers'[i].op
      BY <1>1, <3>3, <3>5
    <3> QED
      BY <3>4, <3>5
  <2> QED
    BY <2>1 DEF CancelingAreDead
<1>8. NoUpdateAfterCancel'
  BY <1>1 DEF WritersInv, NoUpdateAfterCancel
<1> QED
  BY <1>2, <1>4, <1>5, <1>6, <1>7, <1>8 DEF WritersInv

\* A writer that is not in line joins it.
Joins(w) ==
    /\ w.task = "loop" => cmd[w.cmd].loop \notin {"accepted", "next"}
    /\ w.task = "stdout" => cmd[w.cmd].out # "sending" /\ cmd[w.cmd].kind = "run" /\ cmd[w.cmd].destroyed = "no"
    /\ w.reply = "canceled" /\ op'[w.op].kind = "run" => Dead(w.op)'

\* and when a writer joins.
LEMMA WritersAppend ==
    ASSUME TypeOK, WritersInv, Forward, CmdForward, canceled' = canceled,
           \A i \in DOMAIN writers : Undisturbed(writers[i]),
           NEW w \in WriteType, writers' = Append(writers, w), WriterOK(w)', Joins(w)
    PROVE  /\ WritersInv' /\ writers' \in Seq(WriteType)
           /\ \E i \in DOMAIN writers' : writers'[i] = w
           /\ \A i \in DOMAIN writers : i \in DOMAIN writers' /\ writers'[i] = writers[i]
<1>1. /\ writers' \in Seq(WriteType) /\ Len(writers) \in Nat
      /\ DOMAIN writers = 1..Len(writers) /\ DOMAIN writers' = 1..(Len(writers) + 1)
      /\ \A i \in 1..Len(writers) : writers'[i] = writers[i]
      /\ writers'[Len(writers) + 1] = w
  <2>1. writers \in Seq(WriteType)
    BY DEF TypeOK
  <2> QED
    BY <2>1, AppendFacts
<1> DEFINE n == Len(writers) + 1
<1>2. n \in DOMAIN writers' /\ writers'[n] = w /\ \A i \in DOMAIN writers' : i = n \/ i \in DOMAIN writers
  BY <1>1
<1>3. \A i \in DOMAIN writers : i \in DOMAIN writers' /\ writers'[i] = writers[i] /\ i < n /\ i \in Nat /\ i # n
  BY <1>1
<1>4. \A i, k \in DOMAIN writers' : i < k => i \in DOMAIN writers
  BY <1>1
<1> HIDE DEF n
<1>5. WritersOK'
  <2>1. ASSUME NEW i \in DOMAIN writers' PROVE WriterOK(writers[i])'
    <3>1. CASE i = n
      BY <1>2, <3>1
    <3>2. CASE i \in DOMAIN writers
      <4> DEFINE v == writers[i]
      <4>1. WriterOK(v) /\ Undisturbed(v)
        BY <3>2 DEF WritersInv, WritersOK
      <4>2. writers'[i] = v
        BY <1>3, <3>2
      <4> HIDE DEF v
      <4>3. WriterOK(writers'[i]) /\ Undisturbed(writers'[i])
        BY <4>1, <4>2
      <4> QED
        BY <4>3 DEF WriterOK, Undisturbed, Forward
    <3> QED
      BY <1>2, <3>1, <3>2
  <2> QED
    BY <2>1 DEF WritersOK
<1>6. \A i \in DOMAIN writers : writers[i].task = w.task /\ w.task \in {"loop", "stdout"} => writers[i].cmd # w.cmd
  BY DEF WritersInv, WritersOK, WriterOK, Joins
<1>7. OneWrite'
  <2>1. ASSUME NEW i \in DOMAIN writers', NEW k \in DOMAIN writers', i # k,
               writers'[i].task = writers'[k].task, writers'[i].task \in {"loop", "stdout"}
        PROVE  writers'[i].cmd # writers'[k].cmd
    <3>1. CASE i = n
      <4>1. k \in DOMAIN writers /\ writers'[k] = writers[k]
        BY <1>2, <1>3, <2>1, <3>1
      <4> QED
        BY <1>2, <1>6, <2>1, <3>1, <4>1
    <3>2. CASE k = n
      <4>1. i \in DOMAIN writers /\ writers'[i] = writers[i]
        BY <1>2, <1>3, <2>1, <3>2
      <4> QED
        BY <1>2, <1>6, <2>1, <3>2, <4>1
    <3>3. CASE i # n /\ k # n
      BY <1>2, <1>3, <2>1, <3>3 DEF WritersInv, OneWrite
    <3> QED
      BY <3>1, <3>2, <3>3
  <2> QED
    BY <2>1 DEF OneWrite
<1>8. CanceledAreDead'
  BY DeadForward DEF WritersInv, CanceledAreDead, Dead
<1>9. w.task = "stdout" => w.op = w.cmd /\ ~Dead(w.op)
  BY DEF WriterOK, Joins, Dead
<1>10. CancelingAreDead'
  <2>1. ASSUME NEW i \in DOMAIN writers', writers'[i].reply = "canceled", op'[writers'[i].op].kind = "run"
        PROVE  /\ Dead(writers[i].op)'
               /\ \A k \in DOMAIN writers' : i < k /\ writers'[k].task = "stdout" => writers'[k].op # writers'[i].op
    <3>1. CASE i = n
      <4>1. Dead(writers[i].op)'
        BY <1>2, <2>1, <3>1 DEF Joins
      <4>2. \A k \in DOMAIN writers' : ~(i < k)
        BY <1>1, <3>1 DEF n
      <4> QED
        BY <4>1, <4>2
    <3>2. CASE i \in DOMAIN writers
      <4>1. writers'[i] = writers[i] /\ writers'[i].op \in Seen
        BY <1>3, <2>1, <3>2 DEF WritersInv, WritersOK, WriterOK
      <4>2. op[writers'[i].op].kind = "run"
        BY <2>1, <4>1, SentType DEF Forward
      <4>3. /\ Dead(writers'[i].op)
            /\ \A k \in DOMAIN writers : i < k /\ writers[k].task = "stdout" => writers[k].op # writers'[i].op
        BY <2>1, <3>2, <4>1, <4>2 DEF WritersInv, CancelingAreDead
      <4>4. Dead(writers[i].op)'
        BY <4>3, DeadForward DEF Dead
      <4>5. ASSUME NEW k \in DOMAIN writers', i < k, writers'[k].task = "stdout" PROVE writers'[k].op # writers'[i].op
        <5>1. CASE k = n
          BY <1>2, <1>9, <4>3, <4>5, <5>1
        <5>2. CASE k \in DOMAIN writers
          BY <1>3, <4>3, <4>5, <5>2
        <5> QED
          BY <1>2, <5>1, <5>2
      <4> QED
        BY <4>4, <4>5
    <3> QED
      BY <1>2, <3>1, <3>2
  <2> QED
    BY <2>1 DEF CancelingAreDead
<1>11. NoUpdateAfterCancel'
  <2>1. ASSUME NEW i \in DOMAIN writers', writers'[i].task = "stdout" PROVE writers'[i].op \notin canceled'
    <3>1. CASE i = n
      BY <1>2, <1>9, <2>1, <3>1 DEF WritersInv, CanceledAreDead
    <3>2. CASE i \in DOMAIN writers
      BY <1>3, <2>1, <3>2 DEF WritersInv, NoUpdateAfterCancel
    <3> QED
      BY <1>2, <3>1, <3>2
  <2> QED
    BY <2>1 DEF NoUpdateAfterCancel
<1> QED
  BY <1>1, <1>2, <1>3, <1>5, <1>7, <1>8, <1>10, <1>11 DEF WritersInv

\* The reply to a cancel reaches the supervisor.
LEMMA CanceledKeeps ==
    ASSUME TypeOK, WritersInv, Forward, cmd' = cmd, writers # <<>>, writers' = Tail(writers),
           canceled' = IF Head(writers).reply = "canceled" /\ Head(writers).op \in Sent /\ op[Head(writers).op].kind = "run"
                       THEN canceled \union {Head(writers).op} ELSE canceled
    PROVE  WritersInv' /\ writers' \in Seq(WriteType) /\ canceled' \subseteq Op
<1> DEFINE w == Head(writers)
<1>1. /\ Thinned /\ 1 \in DOMAIN writers /\ w = writers[1]
      /\ \A i \in DOMAIN writers' : i + 1 \in DOMAIN writers /\ writers'[i] = writers[i + 1] /\ 1 < i + 1
  BY TailThinned
<1>2. CmdForward
  BY DEF CmdForward
<1>3. canceled' = IF w.reply = "canceled" /\ w.op \in Sent /\ op[w.op].kind = "run" THEN canceled \union {w.op} ELSE canceled
  OBVIOUS
<1> HIDE DEF w
<1>4. canceled' = canceled \/ (canceled' = canceled \union {w.op} /\ w.reply = "canceled" /\ op[w.op].kind = "run" /\ w.op \in Op)
  BY <1>3, SentType
<1>5. canceled' \subseteq Op
  BY <1>4 DEF TypeOK
<1>6. w.reply = "canceled" /\ op[w.op].kind = "run" =>
          /\ Dead(w.op)
          /\ \A k \in DOMAIN writers : 1 < k /\ writers[k].task = "stdout" => writers[k].op # w.op
  BY <1>1 DEF WritersInv, CancelingAreDead
<1>7. CanceledAreDead'
  BY <1>2, <1>4, <1>6, DeadForward DEF WritersInv, CanceledAreDead, Dead
<1>8. NoUpdateAfterCancel'
  <2>1. ASSUME NEW i \in DOMAIN writers', writers'[i].task = "stdout" PROVE writers'[i].op \notin canceled'
    <3>1. i + 1 \in DOMAIN writers /\ writers'[i] = writers[i + 1] /\ 1 < i + 1
      BY <1>1
    <3>2. writers'[i].op \notin canceled
      BY <2>1, <3>1 DEF WritersInv, NoUpdateAfterCancel
    <3> QED
      BY <1>4, <1>6, <2>1, <3>1, <3>2
  <2> QED
    BY <2>1 DEF NoUpdateAfterCancel
<1>9. WritersOK' /\ OneWrite' /\ CancelingAreDead' /\ writers' \in Seq(WriteType)
  <2>1. WritersOK'
    BY <1>1 DEF WritersInv, WritersOK, WriterOK, Forward
  <2>2. \A i, k \in DOMAIN writers' : i # k => i + 1 # k + 1
    BY <1>1, TailThinned
  <2>3. OneWrite'
    BY <1>1, <2>2 DEF WritersInv, OneWrite
  <2>4. CancelingAreDead'
    <3>1. ASSUME NEW i \in DOMAIN writers', writers'[i].reply = "canceled", op'[writers'[i].op].kind = "run"
          PROVE  /\ Dead(writers[i].op)'
                 /\ \A k \in DOMAIN writers' : i < k /\ writers'[k].task = "stdout" => writers'[k].op # writers'[i].op
      <4>1. i + 1 \in DOMAIN writers /\ writers'[i] = writers[i + 1] /\ writers'[i].op \in Seen
        BY <1>1, <3>1 DEF WritersInv, WritersOK, WriterOK
      <4>2. op[writers'[i].op].kind = "run"
        BY <3>1, <4>1, SentType DEF Forward
      <4>3. /\ Dead(writers'[i].op)
            /\ \A k \in DOMAIN writers : i + 1 < k /\ writers[k].task = "stdout" => writers[k].op # writers'[i].op
        BY <3>1, <4>1, <4>2 DEF WritersInv, CancelingAreDead
      <4>4. Dead(writers[i].op)'
        BY <1>2, <4>3, DeadForward DEF Dead
      <4>5. ASSUME NEW k \in DOMAIN writers', i < k, writers'[k].task = "stdout" PROVE writers'[k].op # writers'[i].op
        <5>1. i \in Nat /\ k \in Nat
          BY TailThinned
        <5>2. k + 1 \in DOMAIN writers /\ writers'[k] = writers[k + 1] /\ i + 1 < k + 1
          BY <1>1, <4>5, <5>1
        <5> QED
          BY <4>3, <4>5, <5>2
      <4> QED
        BY <4>4, <4>5
    <3> QED
      BY <3>1 DEF CancelingAreDead
  <2> QED
    BY <1>1, <2>1, <2>3, <2>4 DEF Thinned
<1> QED
  BY <1>5, <1>7, <1>8, <1>9 DEF WritersInv

-----------------------------------------------------------------------------
(***************************************************************************)
(* Every action preserves the invariant.                                   *)
(***************************************************************************)
Place(o) == Unread(o) \/ InQueue(o) \/ InLoop(o) \/ Replying(o)

\* No operation is forgotten when all of them stay in some place.
LEMMA ForgottenKeeps ==
    ASSUME NoneForgotten, Waiting' \subseteq Waiting, under \subseteq under',
           \A o \in Waiting' \ under' : Place(o) => Place(o)'
    PROVE  NoneForgotten'
BY DEF NoneForgotten, Place

\* A step that leaves the agent as it is.
LEMMA AgentSame ==
    ASSUME TypeOK, AgentInv, WritersInv, LastLineIsRead, Forward,
           UNCHANGED <<cmd, fastcgiVars, writers, canceled>>
    PROVE  /\ AgentInv' /\ WritersInv' /\ LastLineIsRead' /\ under' = under
           /\ \A o : InQueue(o) \/ InLoop(o) \/ Replying(o) => Place(o)'
<1>1. UNCHANGED <<cmd, fastcgi, queue, getters>> /\ under' = under /\ writers' = writers /\ canceled' = canceled
  BY DEF fastcgiVars
<1>2. AgentInv' /\ CmdForward
  BY <1>1, SameKeeps
<1>3. WritersInv'
  <2>1. Thinned
    BY <1>1, SameThinned
  <2>2. \A i \in DOMAIN writers' : Undisturbed(writers'[i])
    BY <1>1 DEF Undisturbed
  <2> QED
    BY <1>1, <1>2, <2>1, <2>2, WritersThin
<1>4. LastLineIsRead'
  BY <1>1 DEF LastLineIsRead
<1>5. \A o : InQueue(o) \/ InLoop(o) \/ Replying(o) => Place(o)'
  BY <1>1 DEF InQueue, InLoop, Replying, Place, Queued
<1> QED
  BY <1>1, <1>2, <1>3, <1>4, <1>5

\* Messages in the inbox stay there.
LEMMA UnreadStays ==
    ASSUME \A i \in DOMAIN inbox : i \in DOMAIN inbox' /\ inbox'[i] = inbox[i]
    PROVE  \A o : Unread(o) => Unread(o)'
BY DEF Unread

LEMMA SendOK ==
    ASSUME IInv, NEW o \in Op, NEW k \in Kind, NEW j \in Job, Send(o, k, j)
    PROVE  IInv'
<1>1. TypeOK /\ SupervisorInv /\ AgentInv /\ WritersInv /\ LastLineIsRead /\ NoneForgotten
  BY DEF IInv
<1>2. UNCHANGED <<linkVars, cmd, fastcgiVars, writers, canceled>>
  BY DEF Send
<1>3. /\ op' \in [Op -> OpType \union {None}] /\ inbox' \in Seq(MessageType)
      /\ SupervisorInv' /\ Forward
      /\ Waiting' = Waiting \union {o} /\ \E i \in DOMAIN inbox' : inbox'[i].name = "op" /\ inbox'[i].op = o
      /\ \A i \in DOMAIN inbox : i \in DOMAIN inbox' /\ inbox'[i] = inbox[i]
  BY <1>1, SendKeeps
<1>4. TypeOK'
  BY <1>1, <1>2, <1>3 DEF TypeOK, linkVars, fastcgiVars
<1>5. /\ AgentInv' /\ WritersInv' /\ LastLineIsRead' /\ under' = under
      /\ \A p : InQueue(p) \/ InLoop(p) \/ Replying(p) => Place(p)'
  BY <1>1, <1>2, <1>3, AgentSame
<1>6. NoneForgotten'
  <2>1. ASSUME NEW p \in Waiting' \ under' PROVE Place(p)'
    <3>1. CASE p = o
      BY <1>3, <3>1 DEF Place, Unread
    <3>2. CASE p \in Waiting
      BY <1>1, <1>3, <1>5, <3>2, UnreadStays DEF NoneForgotten, Place
    <3> QED
      BY <1>3, <3>1, <3>2
  <2> QED
    BY <2>1 DEF NoneForgotten, Place
<1> QED
  BY <1>3, <1>4, <1>5, <1>6 DEF IInv

LEMMA CancelOK == ASSUME IInv, NEW o \in Op, Cancel(o) PROVE IInv'
<1>1. TypeOK /\ SupervisorInv /\ AgentInv /\ WritersInv /\ LastLineIsRead /\ NoneForgotten
  BY DEF IInv
<1>2. UNCHANGED <<linkVars, cmd, fastcgiVars, writers, canceled>>
  BY DEF Cancel
<1>3. /\ op' \in [Op -> OpType \union {None}] /\ inbox' \in Seq(MessageType)
      /\ SupervisorInv' /\ Forward /\ Waiting' \subseteq Waiting
      /\ \A i \in DOMAIN inbox : i \in DOMAIN inbox' /\ inbox'[i] = inbox[i]
  BY <1>1, CancelKeeps
<1>4. TypeOK'
  BY <1>1, <1>2, <1>3 DEF TypeOK, linkVars, fastcgiVars
<1>5. /\ AgentInv' /\ WritersInv' /\ LastLineIsRead' /\ under' = under
      /\ \A p : InQueue(p) \/ InLoop(p) \/ Replying(p) => Place(p)'
  BY <1>1, <1>2, <1>3, AgentSame
<1>6. NoneForgotten'
  <2>1. \A p : Place(p) => Place(p)'
    BY <1>3, <1>5, UnreadStays DEF Place
  <2> QED
    BY <1>1, <1>3, <1>5, <2>1, ForgottenKeeps
<1> QED
  BY <1>3, <1>4, <1>5, <1>6 DEF IInv

LEMMA ConnectOK == ASSUME IInv, Connect PROVE IInv'
<1>1. TypeOK /\ SupervisorInv /\ AgentInv /\ WritersInv /\ LastLineIsRead /\ NoneForgotten
  BY DEF IInv
<1>2. link' = "open" /\ UNCHANGED <<op, inbox, tries, faults, cmd, fastcgiVars, writers, canceled>>
  BY DEF Connect
<1>3. SupervisorInv' /\ Forward
  <2>1. Fades
    BY <1>1, <1>2, SameFades
  <2>2. Ebbs /\ StaysQuiet
    BY <1>2 DEF Ebbs, StaysQuiet
  <2> QED
    BY <1>1, <2>1, <2>2, EbbKeeps
<1>4. TypeOK'
  BY <1>1, <1>2 DEF TypeOK, fastcgiVars
<1>5. /\ AgentInv' /\ WritersInv' /\ LastLineIsRead' /\ under' = under
      /\ \A p : InQueue(p) \/ InLoop(p) \/ Replying(p) => Place(p)'
  BY <1>1, <1>2, <1>3, AgentSame
<1>6. NoneForgotten'
  <2>1. \A p : Place(p) => Place(p)'
    BY <1>2, <1>5, UnreadStays DEF Place
  <2>2. Waiting' \subseteq Waiting
    BY <1>2 DEF Waiting, Sent
  <2> QED
    BY <1>1, <1>5, <2>1, <2>2, ForgottenKeeps
<1> QED
  BY <1>3, <1>4, <1>5, <1>6 DEF IInv

\* Destroyed commands: what the properties need to know.
LEMMA KillsLastLine ==
    ASSUME TypeOK, AgentInv, LastLineIsRead, NEW C \in SUBSET Op, NEW why \in {"asked", "exit"}, Kills(C, why),
           why = "exit" => \A c \in C : cmd[c].out \in {"none", "told"}
    PROVE  LastLineIsRead'
BY DEF Kills, LastLineIsRead

LEMMA EndedOK ==
    ASSUME IInv, Ended, tries' \in 0..MaxRetry, faults' \in 0..MaxFault
    PROVE  IInv'
<1>1. TypeOK /\ SupervisorInv /\ AgentInv /\ WritersInv /\ LastLineIsRead /\ NoneForgotten
  BY DEF IInv
<1>2. /\ link' = "ended" /\ op' = Over(Alive) /\ inbox' = <<>> /\ writers' = <<>>
      /\ Destroy(Cmds, "asked") /\ UNCHANGED <<queue, getters, canceled>>
  BY DEF Ended
<1>3. Fades /\ Alive' = {} /\ Waiting' = {}
  BY <1>1, <1>2, AllOver
<1>4. SupervisorInv' /\ Forward
  <2>1. Ebbs /\ StaysQuiet
    BY <1>2, <1>3 DEF Ebbs, StaysQuiet
  <2> QED
    BY <1>1, <1>3, <2>1, EbbKeeps
<1>5. op' \in [Op -> OpType \union {None}] /\ inbox' \in Seq(MessageType)
  <2>1. <<>> \in Seq(MessageType)
    OBVIOUS
  <2> QED
    BY <1>2, <1>3, <2>1 DEF Fades
<1>6. NoneForgotten'
  BY <1>3 DEF NoneForgotten
<1>7. Cmds \subseteq Op
  BY DEF Cmds
<1>8. Kills(Cmds, "asked")
  BY <1>1, <1>2, <1>7, DestroyKills
<1>9. AgentInv' /\ CmdForward /\ cmd' \in [Op -> CmdType]
  BY <1>1, <1>2, <1>4, <1>8, KillKeeps DEF Destroy
<1>10. WritersInv' /\ writers' \in Seq(WriteType)
  <2>1. Thinned
    BY <1>2, NoneThinned
  <2>2. \A i \in DOMAIN writers' : Undisturbed(writers'[i])
    <3>1. DOMAIN <<>> = {}
      OBVIOUS
    <3> QED
      BY <1>2, <3>1
  <2> QED
    BY <1>1, <1>2, <1>4, <1>9, <2>1, <2>2, WritersThin
<1>11. LastLineIsRead'
  BY <1>1, <1>7, <1>8, KillsLastLine
<1>12. under' \subseteq Op
  <2>1. Alive \subseteq Op
    BY <1>1, SentType
  <2> QED
    BY <1>1, <1>2, <2>1 DEF Destroy, TypeOK
<1>13. fastcgi' \in Op \union {None} /\ (fastcgi' # None => queue' # None)
  BY <1>1, <1>2 DEF Destroy, TypeOK
<1>14. TypeOK'
  BY <1>1, <1>2, <1>5, <1>9, <1>10, <1>12, <1>13 DEF TypeOK
<1> QED
  BY <1>4, <1>6, <1>9, <1>10, <1>11, <1>14 DEF IInv

LEMMA TerminateOK == ASSUME IInv, Terminate PROVE IInv'
<1>1. TypeOK
  BY DEF IInv
<1>2. Ended /\ tries' \in 0..MaxRetry /\ faults' \in 0..MaxFault
  BY <1>1 DEF Terminate, TypeOK
<1> QED
  BY <1>2, EndedOK

LEMMA DownOK ==
    ASSUME IInv, NEW t \in 1..MaxRetry, NEW W, Down(t, W), faults' \in 0..MaxFault,
           writers' = W => Thinned
    PROVE  IInv'
<1>1. TypeOK /\ SupervisorInv /\ AgentInv /\ WritersInv /\ LastLineIsRead /\ NoneForgotten
  BY DEF IInv
<1>2. tries' = t - 1 /\ tries' \in 0..MaxRetry
  BY BoundAssumption DEF Down
<1>3. op' = Over(Alive) /\ inbox' = <<>>
  BY DEF Down, Ended
<1>4. Fades /\ Alive' = {} /\ Waiting' = {}
  BY <1>1, <1>3, AllOver
<1>5. SupervisorInv' /\ Forward
  <2>1. Ebbs /\ StaysQuiet
    BY <1>3, <1>4 DEF Ebbs, StaysQuiet
  <2> QED
    BY <1>1, <1>4, <2>1, EbbKeeps
<1>6. op' \in [Op -> OpType \union {None}] /\ inbox' \in Seq(MessageType)
  <2>1. <<>> \in Seq(MessageType)
    OBVIOUS
  <2> QED
    BY <1>3, <1>4, <2>1 DEF Fades
<1>7. NoneForgotten'
  BY <1>4 DEF NoneForgotten
<1>8. CASE link' = "down" /\ writers' = W /\ UNCHANGED <<cmd, fastcgiVars, canceled>>
  <2>1. AgentInv' /\ CmdForward
    BY <1>1, <1>5, <1>8, SameKeeps DEF fastcgiVars
  <2>2. WritersInv' /\ writers' \in Seq(WriteType)
    <3>1. \A i \in DOMAIN writers' : Undisturbed(writers'[i])
      BY <1>8 DEF Undisturbed
    <3> QED
      BY <1>1, <1>5, <1>8, <2>1, <3>1, WritersThin
  <2>3. TypeOK'
    BY <1>1, <1>2, <1>6, <1>8, <2>2 DEF TypeOK, fastcgiVars
  <2>4. LastLineIsRead'
    BY <1>1, <1>8 DEF LastLineIsRead
  <2> QED
    BY <1>5, <1>7, <2>1, <2>2, <2>3, <2>4 DEF IInv
<1>9. CASE Ended
  BY <1>2, <1>9, EndedOK
<1> QED
  BY <1>8, <1>9 DEF Down

LEMMA LoseOK == ASSUME IInv, Lose PROVE IInv'
<1>1. TypeOK
  BY DEF IInv
<1>2. faults' \in 0..MaxFault
  BY <1>1, BoundAssumption DEF Lose, Fault, TypeOK
<1>3. CASE Down(tries, writers)
  <2>1. tries \in 1..MaxRetry
    BY <1>1, <1>3, BoundAssumption DEF Down, TypeOK
  <2>2. writers' = writers => Thinned
    BY <1>1, SameThinned
  <2> QED
    BY <1>2, <1>3, <2>1, <2>2, DownOK
<1>4. CASE \E i \in DOMAIN writers : IsMain(writers[i]) /\ Down(MaxRetry, RemoveAt(writers, i))
  <2>1. PICK i \in DOMAIN writers : Down(MaxRetry, RemoveAt(writers, i))
    BY <1>4
  <2>2. MaxRetry \in 1..MaxRetry
    BY BoundAssumption
  <2> DEFINE W == RemoveAt(writers, i)
  <2>3. writers' = W => Thinned
    BY <1>1, RemoveThinned
  <2>4. Down(MaxRetry, W)
    BY <2>1
  <2> HIDE DEF W
  <2> QED
    BY <1>2, <2>2, <2>3, <2>4, DownOK
<1> QED
  BY <1>3, <1>4 DEF Lose

LEMMA ConnectFailsOK == ASSUME IInv, ConnectFails PROVE IInv'
<1>1. TypeOK
  BY DEF IInv
<1>2. Down(tries, writers) /\ faults' \in 0..MaxFault
  BY <1>1 DEF ConnectFails, TypeOK
<1>3. tries \in 1..MaxRetry
  BY <1>1, <1>2, BoundAssumption DEF Down, TypeOK
<1>4. writers' = writers => Thinned
  BY <1>1, SameThinned
<1> QED
  BY <1>2, <1>3, <1>4, DownOK

\* The main task writes a reply.
LEMMA RespondKeeps ==
    ASSUME TypeOK, WritersInv, Forward, CmdForward, canceled' = canceled,
           \A i \in DOMAIN writers : Undisturbed(writers[i]), NEW o \in Op,
           NEW r \in {"none", "ok", "internal", "full", "notFound", "failed", "final", "canceled"}, Respond(o, r),
           r = "canceled" => o \in Seen' /\ (op'[o].kind = "run" => Dead(o)')
    PROVE  /\ WritersInv' /\ writers' \in Seq(WriteType)
           /\ r # "canceled" => Replying(o)'
           /\ \A p : Replying(p) => Replying(p)'
<1> DEFINE w == Write("main", None, o, r)
<1>1. w \in WriteType /\ w.task = "main" /\ w.op = o /\ w.reply = r
  BY DEF Write, WriteType
<1>2. writers' = Append(writers, w)
  BY DEF Respond
<1> HIDE DEF w
<1>3. WriterOK(w)'
  BY <1>1 DEF WriterOK
<1>4. Joins(w)
  BY <1>1 DEF Joins, Dead
<1>5. /\ WritersInv' /\ writers' \in Seq(WriteType)
      /\ \E i \in DOMAIN writers' : writers'[i] = w
      /\ \A i \in DOMAIN writers : i \in DOMAIN writers' /\ writers'[i] = writers[i]
  BY <1>1, <1>2, <1>3, <1>4, WritersAppend
<1> QED
  BY <1>1, <1>5 DEF Replying

\* What an operation message that is read tells.
LEMMA ReadOpFacts ==
    ASSUME TypeOK, SupervisorInv, NEW o \in Op, NEW b \in BOOLEAN, ReadOp(o, b)
    PROVE  /\ op' = op /\ link' = link /\ tries' = tries /\ canceled' = canceled
           /\ inbox' \in Seq(MessageType) /\ SupervisorInv' /\ Forward
           /\ o \notin Seen /\ o \in Seen' /\ (op'[o].kind = "run" <=> b)
           /\ \A p : Unread(p) => Unread(p)' \/ p = o
           /\ Waiting' \subseteq Waiting
<1> DEFINE m == [name |-> "op", op |-> o, job |-> op[o].job]
<1>1. Read(m) /\ (op[o].kind = "run" <=> b) /\ m.name = "op" /\ m.op = o
  BY DEF ReadOp
<1> HIDE DEF m
<1>2. PICK n : n = m
  OBVIOUS
<1>3. Read(n) /\ n.name = "op" /\ n.op = o
  BY <1>1, <1>2
<1>4. /\ op' = op /\ link' = link /\ tries' = tries /\ canceled' = canceled
      /\ inbox' \in Seq(MessageType) /\ SupervisorInv' /\ Forward
      /\ n.op \in Seen'
      /\ n.name = "op" => n.op \notin Seen
      /\ \A p : Unread(p) => Unread(p)' \/ (n.name = "op" /\ n.op = p)
  BY <1>3, ReadFacts
<1>5. Waiting' = Waiting
  BY <1>4 DEF Waiting, Sent
<1> QED
  BY <1>1, <1>3, <1>4, <1>5

LEMMA RunDirNotFoundOK == ASSUME IInv, NEW o \in Op, RunDirNotFound(o) PROVE IInv'
<1>1. TypeOK /\ SupervisorInv /\ AgentInv /\ WritersInv /\ LastLineIsRead /\ NoneForgotten
  BY DEF IInv
<1>2. ReadOp(o, FALSE) /\ Respond(o, "notFound") /\ UNCHANGED <<cmd, fastcgi, queue, getters, under, faults>>
  BY DEF RunDirNotFound, fastcgiVars
<1>3. /\ op' = op /\ link' = link /\ tries' = tries /\ canceled' = canceled
      /\ inbox' \in Seq(MessageType) /\ SupervisorInv' /\ Forward
      /\ \A p : Unread(p) => Unread(p)' \/ p = o
      /\ Waiting' \subseteq Waiting
  BY <1>1, <1>2, ReadOpFacts
<1>4. AgentInv' /\ CmdForward
  BY <1>1, <1>2, <1>3, SameKeeps
<1>5. \A i \in DOMAIN writers : Undisturbed(writers[i])
  BY <1>2 DEF Undisturbed
<1>6. WritersInv' /\ writers' \in Seq(WriteType) /\ Replying(o)' /\ \A p : Replying(p) => Replying(p)'
  BY <1>1, <1>2, <1>3, <1>4, <1>5, RespondKeeps
<1>7. LastLineIsRead'
  BY <1>1, <1>2 DEF LastLineIsRead
<1>8. TypeOK'
  BY <1>1, <1>2, <1>3, <1>6 DEF TypeOK
<1>9. NoneForgotten'
  <2>1. \A p : Place(p) => Place(p)'
    BY <1>2, <1>3, <1>6 DEF Place, InQueue, InLoop, Queued
  <2> QED
    BY <1>1, <1>2, <1>3, <2>1, ForgottenKeeps
<1> QED
  BY <1>3, <1>4, <1>6, <1>7, <1>8, <1>9 DEF IInv

LEMMA StartFastcgiOK == ASSUME IInv, NEW o \in Op, StartFastcgi(o) PROVE IInv'
<1>1. TypeOK /\ SupervisorInv /\ AgentInv /\ WritersInv /\ LastLineIsRead /\ NoneForgotten
  BY DEF IInv
<1>2. /\ ReadOp(o, FALSE) /\ fastcgi = None /\ fastcgi' = o /\ queue' = <<o>> /\ getters' = <<>>
      /\ cmd' = [cmd EXCEPT ![o].kind = "fastcgi", ![o].running = TRUE]
      /\ UNCHANGED <<writers, under, faults>>
  BY DEF StartFastcgi
<1>3. /\ op' = op /\ link' = link /\ tries' = tries /\ canceled' = canceled
      /\ inbox' \in Seq(MessageType) /\ SupervisorInv' /\ Forward
      /\ o \notin Seen /\ o \in Seen' /\ op'[o].kind # "run"
      /\ \A p : Unread(p) => Unread(p)' \/ p = o
      /\ Waiting' \subseteq Waiting
  BY <1>1, <1>2, ReadOpFacts
<1>4. /\ AgentInv' /\ CmdForward /\ cmd' \in [Op -> CmdType] /\ getters' \in Seq(Op) /\ Queued' = {o}
      /\ \A d \in Op : cmd'[d].msg = cmd[d].msg /\ cmd'[d].loop = cmd[d].loop /\ cmd'[d].out = cmd[d].out
                       /\ cmd'[d].exit = cmd[d].exit /\ cmd'[d].destroyed = cmd[d].destroyed
                       /\ (cmd[d].running => cmd'[d].running) /\ (cmd'[d].kind = "run" <=> cmd[d].kind = "run")
  BY <1>1, <1>2, <1>3, StartKeeps
<1>5. WritersInv'
  <2>1. Thinned
    BY <1>1, <1>2, SameThinned
  <2>2. \A i \in DOMAIN writers' : Undisturbed(writers'[i])
    <3>1. \A i \in DOMAIN writers' : writers'[i].task \in {"loop", "stdout", "exit"} => writers'[i].cmd \in Op
      BY <1>1, <1>2 DEF WritersInv, WritersOK, WriterOK
    <3> QED
      BY <1>4, <3>1 DEF Undisturbed
  <2> QED
    BY <1>1, <1>3, <1>4, <2>1, <2>2, WritersThin
<1>6. LastLineIsRead'
  BY <1>1, <1>4 DEF LastLineIsRead
<1>7. TypeOK'
  <2>1. o # None /\ queue' # None
    BY <1>2, QueueWithOne, OpIsNat
  <2> QED
    BY <1>1, <1>2, <1>3, <1>4, <2>1 DEF TypeOK
<1>8. NoneForgotten'
  <2>1. InQueue(o)'
    BY <1>2, <1>4, OpIsNat DEF InQueue
  <2>2. \A p : ~InQueue(p)
    BY <1>2 DEF InQueue
  <2>3. \A p : InLoop(p) => InLoop(p)'
    BY <1>2, <1>4, OpIsNat DEF InLoop
  <2>4. \A p : Place(p) => Place(p)'
    BY <1>2, <1>3, <2>1, <2>2, <2>3 DEF Place, Replying
  <2> QED
    BY <1>1, <1>2, <1>3, <2>4, ForgottenKeeps
<1> QED
  BY <1>3, <1>4, <1>5, <1>6, <1>7, <1>8 DEF IInv

LEMMA StartFastcgiFailsOK == ASSUME IInv, NEW o \in Op, StartFastcgiFails(o) PROVE IInv'
<1>1. TypeOK /\ SupervisorInv /\ AgentInv /\ WritersInv /\ LastLineIsRead /\ NoneForgotten
  BY DEF IInv
<1>2. /\ ReadOp(o, FALSE) /\ fastcgi = None /\ queue' = <<o>> /\ getters' = <<>>
      /\ Respond(o, "failed") /\ UNCHANGED <<cmd, fastcgi, under>>
  BY DEF StartFastcgiFails
<1>3. /\ op' = op /\ link' = link /\ tries' = tries /\ canceled' = canceled
      /\ inbox' \in Seq(MessageType) /\ SupervisorInv' /\ Forward
      /\ o \notin Seen /\ o \in Seen' /\ op'[o].kind # "run"
      /\ \A p : Unread(p) => Unread(p)' \/ p = o
      /\ Waiting' \subseteq Waiting
  BY <1>1, <1>2, ReadOpFacts
<1>4. AgentInv' /\ CmdForward /\ cmd' \in [Op -> CmdType] /\ getters' \in Seq(Op)
  BY <1>1, <1>2, <1>3, PutQueueKeeps
<1>5. \A i \in DOMAIN writers : Undisturbed(writers[i])
  BY <1>2 DEF Undisturbed
<1>6. WritersInv' /\ writers' \in Seq(WriteType) /\ Replying(o)' /\ \A p : Replying(p) => Replying(p)'
  BY <1>1, <1>2, <1>3, <1>4, <1>5, RespondKeeps
<1>7. LastLineIsRead'
  BY <1>1, <1>2 DEF LastLineIsRead
<1>8. TypeOK'
  <2>1. faults' \in 0..MaxFault
    BY <1>1, BoundAssumption DEF StartFastcgiFails, Fault, TypeOK
  <2> QED
    BY <1>1, <1>2, <1>3, <1>4, <1>6, <2>1 DEF TypeOK
<1>9. NoneForgotten'
  <2>1. \A p : Place(p) => Place(p)'
    BY <1>2, <1>3, <1>6 DEF Place, InQueue, InLoop
  <2> QED
    BY <1>1, <1>2, <1>3, <2>1, ForgottenKeeps
<1> QED
  BY <1>3, <1>4, <1>6, <1>7, <1>8, <1>9 DEF IInv

LEMMA FastcgiOpOK == ASSUME IInv, NEW o \in Op, FastcgiOp(o) PROVE IInv'
<1>1. TypeOK /\ SupervisorInv /\ AgentInv /\ WritersInv /\ LastLineIsRead /\ NoneForgotten
  BY DEF IInv
<1>2. ReadOp(o, FALSE) /\ fastcgi # None /\ Put(o) /\ UNCHANGED <<fastcgi, under, faults>>
  BY DEF FastcgiOp
<1>3. /\ op' = op /\ link' = link /\ tries' = tries /\ canceled' = canceled
      /\ inbox' \in Seq(MessageType) /\ SupervisorInv' /\ Forward
      /\ o \notin Seen /\ o \in Seen' /\ op'[o].kind # "run"
      /\ \A p : Unread(p) => Unread(p)' \/ p = o
      /\ Waiting' \subseteq Waiting
  BY <1>1, <1>2, ReadOpFacts
<1>4. Waiting' \subseteq Op
  BY <1>1, <1>3, SentType
<1>5. CASE /\ getters # <<>>
           /\ cmd' = [cmd EXCEPT ![Head(getters)].loop = "busy", ![Head(getters)].msg = o]
           /\ getters' = Tail(getters)
           /\ UNCHANGED <<queue, writers>>
  <2>1. PICK c : c = Head(getters)
    OBVIOUS
  <2>2. c \in Op /\ cmd[c].loop = "get"
    <3>1. getters \in Seq(Op)
      BY <1>1 DEF TypeOK
    <3>2. 1 \in DOMAIN getters /\ c = getters[1] /\ c \in Op
      BY <1>5, <2>1, <3>1, EmptySeq
    <3> QED
      BY <1>1, <3>2 DEF AgentInv, GettersOK
  <2>3. cmd' = [cmd EXCEPT ![c].loop = "busy", ![c].msg = o]
    BY <1>5, <2>1
  <2>4. Changes(c, cmd[c].running, cmd[c].exit, "busy", o, cmd[c].out)
    BY <1>1, <2>2, <2>3, LoopMsgChanges
  <2>5. AgentInv' /\ CmdForward /\ getters' \in Seq(Op)
    BY <1>1, <1>2, <1>3, <1>5, <2>1, <2>2, <2>4, PutFirstKeeps
  <2>6. WritersInv'
    <3>1. Thinned
      BY <1>1, <1>5, SameThinned
    <3>2. \A i \in DOMAIN writers' : Undisturbed(writers'[i])
      BY <1>1, <1>5, <2>2, <2>4 DEF WritersInv, WritersOK, WriterOK, Undisturbed, Changes
    <3> QED
      BY <1>1, <1>3, <2>5, <3>1, <3>2, WritersThin
  <2>7. LastLineIsRead'
    BY <1>1, <2>4 DEF LastLineIsRead, Changes
  <2>8. TypeOK'
    BY <1>1, <1>2, <1>3, <1>5, <2>4, <2>5 DEF TypeOK, Changes
  <2>9. NoneForgotten'
    <3>1. InLoop(o)'
      BY <1>2, <2>2, <2>4 DEF InLoop, Changes
    <3>2. cmd[c].msg = None
      BY <1>1, <2>2 DEF AgentInv, CmdsOK, CmdOK, NoMsg
    <3>3. \A p \in Op : InLoop(p) => InLoop(p)'
      BY <1>2, <2>4, <3>2, OpIsNat DEF InLoop, Changes
    <3>4. \A p \in Op : Place(p) => Place(p)'
      BY <1>2, <1>3, <1>5, <3>1, <3>3 DEF Place, Replying, InQueue, Queued
    <3> QED
      BY <1>1, <1>2, <1>3, <1>4, <3>4, ForgottenKeeps
  <2> QED
    BY <1>3, <2>5, <2>6, <2>7, <2>8, <2>9 DEF IInv
<1>6. CASE getters = <<>> /\ queue = <<>> /\ queue' = <<o>> /\ UNCHANGED <<cmd, getters, writers>>
  <2>1. AgentInv' /\ CmdForward /\ Queued' = {o}
    BY <1>1, <1>2, <1>3, <1>6, PutQueueKeeps
  <2>2. WritersInv'
    <3>1. Thinned
      BY <1>1, <1>6, SameThinned
    <3>2. \A i \in DOMAIN writers' : Undisturbed(writers'[i])
      BY <1>6 DEF Undisturbed
    <3> QED
      BY <1>1, <1>3, <2>1, <3>1, <3>2, WritersThin
  <2>3. LastLineIsRead'
    BY <1>1, <1>6 DEF LastLineIsRead
  <2>4. TypeOK'
    BY <1>1, <1>2, <1>3, <1>6, QueueWithOne DEF TypeOK
  <2>5. NoneForgotten'
    <3>1. InQueue(o)'
      BY <1>2, <2>1 DEF InQueue
    <3>2. \A p : ~InQueue(p)
      BY <1>1, <1>6, QueueIs DEF InQueue
    <3>3. \A p : Place(p) => Place(p)'
      BY <1>2, <1>3, <1>6, <3>1, <3>2 DEF Place, Replying, InLoop
    <3> QED
      BY <1>1, <1>2, <1>3, <3>3, ForgottenKeeps
  <2> QED
    BY <1>3, <2>1, <2>2, <2>3, <2>4, <2>5 DEF IInv
<1>7. CASE Respond(o, "full") /\ UNCHANGED <<cmd, queue, getters>>
  <2>1. AgentInv' /\ CmdForward
    BY <1>1, <1>2, <1>3, <1>7, SameKeeps
  <2>2. \A i \in DOMAIN writers : Undisturbed(writers[i])
    BY <1>7 DEF Undisturbed
  <2>3. WritersInv' /\ writers' \in Seq(WriteType) /\ Replying(o)' /\ \A p : Replying(p) => Replying(p)'
    BY <1>1, <1>3, <1>7, <2>1, <2>2, RespondKeeps
  <2>4. LastLineIsRead'
    BY <1>1, <1>7 DEF LastLineIsRead
  <2>5. TypeOK'
    BY <1>1, <1>2, <1>3, <1>7, <2>3 DEF TypeOK
  <2>6. NoneForgotten'
    <3>1. \A p : Place(p) => Place(p)'
      BY <1>2, <1>3, <1>7, <2>3 DEF Place, InQueue, InLoop, Queued
    <3> QED
      BY <1>1, <1>2, <1>3, <3>1, ForgottenKeeps
  <2> QED
    BY <1>3, <2>1, <2>3, <2>4, <2>5, <2>6 DEF IInv
<1> QED
  BY <1>2, <1>5, <1>6, <1>7 DEF Put

\* An operation that was not under the destroyed process is where it was.
LEMMA DestroyForgotten ==
    ASSUME TypeOK, AgentInv, NEW C \in SUBSET Cmds,
           fastcgi' = IF fastcgi \in C THEN None ELSE fastcgi,
           under' = IF fastcgi \in C THEN under \union (InFastcgi \intersect Alive) ELSE under,
           queue' = queue, \A d \in Op : cmd'[d].msg = cmd[d].msg /\ cmd'[d].loop = cmd[d].loop,
           \A d \in Op \ C : cmd[d].running => cmd'[d].running
    PROVE  /\ \A p \in Waiting \ under' : (InQueue(p) => InQueue(p)') /\ (InLoop(p) => InLoop(p)')
           /\ under \subseteq under' /\ under' \subseteq Op
<1>1. Waiting \subseteq Alive /\ Alive \subseteq Op
  BY SentType
<1>2. under \subseteq under' /\ under' \subseteq Op
  BY <1>1 DEF TypeOK
<1>3. Queued \subseteq InFastcgi /\ \A d \in Op : cmd[d].loop = "busy" => cmd[d].msg \in InFastcgi
  BY DEF InFastcgi
<1>4. \A d \in C : cmd[d].loop = "busy" => d = fastcgi
  BY CmdsSeen DEF AgentInv, CmdsOK, CmdOK, Cmds
<1>5. ASSUME NEW p \in Waiting \ under' PROVE (InQueue(p) => InQueue(p)') /\ (InLoop(p) => InLoop(p)')
  <2>1. CASE fastcgi \in C
    <3>1. p \notin InFastcgi
      BY <1>1, <1>5, <2>1
    <3> QED
      BY <1>3, <3>1 DEF InQueue, InLoop
  <2>2. CASE fastcgi \notin C
    <3>1. fastcgi' = fastcgi
      BY <2>2
    <3>2. InLoop(p) => InLoop(p)'
      BY <1>4, <2>2, <3>1 DEF InLoop
    <3> QED
      BY <3>1, <3>2 DEF InQueue, Queued
  <2> QED
    BY <2>1, <2>2
<1> QED
  BY <1>2, <1>5

LEMMA RunOK == ASSUME IInv, NEW o \in Op, Run(o) PROVE IInv'
<1> DEFINE C == CmdsOf(op[o].job)
<1>1. TypeOK /\ SupervisorInv /\ AgentInv /\ WritersInv /\ LastLineIsRead /\ NoneForgotten
  BY DEF IInv
<1>2. /\ ReadOp(o, TRUE) /\ Respond(o, "ok") /\ UNCHANGED <<queue, getters, faults>>
      /\ cmd' = [c \in Op |-> IF c = o THEN [NoCmd EXCEPT !.kind = "run", !.running = TRUE]
                              ELSE IF c \in C THEN Killed(cmd[c], "asked") ELSE cmd[c]]
      /\ fastcgi' = IF fastcgi \in C THEN None ELSE fastcgi
      /\ under' = IF fastcgi \in C THEN under \union (InFastcgi \intersect Alive) ELSE under
  BY DEF Run
<1>3. C \in SUBSET Cmds
  BY DEF CmdsOf
<1> HIDE DEF C
<1>4. /\ op' = op /\ link' = link /\ tries' = tries /\ canceled' = canceled
      /\ inbox' \in Seq(MessageType) /\ SupervisorInv' /\ Forward
      /\ o \notin Seen /\ o \in Seen'
      /\ \A p : Unread(p) => Unread(p)' \/ p = o
      /\ Waiting' \subseteq Waiting
  BY <1>1, <1>2, ReadOpFacts
<1>5. cmd[o] = NoCmd /\ o \notin Cmds
  BY <1>1, <1>4, UnseenIs
<1>6. /\ AgentInv' /\ CmdForward /\ cmd' \in [Op -> CmdType]
      /\ \A d \in Op : cmd'[d].msg = cmd[d].msg /\ cmd'[d].loop = cmd[d].loop /\ cmd'[d].out = cmd[d].out
                       /\ cmd'[d].exit = cmd[d].exit
      /\ \A d \in Op \ {o} : cmd'[d].kind = cmd[d].kind
                       /\ (cmd'[d].running <=> cmd[d].running /\ d \notin C)
                       /\ cmd'[d].destroyed = IF d \in C THEN "asked" ELSE cmd[d].destroyed
      /\ cmd'[o].kind = "run" /\ cmd'[o].running /\ cmd'[o].destroyed = "no"
  BY <1>1, <1>2, <1>3, <1>4, RunKeeps
<1>7. \A i \in DOMAIN writers : Undisturbed(writers[i])
  BY <1>1, <1>6 DEF WritersInv, WritersOK, WriterOK, Undisturbed
<1>8. WritersInv' /\ writers' \in Seq(WriteType) /\ Replying(o)' /\ \A p : Replying(p) => Replying(p)'
  BY <1>1, <1>2, <1>4, <1>6, <1>7, RespondKeeps
<1>9. LastLineIsRead'
  <2>1. ASSUME NEW d \in Op, cmd'[d].kind = "run", cmd'[d].destroyed = "exit" PROVE cmd'[d].out \in {"none", "told"}
    <3>1. d # o /\ cmd[d].kind = "run" /\ cmd[d].destroyed = "exit"
      BY <1>6, <2>1
    <3> QED
      BY <1>1, <1>6, <3>1 DEF LastLineIsRead
  <2> QED
    BY <2>1 DEF LastLineIsRead
<1>10. /\ \A p \in Waiting \ under' : (InQueue(p) => InQueue(p)') /\ (InLoop(p) => InLoop(p)')
       /\ under \subseteq under' /\ under' \subseteq Op
  <2>1. \A d \in Op \ C : cmd[d].running => cmd'[d].running
    BY <1>6
  <2> QED
    BY <1>1, <1>2, <1>3, <1>6, <2>1, DestroyForgotten
<1>11. TypeOK'
  <2>1. fastcgi' \in Op \union {None} /\ (fastcgi' # None => queue' # None)
    BY <1>1, <1>2 DEF TypeOK
  <2> QED
    BY <1>1, <1>2, <1>4, <1>6, <1>8, <1>10, <2>1 DEF TypeOK
<1>12. NoneForgotten'
  <2>1. \A p \in Waiting' \ under' : Place(p) => Place(p)'
    BY <1>4, <1>8, <1>10 DEF Place
  <2> QED
    BY <1>1, <1>4, <1>10, <2>1, ForgottenKeeps
<1> QED
  BY <1>4, <1>6, <1>8, <1>9, <1>11, <1>12 DEF IInv

\* Destroyed commands of C, nothing else of the agent but its writers.
LEMMA DestroyKeeps ==
    ASSUME TypeOK, AgentInv, WritersInv, LastLineIsRead, Forward, NEW C \in SUBSET Cmds, NEW why \in {"asked", "exit"},
           Destroy(C, why), UNCHANGED <<queue, getters>>,
           why = "exit" => \A c \in C : cmd[c].out \in {"none", "told"}
    PROVE  /\ Kills(C, why) /\ AgentInv' /\ CmdForward /\ cmd' \in [Op -> CmdType] /\ LastLineIsRead'
           /\ \A i \in DOMAIN writers : Undisturbed(writers[i])
           /\ \A p \in Waiting \ under' : (InQueue(p) => InQueue(p)') /\ (InLoop(p) => InLoop(p)')
           /\ under \subseteq under' /\ under' \subseteq Op
           /\ fastcgi' \in Op \union {None} /\ (fastcgi' # None => queue' # None)
<1>1. C \in SUBSET Op
  BY DEF Cmds
<1>2. Kills(C, why)
  BY <1>1, DestroyKills
<1>3. /\ fastcgi' = IF fastcgi \in C THEN None ELSE fastcgi
      /\ under' = IF fastcgi \in C THEN under \union (InFastcgi \intersect Alive) ELSE under
  BY DEF Destroy
<1>4. AgentInv' /\ CmdForward /\ cmd' \in [Op -> CmdType]
  BY <1>2, <1>3, KillKeeps
<1>5. LastLineIsRead'
  BY <1>1, <1>2, KillsLastLine
<1>6. \A d \in Op : cmd'[d].msg = cmd[d].msg /\ cmd'[d].loop = cmd[d].loop /\ cmd'[d].out = cmd[d].out
                    /\ cmd'[d].exit = cmd[d].exit
  BY <1>2 DEF Kills
<1>7. \A i \in DOMAIN writers : Undisturbed(writers[i])
  BY <1>6 DEF WritersInv, WritersOK, WriterOK, Undisturbed
<1>8. \A d \in Op \ C : cmd[d].running => cmd'[d].running
  BY <1>2 DEF Kills
<1>9. /\ \A p \in Waiting \ under' : (InQueue(p) => InQueue(p)') /\ (InLoop(p) => InLoop(p)')
      /\ under \subseteq under' /\ under' \subseteq Op
  BY <1>3, <1>6, <1>8, DestroyForgotten
<1>10. fastcgi' \in Op \union {None} /\ (fastcgi' # None => queue' # None)
  BY <1>3 DEF TypeOK
<1> QED
  BY <1>2, <1>4, <1>5, <1>7, <1>9, <1>10

LEMMA RunFailsOK == ASSUME IInv, NEW o \in Op, RunFails(o) PROVE IInv'
<1> DEFINE C == CmdsOf(op[o].job)
<1>1. TypeOK /\ SupervisorInv /\ AgentInv /\ WritersInv /\ LastLineIsRead /\ NoneForgotten
  BY DEF IInv
<1>2. ReadOp(o, TRUE) /\ Destroy(C, "asked") /\ Respond(o, "failed") /\ UNCHANGED <<queue, getters>>
  BY DEF RunFails
<1>3. C \in SUBSET Cmds
  BY DEF CmdsOf
<1> HIDE DEF C
<1>4. /\ op' = op /\ link' = link /\ tries' = tries /\ canceled' = canceled
      /\ inbox' \in Seq(MessageType) /\ SupervisorInv' /\ Forward
      /\ \A p : Unread(p) => Unread(p)' \/ p = o
      /\ Waiting' \subseteq Waiting
  BY <1>1, <1>2, ReadOpFacts
<1>5. /\ AgentInv' /\ CmdForward /\ cmd' \in [Op -> CmdType] /\ LastLineIsRead'
      /\ \A i \in DOMAIN writers : Undisturbed(writers[i])
      /\ \A p \in Waiting \ under' : (InQueue(p) => InQueue(p)') /\ (InLoop(p) => InLoop(p)')
      /\ under \subseteq under' /\ under' \subseteq Op
      /\ fastcgi' \in Op \union {None} /\ (fastcgi' # None => queue' # None)
  BY <1>1, <1>2, <1>3, <1>4, DestroyKeeps
<1>6. WritersInv' /\ writers' \in Seq(WriteType) /\ Replying(o)' /\ \A p : Replying(p) => Replying(p)'
  BY <1>1, <1>2, <1>4, <1>5, RespondKeeps
<1>7. TypeOK'
  <2>1. faults' \in 0..MaxFault
    BY <1>1, BoundAssumption DEF RunFails, Fault, TypeOK
  <2> QED
    BY <1>1, <1>2, <1>4, <1>5, <1>6, <2>1 DEF TypeOK
<1>8. NoneForgotten'
  <2>1. \A p \in Waiting' \ under' : Place(p) => Place(p)'
    BY <1>4, <1>5, <1>6 DEF Place
  <2> QED
    BY <1>1, <1>4, <1>5, <2>1, ForgottenKeeps
<1> QED
  BY <1>4, <1>5, <1>6, <1>7, <1>8 DEF IInv

LEMMA OpCancelOK == ASSUME IInv, NEW o \in Op, NEW j \in Job \union {None}, OpCancel(o, j) PROVE IInv'
<1> DEFINE C == IF j = None THEN {} ELSE CmdsOf(j)
           m == [name |-> "cancel", op |-> o, job |-> j]
<1>1. TypeOK /\ SupervisorInv /\ AgentInv /\ WritersInv /\ LastLineIsRead /\ NoneForgotten
  BY DEF IInv
<1>2. Read(m) /\ Destroy(C, "asked") /\ Respond(o, "canceled") /\ UNCHANGED <<queue, getters, faults>>
  BY DEF OpCancel
<1>3. C \in SUBSET Cmds
  BY DEF CmdsOf
<1>4. PICK n : n = m
  OBVIOUS
<1>5. Read(n) /\ n.name = "cancel" /\ n.op = o /\ n.job = j
  BY <1>2, <1>4
<1> HIDE DEF C, m
<1>6. /\ op' = op /\ link' = link /\ tries' = tries /\ canceled' = canceled
      /\ inbox' \in Seq(MessageType) /\ SupervisorInv' /\ Forward
      /\ n.op \in Seen'
      /\ n.name = "cancel" /\ op[n.op].kind = "run" => n.job = op[n.op].job
      /\ \A p : Unread(p) => Unread(p)' \/ (n.name = "op" /\ n.op = p)
  BY <1>1, <1>5, ReadFacts
<1>7. Waiting' = Waiting
  BY <1>6 DEF Waiting, Sent
<1>8. /\ Kills(C, "asked") /\ AgentInv' /\ CmdForward /\ cmd' \in [Op -> CmdType] /\ LastLineIsRead'
      /\ \A i \in DOMAIN writers : Undisturbed(writers[i])
      /\ \A p \in Waiting \ under' : (InQueue(p) => InQueue(p)') /\ (InLoop(p) => InLoop(p)')
      /\ under \subseteq under' /\ under' \subseteq Op
      /\ fastcgi' \in Op \union {None} /\ (fastcgi' # None => queue' # None)
  BY <1>1, <1>2, <1>3, <1>6, DestroyKeeps
<1>9. o \in Seen'
  BY <1>5, <1>6
<1>10. op'[o].kind = "run" => Dead(o)'
  <2>1. SUFFICES ASSUME op'[o].kind = "run", cmd'[o].kind = "run" PROVE cmd'[o].destroyed # "no"
    BY <1>9 DEF Dead
  <2>2. j = op[o].job
    BY <1>5, <1>6, <2>1
  <2>3. j # None
    <3>1. o \in Sent /\ op[o] \in OpType
      <4>1. o \in Sent
        BY <1>6, <1>9 DEF Seen, Sent
      <4> QED
        BY <1>1, <4>1, SentType
    <3>2. op[o].job \in Job
      BY <3>1 DEF OpType
    <3> QED
      BY <2>2, <3>2, OpIsNat
  <2>4. CASE o \in Cmds
    <3>1. o \in C
      BY <2>2, <2>3, <2>4 DEF C, CmdsOf
    <3> QED
      BY <1>8, <3>1 DEF Kills
  <2>5. CASE o \notin Cmds
    <3>1. cmd'[o] = cmd[o]
      BY <1>3, <1>8, <2>5 DEF Kills
    <3> QED
      BY <2>1, <2>5, <3>1 DEF Cmds
  <2> QED
    BY <2>4, <2>5
<1>11. WritersInv' /\ writers' \in Seq(WriteType) /\ \A p : Replying(p) => Replying(p)'
  BY <1>1, <1>2, <1>6, <1>8, <1>9, <1>10, RespondKeeps
<1>12. TypeOK'
  BY <1>1, <1>2, <1>6, <1>8, <1>11 DEF TypeOK
<1>13. NoneForgotten'
  <2>1. \A p \in Waiting' \ under' : Place(p) => Place(p)'
    BY <1>5, <1>6, <1>7, <1>8, <1>11 DEF Place
  <2> QED
    BY <1>1, <1>7, <1>8, <2>1, ForgottenKeeps
<1> QED
  BY <1>6, <1>8, <1>11, <1>12, <1>13 DEF IInv

\* What the end of a write does to the supervisor's part and the line of writers.
LEMMA FlushedFacts ==
    ASSUME TypeOK, SupervisorInv, NEW task, NEW c, Flushed(task, c)
    PROVE  /\ op' \in [Op -> OpType \union {None}] /\ SupervisorInv' /\ Forward /\ Waiting' \subseteq Waiting
           /\ inbox' = inbox /\ link' = link /\ tries' = tries /\ faults' = faults
           /\ writers # <<>> /\ writers' = Tail(writers) /\ Thinned
           /\ Head(writers).task = task /\ Head(writers).cmd = c
           /\ 1 \in DOMAIN writers /\ Head(writers) = writers[1]
           /\ Head(writers).reply # "canceled" => Head(writers).op \notin Waiting'
           /\ \A p \in Waiting' : Replying(p) => Replying(p)'
<1>1. /\ inbox' = inbox /\ link' = link /\ tries' = tries /\ faults' = faults
      /\ writers # <<>> /\ writers' = Tail(writers) /\ op' = Delivered(Head(writers))
      /\ Head(writers).task = task /\ Head(writers).cmd = c
  BY DEF Flushed, linkVars
<1>2. /\ Thinned /\ 1 \in DOMAIN writers /\ Head(writers) = writers[1] /\ Head(writers) \in WriteType
      /\ \A i \in DOMAIN writers : i # 1 => i - 1 \in DOMAIN writers' /\ writers'[i - 1] = writers[i]
  BY <1>1, TailThinned
<1>3. Fades /\ (Head(writers).reply # "canceled" => Head(writers).op \notin Waiting')
  <2>1. PICK w : w = Head(writers)
    OBVIOUS
  <2>2. Quiet
    BY DEF SupervisorInv
  <2>3. Fades /\ (w.reply # "canceled" => w.op \notin Waiting')
    BY <1>1, <1>2, <2>1, <2>2, DeliveredFades
  <2> QED
    BY <2>1, <2>3
<1>4. SupervisorInv' /\ Forward
  <2>1. Ebbs /\ StaysQuiet
    BY <1>1 DEF Ebbs, StaysQuiet
  <2> QED
    BY <1>3, <2>1, EbbKeeps
<1>5. Waiting' \subseteq Waiting
  BY <1>3, FadesFacts
<1>6. ASSUME NEW p \in Waiting', Replying(p) PROVE Replying(p)'
  <2>1. PICK i \in DOMAIN writers : writers[i].op = p /\ writers[i].reply # "canceled"
    BY <1>6 DEF Replying
  <2>2. i # 1
    BY <1>2, <1>3, <2>1
  <2> QED
    BY <1>2, <2>1, <2>2 DEF Replying
<1> QED
  BY <1>1, <1>2, <1>3, <1>4, <1>5, <1>6 DEF Fades

LEMMA MainFlushedOK == ASSUME IInv, MainFlushed PROVE IInv'
<1>1. TypeOK /\ SupervisorInv /\ AgentInv /\ WritersInv /\ LastLineIsRead /\ NoneForgotten
  BY DEF IInv
<1>2. /\ Flushed("main", None) /\ cmd' = cmd /\ fastcgi' = fastcgi /\ queue' = queue /\ getters' = getters /\ under' = under
      /\ canceled' = IF Head(writers).reply = "canceled" /\ Head(writers).op \in Sent /\ op[Head(writers).op].kind = "run"
                     THEN canceled \union {Head(writers).op} ELSE canceled
  BY DEF MainFlushed, fastcgiVars
<1>3. /\ op' \in [Op -> OpType \union {None}] /\ SupervisorInv' /\ Forward /\ Waiting' \subseteq Waiting
      /\ inbox' = inbox /\ link' = link /\ tries' = tries /\ faults' = faults
      /\ writers # <<>> /\ writers' = Tail(writers)
      /\ \A p \in Waiting' : Replying(p) => Replying(p)'
  BY <1>1, <1>2, FlushedFacts
<1>4. AgentInv' /\ CmdForward /\ cmd' \in [Op -> CmdType]
  BY <1>1, <1>2, <1>3, SameKeeps
<1>5. WritersInv' /\ writers' \in Seq(WriteType) /\ canceled' \subseteq Op
  BY <1>1, <1>2, <1>3, CanceledKeeps
<1>6. LastLineIsRead'
  BY <1>1, <1>2 DEF LastLineIsRead
<1>7. TypeOK'
  BY <1>1, <1>2, <1>3, <1>5 DEF TypeOK
<1>8. NoneForgotten'
  <2>1. \A p \in Waiting' \ under' : Place(p) => Place(p)'
    BY <1>2, <1>3 DEF Place, Unread, InQueue, InLoop, Queued
  <2> QED
    BY <1>1, <1>2, <1>3, <2>1, ForgottenKeeps
<1> QED
  BY <1>3, <1>4, <1>5, <1>6, <1>7, <1>8 DEF IInv

\* The other writers do not wait for what a loop or an output does.
LEMMA OthersUndisturbed ==
    ASSUME TypeOK, WritersInv, NEW c \in Op, writers # <<>>, writers' = Tail(writers), Head(writers).cmd = c,
           NEW running, NEW exit, NEW loop, NEW msg, NEW out, Changes(c, running, exit, loop, msg, out), exit = cmd[c].exit,
           \/ Head(writers).task = "loop" /\ out = cmd[c].out
           \/ Head(writers).task = "stdout" /\ loop = cmd[c].loop /\ msg = cmd[c].msg
    PROVE  \A i \in DOMAIN writers' : Undisturbed(writers'[i])
<1>1. /\ 1 \in DOMAIN writers /\ Head(writers) = writers[1]
      /\ \A i \in DOMAIN writers' : i + 1 \in DOMAIN writers /\ writers'[i] = writers[i + 1] /\ i + 1 # 1
  BY TailThinned
<1>2. ASSUME NEW i \in DOMAIN writers' PROVE Undisturbed(writers'[i])
  <2> DEFINE k == i + 1
  <2>1. k \in DOMAIN writers /\ writers'[i] = writers[k] /\ k # 1
    BY <1>1
  <2> HIDE DEF k
  <2>2. WriterOK(writers[k])
    BY <2>1 DEF WritersInv, WritersOK
  <2>3. writers[k].task = writers[1].task /\ writers[1].task \in {"loop", "stdout"} => writers[k].cmd # c
    BY <1>1, <2>1 DEF WritersInv, OneWrite
  <2> QED
    BY <1>1, <2>1, <2>2, <2>3 DEF Undisturbed, WriterOK, Changes
<1> QED
  BY <1>2

LEMMA LoopFlushedOK == ASSUME IInv, NEW c \in Op, LoopFlushed(c) PROVE IInv'
<1>1. TypeOK /\ SupervisorInv /\ AgentInv /\ WritersInv /\ LastLineIsRead /\ NoneForgotten
  BY DEF IInv
<1>2. Flushed("loop", c) /\ LoopGets(c) /\ UNCHANGED <<fastcgi, under, canceled>>
  BY DEF LoopFlushed
<1>3. /\ op' \in [Op -> OpType \union {None}] /\ SupervisorInv' /\ Forward /\ Waiting' \subseteq Waiting
      /\ inbox' = inbox /\ link' = link /\ tries' = tries /\ faults' = faults
      /\ writers # <<>> /\ writers' = Tail(writers) /\ Thinned
      /\ Head(writers).task = "loop" /\ Head(writers).cmd = c
      /\ 1 \in DOMAIN writers /\ Head(writers) = writers[1]
      /\ Head(writers).reply # "canceled" => Head(writers).op \notin Waiting'
      /\ \A p \in Waiting' : Replying(p) => Replying(p)'
  BY <1>1, <1>2, FlushedFacts
<1>4. cmd[c].loop \in {"accepted", "next"} /\ Head(writers).op = cmd[c].msg /\ Head(writers).reply # "canceled"
  <2>1. WriterOK(writers[1])
    BY <1>1, <1>3 DEF WritersInv, WritersOK
  <2> QED
    BY <1>3, <2>1 DEF WriterOK
<1>5. cmd[c].msg \notin Waiting' /\ Waiting' \subseteq Op
  BY <1>1, <1>3, <1>4, SentType
<1>6. cmd[c].kind = "fastcgi" /\ CmdOK(c)
  BY <1>1, <1>4 DEF AgentInv, CmdsOK, CmdOK
<1>7. CASE queue = None /\ cmd' = [cmd EXCEPT ![c].loop = "ended", ![c].msg = None] /\ UNCHANGED <<queue, getters>>
  <2>1. Changes(c, cmd[c].running, cmd[c].exit, "ended", None, cmd[c].out)
    BY <1>1, <1>7, LoopMsgChanges
  <2>2. CmdOK(c)'
    BY <1>6, <2>1 DEF CmdOK, Changes, NoMsg
  <2>3. fastcgi # c
    BY <1>1, <1>7, OpIsNat DEF TypeOK
  <2>4. AgentInv' /\ CmdForward
    BY <1>1, <1>2, <1>3, <1>4, <1>6, <1>7, <2>1, <2>2, <2>3, ChangeKeeps
  <2>5. WritersInv' /\ writers' \in Seq(WriteType)
    BY <1>1, <1>2, <1>3, <2>1, <2>4, OthersUndisturbed, WritersThin
  <2>6. LastLineIsRead'
    BY <1>1, <2>1 DEF LastLineIsRead, Changes
  <2>7. TypeOK'
    BY <1>1, <1>2, <1>3, <1>7, <2>1, <2>5 DEF TypeOK, Changes
  <2>8. NoneForgotten'
    <3>1. \A p \in Waiting' : InLoop(p) => InLoop(p)'
      BY <1>2, <1>5, <2>1 DEF InLoop, Changes
    <3>2. \A p \in Waiting' \ under' : Place(p) => Place(p)'
      BY <1>2, <1>3, <1>7, <3>1 DEF Place, Unread, InQueue, Queued
    <3> QED
      BY <1>1, <1>2, <1>3, <3>2, ForgottenKeeps
  <2> QED
    BY <1>3, <2>4, <2>5, <2>6, <2>7, <2>8 DEF IInv
<1>8. CASE queue = <<>> /\ cmd' = [cmd EXCEPT ![c].loop = "get", ![c].msg = None]
           /\ getters' = Append(getters, c) /\ UNCHANGED queue
  <2>1. Changes(c, cmd[c].running, cmd[c].exit, "get", None, cmd[c].out)
    BY <1>1, <1>8, LoopMsgChanges
  <2>2. AgentInv' /\ CmdForward /\ getters' \in Seq(Op)
    BY <1>1, <1>2, <1>3, <1>4, <1>8, <2>1, GetKeeps
  <2>3. WritersInv' /\ writers' \in Seq(WriteType)
    BY <1>1, <1>2, <1>3, <2>1, <2>2, OthersUndisturbed, WritersThin
  <2>4. LastLineIsRead'
    BY <1>1, <2>1 DEF LastLineIsRead, Changes
  <2>5. TypeOK'
    BY <1>1, <1>2, <1>3, <1>8, <2>1, <2>2, <2>3 DEF TypeOK, Changes
  <2>6. NoneForgotten'
    <3>1. \A p \in Waiting' : InLoop(p) => InLoop(p)'
      BY <1>2, <1>5, <2>1 DEF InLoop, Changes
    <3>2. \A p \in Waiting' \ under' : Place(p) => Place(p)'
      BY <1>2, <1>3, <1>8, <3>1 DEF Place, Unread, InQueue, Queued
    <3> QED
      BY <1>1, <1>2, <1>3, <3>2, ForgottenKeeps
  <2> QED
    BY <1>3, <2>2, <2>3, <2>4, <2>5, <2>6 DEF IInv
<1>9. CASE queue \notin {None, <<>>} /\ cmd' = [cmd EXCEPT ![c].loop = "busy", ![c].msg = Head(queue)]
           /\ queue' = <<>> /\ UNCHANGED getters
  <2>1. Head(queue) \in Op /\ Queued = {Head(queue)}
    BY <1>1, <1>9, QueueIs
  <2>2. Changes(c, cmd[c].running, cmd[c].exit, "busy", Head(queue), cmd[c].out)
    <3>1. PICK m : m = Head(queue)
      OBVIOUS
    <3>2. cmd' = [cmd EXCEPT ![c].loop = "busy", ![c].msg = m] /\ m \in Op
      BY <1>9, <2>1, <3>1
    <3>3. Changes(c, cmd[c].running, cmd[c].exit, "busy", m, cmd[c].out)
      BY <1>1, <3>2, LoopMsgChanges
    <3> QED
      BY <3>1, <3>3 DEF Changes
  <2>3. AgentInv' /\ CmdForward
    BY <1>1, <1>2, <1>3, <1>4, <1>9, <2>2, TakeKeeps
  <2>4. WritersInv' /\ writers' \in Seq(WriteType)
    <3>1. PICK m : m = Head(queue)
      OBVIOUS
    <3>2. Changes(c, cmd[c].running, cmd[c].exit, "busy", m, cmd[c].out)
      BY <2>2, <3>1 DEF Changes
    <3> QED
      BY <1>1, <1>2, <1>3, <2>3, <3>2, OthersUndisturbed, WritersThin
  <2>5. LastLineIsRead'
    BY <1>1, <2>2 DEF LastLineIsRead, Changes
  <2>6. TypeOK'
    <3>1. <<>> \in Seq(Nat)
      OBVIOUS
    <3>2. queue' # None
      BY <1>9, <3>1, NoneAssumption
    <3> QED
      BY <1>1, <1>2, <1>3, <1>9, <2>2, <2>4, <3>2 DEF TypeOK, Changes
  <2>7. NoneForgotten'
    <3>1. \A p \in Waiting' : InLoop(p) => InLoop(p)'
      BY <1>2, <1>5, <2>2 DEF InLoop, Changes
    <3>2. \A p : InQueue(p) => InLoop(p)'
      BY <1>2, <2>1, <2>2 DEF InQueue, InLoop, Changes
    <3>3. \A p \in Waiting' \ under' : Place(p) => Place(p)'
      BY <1>3, <3>1, <3>2 DEF Place, Unread
    <3> QED
      BY <1>1, <1>2, <1>3, <3>3, ForgottenKeeps
  <2> QED
    BY <1>3, <2>3, <2>4, <2>5, <2>6, <2>7 DEF IInv
<1> QED
  BY <1>2, <1>7, <1>8, <1>9 DEF LoopGets

LEMMA StdoutFlushedOK == ASSUME IInv, NEW c \in Op, StdoutFlushed(c) PROVE IInv'
<1>1. TypeOK /\ SupervisorInv /\ AgentInv /\ WritersInv /\ LastLineIsRead /\ NoneForgotten
  BY DEF IInv
<1>2. /\ Flushed("stdout", c) /\ cmd' = [cmd EXCEPT ![c].out = "told"]
      /\ fastcgi' = fastcgi /\ queue' = queue /\ getters' = getters /\ under' = under /\ canceled' = canceled
  BY DEF StdoutFlushed, fastcgiVars
<1>3. /\ op' \in [Op -> OpType \union {None}] /\ SupervisorInv' /\ Forward /\ Waiting' \subseteq Waiting
      /\ inbox' = inbox /\ link' = link /\ tries' = tries /\ faults' = faults
      /\ writers # <<>> /\ writers' = Tail(writers) /\ Thinned
      /\ Head(writers).task = "stdout" /\ Head(writers).cmd = c
      /\ 1 \in DOMAIN writers /\ Head(writers) = writers[1]
      /\ \A p \in Waiting' : Replying(p) => Replying(p)'
  BY <1>1, <1>2, FlushedFacts
<1>4. cmd[c].out = "sending"
  BY <1>1, <1>3 DEF WritersInv, WritersOK, WriterOK
<1>5. CmdOK(c) /\ cmd[c].kind = "run"
  BY <1>1, <1>4 DEF AgentInv, CmdsOK, CmdOK
<1>6. Changes(c, cmd[c].running, cmd[c].exit, cmd[c].loop, cmd[c].msg, "told")
  BY <1>1, <1>2, OutChanges
<1>7. CmdOK(c)'
  BY <1>4, <1>5, <1>6 DEF CmdOK, Changes, NoMsg
<1>8. AgentInv' /\ CmdForward
  BY <1>1, <1>2, <1>3, <1>5, <1>6, <1>7, ChangeKeeps
<1>9. WritersInv' /\ writers' \in Seq(WriteType)
  BY <1>1, <1>2, <1>3, <1>6, <1>8, OthersUndisturbed, WritersThin
<1>10. LastLineIsRead'
  BY <1>1, <1>6 DEF LastLineIsRead, Changes
<1>11. TypeOK'
  BY <1>1, <1>2, <1>3, <1>6, <1>9 DEF TypeOK, Changes
<1>12. NoneForgotten'
  <2>1. \A p : InLoop(p) => InLoop(p)'
    BY <1>2, <1>6 DEF InLoop, Changes
  <2>2. \A p \in Waiting' \ under' : Place(p) => Place(p)'
    BY <1>2, <1>3, <2>1 DEF Place, Unread, InQueue, Queued
  <2> QED
    BY <1>1, <1>2, <1>3, <2>2, ForgottenKeeps
<1> QED
  BY <1>3, <1>8, <1>9, <1>10, <1>11, <1>12 DEF IInv

LEMMA ExitFlushedOK == ASSUME IInv, NEW c \in Op, ExitFlushed(c) PROVE IInv'
<1> DEFINE C == {c} \intersect Cmds
<1>1. TypeOK /\ SupervisorInv /\ AgentInv /\ WritersInv /\ LastLineIsRead /\ NoneForgotten
  BY DEF IInv
<1>2. Flushed("exit", c) /\ Destroy(C, "exit") /\ UNCHANGED <<queue, getters, canceled>>
  BY DEF ExitFlushed
<1>3. /\ op' \in [Op -> OpType \union {None}] /\ SupervisorInv' /\ Forward /\ Waiting' \subseteq Waiting
      /\ inbox' = inbox /\ link' = link /\ tries' = tries /\ faults' = faults
      /\ writers # <<>> /\ writers' = Tail(writers) /\ Thinned
      /\ Head(writers).task = "exit" /\ Head(writers).cmd = c
      /\ 1 \in DOMAIN writers /\ Head(writers) = writers[1]
      /\ \A p \in Waiting' : Replying(p) => Replying(p)'
  BY <1>1, <1>2, FlushedFacts
<1>4. cmd[c].exit = "send"
  BY <1>1, <1>3 DEF WritersInv, WritersOK, WriterOK
<1>5. cmd[c].out = "none"
  BY <1>1, <1>4 DEF AgentInv, CmdsOK, CmdOK
<1>6. C \in SUBSET Cmds /\ \A d \in C : cmd[d].out \in {"none", "told"}
  BY <1>5
<1> HIDE DEF C
<1>7. /\ AgentInv' /\ CmdForward /\ cmd' \in [Op -> CmdType] /\ LastLineIsRead'
      /\ \A i \in DOMAIN writers : Undisturbed(writers[i])
      /\ \A p \in Waiting \ under' : (InQueue(p) => InQueue(p)') /\ (InLoop(p) => InLoop(p)')
      /\ under \subseteq under' /\ under' \subseteq Op
      /\ fastcgi' \in Op \union {None} /\ (fastcgi' # None => queue' # None)
  BY <1>1, <1>2, <1>3, <1>6, DestroyKeeps
<1>8. WritersInv' /\ writers' \in Seq(WriteType)
  <2>1. \A i \in DOMAIN writers' : Undisturbed(writers'[i])
    <3>1. \A i \in DOMAIN writers' : i + 1 \in DOMAIN writers /\ writers'[i] = writers[i + 1]
      BY <1>1, <1>3, TailThinned
    <3> QED
      BY <1>7, <3>1
  <2> QED
    BY <1>1, <1>2, <1>3, <1>7, <2>1, WritersThin
<1>9. TypeOK'
  BY <1>1, <1>2, <1>3, <1>7, <1>8 DEF TypeOK
<1>10. NoneForgotten'
  <2>1. \A p \in Waiting' \ under' : Place(p) => Place(p)'
    BY <1>3, <1>7 DEF Place, Unread
  <2> QED
    BY <1>1, <1>3, <1>7, <2>1, ForgottenKeeps
<1> QED
  BY <1>3, <1>7, <1>8, <1>9, <1>10 DEF IInv

\* A step of the agent alone.
LEMMA Stays ==
    ASSUME TypeOK, SupervisorInv, UNCHANGED <<op, inbox, link>>
    PROVE  SupervisorInv' /\ Forward /\ Waiting' = Waiting /\ \A p : Unread(p) => Unread(p)'
<1>1. Fades /\ Ebbs /\ StaysQuiet
  BY SameFades DEF Ebbs, StaysQuiet
<1>2. SupervisorInv' /\ Forward
  BY <1>1, EbbKeeps
<1> QED
  BY <1>2 DEF Waiting, Sent, Unread

LEMMA FastcgiAcceptOK == ASSUME IInv, NEW c \in Op, FastcgiAccept(c) PROVE IInv'
<1> DEFINE w == Write("loop", c, None, "none")
<1>1. TypeOK /\ SupervisorInv /\ AgentInv /\ WritersInv /\ LastLineIsRead /\ NoneForgotten
  BY DEF IInv
<1>2. /\ cmd[c].kind = "fastcgi" /\ cmd[c].running /\ cmd[c].loop = "none"
      /\ cmd' = [cmd EXCEPT ![c].loop = "accepted"] /\ writers' = Append(writers, w)
      /\ UNCHANGED <<op, inbox, link, tries, faults, fastcgi, queue, getters, under, canceled>>
  BY DEF FastcgiAccept, linkVars, fastcgiVars
<1>3. w \in WriteType /\ w.task = "loop" /\ w.cmd = c /\ w.op = None /\ w.reply = "none"
  BY DEF Write, WriteType
<1> HIDE DEF w
<1>4. SupervisorInv' /\ Forward /\ Waiting' = Waiting /\ \A p : Unread(p) => Unread(p)'
  BY <1>1, <1>2, Stays
<1>5. Changes(c, cmd[c].running, cmd[c].exit, "accepted", cmd[c].msg, cmd[c].out)
  BY <1>1, <1>2, LoopChanges
<1>6. CmdOK(c)
  BY <1>1 DEF AgentInv, CmdsOK
<1>7. CmdOK(c)' /\ cmd[c].msg = None
  BY <1>2, <1>5, <1>6 DEF CmdOK, Changes, NoMsg
<1>8. AgentInv' /\ CmdForward
  BY <1>1, <1>2, <1>4, <1>5, <1>7, ChangeKeeps
<1>9. \A i \in DOMAIN writers : Undisturbed(writers[i])
  BY <1>1, <1>2, <1>5 DEF WritersInv, WritersOK, WriterOK, Undisturbed, Changes
<1>10. /\ WritersInv' /\ writers' \in Seq(WriteType)
       /\ \A i \in DOMAIN writers : i \in DOMAIN writers' /\ writers'[i] = writers[i]
  <2>1. WriterOK(w)'
    BY <1>3, <1>5, <1>7 DEF WriterOK, Changes
  <2>2. Joins(w)
    BY <1>2, <1>3 DEF Joins
  <2> QED
    BY <1>1, <1>2, <1>3, <1>4, <1>8, <1>9, <2>1, <2>2, WritersAppend
<1>11. LastLineIsRead'
  BY <1>1, <1>5 DEF LastLineIsRead, Changes
<1>12. TypeOK'
  BY <1>1, <1>2, <1>5, <1>10 DEF TypeOK, Changes
<1>13. NoneForgotten'
  <2>1. \A p : Place(p) => Place(p)'
    BY <1>2, <1>4, <1>5, <1>10 DEF Place, InQueue, Queued, InLoop, Changes, Replying
  <2> QED
    BY <1>1, <1>2, <1>4, <2>1, ForgottenKeeps
<1> QED
  BY <1>4, <1>8, <1>10, <1>11, <1>12, <1>13 DEF IInv

LEMMA FastcgiAnswersOK == ASSUME IInv, NEW c \in Op, FastcgiAnswers(c) PROVE IInv'
<1>1. TypeOK /\ SupervisorInv /\ AgentInv /\ WritersInv /\ LastLineIsRead /\ NoneForgotten
  BY DEF IInv
<1>2. /\ cmd[c].loop = "busy" /\ cmd' = [cmd EXCEPT ![c].loop = "answered"]
      /\ UNCHANGED <<op, inbox, link, tries, faults, fastcgi, queue, getters, under, writers, canceled>>
  BY DEF FastcgiAnswers, linkVars, fastcgiVars
<1>3. SupervisorInv' /\ Forward /\ Waiting' = Waiting /\ \A p : Unread(p) => Unread(p)'
  BY <1>1, <1>2, Stays
<1>4. Changes(c, cmd[c].running, cmd[c].exit, "answered", cmd[c].msg, cmd[c].out)
  BY <1>1, <1>2, LoopChanges
<1>5. CmdOK(c)
  BY <1>1 DEF AgentInv, CmdsOK
<1>6. CmdOK(c)' /\ cmd[c].kind # "none"
  BY <1>2, <1>4, <1>5 DEF CmdOK, Changes, NoMsg
<1>7. AgentInv' /\ CmdForward
  BY <1>1, <1>2, <1>3, <1>4, <1>6, ChangeKeeps
<1>8. WritersInv'
  <2>1. Thinned
    BY <1>1, <1>2, SameThinned
  <2>2. \A i \in DOMAIN writers' : Undisturbed(writers'[i])
    BY <1>1, <1>2, <1>4 DEF WritersInv, WritersOK, WriterOK, Undisturbed, Changes
  <2> QED
    BY <1>1, <1>2, <1>3, <1>7, <2>1, <2>2, WritersThin
<1>9. LastLineIsRead'
  BY <1>1, <1>4 DEF LastLineIsRead, Changes
<1>10. TypeOK'
  BY <1>1, <1>2, <1>4 DEF TypeOK, Changes
<1>11. NoneForgotten'
  <2>1. \A p : Place(p) => Place(p)'
    BY <1>2, <1>3, <1>4 DEF Place, InQueue, Queued, InLoop, Changes, Replying
  <2> QED
    BY <1>1, <1>2, <1>3, <2>1, ForgottenKeeps
<1> QED
  BY <1>3, <1>7, <1>8, <1>9, <1>10, <1>11 DEF IInv

LEMMA FastcgiReplyOK == ASSUME IInv, NEW c \in Op, FastcgiReply(c) PROVE IInv'
<1>1. TypeOK /\ SupervisorInv /\ AgentInv /\ WritersInv /\ LastLineIsRead /\ NoneForgotten
  BY DEF IInv
<1>2. /\ cmd[c].loop = "answered" /\ cmd' = [cmd EXCEPT ![c].loop = "next"]
      /\ writers' = Append(writers, Write("loop", c, cmd[c].msg, "ok"))
      /\ UNCHANGED <<op, inbox, link, tries, faults, fastcgi, queue, getters, under, canceled>>
  BY DEF FastcgiReply, linkVars, fastcgiVars
<1>3. cmd[c] \in CmdType
  BY <1>1, CmdTyped
<1>4. PICK m \in Op \union {None} : m = cmd[c].msg
  BY <1>3, CmdFields
<1> DEFINE w == Write("loop", c, m, "ok")
<1>5. w \in WriteType /\ w.task = "loop" /\ w.cmd = c /\ w.op = m /\ w.reply = "ok" /\ writers' = Append(writers, w)
  BY <1>2, <1>4 DEF Write, WriteType
<1> HIDE DEF w
<1>6. SupervisorInv' /\ Forward /\ Waiting' = Waiting /\ \A p : Unread(p) => Unread(p)'
  BY <1>1, <1>2, Stays
<1>7. Changes(c, cmd[c].running, cmd[c].exit, "next", cmd[c].msg, cmd[c].out)
  BY <1>1, <1>2, LoopChanges
<1>8. CmdOK(c)
  BY <1>1 DEF AgentInv, CmdsOK
<1>9. CmdOK(c)' /\ cmd[c].kind # "none"
  BY <1>2, <1>7, <1>8 DEF CmdOK, Changes, NoMsg
<1>10. AgentInv' /\ CmdForward
  BY <1>1, <1>2, <1>6, <1>7, <1>9, ChangeKeeps
<1>11. \A i \in DOMAIN writers : Undisturbed(writers[i])
  BY <1>1, <1>2, <1>7 DEF WritersInv, WritersOK, WriterOK, Undisturbed, Changes
<1>12. /\ WritersInv' /\ writers' \in Seq(WriteType)
       /\ \A i \in DOMAIN writers : i \in DOMAIN writers' /\ writers'[i] = writers[i]
  <2>1. WriterOK(w)'
    BY <1>4, <1>5, <1>7 DEF WriterOK, Changes
  <2>2. Joins(w)
    BY <1>2, <1>5 DEF Joins
  <2> QED
    BY <1>1, <1>2, <1>5, <1>6, <1>10, <1>11, <2>1, <2>2, WritersAppend
<1>13. LastLineIsRead'
  BY <1>1, <1>7 DEF LastLineIsRead, Changes
<1>14. TypeOK'
  BY <1>1, <1>2, <1>7, <1>12 DEF TypeOK, Changes
<1>15. NoneForgotten'
  <2>1. \A p : Place(p) => Place(p)'
    BY <1>2, <1>6, <1>7, <1>12 DEF Place, InQueue, Queued, InLoop, Changes, Replying
  <2> QED
    BY <1>1, <1>2, <1>6, <2>1, ForgottenKeeps
<1> QED
  BY <1>6, <1>10, <1>12, <1>13, <1>14, <1>15 DEF IInv

LEMMA StreamClosedOK == ASSUME IInv, NEW c \in Op, StreamClosed(c) PROVE IInv'
<1>1. TypeOK /\ SupervisorInv /\ AgentInv /\ WritersInv /\ LastLineIsRead /\ NoneForgotten
  BY DEF IInv
<1>2. /\ cmd[c].loop = "busy" /\ ~cmd[c].running /\ fastcgi = None
      /\ cmd' = [cmd EXCEPT ![c].loop = "ended", ![c].msg = None]
      /\ UNCHANGED <<op, inbox, link, tries, faults, fastcgi, queue, getters, under, writers, canceled>>
  BY DEF StreamClosed, linkVars, fastcgiVars
<1>3. SupervisorInv' /\ Forward /\ Waiting' = Waiting /\ \A p : Unread(p) => Unread(p)'
  BY <1>1, <1>2, Stays
<1>4. Changes(c, cmd[c].running, cmd[c].exit, "ended", None, cmd[c].out)
  BY <1>1, <1>2, LoopMsgChanges
<1>5. CmdOK(c)
  BY <1>1 DEF AgentInv, CmdsOK
<1>6. CmdOK(c)' /\ cmd[c].kind # "none"
  BY <1>2, <1>4, <1>5 DEF CmdOK, Changes, NoMsg
<1>7. AgentInv' /\ CmdForward
  BY <1>1, <1>2, <1>3, <1>4, <1>6, OpIsNat, ChangeKeeps
<1>8. WritersInv'
  <2>1. Thinned
    BY <1>1, <1>2, SameThinned
  <2>2. \A i \in DOMAIN writers' : Undisturbed(writers'[i])
    BY <1>1, <1>2, <1>4 DEF WritersInv, WritersOK, WriterOK, Undisturbed, Changes
  <2> QED
    BY <1>1, <1>2, <1>3, <1>7, <2>1, <2>2, WritersThin
<1>9. LastLineIsRead'
  BY <1>1, <1>4 DEF LastLineIsRead, Changes
<1>10. TypeOK'
  BY <1>1, <1>2, <1>4 DEF TypeOK, Changes
<1>11. NoneForgotten'
  <2>1. \A p \in Op : InLoop(p) => InLoop(p)'
    <3>1. ASSUME NEW p \in Op, InLoop(p) PROVE InLoop(p)'
      <4>1. PICK d \in Op : cmd[d].msg = p /\ (cmd[d].loop = "busy" => cmd[d].running)
        BY <1>2, <3>1 DEF InLoop
      <4>2. d # c
        BY <1>2, <4>1
      <4>3. cmd'[d] = cmd[d]
        BY <1>4, <4>2 DEF Changes
      <4> QED
        BY <4>1, <4>3 DEF InLoop
    <3> QED
      BY <3>1
  <2>2. \A p \in Op : Place(p) => Place(p)'
    BY <1>2, <1>3, <2>1 DEF Place, InQueue, Queued, Replying
  <2>3. Waiting \subseteq Op
    BY <1>1, SentType
  <2> QED
    BY <1>1, <1>2, <1>3, <2>2, <2>3, ForgottenKeeps
<1> QED
  BY <1>3, <1>7, <1>8, <1>9, <1>10, <1>11 DEF IInv

LEMMA FastcgiErrorOK == ASSUME IInv, NEW c \in Op, FastcgiError(c) PROVE IInv'
<1>1. TypeOK /\ SupervisorInv /\ AgentInv /\ WritersInv /\ LastLineIsRead /\ NoneForgotten
  BY DEF IInv
<1>2. /\ cmd[c].loop = "busy" /\ ~cmd[c].running /\ fastcgi # None
      /\ op' = Failed({cmd[c].msg} \union Range(queue))
      /\ cmd' = [[cmd EXCEPT ![c].loop = "ended", ![c].msg = None] EXCEPT ![fastcgi] = Killed(@, "asked")]
      /\ under' = under \union ({cmd[d].msg : d \in {d \in Op \ {c} : cmd[d].loop = "busy"}} \intersect Alive)
      /\ fastcgi' = None /\ queue' = None /\ getters' = <<>>
      /\ UNCHANGED <<inbox, link, tries, faults, writers, canceled>>
  BY DEF FastcgiError, linkVars
<1>3. Queued = Range(queue)
  BY <1>1, <1>2, QueueIs DEF Queued
<1>4. Fades /\ cmd[c].msg \notin Waiting' /\ Waiting' \intersect Queued = {}
  <2>1. PICK O : O = {cmd[c].msg} \union Range(queue)
    OBVIOUS
  <2>2. Quiet
    BY <1>1 DEF SupervisorInv
  <2>3. Fades /\ Waiting' \intersect O = {}
    BY <1>1, <1>2, <2>1, <2>2, FailedFades
  <2> QED
    BY <1>3, <2>1, <2>3
<1>5. SupervisorInv' /\ Forward
  <2>1. Ebbs /\ StaysQuiet
    BY <1>2 DEF Ebbs, StaysQuiet
  <2> QED
    BY <1>1, <1>4, <2>1, EbbKeeps
<1>6. Waiting' \subseteq Waiting /\ Waiting \subseteq Alive /\ Alive \subseteq Op
  BY <1>1, <1>4, FadesFacts, SentType
<1>7. /\ AgentInv' /\ CmdForward /\ cmd' \in [Op -> CmdType] /\ getters' \in Seq(Op)
      /\ cmd'[c].loop = "ended" /\ cmd'[c].msg = None
      /\ \A d \in Op \ {c} : cmd'[d].loop = cmd[d].loop /\ cmd'[d].msg = cmd[d].msg
      /\ \A d \in Op : cmd'[d].out = cmd[d].out /\ cmd'[d].exit = cmd[d].exit /\ cmd'[d].kind = cmd[d].kind
                       /\ (d # fastcgi => cmd'[d].running = cmd[d].running /\ cmd'[d].destroyed = cmd[d].destroyed)
  BY <1>1, <1>2, <1>5, ErrorKeeps
<1>8. WritersInv'
  <2>1. Thinned
    BY <1>1, <1>2, SameThinned
  <2>2. \A i \in DOMAIN writers' : Undisturbed(writers'[i])
    <3>1. ASSUME NEW i \in DOMAIN writers' PROVE Undisturbed(writers'[i])
      <4>1. WriterOK(writers[i]) /\ writers'[i] = writers[i]
        BY <1>1, <1>2, <3>1 DEF WritersInv, WritersOK
      <4>2. writers[i].task = "loop" => writers[i].cmd \in Op \ {c}
        BY <1>2, <4>1 DEF WriterOK
      <4> QED
        BY <1>7, <4>1, <4>2 DEF WriterOK, Undisturbed
    <3> QED
      BY <3>1
  <2> QED
    BY <1>1, <1>2, <1>5, <1>7, <2>1, <2>2, WritersThin
<1>9. LastLineIsRead'
  <2>1. fastcgi \in Op /\ cmd[fastcgi].kind = "fastcgi"
    BY <1>1, <1>2, CmdsSeen DEF Cmds
  <2>2. ASSUME NEW d \in Op, cmd'[d].kind = "run", cmd'[d].destroyed = "exit" PROVE cmd'[d].out \in {"none", "told"}
    <3>1. d # fastcgi /\ cmd[d].kind = "run"
      BY <1>7, <2>1, <2>2
    <3>2. cmd[d].destroyed = "exit"
      BY <1>7, <2>2, <3>1
    <3> QED
      BY <1>1, <1>7, <3>1, <3>2 DEF LastLineIsRead
  <2> QED
    BY <2>2 DEF LastLineIsRead
<1>10. TypeOK'
  <2>1. under' \subseteq Op
    BY <1>1, <1>2, <1>6 DEF TypeOK
  <2> QED
    BY <1>1, <1>2, <1>4, <1>7, <2>1 DEF TypeOK, Fades
<1>11. NoneForgotten'
  <2>1. ASSUME NEW p \in Waiting' \ under', InLoop(p) PROVE InLoop(p)'
    <3>1. PICK d \in Op : cmd[d].msg = p
      BY <2>1 DEF InLoop
    <3>2. d # c
      BY <1>4, <2>1, <3>1
    <3>3. cmd[d].loop # "busy"
      BY <1>2, <1>6, <2>1, <3>1, <3>2
    <3> QED
      BY <1>7, <3>1, <3>2, <3>3 DEF InLoop
  <2>2. \A p \in Waiting' \ under' : Place(p) => Place(p)'
    BY <1>2, <1>4, <2>1 DEF Place, Unread, InQueue, Replying
  <2> QED
    BY <1>1, <1>2, <1>6, <2>2, ForgottenKeeps
<1> QED
  BY <1>5, <1>7, <1>8, <1>9, <1>10, <1>11 DEF IInv

LEMMA RunPrintsOK == ASSUME IInv, NEW c \in Op, RunPrints(c) PROVE IInv'
<1>1. TypeOK /\ SupervisorInv /\ AgentInv /\ WritersInv /\ LastLineIsRead /\ NoneForgotten
  BY DEF IInv
<1>2. /\ cmd[c].kind = "run" /\ cmd[c].running /\ cmd[c].out = "none" /\ cmd' = [cmd EXCEPT ![c].out = "written"]
      /\ UNCHANGED <<op, inbox, link, tries, faults, fastcgi, queue, getters, under, writers, canceled>>
  BY DEF RunPrints, linkVars, fastcgiVars
<1>3. SupervisorInv' /\ Forward /\ Waiting' = Waiting /\ \A p : Unread(p) => Unread(p)'
  BY <1>1, <1>2, Stays
<1>4. Changes(c, cmd[c].running, cmd[c].exit, cmd[c].loop, cmd[c].msg, "written")
  BY <1>1, <1>2, OutChanges
<1>5. CmdOK(c)
  BY <1>1 DEF AgentInv, CmdsOK
<1>6. CmdOK(c)' /\ cmd[c].destroyed = "no"
  <2>1. cmd[c] \in CmdType
    BY <1>1, CmdTyped
  <2> QED
    BY <1>2, <1>4, <1>5, <2>1 DEF CmdOK, Changes
<1>7. AgentInv' /\ CmdForward
  BY <1>1, <1>2, <1>3, <1>4, <1>6, ChangeKeeps
<1>8. WritersInv'
  <2>1. Thinned
    BY <1>1, <1>2, SameThinned
  <2>2. \A i \in DOMAIN writers' : Undisturbed(writers'[i])
    BY <1>1, <1>2, <1>4 DEF WritersInv, WritersOK, WriterOK, Undisturbed, Changes
  <2> QED
    BY <1>1, <1>2, <1>3, <1>7, <2>1, <2>2, WritersThin
<1>9. LastLineIsRead'
  BY <1>1, <1>4, <1>6 DEF LastLineIsRead, Changes
<1>10. TypeOK'
  BY <1>1, <1>2, <1>4 DEF TypeOK, Changes
<1>11. NoneForgotten'
  <2>1. \A p : Place(p) => Place(p)'
    BY <1>2, <1>3, <1>4 DEF Place, InQueue, Queued, InLoop, Changes, Replying
  <2> QED
    BY <1>1, <1>2, <1>3, <2>1, ForgottenKeeps
<1> QED
  BY <1>3, <1>7, <1>8, <1>9, <1>10, <1>11 DEF IInv

LEMMA OnStdoutReadOK == ASSUME IInv, NEW c \in Op, OnStdoutRead(c) PROVE IInv'
<1>1. TypeOK /\ SupervisorInv /\ AgentInv /\ WritersInv /\ LastLineIsRead /\ NoneForgotten
  BY DEF IInv
<1>2. /\ cmd[c].out = "written"
      /\ UNCHANGED <<op, inbox, link, tries, faults, fastcgi, queue, getters, under, canceled>>
  BY DEF OnStdoutRead, linkVars, fastcgiVars
<1>3. SupervisorInv' /\ Forward /\ Waiting' = Waiting /\ \A p : Unread(p) => Unread(p)'
  BY <1>1, <1>2, Stays
<1>4. CmdOK(c) /\ cmd[c].kind = "run"
  BY <1>1, <1>2 DEF AgentInv, CmdsOK, CmdOK
<1>5. PICK u \in {"sending", "dropped"} :
        /\ cmd' = [cmd EXCEPT ![c].out = u]
        /\ u = "sending" => cmd[c].destroyed = "no" /\ writers' = Append(writers, Write("stdout", c, c, "final"))
        /\ u = "dropped" => cmd[c].destroyed # "no" /\ writers' = writers
  BY DEF OnStdoutRead
<1>6. Changes(c, cmd[c].running, cmd[c].exit, cmd[c].loop, cmd[c].msg, u)
  BY <1>1, <1>5, OutChanges
<1>7. CmdOK(c)'
  BY <1>2, <1>4, <1>5, <1>6 DEF CmdOK, Changes
<1>8. AgentInv' /\ CmdForward
  BY <1>1, <1>2, <1>3, <1>4, <1>6, <1>7, ChangeKeeps
<1>9. \A i \in DOMAIN writers : Undisturbed(writers[i])
  BY <1>1, <1>2, <1>6 DEF WritersInv, WritersOK, WriterOK, Undisturbed, Changes
<1>10. WritersInv' /\ writers' \in Seq(WriteType) /\ \A p : Replying(p) => Replying(p)'
  <2>1. CASE u = "sending"
    <3> DEFINE w == Write("stdout", c, c, "final")
    <3>1. w \in WriteType /\ w.task = "stdout" /\ w.cmd = c /\ w.op = c /\ w.reply = "final" /\ writers' = Append(writers, w)
      BY <1>5, <2>1 DEF Write, WriteType
    <3> HIDE DEF w
    <3>2. WriterOK(w)'
      BY <1>6, <2>1, <3>1 DEF WriterOK, Changes
    <3>3. Joins(w)
      BY <1>2, <1>4, <1>5, <2>1, <3>1 DEF Joins
    <3>4. WritersInv' /\ writers' \in Seq(WriteType) /\ \A i \in DOMAIN writers : i \in DOMAIN writers' /\ writers'[i] = writers[i]
      BY <1>1, <1>2, <1>3, <1>8, <1>9, <3>1, <3>2, <3>3, WritersAppend
    <3> QED
      BY <3>4 DEF Replying
  <2>2. CASE u = "dropped"
    <3>1. Thinned /\ writers' = writers
      BY <1>1, <1>5, <2>2, SameThinned
    <3>2. \A i \in DOMAIN writers' : Undisturbed(writers'[i])
      BY <1>9, <3>1
    <3>3. WritersInv' /\ writers' \in Seq(WriteType)
      BY <1>1, <1>2, <1>3, <1>8, <3>1, <3>2, WritersThin
    <3> QED
      BY <3>1, <3>3 DEF Replying
  <2> QED
    BY <1>5, <2>1, <2>2
<1>11. LastLineIsRead'
  <2>1. cmd[c].destroyed # "exit"
    BY <1>1, <1>2, <1>4 DEF LastLineIsRead
  <2> QED
    BY <1>1, <1>6, <2>1 DEF LastLineIsRead, Changes
<1>12. TypeOK'
  BY <1>1, <1>2, <1>6, <1>10 DEF TypeOK, Changes
<1>13. NoneForgotten'
  <2>1. \A p : Place(p) => Place(p)'
    BY <1>2, <1>3, <1>6, <1>10 DEF Place, InQueue, Queued, InLoop, Changes
  <2> QED
    BY <1>1, <1>2, <1>3, <2>1, ForgottenKeeps
<1> QED
  BY <1>3, <1>8, <1>10, <1>11, <1>12, <1>13 DEF IInv

LEMMA ExitOK == ASSUME IInv, NEW c \in Op, Exit(c) PROVE IInv'
<1>1. TypeOK /\ SupervisorInv /\ AgentInv /\ WritersInv /\ LastLineIsRead /\ NoneForgotten
  BY DEF IInv
<1>2. /\ cmd[c].running /\ cmd' = [cmd EXCEPT ![c].running = FALSE]
      /\ UNCHANGED <<op, inbox, link, tries, fastcgi, queue, getters, under, writers, canceled>>
  BY DEF Exit, fastcgiVars
<1>3. faults' \in 0..MaxFault
  BY <1>1, BoundAssumption DEF Exit, Fault, TypeOK
<1>4. SupervisorInv' /\ Forward /\ Waiting' = Waiting /\ \A p : Unread(p) => Unread(p)'
  BY <1>1, <1>2, Stays
<1>5. Changes(c, FALSE, cmd[c].exit, cmd[c].loop, cmd[c].msg, cmd[c].out)
  BY <1>1, <1>2, RunningChanges
<1>6. CmdOK(c)
  BY <1>1 DEF AgentInv, CmdsOK
<1>7. CmdOK(c)' /\ cmd[c].destroyed = "no" /\ cmd[c].kind # "none"
  BY <1>2, <1>5, <1>6 DEF CmdOK, Changes, NoCmd
<1>8. AgentInv' /\ CmdForward
  BY <1>1, <1>2, <1>4, <1>5, <1>7, ChangeKeeps
<1>9. WritersInv'
  <2>1. Thinned
    BY <1>1, <1>2, SameThinned
  <2>2. \A i \in DOMAIN writers' : Undisturbed(writers'[i])
    BY <1>1, <1>2, <1>5 DEF WritersInv, WritersOK, WriterOK, Undisturbed, Changes
  <2> QED
    BY <1>1, <1>2, <1>4, <1>8, <2>1, <2>2, WritersThin
<1>10. LastLineIsRead'
  BY <1>1, <1>5 DEF LastLineIsRead, Changes
<1>11. TypeOK'
  BY <1>1, <1>2, <1>3, <1>5 DEF TypeOK, Changes
<1>12. NoneForgotten'
  <2>1. cmd[c].loop = "busy" => fastcgi = c
    BY <1>1, <1>6, <1>7, CmdsSeen DEF CmdOK
  <2>2. \A p : InLoop(p) => InLoop(p)'
    BY <1>2, <1>5, <2>1, OpIsNat DEF InLoop, Changes
  <2>3. \A p : Place(p) => Place(p)'
    BY <1>2, <1>4, <2>2 DEF Place, InQueue, Queued, Replying
  <2> QED
    BY <1>1, <1>2, <1>4, <2>3, ForgottenKeeps
<1> QED
  BY <1>4, <1>8, <1>9, <1>10, <1>11, <1>12 DEF IInv

LEMMA AwaitExitOK == ASSUME IInv, NEW c \in Op, AwaitExit(c) PROVE IInv'
<1>1. TypeOK /\ SupervisorInv /\ AgentInv /\ WritersInv /\ LastLineIsRead /\ NoneForgotten
  BY DEF IInv
<1>2. /\ cmd[c].out \notin {"written", "sending"} /\ c \in Cmds /\ ~cmd[c].running /\ cmd[c].exit = "wait"
      /\ UNCHANGED <<op, inbox, link, tries, faults, queue, getters, canceled>>
  BY DEF AwaitExit, ExitNoticed, linkVars
<1>3. SupervisorInv' /\ Forward /\ Waiting' = Waiting /\ \A p : Unread(p) => Unread(p)'
  BY <1>1, <1>2, Stays
<1>4. CmdOK(c) /\ cmd[c].kind # "none" /\ cmd[c].destroyed = "no"
  BY <1>1, <1>2 DEF AgentInv, CmdsOK, Cmds
<1>5. CASE /\ cmd[c].out = "none" /\ cmd' = [cmd EXCEPT ![c].exit = "send"]
           /\ writers' = Append(writers, Write("exit", c, IF cmd[c].kind = "run" THEN None ELSE c, "internal"))
           /\ UNCHANGED <<fastcgi, under>>
  <2>1. PICK o \in Op \union {None} : o = IF cmd[c].kind = "run" THEN None ELSE c
    OBVIOUS
  <2> DEFINE w == Write("exit", c, o, "internal")
  <2>2. w \in WriteType /\ w.task = "exit" /\ w.cmd = c /\ w.reply = "internal" /\ writers' = Append(writers, w)
    BY <1>5, <2>1 DEF Write, WriteType
  <2> HIDE DEF w
  <2>3. Changes(c, cmd[c].running, "send", cmd[c].loop, cmd[c].msg, cmd[c].out)
    BY <1>1, <1>5, ExitChanges
  <2>4. CmdOK(c)'
    BY <1>2, <1>4, <1>5, <2>3 DEF CmdOK, Changes
  <2>5. AgentInv' /\ CmdForward
    BY <1>1, <1>2, <1>3, <1>4, <1>5, <2>3, <2>4, ChangeKeeps
  <2>6. \A i \in DOMAIN writers : Undisturbed(writers[i])
    BY <1>1, <1>2, <2>3 DEF WritersInv, WritersOK, WriterOK, Undisturbed, Changes
  <2>7. WritersInv' /\ writers' \in Seq(WriteType) /\ \A i \in DOMAIN writers : i \in DOMAIN writers' /\ writers'[i] = writers[i]
    <3>1. WriterOK(w)'
      BY <2>2, <2>3 DEF WriterOK, Changes
    <3>2. Joins(w)
      BY <2>2 DEF Joins
    <3> QED
      BY <1>1, <1>2, <1>3, <2>2, <2>5, <2>6, <3>1, <3>2, WritersAppend
  <2>8. LastLineIsRead'
    BY <1>1, <2>3 DEF LastLineIsRead, Changes
  <2>9. TypeOK'
    BY <1>1, <1>2, <1>5, <2>3, <2>7 DEF TypeOK, Changes
  <2>10. NoneForgotten'
    <3>1. \A p : Place(p) => Place(p)'
      BY <1>2, <1>3, <1>5, <2>3, <2>7 DEF Place, InQueue, Queued, InLoop, Changes, Replying
    <3> QED
      BY <1>1, <1>3, <1>5, <3>1, ForgottenKeeps
  <2> QED
    BY <1>3, <2>5, <2>7, <2>8, <2>9, <2>10 DEF IInv
<1>6. CASE cmd[c].out # "none" /\ Destroy({c}, "exit") /\ UNCHANGED writers
  <2>1. {c} \in SUBSET Cmds /\ \A d \in {c} : cmd[d].out \in {"none", "told"}
    <3>1. cmd[c] \in CmdType
      BY <1>1, CmdTyped
    <3>2. cmd[c].out = "told"
      BY <1>2, <1>4, <1>6, <3>1, CmdFields DEF CmdOK
    <3> QED
      BY <1>2, <3>2
  <2>2. /\ AgentInv' /\ CmdForward /\ cmd' \in [Op -> CmdType] /\ LastLineIsRead'
        /\ \A i \in DOMAIN writers : Undisturbed(writers[i])
        /\ \A p \in Waiting \ under' : (InQueue(p) => InQueue(p)') /\ (InLoop(p) => InLoop(p)')
        /\ under \subseteq under' /\ under' \subseteq Op
        /\ fastcgi' \in Op \union {None} /\ (fastcgi' # None => queue' # None)
    BY <1>1, <1>2, <1>3, <1>6, <2>1, DestroyKeeps
  <2>3. WritersInv'
    <3>1. Thinned
      BY <1>1, <1>6, SameThinned
    <3>2. \A i \in DOMAIN writers' : Undisturbed(writers'[i])
      BY <1>6, <2>2
    <3> QED
      BY <1>1, <1>2, <1>3, <2>2, <3>1, <3>2, WritersThin
  <2>4. TypeOK'
    BY <1>1, <1>2, <1>6, <2>2 DEF TypeOK
  <2>5. NoneForgotten'
    <3>1. \A p \in Waiting' \ under' : Place(p) => Place(p)'
      BY <1>3, <1>6, <2>2 DEF Place, Replying
    <3> QED
      BY <1>1, <1>3, <2>2, <3>1, ForgottenKeeps
  <2> QED
    BY <1>3, <2>2, <2>3, <2>4, <2>5 DEF IInv
<1> QED
  BY <1>5, <1>6 DEF AwaitExit, ExitNoticed

LEMMA InitOK == ASSUME Init PROVE IInv
<1>1. /\ op = [o \in Op |-> None] /\ inbox = <<>> /\ link = "open" /\ tries = MaxRetry /\ faults = 0
      /\ cmd = [o \in Op |-> NoCmd] /\ fastcgi = None /\ queue = None /\ getters = <<>> /\ writers = <<>>
      /\ under = {} /\ canceled = {}
  BY DEF Init
<1>2. NoCmd \in CmdType
  BY DEF NoCmd, CmdType
<1>3. <<>> \in Seq(MessageType) /\ <<>> \in Seq(Op) /\ <<>> \in Seq(WriteType) /\ DOMAIN <<>> = {}
  OBVIOUS
<1>4. TypeOK
  BY <1>1, <1>2, <1>3, BoundAssumption DEF TypeOK
<1>5. Sent = {} /\ Alive = {} /\ Waiting = {} /\ Seen = {}
  BY <1>1 DEF Sent, Alive, Waiting, Seen
<1>6. SupervisorInv
  BY <1>1, <1>3, <1>5 DEF SupervisorInv, SentInOrder, MessagesOK, InboxOrder, Quiet, KindsDiffer
<1>7. \A c \in Op : /\ cmd[c] = NoCmd /\ cmd[c].kind = "none" /\ cmd[c].destroyed = "no" /\ ~cmd[c].running
                    /\ cmd[c].exit = "wait" /\ cmd[c].loop = "none" /\ cmd[c].msg = None /\ cmd[c].out = "none"
  BY <1>1 DEF NoCmd
<1>8. AgentInv
  <2>1. Queued = {}
    BY <1>1 DEF Queued
  <2>2. SeenOnly
    BY <1>7, <2>1 DEF SeenOnly
  <2>3. CmdsOK
    BY <1>7 DEF CmdsOK, CmdOK, NoMsg
  <2>4. OneFastcgi
    BY <1>1, <1>7 DEF OneFastcgi, Cmds
  <2>5. GettersOK /\ OncePlaced
    BY <1>1, <1>3, <2>1 DEF GettersOK, OncePlaced
  <2> QED
    BY <2>2, <2>3, <2>4, <2>5 DEF AgentInv
<1>9. WritersInv
  BY <1>1, <1>3 DEF WritersInv, WritersOK, OneWrite, CanceledAreDead, CancelingAreDead, NoUpdateAfterCancel
<1>10. LastLineIsRead
  BY <1>7 DEF LastLineIsRead
<1>11. NoneForgotten
  BY <1>5 DEF NoneForgotten
<1> QED
  BY <1>4, <1>6, <1>8, <1>9, <1>10, <1>11 DEF IInv

LEMMA StepsOK == ASSUME IInv, Steps PROVE IInv'
<1>1. ASSUME NEW o \in Op, NEW k \in Kind, NEW j \in Job, Send(o, k, j) PROVE IInv'
  BY <1>1, SendOK
<1>2. ASSUME NEW o \in Op, Cancel(o) PROVE IInv'
  BY <1>2, CancelOK
<1>3. ASSUME ReadNext PROVE IInv'
  BY <1>3, RunDirNotFoundOK, StartFastcgiOK, StartFastcgiFailsOK, FastcgiOpOK, RunOK, RunFailsOK, OpCancelOK DEF ReadNext
<1>4. ASSUME Flush PROVE IInv'
  BY <1>4, MainFlushedOK, LoopFlushedOK, StdoutFlushedOK, ExitFlushedOK DEF Flush
<1>5. ASSUME NEW c \in Op, LoopNext(c) PROVE IInv'
  BY <1>5, FastcgiAcceptOK, FastcgiAnswersOK, FastcgiReplyOK, StreamClosedOK, FastcgiErrorOK DEF LoopNext
<1>6. ASSUME NEW c \in Op, RunPrints(c) \/ OnStdoutRead(c) \/ Exit(c) \/ AwaitExit(c) PROVE IInv'
  BY <1>6, RunPrintsOK, OnStdoutReadOK, ExitOK, AwaitExitOK
<1>7. ASSUME Terminate \/ Lose \/ Connect \/ ConnectFails PROVE IInv'
  BY <1>7, TerminateOK, LoseOK, ConnectOK, ConnectFailsOK
<1> QED
  BY <1>1, <1>2, <1>3, <1>4, <1>5, <1>6, <1>7 DEF Steps

LEMMA StutterOK == ASSUME IInv, vars' = vars PROVE IInv'
<1>1. UNCHANGED <<op, inbox, link, tries, faults, cmd, fastcgi, queue, getters, writers, under, canceled>>
  BY DEF vars
<1>2. TypeOK /\ SupervisorInv /\ AgentInv /\ WritersInv /\ LastLineIsRead /\ NoneForgotten
  BY DEF IInv
<1>3. SupervisorInv' /\ Forward /\ Waiting' = Waiting /\ \A p : Unread(p) => Unread(p)'
  BY <1>1, <1>2, Stays
<1>4. /\ AgentInv' /\ WritersInv' /\ LastLineIsRead' /\ under' = under
      /\ \A o : InQueue(o) \/ InLoop(o) \/ Replying(o) => Place(o)'
  BY <1>1, <1>2, <1>3, AgentSame DEF fastcgiVars
<1>5. TypeOK'
  BY <1>1, <1>2 DEF TypeOK
<1>6. NoneForgotten'
  <2>1. \A p : Place(p) => Place(p)'
    BY <1>3, <1>4 DEF Place
  <2> QED
    BY <1>2, <1>3, <1>4, <2>1, ForgottenKeeps
<1> QED
  BY <1>3, <1>4, <1>5, <1>6 DEF IInv

-----------------------------------------------------------------------------
(***************************************************************************)
(* The theorems.                                                           *)
(***************************************************************************)
\* The invariant holds in every state of the agent, whatever the supervisor
\* sends and whatever breaks.
THEOREM AgentInvariant == Spec => []IInv
<1>1. Init => IInv
  BY InitOK
<1>2. IInv /\ [Next]_vars => IInv'
  BY StepsOK, StutterOK DEF Next
<1> QED
  BY <1>1, <1>2, PTL DEF Spec

\* The types of the agent's state: the queue of fastcgi never holds two
\* messages, and is there with every fastcgi process.
THEOREM AgentTypes == Spec => []TypeOK
<1>1. IInv => TypeOK
  BY DEF IInv
<1> QED
  BY <1>1, AgentInvariant, PTL

\* fastcgi_cmd is the one fastcgi process of the dispatcher.
THEOREM AgentHasOneFastcgi == Spec => []OneFastcgi
<1>1. IInv => OneFastcgi
  BY DEF IInv, AgentInv
<1> QED
  BY <1>1, AgentInvariant, PTL

\* No run is removed by the end of its process before its last line was sent.
THEOREM LastLinesAreRead == Spec => []LastLineIsRead
<1>1. IInv => LastLineIsRead
  BY DEF IInv
<1> QED
  BY <1>1, AgentInvariant, PTL

\* No update of a run is sent after its cancel was answered.
THEOREM NoUpdatesAfterCancel == Spec => []NoUpdateAfterCancel
<1>1. IInv => NoUpdateAfterCancel
  BY DEF IInv, WritersInv
<1> QED
  BY <1>1, AgentInvariant, PTL

\* The agent forgets no operation the supervisor waits for.
THEOREM AgentForgetsNone == Spec => []NoneForgotten
<1>1. IInv => NoneForgotten
  BY DEF IInv
<1> QED
  BY <1>1, AgentInvariant, PTL

\* Only FastcgiOp answers that the queue is full.
LEMMA RefusedByFull ==
    ASSUME IInv, Next, NEW o \in Op, Refused(o)
    PROVE  ReadOp(o, FALSE) /\ fastcgi # None /\ getters = <<>> /\ queue # <<>>
<1>1. TypeOK
  BY DEF IInv
<1> DEFINE w == Write("main", None, o, "full")
<1>2. inbox # <<>> /\ Head(inbox).op = o /\ inbox' = Tail(inbox) /\ writers' = Append(writers, w)
  BY DEF Refused
<1>3. w \in WriteType /\ w.reply = "full" /\ w.op = o
  BY DEF Write, WriteType
<1> HIDE DEF w
<1>4. writers' # writers /\ writers' # <<>>
  <2>1. writers \in Seq(WriteType)
    BY <1>1 DEF TypeOK
  <2>2. Len(writers') = Len(writers) + 1 /\ Len(writers) \in Nat
    BY <1>2, <1>3, <2>1
  <2>3. writers' = writers => Len(writers') = Len(writers)
    OBVIOUS
  <2>4. writers' = <<>> => Len(writers') = 0
    OBVIOUS
  <2> QED
    BY <2>2, <2>3, <2>4
<1>5. inbox' # inbox
  <2>1. inbox \in Seq(MessageType)
    BY <1>1 DEF TypeOK
  <2>2. Len(inbox') = Len(inbox) - 1 /\ Len(inbox) \in Nat
    BY <1>2, <2>1, HeadTailProperties
  <2>3. inbox' = inbox => Len(inbox') = Len(inbox)
    OBVIOUS
  <2> QED
    BY <2>2, <2>3
<1>6. ASSUME NEW v \in WriteType, writers' = Append(writers, v) PROVE v.reply = "full" /\ v.op = o
  <2>1. writers \in Seq(WriteType)
    BY <1>1 DEF TypeOK
  <2>2. writers'[Len(writers) + 1] = v
    BY <1>6, <2>1, AppendFacts
  <2>3. writers'[Len(writers) + 1] = w
    BY <1>2, <1>3, <2>1, AppendFacts
  <2> QED
    BY <1>3, <2>2, <2>3
<1>7. ASSUME NEW p \in Op, NEW r \in {"none", "ok", "internal", "full", "notFound", "failed", "final", "canceled"}, Respond(p, r)
      PROVE  r = "full" /\ p = o
  <2> DEFINE v == Write("main", None, p, r)
  <2>1. v \in WriteType /\ v.reply = r /\ v.op = p /\ writers' = Append(writers, v)
    BY <1>7 DEF Write, WriteType, Respond
  <2> HIDE DEF v
  <2> QED
    BY <1>6, <2>1
<1>8. ~\E p \in Op, k \in Kind, j \in Job : Send(p, k, j)
  BY <1>4 DEF Send
<1>9. ~\E p \in Op : Cancel(p)
  BY <1>4 DEF Cancel
<1>10. ~Flush
  BY <1>5 DEF Flush, MainFlushed, LoopFlushed, StdoutFlushed, ExitFlushed, Flushed
<1>11. ~\E c \in Op : LoopNext(c)
  BY <1>5 DEF LoopNext, FastcgiAccept, FastcgiAnswers, FastcgiReply, StreamClosed, FastcgiError
<1>12. ~\E c \in Op : RunPrints(c) \/ OnStdoutRead(c) \/ Exit(c) \/ AwaitExit(c)
  BY <1>5 DEF RunPrints, OnStdoutRead, Exit, AwaitExit, ExitNoticed
<1>13. ~Terminate
  BY <1>4 DEF Terminate, Ended
<1>14. ASSUME NEW t, NEW W, Down(t, W) PROVE writers' = W
  BY <1>4, <1>14 DEF Down, Ended
<1>15. ~Lose
  <2>1. ASSUME Lose PROVE FALSE
    <3>1. CASE Down(tries, writers)
      BY <1>4, <3>1 DEF Down, Ended
    <3>2. CASE \E i \in DOMAIN writers : IsMain(writers[i]) /\ Down(MaxRetry, RemoveAt(writers, i))
      <4>1. PICK i \in DOMAIN writers : Down(MaxRetry, RemoveAt(writers, i))
        BY <3>2
      <4>2. writers' = RemoveAt(writers, i)
        BY <1>4, <4>1 DEF Down, Ended
      <4>3. writers \in Seq(WriteType) /\ i \in 1..Len(writers) /\ Len(writers) \in Nat
        BY <1>1 DEF TypeOK
      <4>4. Len(writers') = Len(writers) + 1
        BY <1>2, <1>3, <4>3
      <4>5. Len(RemoveAt(writers, i)) = Len(writers) - 1
        <5>1. SubSeq(writers, 1, i - 1) \in Seq(WriteType) /\ SubSeq(writers, i + 1, Len(writers)) \in Seq(WriteType)
              /\ Len(SubSeq(writers, 1, i - 1)) = i - 1 /\ Len(SubSeq(writers, i + 1, Len(writers))) = Len(writers) - i
          <6>1. \A n \in 1..Len(writers) : writers[n] \in WriteType
            BY <4>3
          <6>2. \A n \in 1..(i - 1) : writers[n] \in WriteType
            BY <4>3, <6>1
          <6>3. \A n \in (i + 1)..Len(writers) : writers[n] \in WriteType
            BY <4>3, <6>1
          <6> QED
            BY <4>3, <6>2, <6>3, SubSeqProperties
        <5> QED
          BY <4>3, <5>1 DEF RemoveAt
      <4> QED
        BY <4>2, <4>3, <4>4, <4>5
    <3> QED
      BY <2>1, <3>1, <3>2 DEF Lose
  <2> QED
    BY <2>1
<1>16. ~Connect /\ ~ConnectFails
  BY <1>4 DEF Connect, ConnectFails, Down, Ended
<1>17. ReadNext
  BY <1>8, <1>9, <1>10, <1>11, <1>12, <1>13, <1>15, <1>16 DEF Next, Steps
<1>18. PICK p \in Op : FastcgiOp(p) /\ Respond(p, "full") /\ getters = <<>> /\ queue # <<>>
  <2>1. ~\E p \in Op : RunDirNotFound(p)
    BY <1>7 DEF RunDirNotFound
  <2>2. ~\E p \in Op : StartFastcgi(p)
    BY <1>4 DEF StartFastcgi
  <2>3. ~\E p \in Op : StartFastcgiFails(p)
    BY <1>7 DEF StartFastcgiFails
  <2>4. ~\E p \in Op : Run(p) \/ RunFails(p)
    BY <1>7 DEF Run, RunFails
  <2>5. ~\E p \in Op, j \in Job \union {None} : OpCancel(p, j)
    BY <1>7 DEF OpCancel
  <2>6. PICK p \in Op : FastcgiOp(p)
    BY <1>17, <2>1, <2>2, <2>3, <2>4, <2>5 DEF ReadNext
  <2> QED
    BY <1>4, <2>6 DEF FastcgiOp, Put
<1>19. p = o
  BY <1>7, <1>18
<1> QED
  BY <1>18, <1>19 DEF FastcgiOp

\* An operation is refused because its queue is full only while the process
\* has not connected, or when the supervisor gave up one that is still there.
THEOREM RefusedForReason == Spec => FullForReason
<1>1. ASSUME IInv, Next, NEW o \in Op, Refused(o) PROVE FullWithReason
  <2>1. TypeOK /\ SupervisorInv /\ AgentInv
    BY <1>1 DEF IInv
  <2>2. ReadOp(o, FALSE) /\ fastcgi # None /\ getters = <<>> /\ queue # <<>>
    BY <1>1, RefusedByFull
  <2>3. o \in Seen' /\ op[o].kind # "run" /\ o \in Sent /\ op[o] \in OpType
    <3>1. op' = op /\ o \in Seen' /\ (op'[o].kind = "run" <=> FALSE)
      BY <2>1, <2>2, ReadOpFacts
    <3>2. o \in Sent
      BY <3>1 DEF Seen, Sent
    <3> QED
      BY <2>1, <3>1, <3>2, SentType
  <2>4. fastcgi \in Op /\ queue # None /\ cmd[fastcgi] \in CmdType
    BY <2>1, <2>2, CmdsSeen, CmdTyped DEF Cmds
  <2>5. PICK h : h = Head(queue)
    OBVIOUS
  <2>6. h \in Queued /\ h \in Seen /\ op[h].kind # "run"
    <3>1. h \in Queued
      BY <2>1, <2>2, <2>4, <2>5, QueueIs
    <3> QED
      BY <2>1, <3>1 DEF AgentInv, SeenOnly
  <2>7. SUFFICES ASSUME cmd[fastcgi].loop \notin {"none", "accepted"}, \A p \in Queued \union InHand : p \in Alive
                 PROVE  FALSE
    BY DEF FullWithReason
  <2>8. PICK m : m = cmd[fastcgi].msg
    OBVIOUS
  <2>9. cmd[fastcgi].loop \notin NoMsg
    <3>1. DOMAIN <<>> = {}
      OBVIOUS
    <3> QED
      BY <2>1, <2>2, <2>7, <3>1 DEF AgentInv, GettersOK, NoMsg
  <2>10. m # None /\ m \in InHand
    BY <2>1, <2>4, <2>8, <2>9 DEF AgentInv, CmdsOK, CmdOK, InHand
  <2>11. m \in Seen /\ op[m].kind # "run" /\ m # h
    BY <2>1, <2>4, <2>6, <2>8, <2>10 DEF AgentInv, SeenOnly, OncePlaced
  <2>12. h < o /\ m < o
    <3>1. inbox \in Seq(MessageType) /\ inbox # <<>> /\ Head(inbox).name = "op" /\ Head(inbox).op = o
      BY <1>1, <2>1 DEF Refused, TypeOK
    <3>2. 1 \in DOMAIN inbox /\ inbox[1].name = "op" /\ inbox[1].op = o
      BY <3>1, EmptySeq
    <3> QED
      BY <2>6, <2>11, <3>2 DEF Seen
  <2>13. h \in Alive /\ m \in Alive /\ h \in Nat /\ m \in Nat
    BY <2>1, <2>6, <2>7, <2>10, OpIsNat, SentType
  <2>14. op[h].kind # op[o].kind /\ op[m].kind # op[o].kind
    BY <2>1, <2>3, <2>12, <2>13 DEF SupervisorInv, KindsDiffer
  <2>15. op[h].kind # op[m].kind
    <3>1. h < m \/ m < h
      BY <2>11, <2>13
    <3>2. h \in Sent /\ m \in Sent
      BY <2>1, <2>13, SentType
    <3> QED
      BY <2>1, <2>13, <3>1, <3>2 DEF SupervisorInv, KindsDiffer
  <2>16. op[h].kind \in Kind /\ op[m].kind \in Kind /\ op[o].kind \in Kind
    <3>1. op[h] \in OpType /\ op[m] \in OpType
      BY <2>1, <2>13, SentType
    <3> QED
      BY <2>3, <3>1 DEF OpType
  <2> QED
    BY <2>3, <2>6, <2>11, <2>14, <2>15, <2>16 DEF Kind
<1>2. IInv /\ [Next]_vars => [RefusedWithReason]_vars
  BY <1>1 DEF RefusedWithReason
<1> QED
  BY <1>2, AgentInvariant, PTL DEF Spec, FullForReason
===============================================================================
