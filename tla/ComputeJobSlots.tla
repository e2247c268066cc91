---------------------------- MODULE ComputeJobSlots ----------------------------
(***************************************************************************)
(* What the slots of ComputeJob promise, for any jobs, requests, timers,   *)
(* operations and sizes of queues:                                         *)
(*   - a queue never hands out more slots than it has (SpecTypeOK);        *)
(*   - no slot is left behind by an operation that is destroyed            *)
(*     (NoSlotIsLeaked), and a run directory has one user at a time        *)
(*     (RunDirIsExclusive);                                                *)
(*   - the lines are fair: no slot stays free while somebody waits         *)
(*     (NoSlotStaysFree), slots are handed out in the order of the line    *)
(*     (NobodyIsOvertaken), no operations wait for each other              *)
(*     (NobodyWaitsInACircle), and who waits is in line or was handed his  *)
(*     slot (NoWakeupIsLost).                                              *)
(*                                                                         *)
(* All rest on SlotInv, which says for every point of _Op.prepare_send and *)
(* send what the operation holds there and where it may be in line.  What  *)
(* ComputeJobProofs says of operations and frames is needed with it.       *)
(***************************************************************************)
EXTENDS ComputeJobProofs

LEMMA SizeType == ASSUME NEW q \in Queue PROVE Size(q) \in Nat \ {0}
BY BoundAssumption DEF Size

LEMMA FiniteOps == ASSUME NEW S, S \subseteq Op PROVE IsFiniteSet(S) /\ Cardinality(S) \in Nat
<1>1. IsFiniteSet(Op) BY FS_Interval, BoundAssumption DEF Op
<1>2. IsFiniteSet(S) BY <1>1, FS_Subset
<1>3. QED BY <1>2, FS_CardinalityType

\* The first n in a line are at most n.
LEMMA FirstOf ==
    ASSUME NEW s \in Seq(Op), NEW n \in 0..Len(s)
    PROVE  LET F == {s[i] : i \in 1..n}
           IN  F \subseteq Op /\ Cardinality(F) <= n
<1> DEFINE F == {s[i] : i \in 1..n}
           f == [i \in 1..n |-> s[i]]
<1>1. F \subseteq Op OBVIOUS
<1>2. IsFiniteSet(1..n) /\ Cardinality(1..n) = n BY FS_Interval
<1>3. f \in Surjection(1..n, F) BY DEF Surjection
<1>4. Cardinality(F) <= n BY <1>2, <1>3, FS_Surjection
<1>5. QED BY <1>1, <1>4

\* Giving slots back keeps every queue within its size.
LEMMA GiveBackTypes ==
    ASSUME SlotsOK, NEW back, GiveBack(back)
    PROVE  SlotsOK'
<1>1. ASSUME NEW q \in Queue
      PROVE  /\ holders'[q] \subseteq Op
             /\ Cardinality(holders'[q]) <= Size(q)
             /\ waiters'[q] \in Seq(Op)
  <2> DEFINE kept == holders[q] \ back[q]
             n == Passed(q, back[q])
             F == {waiters[q][i] : i \in 1..n}
  <2>1. holders[q] \subseteq Op /\ Cardinality(holders[q]) <= Size(q) /\ waiters[q] \in Seq(Op)
    BY <1>1 DEF SlotsOK
  <2>2. /\ kept \subseteq Op
        /\ Cardinality(kept) \in Nat
        /\ Cardinality(kept) <= Cardinality(holders[q])
        /\ Cardinality(holders[q]) \in Nat
    <3>1. kept \subseteq Op /\ kept \subseteq holders[q] BY <2>1
    <3>2. IsFiniteSet(holders[q]) /\ Cardinality(holders[q]) \in Nat BY <2>1, FiniteOps
    <3>3. Cardinality(kept) \in Nat BY <3>1, FiniteOps
    <3>4. Cardinality(kept) <= Cardinality(holders[q]) BY <3>1, <3>2, FS_Subset
    <3>5. QED BY <3>1, <3>2, <3>3, <3>4
  <2>3. n \in 0..Len(waiters[q]) /\ n + Cardinality(kept) <= Size(q)
    <3>1. Size(q) \in Nat /\ Len(waiters[q]) \in Nat BY <1>1, <2>1, SizeType
    <3> DEFINE room == Size(q) - Cardinality(kept)
    <3>2. n = IF room < Len(waiters[q]) THEN room ELSE Len(waiters[q]) BY DEF Passed
    <3>3. room \in Nat BY <2>1, <2>2, <3>1
    <3> HIDE DEF n, kept
    <3>4. QED BY <2>2, <3>1, <3>2, <3>3
  <2>4. F \subseteq Op /\ Cardinality(F) <= n
    <3> HIDE DEF n
    <3>1. QED BY <2>1, <2>3, FirstOf
  <2>5. holders'[q] = kept \union F /\ waiters'[q] = SubSeq(waiters[q], n + 1, Len(waiters[q]))
    BY <1>1 DEF GiveBack
  <2> HIDE DEF n, F, kept
  <2>6. Cardinality(kept \union F) <= Cardinality(kept) + Cardinality(F)
    <3>1. IsFiniteSet(kept) /\ IsFiniteSet(F) /\ Cardinality(F) \in Nat BY <2>2, <2>4, FiniteOps
    <3>2. Cardinality(kept \union F)
            = Cardinality(kept) + Cardinality(F) - Cardinality(kept \intersect F)
      BY <3>1, FS_Union
    <3>3. Cardinality(kept \intersect F) \in Nat
      BY <2>2, FiniteOps
    <3>4. QED BY <2>2, <3>1, <3>2, <3>3
  <2>7. Cardinality(F) \in Nat BY <2>4, FiniteOps
  <2>8. Cardinality(kept \union F) <= Size(q)
    <3>1. Cardinality(kept \union F) \in Nat BY <2>2, <2>4, FiniteOps
    <3>2. Size(q) \in Nat BY <1>1, SizeType
    <3>3. QED BY <2>2, <2>3, <2>4, <2>6, <2>7, <3>1, <3>2
  <2>9. waiters'[q] \in Seq(Op)
    <3>1. n + 1 \in Nat /\ n + 1 >= 1 BY <2>3
    <3>2. SubSeq(waiters[q], n + 1, Len(waiters[q])) \in Seq(Op) BY <2>1, <3>1
    <3>3. QED BY <2>5, <3>2
  <2>10. QED BY <2>2, <2>4, <2>5, <2>8, <2>9
<1>2. holders' \in [Queue -> SUBSET Op] /\ waiters' \in [Queue -> Seq(Op)]
  <2>1. holders' = [q \in Queue |-> holders'[q]] /\ waiters' = [q \in Queue |-> waiters'[q]]
    BY DEF GiveBack
  <2>2. QED BY <1>1, <2>1
<1>3. QED BY <1>1, <1>2 DEF SlotsOK

\* An operation takes the slots that are free and lines up for the next.
LEMMA AllocTypes ==
    ASSUME SlotsOK, FramesOK, FrameInv, NEW p \in Proc, AllocSlots(p)
    PROVE  SlotsOK'
<1> DEFINE o == co[p].op
           need == Need(o)
<1>1. o \in Op BY DEF AllocSlots, At, FrameInv, Frame, SendPc
<1>2. ASSUME NEW q \in Queue
      PROVE  \/ holders'[q] = holders[q]
             \/ holders'[q] = holders[q] \union {o} /\ Cardinality(holders[q]) < Size(q)
  <2> DEFINE Free(i) == Cardinality(holders[need[i]]) < Size(need[i])
             taken == {i \in co[p].step..Len(need) : \A n \in co[p].step..i : Free(n)}
  <2>1. holders' = [x \in Queue |-> IF \E i \in taken : x = need[i]
                                    THEN holders[x] \union {o} ELSE holders[x]]
    BY DEF AllocSlots
  <2>2. ASSUME NEW i \in taken PROVE Free(i)
    <3>1. co[p].step \in Nat BY DEF FramesOK, FrameRecord
    <3>2. i \in co[p].step..i BY <3>1
    <3>3. QED BY <3>2
  <2>3. ASSUME NEW i \in taken, q = need[i] PROVE Cardinality(holders[q]) < Size(q)
    BY <2>2, <2>3
  <2> HIDE DEF taken
  <2>4. QED BY <1>2, <2>1, <2>3
<1>3. holders' \in [Queue -> SUBSET Op] BY <1>1 DEF AllocSlots, SlotsOK
<1>4. ASSUME NEW q \in Queue PROVE Cardinality(holders'[q]) <= Size(q)
  <2>1. holders[q] \subseteq Op /\ Cardinality(holders[q]) <= Size(q) BY <1>4 DEF SlotsOK
  <2>2. IsFiniteSet(holders[q]) /\ Cardinality(holders[q]) \in Nat BY <2>1, FiniteOps
  <2>3. Cardinality(holders[q] \union {o})
          = IF o \in holders[q] THEN Cardinality(holders[q]) ELSE Cardinality(holders[q]) + 1
    BY <2>2, FS_AddElement
  <2>4. Size(q) \in Nat BY <1>4, SizeType
  <2> HIDE DEF o
  <2>5. CASE holders'[q] = holders[q] BY <2>1, <2>5
  <2>6. CASE holders'[q] = holders[q] \union {o} /\ Cardinality(holders[q]) < Size(q)
    <3> DEFINE c == Cardinality(holders[q])
    <3>1. Cardinality(holders'[q]) \in {c, c + 1} BY <2>3, <2>6
    <3>2. c \in Nat /\ c < Size(q) /\ Size(q) \in Nat BY <2>2, <2>4, <2>6
    <3> HIDE DEF c
    <3>3. QED BY <3>1, <3>2
  <2>7. QED BY <1>2, <1>4, <2>5, <2>6
<1>5. waiters' \in [Queue -> Seq(Op)]
  <2>1. waiters' = waiters \/ \E q : waiters' = [waiters EXCEPT ![q] = Append(@, o)]
    BY DEF AllocSlots
  <2>2. ASSUME NEW q, waiters' = [waiters EXCEPT ![q] = Append(@, o)]
        PROVE  waiters' \in [Queue -> Seq(Op)]
    <3>1. q \in Queue => Append(waiters[q], o) \in Seq(Op) BY <1>1 DEF SlotsOK
    <3>2. QED BY <2>2, <3>1 DEF SlotsOK
  <2>3. QED BY <2>1, <2>2 DEF SlotsOK
<1>6. QED BY <1>3, <1>4, <1>5 DEF SlotsOK

\* Every step takes slots, gives slots back, or leaves them alone: operations that are destroyed give
\* back what they have (not what was only handed to them), others one slot of their own.
LEMMA SlotOwners ==
    ASSUME [Next]_vars
    PROVE  \/ UNCHANGED slotVars
           \/ \E S : GiveBack(SlotsOf(S))
           \/ \E p \in Proc : /\ ReplyGot(p) \/ SlotGranted(p)
                              /\ \E q : GiveBack([x \in Queue |-> IF x = q THEN {co[p].op} ELSE {}])
           \/ \E p \in Proc : AllocSlots(p)
           \/ Restart
<1>1. ASSUME NEW p, NEW S, NEW f, Destroy(p, S, f) PROVE \E T : GiveBack(SlotsOf(T))
  BY <1>1 DEF Destroy
<1>2. ASSUME NEW p, NEW S, NEW f, NEW w, Write(p, S, f, w) PROVE \E T : GiveBack(SlotsOf(T))
  BY <1>2 DEF Write
<1>3. ASSUME NEW p, NEW f, NEW j, NEW k, NEW S, CancelJob(p, f, j, k, S)
      PROVE  \E T : GiveBack(SlotsOf(T))
  BY <1>3 DEF CancelJob
<1>4. ASSUME NEW p, Handle(p) PROVE UNCHANGED slotVars \/ \E T : GiveBack(SlotsOf(T))
  BY <1>3, <1>4 DEF Handle, RunSimulation, StartRun, RunStatus, StatusReply, ReadData, RunCancel,
                    SendOp, Reply, Goto
<1>5. ASSUME NEW p, SendSteps(p)
      PROVE  \/ UNCHANGED slotVars
             \/ \E T : GiveBack(SlotsOf(T))
             \/ /\ ReplyGot(p) \/ SlotGranted(p)
                /\ \E q : GiveBack([x \in Queue |-> IF x = q THEN {co[p].op} ELSE {}])
             \/ AllocSlots(p)
  <2>1. CASE AgentReady(p) \/ AgentWoken(p) \/ Send(p)
    BY <2>1 DEF AgentReady, AgentWoken, Send, Resume, Goto
  <2>2. CASE SlotGranted(p)
    <3>1. \/ UNCHANGED slotVars
          \/ \E q : GiveBack([x \in Queue |-> IF x = q THEN {co[p].op} ELSE {}])
      BY <2>2 DEF SlotGranted
    <3>2. QED BY <2>2, <3>1
  <2>3. CASE ReplyGot(p)
    <3>1. \/ UNCHANGED slotVars
          \/ \E S, f, w : Write(p, S, f, w)
          \/ \E q : GiveBack([x \in Queue |-> IF x = q THEN {co[p].op} ELSE {}])
      BY <2>3 DEF ReplyGot, Resume
    <3>2. QED BY <1>2, <2>3, <3>1
  <2>4. QED BY <1>5, <2>1, <2>2, <2>3 DEF SendSteps
<1>6. ASSUME NEW p, Return(p) PROVE \E T : GiveBack(SlotsOf(T))
  BY <1>1, <1>2, <1>6 DEF Return, ReturnRun, ReturnRunStatus, ReturnSingle, ReturnResult, Raise
<1>7. ASSUME NEW p, SbatchLoginNeeded(p) \/ AgentStartFails(p) \/ Request(p)
      PROVE  UNCHANGED slotVars
  BY <1>7 DEF SbatchLoginNeeded, AgentStartFails, Request, Receive, Goto
<1>8. ASSUME NEW p, NEW o, OpTimeout(p, o) PROVE \E T : GiveBack(SlotsOf(T))
  BY <1>3, <1>8 DEF OpTimeout
<1>9. CASE Environment
  <2>1. CASE \E k \in Kind : \/ AgentAlive(k) \/ SocketClose(k) \/ KillIfIdle(k)
                             \/ ReadyTimeout(k) \/ FreeResources(k)
    BY <2>1 DEF AgentAlive, SocketClose, KillIfIdle, ReadyTimeout, FreeResources
  <2>2. ASSUME NEW o, NEW r, AgentReply(o, r) PROVE UNCHANGED slotVars BY <2>2 DEF AgentReply
  <2>3. ASSUME NEW j, NEW s, AgentUpdate(j, s) PROVE \E T : GiveBack(SlotsOf(T))
    BY <2>3 DEF AgentUpdate
  <2>4. ASSUME NEW j, CacheTimeout(j) \/ Purge(j) PROVE UNCHANGED slotVars
    BY <2>4 DEF CacheTimeout, Purge
  <2>5. QED BY <1>9, <2>1, <2>2, <2>3, <2>4 DEF Environment
<1>10. CASE UNCHANGED vars BY <1>10 DEF vars, slotVars
<1>11. QED BY <1>4, <1>5, <1>6, <1>7, <1>8, <1>9, <1>10 DEF Next, Step

LEMMA SlotSteps ==
    ASSUME [Next]_vars
    PROVE  \/ UNCHANGED slotVars
           \/ \E back : GiveBack(back)
           \/ \E p \in Proc : AllocSlots(p)
           \/ Restart
BY SlotOwners

LEMMA SlotsKeep ==
    ASSUME Inductive, SlotsOK, [Next]_vars
    PROVE  SlotsOK'
<1>1. CASE UNCHANGED slotVars BY <1>1 DEF SlotsOK, slotVars
<1>2. CASE \E back : GiveBack(back) BY <1>2, GiveBackTypes
<1>3. CASE \E p \in Proc : AllocSlots(p) BY <1>3, AllocTypes DEF Inductive
<1>4. CASE Restart
  <2>1. \A q \in Queue : Cardinality(holders'[q]) = 0 BY <1>4, FS_EmptySet DEF Restart
  <2>2. holders' \in [Queue -> SUBSET Op] /\ waiters' \in [Queue -> Seq(Op)]
    <3>1. <<>> \in Seq(Op) /\ {} \in SUBSET Op OBVIOUS
    <3>2. QED BY <1>4, <3>1 DEF Restart
  <2>3. \A q \in Queue : Cardinality(holders'[q]) <= Size(q) BY <2>1, SizeType
  <2>4. QED BY <2>2, <2>3 DEF SlotsOK
<1>5. QED BY <1>1, <1>2, <1>3, <1>4, SlotSteps

\* Every variable keeps its type, and no queue hands out more slots than it
\* has (SlotQueue(maxsize) of job_supervisor.py).
THEOREM SpecTypeOK == Spec => []TypeOK
<1>1. Init => SlotsOK
  <2>1. Init => \A q \in Queue : Cardinality(holders[q]) = 0 BY FS_EmptySet DEF Init
  <2>2. QED BY <2>1, SizeType DEF Init, SlotsOK
<1>2. Inductive /\ SlotsOK /\ [Next]_vars => SlotsOK' BY SlotsKeep
<1>3. Inductive /\ DriversOK /\ SlotsOK => TypeOK BY DEF Inductive, TypeOK
<1>4. QED BY <1>1, <1>2, <1>3, InductiveHolds, PTL DEF Spec

-----------------------------------------------------------------------------
(***************************************************************************)
(* No slot is leaked, and a run directory is used by one operation at a    *)
(* time.  An operation holds the slots its coroutine has passed, is in     *)
(* line for at most one more, and what nobody will resume holds nothing.   *)
(***************************************************************************)
InLine(o, q) == \E i \in 1..Len(waiters[q]) : waiters[q][i] = o

\* An operation is in line where its coroutine awaits a slot, once, and holds none there.
Lines ==
    \A q \in Queue :
        /\ \A o \in Op : InLine(o, q) => AwaitsSlot(o, q) /\ o \notin holders[q]
        /\ \A i, j \in 1..Len(waiters[q]) : waiters[q][i] = waiters[q][j] => i = j

\* Nobody else refers to a coroutine's operation.
OneCoroutine == \A p, r \in Proc : co[p].op = co[r].op /\ co[p].op # None => p = r

\* Between these points and the next await the coroutine has the event loop, and its operation
\* cannot be destroyed.
Turns == {"agent_ready", "agent_ready_again", "alloc", "send"}
Turn(p) == co[p].pc \in Turns => running = p /\ op[co[p].op].alive

\* Before the first slot is taken, while slots are taken, and with all of them.
Before == {"agent_ready", "awaitAgent", "agentSet"}
Taking == Before \union {"alloc", "awaitSlot"}
Ready == {"agent_ready_again", "awaitAgentAgain", "agentSetAgain", "send"}

\* The slots that p's operation o holds when s is the next to take.
Holds(p) ==
    LET o == co[p].op
        need == Need(o)
        s == co[p].step
    IN  /\ co[p].pc \in Before => s = 1
        /\ co[p].pc \in Taking =>
              /\ s \in 1..Len(need) + 1
              /\ op[o].alive => \A i \in 1..s - 1 : o \in holders[need[i]]
              /\ \A i \in s..Len(need) :
                    o \in holders[need[i]] => i = s /\ co[p].pc = "awaitSlot"
        /\ co[p].pc = "awaitSlot" => s <= Len(need)
        /\ co[p].pc \in Ready /\ op[o].alive => \A i \in 1..Len(need) : o \in holders[need[i]]

\* What an agent works on, and has not started as a run, has its run directory.
AtAgent ==
    \A o \in Op : op[o].atAgent =>
        /\ op[o].alive
        /\ op[o].reply = None /\ op[o].name \in SlotOps => o \in holders[<<"run_dir", op[o].job>>]

SlotInv ==
    /\ OneCoroutine
    /\ \A p \in Proc : Turn(p) /\ Holds(p)
    /\ Lines
    /\ NoSlotLeak
    /\ AtAgent

Known(o) == op[o].name \in OpName /\ op[o].job \in Job /\ op[o].kind \in Kind

\* The slots an operation needs are different ones, its run directory among them.
LEMMA NeedFacts ==
    ASSUME NEW o \in Op, Known(o)
    PROVE  /\ Need(o) \in Seq(Queue) /\ Len(Need(o)) \in 0..3
           /\ \A i, j \in 1..Len(Need(o)) : Need(o)[i] = Need(o)[j] => i = j
           /\ op[o].name \in SlotOps =>
                2 \in 1..Len(Need(o)) /\ Need(o)[2] = <<"run_dir", op[o].job>>
<1> DEFINE n == op[o].name
           k == op[o].kind
           q1 == <<"op", k, n>>
           q2 == <<"run_dir", op[o].job>>
           q3 == <<"cpu", k>>
<1>1. n \in SlotOps => q1 \in Queue BY DEF Known, Queue
<1>2. q2 \in Queue /\ q3 \in Queue BY DEF Known, Queue
<1>3. q1 # q2 /\ q1 # q3 /\ q2 # q3 OBVIOUS
<1>4. CASE n \in CpuSlotOps
  <2>1. Need(o) = <<q1, q2, q3>> BY <1>4 DEF Need, CpuSlotOps
  <2>2. n \in SlotOps BY <1>4 DEF CpuSlotOps, SlotOps
  <2> HIDE DEF q1, q2, q3
  <2>3. <<q1, q2, q3>> \in Seq(Queue) BY <1>1, <1>2, <2>2
  <2>4. \A i, j \in 1..3 : <<q1, q2, q3>>[i] = <<q1, q2, q3>>[j] => i = j BY <1>3
  <2>5. QED BY <2>1, <2>3, <2>4 DEF q2
<1>5. CASE n = "io"
  <2>1. Need(o) = <<q1, q2>> BY <1>5 DEF Need, CpuSlotOps
  <2>2. n \in SlotOps BY <1>5 DEF SlotOps
  <2> HIDE DEF q1, q2
  <2>3. <<q1, q2>> \in Seq(Queue) BY <1>1, <1>2, <2>2
  <2>4. \A i, j \in 1..2 : <<q1, q2>>[i] = <<q1, q2>>[j] => i = j BY <1>3
  <2>5. QED BY <2>1, <2>3, <2>4 DEF q2
<1>6. CASE n \notin CpuSlotOps /\ n # "io"
  <2>1. Need(o) = <<>> BY <1>6 DEF Need
  <2>2. n \notin SlotOps BY <1>6 DEF SlotOps, CpuSlotOps
  <2>3. QED BY <2>1, <2>2
<1>7. QED BY <1>4, <1>5, <1>6

\* Nothing an operation needs changes while it keeps its name, job and driver.
LEMMA NeedSame ==
    ASSUME NEW o, op'[o].name = op[o].name, op'[o].job = op[o].job, op'[o].kind = op[o].kind
    PROVE  Need(o)' = Need(o)
BY DEF Need

\* The operation a coroutine refers to.
LEMMA ReferredKnown ==
    ASSUME Inductive, NEW p \in Proc, co[p].op # None
    PROVE  co[p].op \in Op /\ op[co[p].op] # NoOp /\ Known(co[p].op)
<1>1. co[p].op \in Op BY DEF Inductive, FramesOK, FrameRecord
<1>2. op[co[p].op] # NoOp BY DEF Inductive, FrameInv, Refers
<1>3. QED BY <1>1, <1>2 DEF Inductive, OpInv, Known

\* The only slot an operation awaits is the next its coroutine takes.
LEMMA AwaitsOne ==
    ASSUME Inductive, OneCoroutine, NEW p \in Proc, NEW o, o = co[p].op, o # None, NEW q
    PROVE  AwaitsSlot(o, q) <=> co[p].pc = "awaitSlot" /\ Need(o)[co[p].step] = q
BY DEF AwaitsSlot, OneCoroutine

\* Who gets a slot that is given back was in line for it.
LEMMA GiveBackEffect ==
    ASSUME SlotsOK, NEW back, GiveBack(back), NEW q \in Queue,
           \A i, j \in 1..Len(waiters[q]) : waiters[q][i] = waiters[q][j] => i = j
    PROVE  /\ \A o : o \in holders'[q] <=> \/ o \in holders[q] /\ o \notin back[q]
                                           \/ InLine(o, q) /\ ~InLine(o, q)'
           /\ \A o : InLine(o, q)' => InLine(o, q)
           /\ \A i, j \in 1..Len(waiters'[q]) : waiters'[q][i] = waiters'[q][j] => i = j
<1> DEFINE w == waiters[q]
           n == Passed(q, back[q])
<1>1. w \in Seq(Op) BY DEF SlotsOK
<1>2. n \in 0..Len(w)
  <2>1. /\ holders[q] \subseteq Op /\ Cardinality(holders[q]) <= Size(q) /\ Size(q) \in Nat
    BY SizeType DEF SlotsOK
  <2>2. Cardinality(holders[q] \ back[q]) \in Nat /\ Cardinality(holders[q] \ back[q]) <= Size(q)
    <3>1. IsFiniteSet(holders[q]) /\ Cardinality(holders[q]) \in Nat BY <2>1, FiniteOps
    <3>2. Cardinality(holders[q] \ back[q]) \in Nat BY <2>1, FiniteOps
    <3>3. Cardinality(holders[q] \ back[q]) <= Cardinality(holders[q]) BY <3>1, FS_Subset
    <3>4. QED BY <2>1, <3>1, <3>2, <3>3
  <2> DEFINE room == Size(q) - Cardinality(holders[q] \ back[q])
  <2>3. room \in Nat BY <2>1, <2>2
  <2>4. n = IF room < Len(w) THEN room ELSE Len(w) BY DEF Passed
  <2>5. Len(w) \in Nat BY <1>1
  <2> HIDE DEF n, room, w
  <2>6. QED BY <2>3, <2>4, <2>5
<1>3. /\ holders'[q] = (holders[q] \ back[q]) \union {w[i] : i \in 1..n}
      /\ waiters'[q] = SubSeq(w, n + 1, Len(w))
  BY DEF GiveBack
<1> HIDE DEF n
<1>4. /\ Len(waiters'[q]) = Len(w) - n
      /\ \A i \in 1..Len(w) - n : waiters'[q][i] = w[n + i]
  BY <1>1, <1>2, <1>3
<1>5. \A o : InLine(o, q)' <=> \E i \in n + 1..Len(w) : w[i] = o
  <2>1. ASSUME NEW o, NEW i \in n + 1..Len(w), w[i] = o PROVE InLine(o, q)'
    <3>1. i - n \in 1..Len(waiters'[q]) /\ waiters'[q][i - n] = o BY <1>1, <1>2, <1>4, <2>1
    <3>2. QED BY <3>1 DEF InLine
  <2>2. ASSUME NEW o, InLine(o, q)' PROVE \E i \in n + 1..Len(w) : w[i] = o
    <3>1. PICK i \in 1..Len(waiters'[q]) : waiters'[q][i] = o BY <2>2 DEF InLine
    <3>2. n + i \in n + 1..Len(w) /\ w[n + i] = o BY <1>1, <1>2, <1>4, <3>1
    <3>3. QED BY <3>2
  <2>3. QED BY <2>1, <2>2
<1>6. \A o : InLine(o, q) <=> \E i \in 1..Len(w) : w[i] = o BY DEF InLine
<1>7. \A o : o \in {w[i] : i \in 1..n} <=> InLine(o, q) /\ ~InLine(o, q)'
  <2>1. Len(w) \in Nat BY <1>1
  <2> HIDE DEF w
  <2>2. \A i, j \in 1..Len(w) : w[i] = w[j] => i = j BY DEF w
  <2>3. QED BY <1>2, <1>5, <1>6, <2>1, <2>2
<1>8. \A o : InLine(o, q)' => InLine(o, q) BY <1>1, <1>2, <1>5, <1>6
<1>9. \A i, j \in 1..Len(waiters'[q]) : waiters'[q][i] = waiters'[q][j] => i = j
  BY <1>1, <1>2, <1>4
<1>10. QED BY <1>3, <1>7, <1>8, <1>9

\* Nobody refers to a fresh operation, and no slot does.
LEMMA FreshUnused ==
    ASSUME Inductive, SlotInv, NEW c \in Op, Fresh(c)
    PROVE  /\ op[c] = NoOp /\ \A r \in Proc : co[r].op # c
           /\ \A q \in Queue : c \notin holders[q] /\ ~InLine(c, q)
<1>1. op[c] = NoOp BY DEF Fresh
<1>2. \A r \in Proc : co[r].op # c BY <1>1, ReferredKnown, NoneAssumption
<1>3. \A q : ~AwaitsSlot(c, q) BY <1>2 DEF AwaitsSlot
<1>4. ~op[c].alive BY <1>1, NoOpType
<1>5. QED BY <1>1, <1>2, <1>3, <1>4 DEF SlotInv, NoSlotLeak, Lines

LEMMA NeedLength == ASSUME NEW o PROVE Len(Need(o)) \in Nat /\ Len(Need(o)') \in Nat
BY DEF Need

SameFrame(r) == co'[r].op = co[r].op /\ co'[r].pc = co[r].pc /\ co'[r].step = co[r].step
SameNeed(o) == op'[o].name = op[o].name /\ op'[o].job = op[o].job /\ op'[o].kind = op[o].kind

\* r goes from one await to the next, or stops sending.
MovesOn(r) ==
    /\ co'[r].op = co[r].op
    /\ \/ SameFrame(r)
       \/ co'[r].step = co[r].step /\ co[r].pc \in Before /\ co'[r].pc \in Before \union {"alloc"}
       \/ co[r].pc \in Ready /\ co'[r].pc \in Ready
       \/ co[r].pc # "awaitSlot" /\ co'[r].pc \notin Taking \union Ready

LEMMA HoldsNothing ==
    ASSUME NEW r \in Proc, co'[r].pc \notin Taking \union Ready
    PROVE  Holds(r)' /\ Turn(r)'
BY DEF Holds, Turn, Turns, Before, Taking, Ready

\* r's operation o keeps its slots while it lives, and gets no other than the one it awaits.
LEMMA HoldsKept ==
    ASSUME NEW r \in Proc, NEW o \in Op, NEW need, need = Need(o), need = Need(o)', Len(need) \in Nat,
           co[r].op = o, MovesOn(r), op'[o].alive => op[o].alive,
           \A i \in 1..Len(need) :
              /\ op'[o].alive /\ o \in holders[need[i]] => o \in holders'[need[i]]
              /\ o \in holders'[need[i]] => \/ o \in holders[need[i]]
                                            \/ i = co[r].step /\ co[r].pc = "awaitSlot",
           Holds(r)
    PROVE  Holds(r)'
<1>1. co'[r].op = o BY DEF MovesOn
<1>2. CASE SameFrame(r)
  <2> DEFINE s == co[r].step
             pc == co[r].pc
  <2>1. co'[r].step = s /\ co'[r].pc = pc BY <1>2 DEF SameFrame
  <2>2. /\ pc \in Before => s = 1
        /\ pc = "awaitSlot" => s <= Len(need)
        /\ pc \in Ready /\ op[o].alive => \A i \in 1..Len(need) : o \in holders[need[i]]
    BY DEF Holds
  <2>3. pc \in Taking =>
          /\ s \in 1..Len(need) + 1
          /\ op[o].alive => \A i \in 1..s - 1 : o \in holders[need[i]]
          /\ \A i \in s..Len(need) : o \in holders[need[i]] => i = s /\ pc = "awaitSlot"
    BY DEF Holds
  <2>4. pc \in Taking =>
          /\ s \in 1..Len(need) + 1
          /\ op'[o].alive => \A i \in 1..s - 1 : o \in holders'[need[i]]
          /\ \A i \in s..Len(need) : o \in holders'[need[i]] => i = s /\ pc = "awaitSlot"
    BY <2>3
  <2> HIDE DEF s, pc
  <2>5. QED BY <1>1, <2>1, <2>2, <2>4 DEF Holds
<1>3. CASE /\ co'[r].step = co[r].step
           /\ co[r].pc \in Before /\ co'[r].pc \in Before \union {"alloc"}
  <2>1. co[r].step = 1 BY <1>3 DEF Holds
  <2>2. co[r].pc # "awaitSlot" /\ co[r].pc \in Taking BY <1>3 DEF Before, Taking
  <2>3. \A i \in 1..Len(need) : o \notin holders'[need[i]]
    BY <2>1, <2>2 DEF Holds
  <2>4. co'[r].pc \notin Ready /\ co'[r].pc # "awaitSlot" BY <1>3 DEF Before, Ready
  <2>5. co'[r].step = 1 BY <1>3, <2>1
  <2>6. QED BY <1>1, <2>3, <2>4, <2>5 DEF Holds
<1>4. CASE co[r].pc \in Ready /\ co'[r].pc \in Ready
  <2>1. co'[r].pc \notin Taking BY <1>4 DEF Before, Taking, Ready
  <2>2. QED BY <1>1, <1>4, <2>1 DEF Holds, Before, Taking
<1>5. CASE co'[r].pc \notin Taking \union Ready BY <1>5, HoldsNothing
<1>6. QED BY <1>2, <1>3, <1>4, <1>5 DEF MovesOn

\* Steps that leave slots alone, and operations but for what an agent does with them.
LEMMA QuietKeepsSlots ==
    ASSUME Inductive, SlotInv, SlotsOK, UNCHANGED slotVars,
           \A o \in Op : SameNeed(o) /\ op'[o].alive = op[o].alive,
           \A r \in Proc : MovesOn(r),
           \A r \in Proc : co'[r].pc \in Turns => running' = r /\ op[co[r].op].alive,
           AtAgent'
    PROVE  SlotInv'
<1>1. holders' = holders /\ waiters' = waiters BY DEF slotVars
<1>2. \A r \in Proc : co'[r].op = co[r].op BY DEF MovesOn
<1>3. OneCoroutine' BY <1>2 DEF SlotInv, OneCoroutine
<1>4. \A o \in Op : Need(o)' = Need(o) BY NeedSame DEF SameNeed
<1>5. \A o \in Op : \A q : AwaitsSlot(o, q)' <=> AwaitsSlot(o, q)
  <2>1. \A r \in Proc : /\ co'[r].pc = "awaitSlot" <=> co[r].pc = "awaitSlot"
                        /\ co[r].pc = "awaitSlot" => co'[r].step = co[r].step
    BY DEF MovesOn, SameFrame, Before, Ready, Taking
  <2>2. QED BY <1>2, <1>4, <2>1 DEF AwaitsSlot
<1>6. Lines'
  <2>1. \A q \in Queue : \A o : InLine(o, q)' <=> InLine(o, q) BY <1>1 DEF InLine
  <2>2. QED BY <1>1, <1>5, <2>1 DEF SlotInv, Lines
<1>7. NoSlotLeak'
  <2> SUFFICES ASSUME NEW q \in Queue, NEW o \in holders[q] PROVE op'[o].alive \/ AwaitsSlot(o, q)'
    BY <1>1 DEF NoSlotLeak
  <2>1. o \in Op BY DEF SlotsOK
  <2>2. QED BY <1>5, <2>1 DEF SlotInv, NoSlotLeak
<1>8. ASSUME NEW r \in Proc PROVE Turn(r)' /\ Holds(r)'
  <2>1. Turn(r)'
    <3>1. co[r].op \in Op \/ co'[r].pc \notin Turns
      BY DEF MovesOn, SameFrame, Turns, Before, Ready, Taking, Inductive, FrameInv, Frame, SendPc
    <3>2. QED BY <1>2, <3>1 DEF Turn
  <2>2. CASE co'[r].pc \notin Taking \union Ready BY <2>2, HoldsNothing
  <2>3. CASE co'[r].pc \in Taking \union Ready
    <3>1. PICK o \in Op : o = co[r].op
      BY <2>3 DEF MovesOn, SameFrame, Before, Ready, Taking, Inductive, FrameInv, Frame, SendPc
    <3>2. Need(o)' = Need(o) /\ op'[o].alive = op[o].alive /\ Len(Need(o)) \in Nat BY <1>4, NeedLength
    <3>3. Holds(r) BY DEF SlotInv
    <3>4. PICK need : need = Need(o) OBVIOUS
    <3>5. need = Need(o)' BY <3>2, <3>4
    <3>6. \A i \in 1..Len(need) :
             /\ op'[o].alive /\ o \in holders[need[i]] => o \in holders'[need[i]]
             /\ o \in holders'[need[i]] => \/ o \in holders[need[i]]
                                           \/ i = co[r].step /\ co[r].pc = "awaitSlot"
      BY <1>1
    <3>7. Holds(r)' BY <3>1, <3>2, <3>3, <3>4, <3>5, <3>6, HoldsKept
    <3>8. QED BY <2>1, <3>7
  <2>4. QED BY <2>1, <2>2, <2>3
<1>9. QED BY <1>3, <1>6, <1>7, <1>8 DEF SlotInv

\* Whatever is known of a new operation, it needs slots of queues there are.
LEMMA NeedQueues ==
    ASSUME NEW o \in Op, OpInv', op'[o] # NoOp
    PROVE  \A i \in 1..Len(Need(o)') : Need(o)'[i] \in Queue
<1> DEFINE n == op'[o].name
           k == op'[o].kind
           q1 == <<"op", k, n>>
           q2 == <<"run_dir", op'[o].job>>
           q3 == <<"cpu", k>>
<1>1. n \in OpName /\ k \in Kind /\ op'[o].job \in Job BY DEF OpInv
<1>2. n \in SlotOps => q1 \in Queue BY <1>1 DEF Queue
<1>3. q2 \in Queue /\ q3 \in Queue BY <1>1 DEF Queue
<1>4. CASE n \in CpuSlotOps
  <2>1. Need(o)' = <<q1, q2, q3>> BY <1>4 DEF Need, CpuSlotOps
  <2>2. n \in SlotOps BY <1>4 DEF CpuSlotOps, SlotOps
  <2> HIDE DEF q1, q2, q3
  <2>3. QED BY <1>2, <1>3, <2>1, <2>2
<1>5. CASE n = "io"
  <2>1. Need(o)' = <<q1, q2>> BY <1>5 DEF Need, CpuSlotOps
  <2>2. n \in SlotOps BY <1>5 DEF SlotOps
  <2> HIDE DEF q1, q2
  <2>3. QED BY <1>2, <1>3, <2>1, <2>2
<1>6. CASE n \notin CpuSlotOps /\ n # "io" BY <1>6 DEF Need
<1>7. QED BY <1>4, <1>5, <1>6

\* p starts to send the new operation c.
Sends(p, c) ==
    /\ Fresh(c)
    /\ co'[p].op = c /\ co'[p].pc = "agent_ready" /\ co'[p].step = 1
    /\ running' = p
    /\ op'[c] # NoOp /\ op'[c].alive /\ ~op'[c].atAgent

\* p goes on with the operation it has, or with none.
GoesWith(p) == co'[p].op \in {co[p].op, None} /\ Turn(p)' /\ Holds(p)'

LEMMA SendsHolds ==
    ASSUME OpInv', NEW p \in Proc, NEW c \in Op, Sends(p, c), \A q \in Queue : c \notin holders'[q]
    PROVE  Turn(p)' /\ Holds(p)'
<1>1. Turn(p)' BY DEF Turn, Sends
<1>2. \A i \in 1..Len(Need(c)') : Need(c)'[i] \in Queue BY NeedQueues DEF Sends
<1>3. \A i \in 1..Len(Need(c)') : c \notin holders'[Need(c)'[i]] BY <1>2
<1>4. Len(Need(c)') \in Nat BY NeedLength
<1>5. Holds(p)'
  BY <1>3, <1>4 DEF Sends, Holds, Before, Taking, Ready
<1>6. QED BY <1>1, <1>5

\* The frames but p's are left alone, and so is what they refer to.
OthersStay(p) ==
    \A r \in Proc \ {p} :
        /\ SameFrame(r) /\ co[r].pc \notin Turns
        /\ co[r].op # None => SameNeed(co[r].op)

\* Operations but c end, or go on as they are.
OpsEnd(c) ==
    \A o \in Op \ {c} :
        /\ op'[o].alive => op[o].alive
        /\ op'[o].atAgent => /\ op[o].atAgent /\ op'[o].alive
                             /\ SameNeed(o) /\ op'[o].reply = op[o].reply

\* What gives back a slot is dead or answered, and its coroutine does not await that slot;
\* what ends gives back what it holds.
BackOK(p, back) ==
    \A q \in Queue : \A o \in holders[q] :
        /\ o \in back[q] => /\ \A r \in Proc \ {p} : co[r].op = o =>
                                   ~op'[o].alive /\ ~AwaitsSlot(o, q)
                            /\ op'[o].alive => op'[o].reply # None
        /\ op[o].alive /\ ~op'[o].alive => o \in back[q] \/ AwaitsSlot(o, q)

\* A coroutine that was in line has gone on with the slot, and keeps it or gives it back.
Passes(p, back) ==
    \A q \in Queue : co[p].pc = "awaitSlot" /\ Need(co[p].op)[co[p].step] = q =>
        /\ co[p].op \in holders[q]
        /\ co[p].op \in back[q] \/ op'[co[p].op].alive

LEMMA AwaitsKept ==
    ASSUME NEW p, NEW back, OthersStay(p), p \in Proc => Passes(p, back),
           NEW o \in Op, NEW q \in Queue, AwaitsSlot(o, q)
    PROVE  \/ AwaitsSlot(o, q)'
           \/ o \in holders[q] /\ (o \in back[q] \/ op'[o].alive)
<1>1. PICK r \in Proc : co[r].op = o /\ co[r].pc = "awaitSlot" /\ Need(o)[co[r].step] = q
  BY DEF AwaitsSlot
<1>2. CASE r = p BY <1>1, <1>2 DEF Passes
<1>3. CASE r # p
  <2>1. o # None BY NoneAssumption
  <2>2. SameFrame(r) /\ SameNeed(o) BY <1>1, <1>3, <2>1 DEF OthersStay
  <2>3. Need(o)' = Need(o) BY <2>2, NeedSame DEF SameNeed
  <2>4. QED BY <1>1, <2>2, <2>3 DEF AwaitsSlot, SameFrame
<1>4. QED BY <1>2, <1>3

\* o gave back its slots of `back', and got the one it was in line for.
Handed(o, back) ==
    \A q \in Queue :
        /\ o \in holders'[q] <=> \/ o \in holders[q] /\ o \notin back[q]
                                 \/ InLine(o, q) /\ ~InLine(o, q)'
        /\ InLine(o, q)' => InLine(o, q)

\* Nobody is in a line twice.
Once ==
    \A q \in Queue : \A i, j \in 1..Len(waiters[q]) : waiters[q][i] = waiters[q][j] => i = j

NoBack == [q \in Queue |-> {}]

LEMMA GiveBackHands ==
    ASSUME SlotsOK, Lines, NEW back, GiveBack(back)
    PROVE  Once' /\ \A o : Handed(o, back)
<1>1. ASSUME NEW q \in Queue
      PROVE  /\ \A o : o \in holders'[q] <=> \/ o \in holders[q] /\ o \notin back[q]
                                             \/ InLine(o, q) /\ ~InLine(o, q)'
             /\ \A o : InLine(o, q)' => InLine(o, q)
             /\ \A i, j \in 1..Len(waiters'[q]) : waiters'[q][i] = waiters'[q][j] => i = j
  BY <1>1, GiveBackEffect DEF Lines
<1>2. QED BY <1>1 DEF Handed, Once

LEMMA NothingHanded ==
    ASSUME Lines, UNCHANGED slotVars
    PROVE  Once' /\ \A o : Handed(o, NoBack)
BY DEF slotVars, Lines, Once, Handed, InLine, NoBack

\* Coroutine r, which is suspended, keeps the slots of its operation.
LEMMA OthersHold ==
    ASSUME Inductive, SlotInv, NEW p, OthersStay(p), NEW back, BackOK(p, back),
           NEW r \in Proc \ {p},
           co[r].op # None => /\ op'[co[r].op].alive => op[co[r].op].alive
                              /\ Handed(co[r].op, back)
    PROVE  Turn(r)' /\ Holds(r)'
<1>1. SameFrame(r) /\ co[r].pc \notin Turns BY DEF OthersStay
<1>2. Turn(r)' BY <1>1 DEF SameFrame, Turn
<1>3. CASE co[r].pc \notin Taking \union Ready BY <1>1, <1>3, HoldsNothing DEF SameFrame
<1>4. CASE co[r].pc \in Taking \union Ready
  <2>1. PICK o \in Op : o = co[r].op
    BY <1>4 DEF Before, Taking, Ready, Inductive, FrameInv, Frame, SendPc
  <2>2. o # None BY NoneAssumption
  <2>3. Need(o)' = Need(o) BY <2>1, <2>2, NeedSame DEF OthersStay, SameNeed
  <2>4. PICK need : need = Need(o) OBVIOUS
  <2>5. need = Need(o)' /\ Len(need) \in Nat BY <2>3, <2>4, NeedLength
  <2>6. /\ \A i \in 1..Len(need) : need[i] \in Queue
        /\ \A i, j \in 1..Len(need) : need[i] = need[j] => i = j
    <3>1. Known(o) BY <2>1, <2>2, ReferredKnown
    <3>2. need \in Seq(Queue) /\ \A i, j \in 1..Len(need) : need[i] = need[j] => i = j
      BY <2>4, <3>1, NeedFacts
    <3>3. QED BY <3>2
  <2>7. Holds(r) /\ OneCoroutine BY DEF SlotInv
  <2>8. ASSUME NEW i \in 1..Len(need)
        PROVE  /\ op'[o].alive /\ o \in holders[need[i]] => o \in holders'[need[i]]
               /\ o \in holders'[need[i]] => \/ o \in holders[need[i]]
                                             \/ i = co[r].step /\ co[r].pc = "awaitSlot"
    <3>1. PICK q \in Queue : q = need[i] BY <2>6
    <3> Handed(o, back) BY <2>1, <2>2
    <3>2. /\ o \in holders'[q] <=> \/ o \in holders[q] /\ o \notin back[q]
                                   \/ InLine(o, q) /\ ~InLine(o, q)'
          /\ InLine(o, q) => AwaitsSlot(o, q)
      BY DEF Handed, SlotInv, Lines
    <3>3. op'[o].alive /\ o \in holders[q] => o \notin back[q] BY <2>1 DEF BackOK
    <3>4. ASSUME AwaitsSlot(o, q) PROVE i = co[r].step /\ co[r].pc = "awaitSlot"
      <4> r \in Proc OBVIOUS
      <4>1. co[r].pc = "awaitSlot" /\ Need(o)[co[r].step] = q
        BY <2>1, <2>2, <2>7, <3>4, AwaitsOne
      <4>2. co[r].step \in 1..Len(need)
        BY <2>1, <2>4, <2>5, <2>7, <4>1 DEF Holds, Taking
      <4>3. QED BY <2>4, <2>6, <3>1, <4>1, <4>2
    <3>5. QED BY <3>1, <3>2, <3>3, <3>4
  <2>9. MovesOn(r) BY <1>1 DEF MovesOn, SameFrame
  <2>10. Holds(r)' BY <2>1, <2>2, <2>4, <2>5, <2>7, <2>8, <2>9, HoldsKept
  <2>11. QED BY <1>2, <2>10
<1>5. QED BY <1>3, <1>4

\* Slots given back go to who is in line, and nothing else changes but what p and its operation c do.
LEMMA GiveKeepsSlots ==
    ASSUME Inductive, Inductive', SlotInv, SlotsOK', NEW back, NEW p, NEW c,
           Once', \A o : Handed(o, back),
           OthersStay(p), OpsEnd(c), BackOK(p, back), p \in Proc => Passes(p, back),
           p \in Proc => \/ c \in Op /\ Sends(p, c)
                         \/ c \notin Op /\ GoesWith(p),
           c \in Op => p \in Proc
    PROVE  SlotInv'
<1>1. ASSUME c \in Op
      PROVE  /\ Sends(p, c) /\ \A r \in Proc : co[r].op # c
             /\ \A q \in Queue : c \notin holders[q] /\ ~InLine(c, q)
  BY <1>1, FreshUnused DEF Sends
<1>2. ASSUME NEW q \in Queue, NEW o \in Op
      PROVE  /\ o \in holders'[q] <=> \/ o \in holders[q] /\ o \notin back[q]
                                      \/ InLine(o, q) /\ ~InLine(o, q)'
             /\ InLine(o, q)' => InLine(o, q)
             /\ InLine(o, q) => AwaitsSlot(o, q) /\ o \notin holders[q]
             /\ AwaitsSlot(o, q) => \/ AwaitsSlot(o, q)'
                                    \/ o \in holders[q] /\ (o \in back[q] \/ op'[o].alive)
  BY <1>2, AwaitsKept DEF Handed, SlotInv, Lines
<1>3. OneCoroutine'
  <2>1. \A r \in Proc \ {p} : co'[r].op = co[r].op BY DEF OthersStay, SameFrame
  <2>2. p \in Proc => co'[p].op \in {co[p].op, None} \/ (c \in Op /\ co'[p].op = c)
    BY DEF Sends, GoesWith
  <2>3. QED BY <1>1, <2>1, <2>2 DEF SlotInv, OneCoroutine
<1>4. Lines' BY <1>2 DEF Lines, Once
<1>5. NoSlotLeak'
  <2> SUFFICES ASSUME NEW q \in Queue, NEW o, o \in holders'[q]
               PROVE  op'[o].alive \/ AwaitsSlot(o, q)'
    BY DEF NoSlotLeak
  <2>1. o \in Op BY DEF SlotsOK
  <2>2. CASE InLine(o, q) BY <1>2, <2>1, <2>2
  <2>3. CASE o \in holders[q] /\ o \notin back[q]
    <3>1. op[o].alive \/ AwaitsSlot(o, q) BY <2>3 DEF SlotInv, NoSlotLeak
    <3>2. op[o].alive => op'[o].alive \/ AwaitsSlot(o, q) BY <2>3 DEF BackOK
    <3>3. QED BY <1>2, <2>1, <2>3, <3>1, <3>2
  <2>4. QED BY <1>2, <2>1, <2>2, <2>3
<1>6. ASSUME NEW r \in Proc PROVE Turn(r)' /\ Holds(r)'
  <2>1. CASE r # p
    <3>1. co[r].op # None => (op'[co[r].op].alive => op[co[r].op].alive)
      BY <1>1, ReferredKnown DEF OpsEnd
    <3>2. QED BY <2>1, <3>1, OthersHold
  <2>2. CASE r = p /\ c \in Op
    <3>1. \A q \in Queue : c \notin holders'[q] BY <1>1, <1>2, <2>2
    <3>2. QED BY <1>1, <2>2, <3>1, SendsHolds DEF Inductive
  <2>3. CASE r = p /\ c \notin Op BY <2>3 DEF GoesWith
  <2>4. QED BY <2>1, <2>2, <2>3
<1>7. AtAgent'
  <2> SUFFICES ASSUME NEW o \in Op, op'[o].atAgent
               PROVE  /\ op'[o].alive
                      /\ op'[o].reply = None /\ op'[o].name \in SlotOps =>
                            o \in holders'[<<"run_dir", op'[o].job>>]
    BY DEF AtAgent
  <2>1. o # c BY DEF Sends
  <2>2. /\ op[o].atAgent /\ op'[o].alive /\ op[o].alive
        /\ SameNeed(o) /\ op'[o].reply = op[o].reply
    BY <2>1 DEF OpsEnd
  <2>3. ASSUME op[o].reply = None, op[o].name \in SlotOps
        PROVE  o \in holders'[<<"run_dir", op[o].job>>]
    <3>1. op[o].job \in Job BY <2>2, <2>3, NoOpType DEF Inductive, OpInv
    <3>2. <<"run_dir", op[o].job>> \in Queue BY <3>1 DEF Queue
    <3> DEFINE q == <<"run_dir", op[o].job>>
    <3>3. o \in holders[q] BY <2>2, <2>3, <3>2 DEF SlotInv, AtAgent
    <3>4. o \notin back[q] BY <2>2, <2>3, <3>2, <3>3 DEF BackOK
    <3>5. QED BY <1>2, <3>2, <3>3, <3>4
  <2>4. QED BY <2>2, <2>3 DEF SameNeed
<1>8. QED BY <1>3, <1>4, <1>5, <1>6, <1>7 DEF SlotInv

\* What is left of an operation that was destroyed.
LEMMA OpsWithoutEnds ==
    ASSUME Inductive, NEW S, NEW p, NEW o \in Op, NEW x, x = OpsWithout(S, p)[o]
    PROVE  /\ o \notin S => x = op[o]
           /\ o \in S => ~x.alive /\ ~x.atAgent
           /\ (\E r \in Proc \ {p} : co[r].op = o) =>
                x.name = op[o].name /\ x.job = op[o].job /\ x.kind = op[o].kind
<1>1. o \notin S => x = op[o] BY DEF OpsWithout
<1>2. CASE o \in S /\ ~\E r \in Proc \ {p} : co[r].op = o
  <2>1. x = NoOp BY <1>2 DEF OpsWithout
  <2>2. QED BY <1>2, <2>1 DEF NoOp
<1>3. CASE o \in S /\ \E r \in Proc \ {p} : co[r].op = o
  <2>1. x = [op[o] EXCEPT !.alive = FALSE, !.prepared = FALSE, !.timer = FALSE,
                          !.atAgent = FALSE, !.reply = IF @ = None THEN "null" ELSE @]
    BY <1>3 DEF OpsWithout
  <2>2. op[o] \in OpRecord BY DEF Inductive, OpsOK
  <2>3. QED BY <1>3, <2>1, <2>2 DEF OpRecord
<1>4. QED BY <1>1, <1>2, <1>3

\* Destroying operations in any state of their send leaves no slot behind.
LEMMA EndKeepsSlots ==
    ASSUME Inductive, Inductive', SlotInv, SlotsOK, SlotsOK', NEW S, NEW p, NEW c,
           GiveBack(SlotsOf(S)),
           \A o \in Op \ {c} : op'[o] = OpsWithout(S, p)[o],
           \A r \in Proc \ {p} : SameFrame(r),
           running \in {p, None},
           p \in Proc => /\ co[p].pc # "awaitSlot"
                         /\ \/ c \in Op /\ Sends(p, c)
                            \/ c \notin Op /\ GoesWith(p),
           c \in Op => p \in Proc
    PROVE  SlotInv'
<1>1. ASSUME NEW o \in Op \ {c}
      PROVE  /\ o \notin S => op'[o] = op[o]
             /\ o \in S => ~op'[o].alive /\ ~op'[o].atAgent
             /\ (\E r \in Proc \ {p} : co[r].op = o) => SameNeed(o)
  BY OpsWithoutEnds DEF SameNeed
<1>2. ASSUME c \in Op
      PROVE  (\A r \in Proc : co[r].op # c) /\ \A q \in Queue : c \notin holders[q]
  BY <1>2, FreshUnused DEF Sends
<1>3. OthersStay(p)
  <2> SUFFICES ASSUME NEW r \in Proc \ {p}
               PROVE  co[r].pc \notin Turns /\ (co[r].op # None => SameNeed(co[r].op))
    BY DEF OthersStay
  <2>1. co[r].pc \notin Turns
    <3>1. r # None BY NoneAssumption DEF Proc
    <3>2. Turn(r) BY DEF SlotInv
    <3>3. QED BY <3>1, <3>2 DEF Turn
  <2>2. ASSUME co[r].op # None PROVE SameNeed(co[r].op)
    <3>1. co[r].op \in Op BY <2>2, ReferredKnown
    <3>2. co[r].op # c BY <1>2, <3>1
    <3>3. QED BY <1>1, <3>1, <3>2
  <2>3. QED BY <2>1, <2>2
<1>4. OpsEnd(c)
  <2> SUFFICES ASSUME NEW o \in Op \ {c}
               PROVE  /\ op'[o].alive => op[o].alive
                      /\ op'[o].atAgent => /\ op[o].atAgent /\ op'[o].alive
                                           /\ SameNeed(o) /\ op'[o].reply = op[o].reply
    BY DEF OpsEnd
  <2>1. op[o].atAgent => op[o].alive BY DEF SlotInv, AtAgent
  <2>2. QED BY <1>1, <2>1 DEF SameNeed
<1>5. BackOK(p, SlotsOf(S))
  <2> SUFFICES ASSUME NEW q \in Queue, NEW o \in holders[q]
               PROVE  /\ o \in SlotsOf(S)[q] => ~op'[o].alive /\ ~AwaitsSlot(o, q)
                      /\ op[o].alive /\ ~op'[o].alive => o \in SlotsOf(S)[q] \/ AwaitsSlot(o, q)
    BY DEF BackOK
  <2>1. o \in Op /\ o # c BY <1>2 DEF SlotsOK
  <2>2. o \in SlotsOf(S)[q] <=> o \in S /\ ~AwaitsSlot(o, q) BY DEF SlotsOf
  <2>3. QED BY <1>1, <2>1, <2>2
<1>6. p \in Proc => Passes(p, SlotsOf(S)) BY DEF Passes
<1>7. Once' /\ \A o : Handed(o, SlotsOf(S)) BY GiveBackHands DEF SlotInv
<1>8. QED BY <1>3, <1>4, <1>5, <1>6, <1>7, GiveKeepsSlots

LEMMA TouchedSame ==
    ASSUME FramesOK, NEW j, NEW r \in Proc
    PROVE  /\ Touched(co, j)[r].op = co[r].op
           /\ Touched(co, j)[r].pc = co[r].pc
           /\ Touched(co, j)[r].step = co[r].step
BY DEF Touched, FramesOK, FrameRecord

\* Frame f of p is done with its operation, or with the wait for its reply.
LeavesSlots(p, f) == f.op \in {co[p].op, None} /\ f.pc \notin Taking \union Ready

LEMMA DestroyKeepsSlots ==
    ASSUME Inductive, Inductive', SlotInv, SlotsOK, SlotsOK', NEW p \in Proc, NEW S, NEW f,
           running = p, co[p].pc # "awaitSlot", LeavesSlots(p, f), Destroy(p, S, f)
    PROVE  SlotInv'
<1>1. co \in [Proc -> FrameRecord] BY DEF Inductive, FramesOK
<1>2. \A r \in Proc \ {p} : SameFrame(r) BY <1>1 DEF Destroy, SameFrame
<1>3. co'[p] = f BY <1>1 DEF Destroy
<1>4. GiveBack(SlotsOf(S)) /\ op' = OpsWithout(S, p) BY DEF Destroy
<1>5. None \notin Op BY NoneAssumption
<1>6. GoesWith(p) BY <1>3, HoldsNothing DEF LeavesSlots, GoesWith
<1>7. QED BY <1>2, <1>4, <1>5, <1>6, EndKeepsSlots

LEMMA WriteKeepsSlots ==
    ASSUME Inductive, Inductive', SlotInv, SlotsOK, SlotsOK', NEW p \in Proc, NEW S, NEW f, NEW d,
           running \in {p, None}, co[p].pc # "awaitSlot", LeavesSlots(p, f), Write(p, S, f, d)
    PROVE  SlotInv'
<1>1. FramesOK BY DEF Inductive
<1>2. \A r \in Proc \ {p} : SameFrame(r) BY <1>1, TouchedSame DEF Write, SameFrame, Touched
<1>3. co'[p] = f BY <1>1 DEF Write, Touched
<1>4. GiveBack(SlotsOf(S)) /\ op' = OpsWithout(S, p) BY DEF Write
<1>5. None \notin Op BY NoneAssumption
<1>6. GoesWith(p) BY <1>3, HoldsNothing DEF LeavesSlots, GoesWith
<1>7. QED BY <1>2, <1>4, <1>5, <1>6, EndKeepsSlots

LEMMA SendsNew ==
    ASSUME NEW p \in Proc, NEW c \in Op, Fresh(c), NEW n \in OpName, NEW j, NEW k,
           op'[c] = NewOp(n, j, k), running' = p,
           co'[p].op = c, co'[p].pc = "agent_ready", co'[p].step = 1
    PROVE  Sends(p, c)
<1>1. /\ NewOp(n, j, k).name = n /\ NewOp(n, j, k).alive /\ ~NewOp(n, j, k).atAgent
      /\ NoOp.name = None
  BY DEF NewOp, NoOp
<1>2. n # None BY NoneAssumption
<1>3. QED BY <1>1, <1>2 DEF Sends

LEMMA CancelKeepsSlots ==
    ASSUME Inductive, Inductive', SlotInv, SlotsOK, SlotsOK', NEW p \in Proc,
           NEW f \in FrameRecord, NEW j, NEW k, NEW S, running \in {p, None}, co[p].pc # "awaitSlot",
           CancelJob(p, f, j, k, S)
    PROVE  SlotInv'
<1>1. PICK c \in Op :
        /\ Fresh(c)
        /\ op' = [OpsWithout(S, p) EXCEPT ![c] = NewOp("cancel", j, k)]
        /\ co' = [Touched(co, j) EXCEPT ![p] = Sending(f, c, "cancel")]
  BY DEF CancelJob
<1>2. \A o \in Op \ {c} : op'[o] = OpsWithout(S, p)[o] BY <1>1 DEF OpsWithout
<1>3. op'[c] = NewOp("cancel", j, k) BY <1>1 DEF OpsWithout
<1>4. FramesOK BY DEF Inductive
<1>5. \A r \in Proc \ {p} : SameFrame(r) BY <1>1, <1>4, TouchedSame DEF SameFrame, Touched
<1>6. co'[p].op = c /\ co'[p].pc = "agent_ready" /\ co'[p].step = 1
  BY <1>1 DEF Touched, Sending, FrameRecord
<1>7. GiveBack(SlotsOf(S)) /\ running' = p BY DEF CancelJob
<1>8. Sends(p, c) BY <1>1, <1>3, <1>6, <1>7, SendsNew DEF OpName
<1>9. QED BY <1>2, <1>5, <1>7, <1>8, EndKeepsSlots

\* Only the coroutine that has the event loop is between two awaits.
LEMMA OthersStayPut ==
    ASSUME SlotInv, NEW p, running \in {p, None}, \A r \in Proc \ {p} : SameFrame(r),
           \A r \in Proc \ {p} : co[r].op # None => SameNeed(co[r].op)
    PROVE  OthersStay(p)
<1> SUFFICES ASSUME NEW r \in Proc \ {p} PROVE co[r].pc \notin Turns
  BY DEF OthersStay
<1>1. r # None BY NoneAssumption DEF Proc
<1>2. Turn(r) BY DEF SlotInv
<1>3. QED BY <1>1, <1>2 DEF Turn

\* p gives back one slot of its operation, which is dead or answered.
LEMMA OwnBackKeepsSlots ==
    ASSUME Inductive, Inductive', SlotInv, SlotsOK, SlotsOK', NEW p \in Proc, NEW o \in Op, NEW q,
           o = co[p].op, ~op[o].alive \/ op[o].reply # None,
           GiveBack([x \in Queue |-> IF x = q THEN {o} ELSE {}]),
           co[p].pc = "awaitSlot" => Need(o)[co[p].step] = q /\ o \in holders[q],
           running = None, op' = op, \A r \in Proc \ {p} : SameFrame(r),
           co'[p].op = o, co'[p].pc \notin Taking \union Ready
    PROVE  SlotInv'
<1> DEFINE back == [x \in Queue |-> IF x = q THEN {o} ELSE {}]
<1>1. \A x \in Queue : \A y : y \in back[x] <=> x = q /\ y = o OBVIOUS
<1>2. Once' /\ \A y : Handed(y, back) BY GiveBackHands DEF SlotInv
<1> HIDE DEF back
<1>3. OthersStay(p)
  <2>1. \A r \in Proc \ {p} : co[r].op # None => SameNeed(co[r].op) BY DEF SameNeed
  <2>2. QED BY <2>1, OthersStayPut
<1>4. OpsEnd(None)
  <2>1. \A x \in Op : op[x].atAgent => op[x].alive BY DEF SlotInv, AtAgent
  <2>2. QED BY <2>1 DEF OpsEnd, SameNeed
<1>5. BackOK(p, back)
  <2>1. \A r \in Proc \ {p} : co[r].op # o
    BY NoneAssumption DEF SlotInv, OneCoroutine
  <2>2. QED BY <1>1, <2>1 DEF BackOK
<1>6. Passes(p, back) BY <1>1 DEF Passes
<1>7. GoesWith(p) BY HoldsNothing DEF GoesWith
<1>8. None \notin Op BY NoneAssumption
<1>9. QED BY <1>2, <1>3, <1>4, <1>5, <1>6, <1>7, <1>8, GiveKeepsSlots

\* p goes on, with a new operation or the one it has, and touches no other operation and no slot.
LEMMA StayKeepsSlots ==
    ASSUME Inductive, Inductive', SlotInv, SlotsOK', UNCHANGED slotVars, NEW p \in Proc, NEW c,
           running \in {p, None}, \A r \in Proc \ {p} : SameFrame(r),
           \A o \in Op \ {c} : op'[o] = op[o],
           co[p].pc = "awaitSlot" => /\ co[p].op \in holders[Need(co[p].op)[co[p].step]]
                                     /\ op'[co[p].op].alive,
           \/ c \in Op /\ Sends(p, c)
           \/ c \notin Op /\ GoesWith(p)
    PROVE  SlotInv'
<1>1. c \in Op => (\A r \in Proc : co[r].op # c) /\ \A q \in Queue : c \notin holders[q]
  BY FreshUnused DEF Sends
<1>2. OthersStay(p)
  <2>1. \A r \in Proc : co[r].op # None => co[r].op \in Op \ {c} BY <1>1, ReferredKnown
  <2>2. QED BY <2>1, OthersStayPut DEF SameNeed
<1>3. OpsEnd(c)
  <2>1. \A x \in Op : op[x].atAgent => op[x].alive BY DEF SlotInv, AtAgent
  <2>2. QED BY <2>1 DEF OpsEnd, SameNeed
<1>4. \A q \in Queue : \A o \in holders[q] : o \in Op \ {c}
  BY <1>1 DEF slotVars, SlotsOK
<1>5. BackOK(p, NoBack) BY <1>4 DEF BackOK, NoBack
<1>6. Passes(p, NoBack) BY DEF Passes, NoBack
<1>7. Once' /\ \A o : Handed(o, NoBack) BY NothingHanded DEF SlotInv
<1>8. QED BY <1>2, <1>3, <1>5, <1>6, <1>7, GiveKeepsSlots

\* Who writes to a job's record moves nobody on.
LEMMA WaitedSame ==
    ASSUME FramesOK, NEW p \in Proc, NEW r \in Proc
    PROVE  /\ Waited(p)[r].op = co[r].op /\ Waited(p)[r].pc = co[r].pc
           /\ Waited(p)[r].step = co[r].step
           /\ Waited(p) \in [Proc -> FrameRecord]
BY TouchedSame, WaitedSees DEF Waited, SeesWrite

\* An alloc that is resumed with its slot, or finds its operation destroyed.
LEMMA GrantKeepsSlots ==
    ASSUME Inductive, Inductive', SlotInv, SlotsOK, SlotsOK', NEW p \in Proc, SlotGranted(p)
    PROVE  SlotInv'
<1>1. co[p].pc = "awaitSlot" /\ running = None /\ running' = p /\ op' = op
  BY DEF SlotGranted, Woken
<1>2. PICK o \in Op : o = co[p].op
  BY <1>1 DEF Inductive, FrameInv, Frame, SendPc
<1>3. PICK s \in Nat : s = co[p].step BY DEF Inductive, FramesOK, FrameRecord
<1>4. PICK need : need = Need(o) OBVIOUS
<1>5. need = Need(o)' /\ Len(need) \in Nat BY <1>1, <1>4, NeedSame, NeedLength
<1>6. o \in holders[need[s]] BY <1>2, <1>3, <1>4 DEF SlotGranted
<1>7. FramesOK BY DEF Inductive
<1>8. Holds(p) BY DEF SlotInv
<1>9. \A r \in Proc \ {p} : SameFrame(r) BY <1>7, WaitedSame DEF SlotGranted, SameFrame
<1>10. CASE op[o].alive
  <2>1. UNCHANGED slotVars BY <1>2, <1>10 DEF SlotGranted
  <2>2. co'[p].op = o /\ co'[p].pc = "alloc" /\ co'[p].step = s + 1
    <3>1. co' = [Waited(p) EXCEPT ![p].pc = "alloc", ![p].step = @ + 1, ![p].awaited = TRUE]
      BY <1>2, <1>10 DEF SlotGranted
    <3>2. Waited(p) \in [Proc -> FrameRecord] /\ Waited(p)[p].op = o /\ Waited(p)[p].step = s
      BY <1>2, <1>3, <1>7, WaitedSame
    <3>3. QED BY <3>1, <3>2 DEF FrameRecord
  <2>3. Turn(p)' BY <1>1, <1>10, <2>2 DEF Turn
  <2>4. /\ s \in 1..Len(need)
        /\ \A i \in 1..s - 1 : o \in holders[need[i]]
        /\ \A i \in s..Len(need) : o \in holders[need[i]] => i = s
    BY <1>1, <1>2, <1>3, <1>4, <1>5, <1>8, <1>10 DEF Holds, Taking
  <2>5. /\ s + 1 \in 1..Len(need) + 1
        /\ \A i \in 1..(s + 1) - 1 : o \in holders[need[i]]
        /\ \A i \in s + 1..Len(need) : o \notin holders[need[i]]
    <3>1. s + 1 \in 1..Len(need) + 1 BY <1>5, <2>4
    <3>2. ASSUME NEW i \in 1..(s + 1) - 1 PROVE o \in holders[need[i]]
      <4>1. i \in 1..s - 1 \/ i = s BY <1>3, <3>2
      <4>2. QED BY <1>6, <2>4, <4>1
    <3>3. ASSUME NEW i \in s + 1..Len(need) PROVE o \notin holders[need[i]]
      <4>1. i \in s..Len(need) /\ i # s BY <1>3, <1>5, <3>3
      <4>2. QED BY <2>4, <4>1
    <3>4. QED BY <3>1, <3>2, <3>3
  <2>6. Holds(p)'
    <3>1. "alloc" \notin Before /\ "alloc" \in Taking /\ "alloc" \notin Ready
      BY DEF Before, Taking, Ready
    <3>2. holders' = holders BY <2>1 DEF slotVars
    <3>3. QED BY <1>5, <2>2, <2>5, <3>1, <3>2 DEF Holds
  <2>7. GoesWith(p) BY <1>2, <2>2, <2>3, <2>6 DEF GoesWith
  <2>8. None \notin Op BY NoneAssumption
  <2>9. QED BY <1>1, <1>2, <1>3, <1>4, <1>6, <1>9, <1>10, <2>1, <2>7, <2>8, StayKeepsSlots
<1>11. CASE ~op[o].alive
  <2>1. GiveBack([x \in Queue |-> IF x = need[s] THEN {o} ELSE {}])
    BY <1>2, <1>3, <1>4, <1>11 DEF SlotGranted
  <2>2. co'[p].op = o /\ co'[p].pc \in {"raise", "returned"}
    <3>1. PICK pc \in {"raise", "returned"} : co' = [Waited(p) EXCEPT ![p].pc = pc]
      BY <1>2, <1>11 DEF SlotGranted
    <3>2. Waited(p) \in [Proc -> FrameRecord] /\ Waited(p)[p].op = o
      BY <1>2, <1>7, WaitedSame
    <3>3. QED BY <3>1, <3>2 DEF FrameRecord
  <2>3. co'[p].pc \notin Taking \union Ready BY <2>2 DEF Before, Taking, Ready
  <2>4. QED BY <1>1, <1>2, <1>3, <1>4, <1>6, <1>9, <1>11, <2>1, <2>2, <2>3, OwnBackKeepsSlots
<1>12. QED BY <1>10, <1>11

\* The slots taken are those from s on, up to the first that is not free.
LEMMA TakenPrefix ==
    ASSUME NEW n \in 0..3, NEW s \in 1..n + 1, NEW F, NEW taken,
           \A i : i \in taken <=> i \in s..n /\ \A m \in s..i : m \in F
    PROVE  /\ Cardinality(taken) \in Nat /\ s + Cardinality(taken) <= n + 1
           /\ taken = s..s + Cardinality(taken) - 1
           /\ s + Cardinality(taken) <= n => s + Cardinality(taken) \notin F
<1>1. ASSUME NEW k \in s..n + 1, \A m \in s..k - 1 : m \in F, k <= n => k \notin F
      PROVE  /\ Cardinality(taken) = k - s /\ taken = s..k - 1
  <2>1. taken = s..k - 1
    <3>1. \A i \in s..n : (\A m \in s..i : m \in F) <=> i < k BY <1>1
    <3>2. \A i : i \in s..k - 1 <=> i \in s..n /\ i < k BY <1>1
    <3>3. \A i : i \in taken <=> i \in s..k - 1 BY <3>1, <3>2
    <3>4. QED BY <3>3
  <2>2. Cardinality(s..k - 1) = IF s > k - 1 THEN 0 ELSE (k - 1) - s + 1 BY FS_Interval
  <2>3. k - s \in Nat /\ (s > k - 1 <=> k = s) BY <1>1
  <2>4. Cardinality(taken) = Cardinality(s..k - 1) BY <2>1
  <2>5. QED BY <2>1, <2>2, <2>3, <2>4
<1>2. \E k \in s..n + 1 : (\A m \in s..k - 1 : m \in F) /\ (k <= n => k \notin F)
  <2>1. CASE s > n \/ s \notin F BY <2>1
  <2>2. CASE s <= n /\ s \in F /\ (s + 1 > n \/ s + 1 \notin F)
    <3>1. \A m \in s..(s + 1) - 1 : m = s OBVIOUS
    <3>2. QED BY <2>2, <3>1
  <2>3. CASE s + 1 <= n /\ s \in F /\ s + 1 \in F /\ (s + 2 > n \/ s + 2 \notin F)
    <3>1. \A m \in s..(s + 2) - 1 : m \in {s, s + 1} OBVIOUS
    <3>2. QED BY <2>3, <3>1
  <2>4. CASE s + 2 <= n /\ s \in F /\ s + 1 \in F /\ s + 2 \in F
    <3>1. s = 1 /\ n = 3 BY <2>4
    <3>2. \A m \in s..4 - 1 : m \in {s, s + 1, s + 2} BY <3>1
    <3>3. 4 \in s..n + 1 BY <3>1
    <3>4. QED BY <2>4, <3>1, <3>2, <3>3
  <2>5. QED BY <2>1, <2>2, <2>3, <2>4
<1>3. PICK k \in s..n + 1 : (\A m \in s..k - 1 : m \in F) /\ (k <= n => k \notin F) BY <1>2
<1>4. Cardinality(taken) = k - s /\ taken = s..k - 1 BY <1>1, <1>3
<1>5. PICK c \in Nat : c = k - s BY <1>3
<1>6. s + c = k BY <1>5
<1>7. PICK t : t = taken OBVIOUS
<1>8. Cardinality(t) = c /\ t = s..s + c - 1 /\ s + c <= n + 1 /\ (s + c <= n => s + c \notin F)
  BY <1>3, <1>4, <1>5, <1>6, <1>7
<1>9. QED BY <1>5, <1>7, <1>8

\* p has the first s - 1 slots that its operation o needs, and takes the others before next.
Allocs(p, o, need, s, next) ==
    /\ need = Need(o) /\ need = Need(o)'
    /\ \A i, j \in 1..Len(need) : need[i] = need[j] => i = j
    /\ \A i \in 1..s - 1 : o \in holders[need[i]]
    /\ \A i \in s..Len(need) : o \notin holders[need[i]]
    /\ next <= Len(need) => Cardinality(holders[need[next]]) >= Size(need[next])
    /\ holders' = [q \in Queue |-> IF \E i \in s..next - 1 : q = need[i]
                                   THEN holders[q] \union {o} ELSE holders[q]]
    /\ \/ /\ next <= Len(need) /\ co'[p].pc = "awaitSlot" /\ co'[p].step = next
          /\ waiters' = [waiters EXCEPT ![need[next]] = Append(@, o)]
       \/ /\ next > Len(need) /\ co'[p].pc \in {"agent_ready_again", "send"}
          /\ waiters' = waiters /\ running' = p

\* What an alloc takes, and where it lines up.
LEMMA AllocFacts ==
    ASSUME Inductive, SlotInv, SlotsOK, NEW p \in Proc, AllocSlots(p)
    PROVE  /\ running = p /\ co[p].pc = "alloc" /\ op' = op
           /\ co[p].op \in Op /\ op[co[p].op].alive /\ op[co[p].op] # NoOp /\ co[p].op # None
           /\ \A r \in Proc \ {p} : SameFrame(r)
           /\ co'[p].op = co[p].op
           /\ \E need \in Seq(Queue) : \E s \in 1..Len(need) + 1 : \E next \in s..Len(need) + 1 :
                Allocs(p, co[p].op, need, s, next)
<1>1. running = p /\ co[p].pc = "alloc" /\ op' = op BY DEF AllocSlots, At
<1>2. PICK o \in Op : o = co[p].op
  BY <1>1 DEF Inductive, FrameInv, Frame, SendPc
<1>3. o # None BY NoneAssumption
<1>4. op[o].alive BY <1>1, <1>2 DEF SlotInv, Turn, Turns
<1>5. op[o] # NoOp /\ Known(o) BY <1>2, <1>3, ReferredKnown
<1>6. PICK need : need = Need(o) OBVIOUS
<1>7. need = Need(o)' BY <1>1, <1>6, NeedSame
<1>8. /\ need \in Seq(Queue) /\ Len(need) \in 0..3
      /\ \A i, j \in 1..Len(need) : need[i] = need[j] => i = j
  BY <1>5, <1>6, NeedFacts
<1>9. PICK s : s = co[p].step OBVIOUS
<1>10. Holds(p) BY DEF SlotInv
<1>11. /\ s \in 1..Len(need) + 1
       /\ \A i \in 1..s - 1 : o \in holders[need[i]]
       /\ \A i \in s..Len(need) : o \notin holders[need[i]]
  BY <1>1, <1>2, <1>4, <1>6, <1>9, <1>10 DEF Holds, Taking
<1> DEFINE F == {i \in 1..Len(need) : Cardinality(holders[need[i]]) < Size(need[i])}
<1>12. PICK taken : taken = {i \in s..Len(need) : \A m \in s..i : m \in F} OBVIOUS
<1>13. taken = {i \in s..Len(need) :
                  \A m \in s..i : Cardinality(holders[need[m]]) < Size(need[m])}
  BY <1>8, <1>11, <1>12
<1>14. PICK next : next = s + Cardinality(taken) OBVIOUS
<1>15. /\ next \in s..Len(need) + 1 /\ taken = s..next - 1
       /\ next <= Len(need) => next \notin F
  <2>1. PICK n \in 0..3 : n = Len(need) BY <1>8
  <2> HIDE DEF F
  <2>2. (\A i : i \in taken <=> i \in s..n /\ \A m \in s..i : m \in F) /\ s \in 1..n + 1
    BY <1>11, <1>12, <2>1
  <2>3. /\ Cardinality(taken) \in Nat /\ s + Cardinality(taken) <= n + 1
        /\ taken = s..s + Cardinality(taken) - 1
        /\ s + Cardinality(taken) <= n => s + Cardinality(taken) \notin F
    BY <2>2, TakenPrefix
  <2>4. PICK c \in Nat : c = Cardinality(taken) BY <2>3
  <2>5. next = s + c /\ next <= n + 1 /\ taken = s..next - 1 /\ (next <= n => next \notin F)
    <3>1. next = s + c BY <1>14, <2>4
    <3>2. s + c <= n + 1 /\ taken = s..s + c - 1 /\ (s + c <= n => s + c \notin F)
      BY <2>3, <2>4
    <3>3. next <= n + 1 BY <3>1, <3>2
    <3>4. s + c - 1 = next - 1 BY <2>1, <2>2, <2>4, <3>1
    <3>5. taken = s..next - 1 BY <3>2, <3>4
    <3>6. next <= n => next \notin F BY <3>1, <3>2
    <3>7. QED BY <3>1, <3>3, <3>5, <3>6
  <2>6. next \in s..n + 1 BY <2>2, <2>4, <2>5
  <2>7. QED BY <2>1, <2>5, <2>6
<1>16. next <= Len(need) => Cardinality(holders[need[next]]) >= Size(need[next])
  <2> SUFFICES ASSUME next <= Len(need) PROVE Cardinality(holders[need[next]]) >= Size(need[next])
    OBVIOUS
  <2>1. next \in 1..Len(need) BY <1>8, <1>11, <1>15
  <2>2. ~(Cardinality(holders[need[next]]) < Size(need[next])) BY <1>15, <2>1
  <2>3. need[next] \in Queue BY <1>8, <2>1
  <2>4. Cardinality(holders[need[next]]) \in Nat /\ Size(need[next]) \in Nat
    BY <2>3, SizeType, FiniteOps DEF SlotsOK
  <2>5. QED BY <2>2, <2>4
<1>17. taken = {i \in co[p].step..Len(Need(co[p].op)) :
                  \A n \in co[p].step..i :
                     Cardinality(holders[Need(co[p].op)[n]]) < Size(Need(co[p].op)[n])}
  BY <1>2, <1>6, <1>9, <1>13
<1>18. holders' = [q \in Queue |-> IF \E i \in taken : q = need[i]
                                    THEN holders[q] \union {o} ELSE holders[q]]
  BY <1>2, <1>6, <1>17 DEF AllocSlots
<1>19. \/ /\ next <= Len(need)
          /\ waiters' = [waiters EXCEPT ![need[next]] = Append(@, o)]
          /\ co' = [Waited(p) EXCEPT ![p].pc = "awaitSlot", ![p].step = next]
       \/ /\ next > Len(need)
          /\ \E pc \in {"agent_ready_again", "send"} :
                co' = [co EXCEPT ![p].step = 1, ![p].awaited = FALSE, ![p].pc = pc]
          /\ waiters' = waiters /\ running' = running
  BY <1>2, <1>6, <1>9, <1>14, <1>17 DEF AllocSlots
<1>20. /\ \A r \in Proc \ {p} : SameFrame(r)
       /\ co'[p].op = o
       /\ \/ /\ next <= Len(need) /\ co'[p].pc = "awaitSlot" /\ co'[p].step = next
             /\ waiters' = [waiters EXCEPT ![need[next]] = Append(@, o)]
          \/ /\ next > Len(need) /\ co'[p].pc \in {"agent_ready_again", "send"}
             /\ waiters' = waiters /\ running' = p
  <2>1. FramesOK BY DEF Inductive
  <2>2. ASSUME co' = [Waited(p) EXCEPT ![p].pc = "awaitSlot", ![p].step = next]
        PROVE  /\ \A r \in Proc \ {p} : SameFrame(r)
               /\ co'[p].op = o /\ co'[p].pc = "awaitSlot" /\ co'[p].step = next
    BY <1>2, <2>1, <2>2, WaitedSame DEF SameFrame, FrameRecord
  <2>3. ASSUME NEW pc, co' = [co EXCEPT ![p].step = 1, ![p].awaited = FALSE, ![p].pc = pc]
        PROVE  (\A r \in Proc \ {p} : SameFrame(r)) /\ co'[p].op = o /\ co'[p].pc = pc
    BY <1>2, <2>1, <2>3 DEF SameFrame, FramesOK, FrameRecord
  <2>4. QED BY <1>1, <1>19, <2>2, <2>3
<1>21. need \in Seq(Queue) /\ s \in 1..Len(need) + 1 /\ next \in s..Len(need) + 1
  BY <1>8, <1>11, <1>15
<1>22. holders' = [q \in Queue |-> IF \E i \in s..next - 1 : q = need[i]
                                    THEN holders[q] \union {o} ELSE holders[q]]
  BY <1>15, <1>18
<1>23. Allocs(p, o, need, s, next) BY <1>6, <1>7, <1>8, <1>11, <1>16, <1>20, <1>22 DEF Allocs
<1>24. QED BY <1>1, <1>2, <1>3, <1>4, <1>5, <1>20, <1>21, <1>23

\* An operation takes slots and lines up for at most one that it does not hold.
LEMMA AllocKeepsSlots ==
    ASSUME Inductive, Inductive', SlotInv, SlotsOK, SlotsOK', NEW p \in Proc, AllocSlots(p)
    PROVE  SlotInv'
<1>1. PICK o \in Op : o = co[p].op BY AllocFacts
<1>2. /\ running = p /\ co[p].pc = "alloc" /\ op' = op
      /\ op[o].alive /\ op[o] # NoOp /\ o # None
      /\ \A r \in Proc \ {p} : SameFrame(r)
      /\ co'[p].op = o
  BY <1>1, AllocFacts
<1>3. PICK need \in Seq(Queue) : \E s \in 1..Len(need) + 1 : \E next \in s..Len(need) + 1 :
                Allocs(p, o, need, s, next)
  BY <1>1, AllocFacts
<1>4. PICK s \in 1..Len(need) + 1 : \E next \in s..Len(need) + 1 : Allocs(p, o, need, s, next)
  BY <1>3
<1>5. PICK next \in s..Len(need) + 1 : Allocs(p, o, need, s, next) BY <1>4
<1>6. Len(need) \in Nat /\ \A i \in 1..Len(need) : need[i] \in Queue BY <1>3
<1>7. /\ need = Need(o) /\ need = Need(o)'
      /\ \A i, j \in 1..Len(need) : need[i] = need[j] => i = j
      /\ \A i \in 1..s - 1 : o \in holders[need[i]]
      /\ \A i \in s..Len(need) : o \notin holders[need[i]]
  BY <1>5 DEF Allocs
<1>8. /\ \/ /\ next <= Len(need) /\ co'[p].pc = "awaitSlot" /\ co'[p].step = next
            /\ waiters' = [waiters EXCEPT ![need[next]] = Append(@, o)]
         \/ /\ next > Len(need) /\ co'[p].pc \in {"agent_ready_again", "send"}
            /\ waiters' = waiters /\ running' = p
      /\ \A q \in Queue : holders'[q] = IF \E i \in s..next - 1 : q = need[i]
                                        THEN holders[q] \union {o} ELSE holders[q]
  BY <1>5 DEF Allocs
<1>9. \A q : ~AwaitsSlot(o, q)
  BY <1>1, <1>2, AwaitsOne DEF SlotInv
<1>10. OthersStay(p)
  <2>1. \A r \in Proc \ {p} : co[r].op # None => SameNeed(co[r].op) BY <1>2 DEF SameNeed
  <2>2. QED BY <1>2, <2>1, OthersStayPut
<1>11. \A q \in Queue : \A x \in Op \ {o} : x \in holders'[q] <=> x \in holders[q] BY <1>8
<1>12. ASSUME NEW q \in Queue
       PROVE  /\ \A x \in Op \ {o} : InLine(x, q)' <=> InLine(x, q)
              /\ InLine(o, q)' => /\ next <= Len(need) /\ q = need[next]
              /\ \A i, j \in 1..Len(waiters'[q]) : waiters'[q][i] = waiters'[q][j] => i = j
  <2>1. PICK w \in Seq(Op) : w = waiters[q] BY <1>12 DEF SlotsOK
  <2>2. ~InLine(o, q) BY <1>9, <1>12 DEF SlotInv, Lines
  <2>3. \A i \in 1..Len(w) : w[i] # o BY <2>1, <2>2 DEF InLine
  <2>4. \A i, j \in 1..Len(w) : w[i] = w[j] => i = j BY <1>12, <2>1 DEF SlotInv, Lines
  <2>5. CASE waiters'[q] = w BY <2>1, <2>2, <2>4, <2>5 DEF InLine
  <2>6. CASE waiters'[q] = Append(w, o) /\ next <= Len(need) /\ q = need[next]
    <3>1. Len(Append(w, o)) = Len(w) + 1 /\ Len(w) \in Nat BY <2>1
    <3>2. \A i \in 1..Len(w) : Append(w, o)[i] = w[i] BY <2>1
    <3>3. Append(w, o)[Len(w) + 1] = o BY <2>1
    <3>4. \A i \in 1..Len(w) + 1 : i \in 1..Len(w) \/ i = Len(w) + 1 BY <3>1
    <3>5. ASSUME NEW x \in Op \ {o} PROVE InLine(x, q)' <=> InLine(x, q)
      <4>1. InLine(x, q) <=> \E i \in 1..Len(w) : w[i] = x BY <2>1 DEF InLine
      <4>2. InLine(x, q)' <=> \E i \in 1..Len(w) + 1 : Append(w, o)[i] = x
        BY <2>6, <3>1 DEF InLine
      <4>3. QED BY <3>1, <3>2, <3>3, <3>4, <4>1, <4>2
    <3>6. \A i, j \in 1..Len(w) + 1 : Append(w, o)[i] = Append(w, o)[j] => i = j
      BY <2>3, <2>4, <3>1, <3>2, <3>3, <3>4
    <3>7. \A i, j \in 1..Len(waiters'[q]) : waiters'[q][i] = waiters'[q][j] => i = j
      BY <2>6, <3>1, <3>6
    <3>8. QED BY <2>6, <3>5, <3>7
  <2>7. waiters'[q] = w \/ (waiters'[q] = Append(w, o) /\ next <= Len(need) /\ q = need[next])
    <3>1. waiters \in [Queue -> Seq(Op)] BY DEF SlotsOK
    <3>2. QED BY <1>8, <1>12, <2>1, <3>1
  <2>8. QED BY <2>5, <2>6, <2>7
<1>13. next <= Len(need) => /\ AwaitsSlot(o, need[next])' /\ o \notin holders'[need[next]]
                            /\ co'[p].pc = "awaitSlot" /\ co'[p].step = next
  <2> SUFFICES ASSUME next <= Len(need)
               PROVE  /\ AwaitsSlot(o, need[next])' /\ o \notin holders'[need[next]]
                      /\ co'[p].pc = "awaitSlot" /\ co'[p].step = next
    OBVIOUS
  <2>1. co'[p].pc = "awaitSlot" /\ co'[p].step = next BY <1>6, <1>8
  <2>2. AwaitsSlot(o, need[next])' BY <1>2, <1>7, <2>1 DEF AwaitsSlot
  <2>3. next \in s..Len(need) /\ need[next] \in Queue BY <1>6
  <2>4. \A i \in s..next - 1 : need[i] # need[next] BY <1>6, <1>7, <2>3
  <2>5. QED BY <1>7, <1>8, <2>1, <2>2, <2>3, <2>4
<1>14. OneCoroutine'
  <2>1. \A r \in Proc : co'[r].op = co[r].op BY <1>1, <1>2 DEF SameFrame
  <2>2. QED BY <2>1 DEF SlotInv, OneCoroutine
<1>15. ASSUME NEW q \in Queue, NEW x \in Op, AwaitsSlot(x, q)
       PROVE  AwaitsSlot(x, q)' \/ (x \in holders[q] /\ op'[x].alive)
  <2>1. Passes(p, NoBack) BY <1>2 DEF Passes
  <2>2. x \notin NoBack[q] BY DEF NoBack
  <2>3. QED BY <1>10, <1>15, <2>1, <2>2, AwaitsKept
<1>16. Lines'
  <2> SUFFICES ASSUME NEW q \in Queue, NEW x \in Op, InLine(x, q)'
               PROVE  AwaitsSlot(x, q)' /\ x \notin holders'[q]
    BY <1>12 DEF Lines
  <2>1. CASE x = o BY <1>12, <1>13, <2>1
  <2>2. CASE x # o
    <3>1. InLine(x, q) /\ x \notin holders[q] /\ AwaitsSlot(x, q)
      BY <1>12, <2>2 DEF SlotInv, Lines
    <3>2. QED BY <1>11, <1>15, <2>2, <3>1
  <2>3. QED BY <2>1, <2>2
<1>17. NoSlotLeak'
  <2> SUFFICES ASSUME NEW q \in Queue, NEW x, x \in holders'[q]
               PROVE  op'[x].alive \/ AwaitsSlot(x, q)'
    BY DEF NoSlotLeak
  <2>1. x \in Op BY DEF SlotsOK
  <2>2. CASE x = o BY <1>2, <2>2
  <2>3. CASE x # o
    <3>1. x \in holders[q] BY <1>11, <2>1, <2>3
    <3>2. op[x].alive \/ AwaitsSlot(x, q) BY <3>1 DEF SlotInv, NoSlotLeak
    <3>3. QED BY <1>2, <1>15, <2>1, <3>2
  <2>4. QED BY <2>2, <2>3
<1>18. ASSUME NEW r \in Proc \ {p} PROVE Turn(r)' /\ Holds(r)'
  <2>1. BackOK(p, NoBack) BY <1>2 DEF BackOK, NoBack
  <2>2. ASSUME co[r].op # None PROVE Handed(co[r].op, NoBack)
    <3>1. PICK x \in Op : x = co[r].op BY <2>2, ReferredKnown
    <3>2. x # o BY <1>1, <1>2, <3>1 DEF SlotInv, OneCoroutine
    <3>3. ASSUME NEW q \in Queue
          PROVE  /\ x \notin NoBack[q]
                 /\ x \in holders'[q] <=> x \in holders[q]
                 /\ InLine(x, q)' <=> InLine(x, q)
      <4>1. x \notin NoBack[q] BY DEF NoBack
      <4>2. QED BY <1>11, <1>12, <3>2, <4>1
    <3>4. Handed(x, NoBack) BY <3>3 DEF Handed
    <3>5. QED BY <3>1, <3>4
  <2>3. QED BY <1>2, <1>10, <2>1, <2>2, OthersHold
<1>19. Turn(p)' /\ Holds(p)'
  <2>1. CASE next <= Len(need)
    <3>1. co'[p].pc = "awaitSlot" /\ co'[p].step = next BY <1>13, <2>1
    <3>2. \A i \in 1..next - 1 : o \in holders'[need[i]]
      <4>1. ASSUME NEW i \in 1..next - 1 PROVE o \in holders'[need[i]]
        <5>1. PICK q \in Queue : q = need[i] BY <1>6
        <5>2. o \in holders[q] \/ i \in s..next - 1 BY <1>6, <1>7, <5>1
        <5>3. o \in holders[q] => o \in holders'[q] BY <1>8
        <5>4. ASSUME i \in s..next - 1 PROVE o \in holders'[q]
          <6>1. \E m \in s..next - 1 : q = need[m] BY <5>1, <5>4
          <6>2. QED BY <1>8, <6>1
        <5>5. QED BY <5>1, <5>2, <5>3, <5>4
      <4>2. QED BY <4>1
    <3>3. \A i \in next..Len(need) : o \in holders'[need[i]] => i = next
      <4>1. ASSUME NEW i \in next..Len(need) PROVE o \notin holders'[need[i]]
        <5>1. need[i] \in Queue /\ i \in s..Len(need) BY <1>6
        <5>2. \A m \in s..next - 1 : need[m] # need[i] BY <1>6, <1>7, <5>1
        <5>3. QED BY <1>7, <1>8, <5>1, <5>2
      <4>2. QED BY <4>1
    <3>4. "awaitSlot" \notin Before /\ "awaitSlot" \in Taking /\ "awaitSlot" \notin Ready
          /\ "awaitSlot" \notin Turns
      BY DEF Before, Taking, Ready, Turns
    <3>5. next \in 1..Len(need) + 1 BY <1>6
    <3>6. QED BY <1>2, <1>7, <2>1, <3>1, <3>2, <3>3, <3>4, <3>5 DEF Holds, Turn
  <2>2. CASE next > Len(need)
    <3>1. co'[p].pc \in {"agent_ready_again", "send"} /\ running' = p BY <1>6, <1>8, <2>2
    <3>2. ASSUME NEW i \in 1..Len(need) PROVE o \in holders'[need[i]]
      <4>1. PICK q \in Queue : q = need[i] BY <1>6
      <4>2. o \in holders[q] \/ i \in s..next - 1 BY <1>6, <1>7, <2>2, <4>1
      <4>3. o \in holders[q] => o \in holders'[q] BY <1>8
      <4>4. ASSUME i \in s..next - 1 PROVE o \in holders'[q]
          <5>1. \E m \in s..next - 1 : q = need[m] BY <4>1, <4>4
          <5>2. QED BY <1>8, <5>1
      <4>5. QED BY <4>1, <4>2, <4>3, <4>4
    <3>3. co'[p].pc \notin Before /\ co'[p].pc \notin Taking /\ co'[p].pc # "awaitSlot"
      BY <3>1 DEF Before, Taking
    <3>4. QED BY <1>2, <1>7, <3>1, <3>2, <3>3 DEF Holds, Turn
  <2>3. QED BY <1>6, <2>1, <2>2
<1>20. AtAgent'
  <2>1. \A q \in Queue : holders[q] \subseteq holders'[q] BY <1>8
  <2>2. ASSUME NEW x \in Op, op[x].atAgent
        PROVE  op[x].alive /\ <<"run_dir", op[x].job>> \in Queue
    <3>1. op[x].alive BY <2>2 DEF SlotInv, AtAgent
    <3>2. op[x].job \in Job BY <3>1, NoOpType DEF Inductive, OpInv
    <3>3. QED BY <3>1, <3>2 DEF Queue
  <2>3. QED BY <1>2, <2>1, <2>2 DEF SlotInv, AtAgent
<1>21. QED BY <1>14, <1>16, <1>17, <1>18, <1>19, <1>20 DEF SlotInv

LEMMA AtAgentSame ==
    ASSUME SlotInv, op' = op, holders' = holders
    PROVE  AtAgent'
BY DEF SlotInv, AtAgent

\* Coroutines go on to their next await.
LEMMA FramesKeepSlots ==
    ASSUME Inductive, SlotInv, SlotsOK, UNCHANGED slotVars, op' = op,
           \A r \in Proc : MovesOn(r),
           \A r \in Proc : co'[r].pc \in Turns => running' = r /\ op[co[r].op].alive
    PROVE  SlotInv'
<1>1. AtAgent' BY AtAgentSame DEF slotVars
<1>2. \A o \in Op : SameNeed(o) /\ op'[o].alive = op[o].alive BY DEF SameNeed
<1>3. QED BY <1>1, <1>2, QuietKeepsSlots

\* p goes on; the others wait.
LEMMA OneMoves ==
    ASSUME SlotInv, NEW p \in Proc, running \in {p, None}, \A r \in Proc \ {p} : SameFrame(r),
           MovesOn(p), co'[p].pc \in Turns => running' = p /\ op[co[p].op].alive
    PROVE  /\ \A r \in Proc : MovesOn(r)
           /\ \A r \in Proc : co'[r].pc \in Turns => running' = r /\ op[co[r].op].alive
<1>1. ASSUME NEW r \in Proc \ {p} PROVE MovesOn(r) /\ co'[r].pc \notin Turns
  <2>1. SameFrame(r) /\ r # None /\ Turn(r) BY NoneAssumption DEF Proc, SlotInv
  <2>2. QED BY <2>1 DEF MovesOn, SameFrame, Turn
<1>2. QED BY <1>1

LEMMA OneKeepsSlots ==
    ASSUME Inductive, SlotInv, SlotsOK, UNCHANGED slotVars, op' = op, NEW p \in Proc,
           running \in {p, None}, \A r \in Proc \ {p} : SameFrame(r),
           MovesOn(p), co'[p].pc \in Turns => running' = p /\ op[co[p].op].alive
    PROVE  SlotInv'
BY OneMoves, FramesKeepSlots

\* p is where it can only go on to pc.
LEMMA GotoKeepsSlots ==
    ASSUME Inductive, SlotInv, SlotsOK, NEW p \in Proc, running \in {p, None}, running' = p, NEW pc,
           UNCHANGED slotVars, op' = op, co' = [co EXCEPT ![p].pc = pc],
           \/ co[p].pc \in {"agent_ready", "agentSet"} /\ pc = "alloc" /\ op[co[p].op].alive
           \/ co[p].pc \in {"agent_ready_again", "agentSetAgain"} /\ pc = "send" /\ op[co[p].op].alive
           \/ co[p].pc # "awaitSlot" /\ pc \notin Taking \union Ready
    PROVE  SlotInv'
<1>1. \A r \in Proc \ {p} : SameFrame(r) BY DEF Inductive, FramesOK, SameFrame
<1>2. co'[p].op = co[p].op /\ co'[p].pc = pc /\ co'[p].step = co[p].step
  BY DEF Inductive, FramesOK, FrameRecord
<1>3. MovesOn(p) BY <1>2 DEF MovesOn, Before, Taking, Ready
<1>4. pc \in Turns => op[co[p].op].alive BY DEF Turns, Before, Taking, Ready
<1>5. QED BY <1>1, <1>2, <1>3, <1>4, OneKeepsSlots

LEMMA AgentReadyKeepsSlots ==
    ASSUME Inductive, SlotInv, SlotsOK, NEW p \in Proc, AgentReady(p)
    PROVE  SlotInv'
<1>1. running = p /\ co[p].pc \in {"agent_ready", "agent_ready_again"} /\ op' = op /\ UNCHANGED slotVars
  BY DEF AgentReady, Goto
<1>2. op[co[p].op].alive BY <1>1 DEF SlotInv, Turn, Turns
<1>3. CASE driver[op[co[p].op].kind].ready
  <2>1. co' = [co EXCEPT ![p].pc = IF co[p].pc = "agent_ready_again" THEN "send" ELSE "alloc"]
        /\ running' = p
    BY <1>1, <1>3 DEF AgentReady, Goto
  <2>2. QED BY <1>1, <1>2, <2>1, GotoKeepsSlots
<1>4. CASE ~driver[op[co[p].op].kind].ready
  <2>1. co' = [co EXCEPT ![p].pc =
                  IF co[p].pc = "agent_ready_again" THEN "awaitAgentAgain" ELSE "awaitAgent"]
    BY <1>1, <1>4 DEF AgentReady, Goto
  <2>2. \A r \in Proc \ {p} : SameFrame(r) BY <2>1 DEF Inductive, FramesOK, SameFrame
  <2>3. /\ co'[p].op = co[p].op /\ co'[p].step = co[p].step
        /\ co'[p].pc = IF co[p].pc = "agent_ready_again" THEN "awaitAgentAgain" ELSE "awaitAgent"
    BY <2>1 DEF Inductive, FramesOK, FrameRecord
  <2>4. MovesOn(p) /\ co'[p].pc \notin Turns BY <1>1, <2>3 DEF MovesOn, Before, Ready, Turns
  <2>5. QED BY <1>1, <2>2, <2>4, OneKeepsSlots
<1>5. QED BY <1>3, <1>4

\* An agent gets an operation, with its run directory if it needs one.
LEMMA SendKeepsSlots ==
    ASSUME Inductive, SlotInv, SlotsOK, NEW p \in Proc, Send(p)
    PROVE  SlotInv'
<1>1. running = p /\ co[p].pc = "send" /\ UNCHANGED slotVars BY DEF Send, At
<1>2. PICK o \in Op : o = co[p].op BY <1>1 DEF Inductive, FrameInv, Frame, SendPc
<1>3. op[o].alive /\ Holds(p) BY <1>1, <1>2 DEF SlotInv, Turn, Turns
<1>4. \A r \in Proc \ {p} : SameFrame(r) BY DEF Send, Inductive, FramesOK, SameFrame
<1>5. co'[p].op = co[p].op /\ co'[p].pc \in {"awaitReply", "returned"}
  BY DEF Send, Inductive, FramesOK, FrameRecord
<1>6. MovesOn(p) /\ co'[p].pc \notin Turns BY <1>1, <1>5 DEF MovesOn, Taking, Before, Ready, Turns
<1>7. \A x \in Op : /\ SameNeed(x) /\ op'[x].alive = op[x].alive /\ op'[x].reply = op[x].reply
                    /\ x # o => op'[x].atAgent = op[x].atAgent
  <2>1. PICK a, t : op' = [op EXCEPT ![o].prepared = TRUE, ![o].atAgent = a, ![o].timer = t]
    BY <1>2 DEF Send
  <2>2. op \in [Op -> OpRecord] BY DEF Inductive, OpsOK
  <2>3. op'[o] = [op[o] EXCEPT !.prepared = TRUE, !.atAgent = a, !.timer = t]
    BY <2>1, <2>2 DEF OpRecord
  <2>4. \A x \in Op \ {o} : op'[x] = op[x] BY <2>1, <2>2
  <2>5. SameNeed(o) /\ op'[o].alive = op[o].alive /\ op'[o].reply = op[o].reply
    BY <2>2, <2>3 DEF OpRecord, SameNeed
  <2>6. QED BY <2>4, <2>5 DEF SameNeed
<1>8. op[o].name \in SlotOps => o \in holders[<<"run_dir", op[o].job>>]
  <2>1. Known(o) BY <1>2, ReferredKnown, NoneAssumption
  <2>2. op[o].name \in SlotOps => 2 \in 1..Len(Need(o)) /\ Need(o)[2] = <<"run_dir", op[o].job>>
    BY <2>1, NeedFacts
  <2>3. \A i \in 1..Len(Need(o)) : o \in holders[Need(o)[i]]
    BY <1>1, <1>2, <1>3 DEF Holds, Ready
  <2>4. QED BY <2>2, <2>3
<1>9. AtAgent'
  <2> SUFFICES ASSUME NEW x \in Op, op'[x].atAgent
               PROVE  /\ op'[x].alive
                      /\ op'[x].reply = None /\ op'[x].name \in SlotOps =>
                            x \in holders'[<<"run_dir", op'[x].job>>]
    BY DEF AtAgent
  <2>1. holders' = holders BY <1>1 DEF slotVars
  <2>2. CASE x = o BY <1>3, <1>7, <1>8, <2>1, <2>2 DEF SameNeed
  <2>3. CASE x # o BY <1>7, <2>1, <2>3 DEF SameNeed, SlotInv, AtAgent
  <2>4. QED BY <2>2, <2>3
<1>10. (\A r \in Proc : MovesOn(r))
       /\ \A r \in Proc : co'[r].pc \in Turns => running' = r /\ op[co[r].op].alive
  BY <1>1, <1>4, <1>6, OneMoves
<1>11. QED BY <1>1, <1>7, <1>9, <1>10, QuietKeepsSlots

-----------------------------------------------------------------------------
\* A handler's coroutine has no operation yet.
LEMMA HandlerHasNone ==
    ASSUME Inductive, NEW p \in Proc, co[p].pc \in HandlerPc
    PROVE  co[p].op = None /\ co[p].pc # "awaitSlot" /\ co[p].pc \notin Taking \union Ready
BY DEF Inductive, FrameInv, Frame, HandlerPc, Api, Before, Taking, Ready

LEMMA HandlerPcHoldsNothing == \A pc \in HandlerPc : pc \notin Taking \union Ready
BY DEF HandlerPc, Api, Before, Taking, Ready

LEMMA ReplyKeepsSlots ==
    ASSUME Inductive, SlotInv, SlotsOK, NEW p \in Proc, running = p, co[p].pc \in HandlerPc, Reply(p)
    PROVE  SlotInv'
<1>1. UNCHANGED slotVars /\ op' = op BY DEF Reply
<1>2. \A r \in Proc \ {p} : SameFrame(r) BY DEF Reply, Finished, Inductive, FramesOK, SameFrame
<1>3. co'[p].op = None /\ co'[p].pc = "idle" BY DEF Reply, Finished, Inductive, FramesOK, IdleFrame
<1>4. MovesOn(p) /\ co'[p].pc \notin Turns
  BY <1>3, HandlerHasNone DEF MovesOn, Before, Taking, Ready, Turns
<1>5. QED BY <1>1, <1>2, <1>4, OneKeepsSlots

LEMMA HandlerGotoKeepsSlots ==
    ASSUME Inductive, SlotInv, SlotsOK, NEW p \in Proc, running = p, co[p].pc \in HandlerPc,
           NEW pc \in HandlerPc, Goto(p, pc)
    PROVE  SlotInv'
<1>1. running' = p /\ UNCHANGED slotVars /\ op' = op /\ co' = [co EXCEPT ![p].pc = pc] BY DEF Goto
<1>2. co[p].pc # "awaitSlot" /\ pc \notin Taking \union Ready
  BY HandlerHasNone, HandlerPcHoldsNothing
<1>3. QED BY <1>1, <1>2, GotoKeepsSlots

LEMMA ReceiveKeepsSlots ==
    ASSUME Inductive, SlotInv, SlotsOK, NEW p \in Proc, NEW a \in Api, NEW j, NEW h, NEW serial, NEW force,
           Receive(p, a, j, h, serial, force)
    PROVE  SlotInv'
<1>1. running = None /\ running' = p /\ co[p].pc = "idle" /\ UNCHANGED slotVars /\ op' = op
  BY DEF Receive
<1>2. \A r \in Proc \ {p} : SameFrame(r) BY DEF Receive, Inductive, FramesOK, SameFrame
<1>3. co'[p].op = None /\ co'[p].pc = a BY DEF Receive, Inductive, FramesOK, IdleFrame
<1>4. co[p].op = None BY <1>1 DEF Inductive, FrameInv, Frame, IdleFrame
<1>5. a \in HandlerPc BY DEF HandlerPc
<1>6. a \notin Taking \union Ready BY <1>5, HandlerPcHoldsNothing
<1>7. MovesOn(p) BY <1>1, <1>3, <1>4, <1>6 DEF MovesOn
<1>8. co'[p].pc \notin Turns BY <1>3, <1>6 DEF Turns, Before, Taking, Ready
<1>9. QED BY <1>1, <1>2, <1>7, <1>8, OneKeepsSlots

\* A handler creates an operation and starts to send it.
LEMMA CreateKeepsSlots ==
    ASSUME Inductive, Inductive', SlotInv, SlotsOK', UNCHANGED slotVars, NEW p \in Proc, running = p,
           running' = p, co[p].pc \in HandlerPc, NEW c \in Op, Fresh(c), NEW n \in OpName, NEW j, NEW k,
           op' = [op EXCEPT ![c] = NewOp(n, j, k)], \A r \in Proc \ {p} : SameFrame(r),
           co'[p].op = c, co'[p].pc = "agent_ready", co'[p].step = 1
    PROVE  SlotInv'
<1>1. op'[c] = NewOp(n, j, k) /\ \A o \in Op \ {c} : op'[o] = op[o] BY DEF Inductive, OpsOK
<1>2. Sends(p, c) BY <1>1, SendsNew
<1>3. co[p].pc # "awaitSlot" BY HandlerHasNone
<1>4. QED BY <1>1, <1>2, <1>3, StayKeepsSlots

LEMMA SendOpKeepsSlots ==
    ASSUME Inductive, Inductive', SlotInv, SlotsOK', NEW p \in Proc, running = p, co[p].pc \in HandlerPc,
           NEW f \in FrameRecord, NEW n \in OpName, NEW cont, SendOp(p, f, n, cont)
    PROVE  SlotInv'
<1>1. PICK o \in Op : /\ Fresh(o)
                      /\ op' = [op EXCEPT ![o] = NewOp(n, f.job, KindOf(f.job, n))]
                      /\ co' = [co EXCEPT ![p] = Sending(f, o, cont)]
  BY DEF SendOp
<1>2. running' = p /\ UNCHANGED slotVars BY DEF SendOp
<1>3. \A r \in Proc \ {p} : SameFrame(r) BY <1>1 DEF Inductive, FramesOK, SameFrame
<1>4. co'[p].op = o /\ co'[p].pc = "agent_ready" /\ co'[p].step = 1
  BY <1>1 DEF Inductive, FramesOK, Sending, FrameRecord
<1>5. QED BY <1>1, <1>2, <1>3, <1>4, CreateKeepsSlots

LEMMA StartRunKeepsSlots ==
    ASSUME Inductive, Inductive', SlotInv, SlotsOK', NEW p \in Proc, StartRun(p)
    PROVE  SlotInv'
<1> DEFINE j == co[p].job
<1>1. PICK o \in Op : /\ Fresh(o)
                      /\ op' = [op EXCEPT ![o] = NewOp("run", j, KindOf(j, "run"))]
                      /\ co' = [Touched(co, j) EXCEPT ![p] =
                         [Sending(co[p], o, "run") EXCEPT !.serial = clock + 1, !.fresh = TRUE,
                                                          !.run = FALSE, !.force = FALSE]]
  BY DEF StartRun
<1> DEFINE s == Sending(co[p], o, "run")
           x == [s EXCEPT !.serial = clock + 1, !.fresh = TRUE, !.run = FALSE, !.force = FALSE]
<1>2. /\ running = p /\ running' = p /\ UNCHANGED slotVars /\ co[p].pc \in HandlerPc
      /\ "run" \in OpName
  BY DEF StartRun, At, HandlerPc, OpName
<1>3. FramesOK BY DEF Inductive
<1>4. \A r \in Proc \ {p} : SameFrame(r) BY <1>1, <1>3, TouchedSame DEF SameFrame, Touched
<1>5. x.op = o /\ x.pc = "agent_ready" /\ x.step = 1
  <2>0. co[p] \in FrameRecord BY <1>3 DEF FramesOK
  <2>1. s.op = o /\ s.pc = "agent_ready" /\ s.step = 1 BY <2>0 DEF Sending, FrameRecord
  <2>2. "run" \in Cont /\ "run_status" \in Cont BY DEF Cont
  <2>3. s \in FrameRecord BY <1>1, <2>0, <2>2, SendingType
  <2> HIDE DEF s
  <2>4. QED BY <2>1, <2>3 DEF FrameRecord
<1>6. co'[p] = x BY <1>1 DEF Touched
<1> HIDE DEF x
<1>7. QED BY <1>1, <1>2, <1>4, <1>5, <1>6, CreateKeepsSlots

LEMMA RunStatusKeepsSlots ==
    ASSUME Inductive, Inductive', SlotInv, SlotsOK, SlotsOK', NEW p \in Proc, RunStatus(p)
    PROVE  SlotInv'
<1> DEFINE j == co[p].job
<1>1. running = p /\ co[p].pc \in HandlerPc /\ "status_reply" \in HandlerPc /\ "run_status" \in OpName
  BY DEF RunStatus, At, HandlerPc, Api, OpName
<1>2. CASE Goto(p, "status_reply") BY <1>1, <1>2, HandlerGotoKeepsSlots
<1>3. CASE ~Goto(p, "status_reply")
  <2>1. PICK o \in Op : /\ Fresh(o)
                        /\ op' = [op EXCEPT ![o] = NewOp("run_status", j, KindOf(j, "run_status"))]
                        /\ co' = [co EXCEPT ![p] = [Sending(co[p], o, "run_status") EXCEPT !.fresh = TRUE]]
    BY <1>3 DEF RunStatus
  <2> DEFINE s == Sending(co[p], o, "run_status")
             x == [s EXCEPT !.fresh = TRUE]
  <2>2. running' = p /\ UNCHANGED slotVars BY <1>1, <1>3 DEF RunStatus
  <2>3. FramesOK BY DEF Inductive
  <2>4. \A r \in Proc \ {p} : SameFrame(r) BY <2>1, <2>3 DEF FramesOK, SameFrame
  <2>5. x.op = o /\ x.pc = "agent_ready" /\ x.step = 1
    <3>0. co[p] \in FrameRecord BY <2>3 DEF FramesOK
    <3>1. s.op = o /\ s.pc = "agent_ready" /\ s.step = 1 BY <3>0 DEF Sending, FrameRecord
    <3>2. "run" \in Cont /\ "run_status" \in Cont BY DEF Cont
    <3>3. s \in FrameRecord BY <2>1, <3>0, <3>2, SendingType
    <3> HIDE DEF s
    <3>4. QED BY <3>1, <3>3 DEF FrameRecord
  <2>6. co'[p] = x BY <2>1, <2>3 DEF FramesOK
  <2> HIDE DEF x
  <2>7. QED BY <1>1, <2>1, <2>2, <2>4, <2>5, <2>6, CreateKeepsSlots
<1>4. QED BY <1>2, <1>3

LEMMA HandleKeepsSlots ==
    ASSUME Inductive, Inductive', SlotInv, SlotsOK, SlotsOK', NEW p \in Proc, Handle(p)
    PROVE  SlotInv'
<1>1. co[p] \in FrameRecord /\ Only(co[p]) \in FrameRecord BY OnlyType DEF Inductive, FramesOK
<1>2. /\ "analysis" \in OpName /\ "io" \in OpName
      /\ "run_status" \in HandlerPc /\ "start_run" \in HandlerPc
  BY DEF OpName, HandlerPc
<1>3. CASE RunSimulation(p)
  <2>1. running = p /\ co[p].pc \in HandlerPc BY <1>3 DEF RunSimulation, At, HandlerPc, Api
  <2>2. Reply(p) \/ Goto(p, "run_status") \/ Goto(p, "start_run") BY <1>3 DEF RunSimulation
  <2>3. QED BY <1>2, <2>1, <2>2, ReplyKeepsSlots, HandlerGotoKeepsSlots
<1>4. CASE StartRun(p) BY <1>4, StartRunKeepsSlots
<1>5. CASE RunStatus(p) BY <1>5, RunStatusKeepsSlots
<1>6. CASE StatusReply(p)
  <2>1. running = p /\ co[p].pc \in HandlerPc BY <1>6 DEF StatusReply, At, HandlerPc
  <2>2. Reply(p) \/ SendOp(p, co[p], "analysis", "result") BY <1>6 DEF StatusReply
  <2>3. QED BY <1>1, <1>2, <2>1, <2>2, ReplyKeepsSlots, SendOpKeepsSlots
<1>7. CASE ReadData(p)
  <2>1. running = p /\ co[p].pc \in HandlerPc BY <1>7 DEF ReadData, At, HandlerPc, Api
  <2>2. \/ Reply(p)
        \/ SendOp(p, Only(co[p]), "analysis", "single")
        \/ SendOp(p, Only(co[p]), "io", "single")
    BY <1>7 DEF ReadData
  <2>3. QED BY <1>1, <1>2, <2>1, <2>2, ReplyKeepsSlots, SendOpKeepsSlots
<1>8. CASE RunCancel(p)
  <2>1. running = p /\ co[p].pc \in HandlerPc BY <1>8 DEF RunCancel, At, HandlerPc, Api
  <2>2. \/ Reply(p)
        \/ \E j, k, S : CancelJob(p, Only(co[p]), j, k, S)
    BY <1>8 DEF RunCancel
  <2>3. co[p].pc # "awaitSlot" BY <2>1, HandlerHasNone
  <2>4. QED BY <1>1, <2>1, <2>2, <2>3, ReplyKeepsSlots, CancelKeepsSlots
<1>9. QED BY <1>3, <1>4, <1>5, <1>6, <1>7, <1>8 DEF Handle

\* p has its answer, or finds that its operation was destroyed.
LEMMA ReplyGotKeepsSlots ==
    ASSUME Inductive, Inductive', SlotInv, SlotsOK, SlotsOK', NEW p \in Proc, ReplyGot(p)
    PROVE  SlotInv'
<1>1. co[p].pc = "awaitReply" /\ running = None /\ op[co[p].op].reply # None
  BY DEF ReplyGot, Woken
<1>2. PICK o \in Op : o = co[p].op BY <1>1 DEF Inductive, FrameInv, Frame, SendPc
<1>3. "returned" \notin Taking \union Ready /\ "returned" \notin Turns
  BY DEF Before, Taking, Ready, Turns
<1>4. co[p] \in FrameRecord /\ co \in [Proc -> FrameRecord] BY DEF Inductive, FramesOK
<1>5. CASE op[o].reply = "null"
  <2>1. Resume(p, "returned") BY <1>2, <1>5 DEF ReplyGot
  <2>2. running' = p /\ UNCHANGED slotVars /\ op' = op /\ co' = [co EXCEPT ![p].pc = "returned"]
    BY <2>1 DEF Resume
  <2>3. QED BY <1>1, <1>3, <2>2, GotoKeepsSlots
<1>6. CASE op[o].reply = "run_dir_not_found"
  <2> DEFINE f == [co[p] EXCEPT !.pc = "returned", !.op = None, !.ret = "missing"]
  <2>1. f.op = None /\ f.pc = "returned" BY <1>4 DEF FrameRecord
  <2>2. \E S, d : Write(p, S, f, d) BY <1>2, <1>6 DEF ReplyGot
  <2> HIDE DEF f
  <2>3. LeavesSlots(p, f) BY <1>3, <2>1 DEF LeavesSlots
  <2>4. QED BY <1>1, <2>2, <2>3, WriteKeepsSlots
<1>7. CASE op[o].reply \notin {"null", "run_dir_not_found"}
  <2>1. /\ co' = [co EXCEPT ![p].pc = "returned", ![p].ret = op[o].reply]
        /\ running' = p /\ op' = op
        /\ UNCHANGED slotVars
             \/ \E q : GiveBack([x \in Queue |-> IF x = q THEN {o} ELSE {}])
    BY <1>2, <1>7 DEF ReplyGot
  <2>2. \A r \in Proc \ {p} : SameFrame(r) BY <1>4, <2>1 DEF SameFrame
  <2>3. co'[p].op = o /\ co'[p].pc = "returned" BY <1>2, <1>4, <2>1 DEF FrameRecord
  <2>4. CASE UNCHANGED slotVars
    <3>1. MovesOn(p) /\ co'[p].pc \notin Turns BY <1>1, <1>2, <1>3, <2>3 DEF MovesOn
    <3>2. QED BY <1>1, <2>1, <2>2, <2>4, <3>1, OneKeepsSlots
  <2>5. ASSUME NEW q, GiveBack([x \in Queue |-> IF x = q THEN {o} ELSE {}]) PROVE SlotInv'
    BY <1>1, <1>2, <1>3, <2>1, <2>2, <2>3, <2>5, OwnBackKeepsSlots
  <2>6. QED BY <2>1, <2>4, <2>5
<1>8. QED BY <1>5, <1>6, <1>7

LEMMA SendStepsKeepSlots ==
    ASSUME Inductive, Inductive', SlotInv, SlotsOK, SlotsOK', NEW p \in Proc,
           SendSteps(p) \/ SbatchLoginNeeded(p) \/ AgentStartFails(p)
    PROVE  SlotInv'
<1>1. \A pc \in {"raise", "returned"} : pc \notin Taking \union Ready
  BY DEF Before, Taking, Ready
<1>2. CASE AgentReady(p) BY <1>2, AgentReadyKeepsSlots
<1>3. CASE AgentWoken(p)
  <2>1. running = None /\ co[p].pc \in {"agentSet", "agentSetAgain"} BY <1>3 DEF AgentWoken
  <2>2. PICK pc : /\ Resume(p, pc)
                  /\ pc = IF ~op[co[p].op].alive THEN "returned"
                          ELSE IF co[p].pc = "agentSet" THEN "alloc" ELSE "send"
    BY <1>3 DEF AgentWoken
  <2>3. running' = p /\ UNCHANGED slotVars /\ op' = op /\ co' = [co EXCEPT ![p].pc = pc]
    BY <2>2 DEF Resume
  <2>4. QED BY <1>1, <2>1, <2>2, <2>3, GotoKeepsSlots
<1>4. CASE AllocSlots(p) BY <1>4, AllocKeepsSlots
<1>5. CASE SlotGranted(p) BY <1>5, GrantKeepsSlots
<1>6. CASE Send(p) BY <1>6, SendKeepsSlots
<1>7. CASE ReplyGot(p) BY <1>7, ReplyGotKeepsSlots
<1>8. CASE SbatchLoginNeeded(p)
  <2>1. /\ running = p /\ running' = p /\ co[p].pc = "agent_ready" /\ UNCHANGED slotVars /\ op' = op
        /\ co' = [co EXCEPT ![p].pc = "raise"]
    BY <1>8 DEF SbatchLoginNeeded, At, Goto
  <2>2. QED BY <1>1, <2>1, GotoKeepsSlots
<1>9. CASE AgentStartFails(p)
  <2>1. /\ running = None /\ running' = p /\ co[p].pc # "awaitSlot" /\ UNCHANGED slotVars /\ op' = op
        /\ co' = [co EXCEPT ![p].pc = "raise"]
    BY <1>9 DEF AgentStartFails
  <2>2. QED BY <1>1, <2>1, GotoKeepsSlots
<1>10. QED BY <1>2, <1>3, <1>4, <1>5, <1>6, <1>7, <1>8, <1>9 DEF SendSteps

\* Frames that are done with an operation.
LEMMA FramesLeave ==
    ASSUME FramesOK, NEW p \in Proc
    PROVE  LeavesSlots(p, IdleFrame) /\ \A pc \in HandlerPc : LeavesSlots(p, Without(p, pc))
<1>1. LeavesSlots(p, IdleFrame) BY DEF LeavesSlots, IdleFrame, Before, Taking, Ready
<1>2. ASSUME NEW pc \in HandlerPc PROVE LeavesSlots(p, Without(p, pc))
  <2>1. co[p] \in FrameRecord BY DEF FramesOK
  <2>2. Without(p, pc).op = None /\ Without(p, pc).pc = pc BY <2>1 DEF Without, FrameRecord
  <2>3. pc \notin Taking \union Ready BY HandlerPcHoldsNothing
  <2>4. QED BY <2>2, <2>3 DEF LeavesSlots
<1>3. QED BY <1>1, <1>2

\* p does something with the result of its send.
LEMMA ReturnKeepsSlots ==
    ASSUME Inductive, Inductive', SlotInv, SlotsOK, SlotsOK', NEW p \in Proc, Return(p)
    PROVE  SlotInv'
<1> DEFINE Frames == {IdleFrame} \union {Without(p, pc) : pc \in HandlerPc}
<1>1. /\ "run_status" \in HandlerPc /\ "status_reply" \in HandlerPc
      /\ "api_runSimulation" \in HandlerPc
  BY DEF HandlerPc, Api
<1>2. IdleFrame \in Frames /\ \A pc \in HandlerPc : Without(p, pc) \in Frames OBVIOUS
<1>3. \A f \in Frames : LeavesSlots(p, f) BY FramesLeave DEF Inductive
<1> HIDE DEF Frames
<1>4. running = p /\ co[p].pc # "awaitSlot"
  BY DEF Return, ReturnRun, ReturnRunStatus, ReturnSingle, ReturnResult, Raise, Returned, At
<1>5. \E f \in Frames : \E S : Destroy(p, S, f) \/ \E d : Write(p, S, f, d)
  <2>1. CASE ReturnRun(p) BY <1>1, <1>2, <2>1 DEF ReturnRun
  <2>2. CASE ReturnRunStatus(p) BY <1>1, <1>2, <2>2 DEF ReturnRunStatus
  <2>3. CASE ReturnSingle(p) BY <1>2, <2>3 DEF ReturnSingle
  <2>4. CASE ReturnResult(p)
    <3> DEFINE next == IF co[p].run THEN Without(p, "api_runSimulation") ELSE IdleFrame
    <3>1. next \in Frames BY <1>1, <1>2
    <3>2. \/ \E S : Destroy(p, S, next) \/ \E d : Write(p, S, next, d)
          \/ \E S : Destroy(p, S, IdleFrame)
      BY <2>4 DEF ReturnResult
    <3> HIDE DEF next
    <3>3. QED BY <1>2, <3>1, <3>2
  <2>5. CASE Raise(p) BY <1>2, <2>5 DEF Raise
  <2>6. QED BY <2>1, <2>2, <2>3, <2>4, <2>5 DEF Return
<1>6. PICK f \in Frames : \E S : Destroy(p, S, f) \/ \E d : Write(p, S, f, d) BY <1>5
<1>7. PICK S : Destroy(p, S, f) \/ \E d : Write(p, S, f, d) BY <1>6
<1>8. QED BY <1>3, <1>4, <1>7, DestroyKeepsSlots, WriteKeepsSlots

\* An agent connects, or its socket closes, or it is given up, or it answers, or a job is forgotten.
LEMMA AgentKeepsSlots ==
    ASSUME Inductive, SlotInv, SlotsOK,
           \/ \E k : AgentAlive(k) \/ SocketClose(k) \/ KillIfIdle(k) \/ ReadyTimeout(k)
           \/ \E o \in Op : \E r : r \in Answer(op[o].name) /\ op[o].name \in OpName /\ AgentReply(o, r)
           \/ \E j : CacheTimeout(j) \/ Purge(j)
           \/ UNCHANGED vars
    PROVE  SlotInv'
<1>1. \A r \in Proc : Turn(r) /\ r # None BY NoneAssumption DEF SlotInv, Proc
<1>2. ASSUME co' = co, running' = running
      PROVE  /\ \A r \in Proc : MovesOn(r)
             /\ \A r \in Proc : co'[r].pc \in Turns => running' = r /\ op[co[r].op].alive
  BY <1>1, <1>2 DEF MovesOn, SameFrame, Turn
<1>3. CASE \/ \E k : SocketClose(k) \/ KillIfIdle(k) \/ ReadyTimeout(k)
           \/ \E j : CacheTimeout(j) \/ Purge(j)
           \/ UNCHANGED vars
  <2>1. co' = co /\ running' = running /\ op' = op /\ UNCHANGED slotVars
    BY <1>3 DEF SocketClose, KillIfIdle, ReadyTimeout, CacheTimeout, Purge, vars, slotVars
  <2>2. QED BY <1>2, <2>1, FramesKeepSlots
<1>4. ASSUME NEW k, AgentAlive(k) PROVE SlotInv'
  <2>1. running = None /\ running' = running /\ op' = op /\ UNCHANGED slotVars BY <1>4 DEF AgentAlive
  <2>2. ASSUME NEW r \in Proc PROVE MovesOn(r) /\ co'[r].pc \notin Turns
    <3>1. co[r] \in FrameRecord BY DEF Inductive, FramesOK
    <3>2. co[r].pc \notin Turns BY <1>1, <2>1 DEF Turn
    <3>3. \/ co'[r] = co[r]
          \/ co[r].pc = "awaitAgent" /\ co'[r] = [co[r] EXCEPT !.pc = "agentSet"]
          \/ co[r].pc = "awaitAgentAgain" /\ co'[r] = [co[r] EXCEPT !.pc = "agentSetAgain"]
      BY <1>4 DEF AgentAlive
    <3>4. CASE co'[r] = co[r] BY <3>2, <3>4 DEF MovesOn, SameFrame
    <3>5. CASE co[r].pc = "awaitAgent" /\ co'[r] = [co[r] EXCEPT !.pc = "agentSet"]
      <4>1. co'[r].pc = "agentSet" /\ co'[r].op = co[r].op /\ co'[r].step = co[r].step
        BY <3>1, <3>5 DEF FrameRecord
      <4>2. QED BY <3>5, <4>1 DEF MovesOn, Before, Turns
    <3>6. CASE co[r].pc = "awaitAgentAgain" /\ co'[r] = [co[r] EXCEPT !.pc = "agentSetAgain"]
      <4>1. co'[r].pc = "agentSetAgain" /\ co'[r].op = co[r].op BY <3>1, <3>6 DEF FrameRecord
      <4>2. QED BY <3>6, <4>1 DEF MovesOn, Ready, Turns
    <3>7. QED BY <3>3, <3>4, <3>5, <3>6
  <2>3. QED BY <2>1, <2>2, FramesKeepSlots
<1>5. ASSUME NEW o \in Op, NEW r \in Answer(op[o].name), op[o].name \in OpName, AgentReply(o, r)
      PROVE  SlotInv'
  <2>1. co' = co /\ running' = running /\ UNCHANGED slotVars /\ op' = [op EXCEPT ![o].reply = r]
    BY <1>5 DEF AgentReply
  <2>2. r # None
    <3>1. r \in Answers BY <1>5 DEF Answers
    <3>2. QED BY <3>1, NoneAssumption
  <2>3. \A x \in Op : /\ SameNeed(x) /\ op'[x].alive = op[x].alive /\ op'[x].atAgent = op[x].atAgent
                      /\ op'[x].reply \in {op[x].reply, r}
    BY <2>1 DEF Inductive, OpsOK, OpRecord, SameNeed
  <2>4. AtAgent'
    <3>1. holders' = holders BY <2>1 DEF slotVars
    <3>2. QED BY <2>2, <2>3, <3>1 DEF SlotInv, AtAgent, SameNeed
  <2>5. QED BY <1>2, <2>1, <2>3, <2>4, QuietKeepsSlots
<1>6. QED BY <1>3, <1>4, <1>5

\* The agent reports the end of a run, or the driver lets go of everything it has.
LEMMA EndedKeepsSlots ==
    ASSUME Inductive, Inductive', SlotInv, SlotsOK, SlotsOK',
           (\E j, s : AgentUpdate(j, s)) \/ (\E k : FreeResources(k))
    PROVE  SlotInv'
<1>1. FramesOK /\ None \notin Op /\ None \notin Proc BY NoneAssumption DEF Inductive, Proc
<1>2. running = None BY DEF AgentUpdate, FreeResources
<1>3. PICK S : op' = OpsWithout(S, None) /\ GiveBack(SlotsOf(S)) BY DEF AgentUpdate, FreeResources
<1>4. \A r \in Proc : SameFrame(r)
  <2>1. co' = co \/ \E j : co' = Touched(co, j) BY DEF AgentUpdate, FreeResources
  <2>2. QED BY <1>1, <2>1, TouchedSame DEF SameFrame
<1>5. QED BY <1>1, <1>2, <1>3, <1>4, EndKeepsSlots

\* Nothing is left where nobody does anything.
LEMMA AllIdleSlots ==
    ASSUME op = [o \in Op |-> NoOp], co = [p \in Proc |-> IdleFrame],
           holders = [q \in Queue |-> {}], waiters = [q \in Queue |-> <<>>]
    PROVE  SlotInv
<1>1. OneCoroutine BY DEF OneCoroutine, IdleFrame
<1>2. \A p \in Proc : Turn(p) /\ Holds(p)
  BY DEF Turn, Turns, Holds, IdleFrame, Before, Taking, Ready
<1>3. Lines BY DEF Lines, InLine
<1>4. NoSlotLeak BY DEF NoSlotLeak
<1>5. AtAgent BY DEF AtAgent, NoOp
<1>6. QED BY <1>1, <1>2, <1>3, <1>4, <1>5 DEF SlotInv

LEMMA RestartKeepsSlots ==
    ASSUME Restart
    PROVE  SlotInv'
<1>1. OneCoroutine' BY DEF Restart, OneCoroutine, IdleFrame
<1>2. \A p \in Proc : Turn(p)' /\ Holds(p)'
  BY DEF Restart, Turn, Turns, Holds, IdleFrame, Before, Taking, Ready
<1>3. Lines'
  <2>1. \A q \in Queue : waiters'[q] = <<>> /\ Len(waiters'[q]) = 0 BY DEF Restart
  <2>2. \A q \in Queue : \A i \in 1..Len(waiters'[q]) : FALSE BY <2>1
  <2>3. QED BY <2>2 DEF Lines, InLine
<1>4. NoSlotLeak' BY DEF Restart, NoSlotLeak
<1>5. AtAgent' BY DEF Restart, AtAgent, NoOp
<1>6. QED BY <1>1, <1>2, <1>3, <1>4, <1>5 DEF SlotInv

LEMMA NextKeepsSlots ==
    ASSUME Inductive, DriversOK, SlotsOK, SlotInv, [Next]_vars
    PROVE  SlotInv'
<1>1. Inductive' /\ SlotsOK' BY NextKeeps, SlotsKeep
<1>2. ASSUME NEW p \in Req, Request(p) PROVE SlotInv'
  <2>1. PICK a \in Apis : \E j, h, serial, force : Receive(p, a, j, h, serial, force)
    BY <1>2 DEF Request
  <2>2. a \in Api /\ p \in Proc BY ApisAssumption DEF Proc
  <2>3. QED BY <2>1, <2>2, ReceiveKeepsSlots
<1>3. ASSUME NEW p \in Timer, NEW o \in Op, OpTimeout(p, o) PROVE SlotInv'
  <2> DEFINE f == [IdleFrame EXCEPT !.job = op[o].job]
  <2>1. /\ running = None /\ co[p].pc = "idle" /\ p \in Proc /\ op[o].alive
        /\ \E j, k, S : CancelJob(p, f, j, k, S)
    BY <1>3 DEF OpTimeout, Proc
  <2>2. op[o].job \in Job BY <2>1, NoOpType DEF Inductive, OpInv
  <2>3. f \in FrameRecord
    <3> DEFINE i == IdleFrame
    <3>1. i \in FrameRecord /\ f = [i EXCEPT !.job = op[o].job] BY IdleFrameType
    <3> HIDE DEF i, f
    <3>2. QED BY <2>2, <3>1 DEF FrameRecord
  <2> HIDE DEF f
  <2>4. QED BY <1>1, <2>1, <2>3, CancelKeepsSlots
<1>4. ASSUME NEW p \in Proc, Step(p) \/ SbatchLoginNeeded(p) \/ AgentStartFails(p) PROVE SlotInv'
  BY <1>1, <1>4, HandleKeepsSlots, SendStepsKeepSlots, ReturnKeepsSlots DEF Step
<1>5. CASE Environment
  <2>1. CASE \E k \in Kind : AgentAlive(k) \/ SocketClose(k) \/ KillIfIdle(k) \/ ReadyTimeout(k)
    BY <2>1, AgentKeepsSlots
  <2>2. ASSUME NEW o \in Op, op[o].atAgent, NEW r \in Answer(op[o].name), AgentReply(o, r)
        PROVE  SlotInv'
    <3>1. op[o].alive BY <2>2 DEF SlotInv, AtAgent
    <3>2. op[o].name \in OpName BY <3>1, NoOpType DEF Inductive, OpInv
    <3>3. QED BY <2>2, <3>2, AgentKeepsSlots
  <2>3. CASE \E j \in Job : CacheTimeout(j) \/ Purge(j) BY <2>3, AgentKeepsSlots
  <2>4. CASE \/ \E k \in Kind : FreeResources(k)
             \/ \E j \in Job, s \in Active \union {"completed", "error"} : AgentUpdate(j, s)
    BY <1>1, <2>4, EndedKeepsSlots
  <2>5. CASE Restart BY <2>5, RestartKeepsSlots
  <2>6. QED BY <1>5, <2>1, <2>2, <2>3, <2>4, <2>5 DEF Environment
<1>6. CASE UNCHANGED vars BY <1>6, AgentKeepsSlots
<1>7. QED BY <1>2, <1>3, <1>4, <1>5, <1>6 DEF Next

LEMMA SlotInvHolds == Spec => [](Inductive /\ SlotsOK /\ SlotInv)
<1>1. Init => SlotInv BY AllIdleSlots DEF Init
<1>2. Init => SlotsOK
  <2>1. Init => \A q \in Queue : Cardinality(holders[q]) = 0 BY FS_EmptySet DEF Init
  <2>2. QED BY <2>1, SizeType DEF Init, SlotsOK
<1>3. Inductive /\ DriversOK /\ SlotsOK /\ SlotInv /\ [Next]_vars => SlotsOK' /\ SlotInv'
  BY SlotsKeep, NextKeepsSlots
<1>4. QED BY <1>1, <1>2, <1>3, InductiveHolds, PTL DEF Spec

\* A slot of a queue is held by a live operation, or was handed to an alloc that is about to be
\* resumed, whatever was destroyed while its coroutine was suspended (_Op.destroy, SlotProxy.free).
THEOREM NoSlotIsLeaked == Spec => []NoSlotLeak
<1>1. SlotInv => NoSlotLeak BY DEF SlotInv
<1>2. QED BY <1>1, SlotInvHolds, PTL

\* Two operations never use the run directory of a job at once: what an agent works on, and has not
\* started as a run, holds the only slot of its job's run_dir_slot_q.
THEOREM RunDirIsExclusive == Spec => []RunDirExclusive
<1>1. ASSUME Inductive, SlotsOK, SlotInv PROVE RunDirExclusive
  <2> SUFFICES ASSUME NEW a \in Op, NEW b \in Op, op[a].atAgent, op[b].atAgent,
                      op[a].reply = None, op[a].name \in SlotOps,
                      op[b].reply = None, op[b].name \in SlotOps, op[a].job = op[b].job
               PROVE  a = b
    BY DEF RunDirExclusive
  <2> DEFINE q == <<"run_dir", op[a].job>>
  <2>1. op[a].job \in Job
    <3>1. op[a].alive BY <1>1 DEF SlotInv, AtAgent
    <3>2. QED BY <1>1, <3>1, NoOpType DEF Inductive, OpInv
  <2>2. q \in Queue /\ Size(q) = 1
    <3>1. q \in Queue BY <2>1 DEF Queue
    <3>2. QED BY <3>1 DEF Size
  <2>3. a \in holders[q] /\ b \in holders[q] BY <1>1 DEF SlotInv, AtAgent
  <2>4. holders[q] \subseteq Op /\ Cardinality(holders[q]) <= 1 BY <1>1, <2>2 DEF SlotsOK
  <2> HIDE DEF q
  <2>5. IsFiniteSet(holders[q]) /\ Cardinality(holders[q]) \in Nat BY <2>4, FiniteOps
  <2>6. {a, b} \subseteq holders[q] BY <2>3
  <2>7. Cardinality({a, b}) \in Nat /\ Cardinality({a, b}) <= 1
    <3>1. Cardinality({a, b}) \in Nat BY FiniteOps
    <3>2. Cardinality({a, b}) <= Cardinality(holders[q]) BY <2>5, <2>6, FS_Subset
    <3>3. QED BY <2>4, <2>5, <3>1, <3>2
  <2>8. QED
    <3> SUFFICES ASSUME a # b PROVE FALSE OBVIOUS
    <3>1. IsFiniteSet({b}) /\ Cardinality({b}) = 1 BY FS_Singleton
    <3>2. Cardinality({b} \union {a}) = 2
      <4>1. a \notin {b} OBVIOUS
      <4>2. Cardinality({b} \union {a}) = Cardinality({b}) + 1 BY <3>1, <4>1, FS_AddElement
      <4>3. QED BY <3>1, <4>2
    <3>3. {b} \union {a} = {a, b} OBVIOUS
    <3>4. QED BY <2>7, <3>2, <3>3
<1>2. QED BY <1>1, SlotInvHolds, PTL

-----------------------------------------------------------------------------
(***************************************************************************)
(* The lines are fair, with several queues taken one after the other and   *)
(* operations destroyed at any await: what FairSlots says of one pool.     *)
(***************************************************************************)
\* No slot of a queue stays free while somebody waits for it.
WorkConserving == \A q \in Queue : waiters[q] # <<>> => Cardinality(holders[q]) = Size(q)

\* Who gets a slot was not preceded in the line, and nobody leaves the line without a slot while
\* the server is up.
InOrder ==
    \A q \in Queue :
        /\ \A o \in holders'[q] \ holders[q] :
              \/ waiters[q] = <<>>
              \/ \E k \in 1..Len(waiters[q]) :
                    waiters[q][k] = o /\ \A i \in 1..k : waiters[q][i] \in holders'[q]
        /\ Restart \/ \A o \in Op : InLine(o, q) => InLine(o, q)' \/ o \in holders'[q]

\* The first n in a line where nobody is twice are n.
LEMMA FirstOfExactly ==
    ASSUME NEW s \in Seq(Op), NEW n \in 0..Len(s),
           \A i, j \in 1..Len(s) : s[i] = s[j] => i = j
    PROVE  Cardinality({s[i] : i \in 1..n}) = n
<1> DEFINE F == {s[i] : i \in 1..n}
           f == [i \in 1..n |-> s[i]]
<1>1. IsFiniteSet(1..n) /\ Cardinality(1..n) = n BY FS_Interval
<1>2. n <= Len(s) /\ n \in Nat /\ Len(s) \in Nat OBVIOUS
<1>3. f \in Bijection(1..n, F)
  <2>1. f \in Surjection(1..n, F) BY DEF Surjection
  <2>2. f \in [1..n -> F] OBVIOUS
  <2>3. \A i, j \in 1..n : f[i] = f[j] => i = j BY <1>2
  <2> HIDE DEF f, F
  <2>4. f \in Injection(1..n, F) BY <2>2, <2>3 DEF Injection, IsInjective
  <2>5. QED BY <2>1, <2>4 DEF Bijection
<1>4. ExistsBijection(1..n, F) BY <1>3 DEF ExistsBijection
<1>5. QED BY <1>1, <1>4, FS_Bijection

\* A queue with somebody left in line has handed out all its slots.
LEMMA GiveBackFills ==
    ASSUME SlotsOK, Lines, NEW back, GiveBack(back), NEW q \in Queue, waiters'[q] # <<>>
    PROVE  Cardinality(holders'[q]) = Size(q)
<1> DEFINE w == waiters[q]
           kept == holders[q] \ back[q]
           room == Size(q) - Cardinality(kept)
           n == Passed(q, back[q])
           F == {w[i] : i \in 1..n}
<1>1. /\ holders[q] \subseteq Op /\ Cardinality(holders[q]) <= Size(q) /\ w \in Seq(Op)
      /\ Size(q) \in Nat
  BY SizeType DEF SlotsOK
<1>2. IsFiniteSet(kept) /\ Cardinality(kept) \in Nat /\ Cardinality(kept) <= Size(q)
  <2>1. IsFiniteSet(holders[q]) /\ Cardinality(holders[q]) \in Nat BY <1>1, FiniteOps
  <2>2. IsFiniteSet(kept) /\ Cardinality(kept) \in Nat BY <1>1, FiniteOps
  <2>3. Cardinality(kept) <= Cardinality(holders[q]) BY <2>1, FS_Subset
  <2>4. QED BY <1>1, <2>1, <2>2, <2>3
<1>3. n = IF room < Len(w) THEN room ELSE Len(w) BY DEF Passed
<1>4. waiters'[q] = SubSeq(w, n + 1, Len(w)) /\ holders'[q] = kept \union F BY DEF GiveBack
<1>5. Len(w) \in Nat /\ room \in Nat BY <1>1, <1>2
<1> HIDE DEF n, room, kept, w
<1>6. n = room /\ n \in 0..Len(w)
  <2>1. CASE room < Len(w) BY <1>3, <1>5, <2>1
  <2>2. CASE ~(room < Len(w))
    <3>1. n = Len(w) BY <1>3, <2>2
    <3>2. SubSeq(w, n + 1, Len(w)) = <<>> BY <1>1, <1>5, <3>1
    <3>3. QED BY <1>4, <3>2
  <2>3. QED BY <2>1, <2>2
<1>7. \A i, j \in 1..Len(w) : w[i] = w[j] => i = j BY DEF Lines, w
<1>8. Cardinality(F) = n BY <1>1, <1>6, <1>7, FirstOfExactly
<1>9. F \subseteq Op /\ IsFiniteSet(F)
  <2>1. F \subseteq Op BY <1>1, <1>6
  <2>2. QED BY <2>1, FiniteOps
<1>10. kept \intersect F = {}
  <2>1. ASSUME NEW i \in 1..n PROVE w[i] \notin kept
    <3>1. i \in 1..Len(w) BY <1>5, <1>6, <2>1
    <3>2. InLine(w[i], q) /\ w[i] \in Op BY <1>1, <3>1 DEF InLine, w
    <3>3. QED BY <3>2 DEF Lines, kept
  <2>2. QED BY <2>1
<1> HIDE DEF F
<1>11. Cardinality(kept \union F) = Cardinality(kept) + Cardinality(F)
  <2>1. Cardinality(kept \union F)
          = Cardinality(kept) + Cardinality(F) - Cardinality(kept \intersect F)
    BY <1>2, <1>9, FS_Union
  <2>2. Cardinality(kept \intersect F) = 0 BY <1>10, FS_EmptySet
  <2>3. QED BY <1>2, <1>5, <1>6, <1>8, <2>1, <2>2
<1>12. QED BY <1>1, <1>2, <1>4, <1>6, <1>8, <1>11 DEF room

\* An alloc lines up only where all slots are taken, and takes none back.
LEMMA AllocFills ==
    ASSUME Inductive, SlotInv, SlotsOK, SlotsOK', WorkConserving, NEW p \in Proc, AllocSlots(p)
    PROVE  WorkConserving'
<1>1. PICK o \in Op : o = co[p].op BY AllocFacts
<1>2. PICK need \in Seq(Queue) : \E s \in 1..Len(need) + 1 : \E next \in s..Len(need) + 1 :
                Allocs(p, o, need, s, next)
  BY <1>1, AllocFacts
<1>3. PICK s \in 1..Len(need) + 1 : \E next \in s..Len(need) + 1 : Allocs(p, o, need, s, next)
  BY <1>2
<1>4. PICK next \in s..Len(need) + 1 : Allocs(p, o, need, s, next) BY <1>3
<1>5. ASSUME NEW q \in Queue, waiters'[q] # <<>> PROVE Cardinality(holders'[q]) = Size(q)
  <2>1. /\ holders[q] \subseteq Op /\ holders'[q] \subseteq Op
        /\ Cardinality(holders'[q]) <= Size(q)
    <3>1. Size(q)' = Size(q) BY DEF Size
    <3>2. QED BY <3>1 DEF SlotsOK
  <2>2. /\ Size(q) \in Nat /\ Cardinality(holders[q]) \in Nat
        /\ IsFiniteSet(holders'[q]) /\ Cardinality(holders'[q]) \in Nat
    BY <2>1, SizeType, FiniteOps
  <2>3. holders[q] \subseteq holders'[q] BY <1>4 DEF Allocs
  <2>4. Cardinality(holders[q]) <= Cardinality(holders'[q]) BY <2>2, <2>3, FS_Subset
  <2>5. Cardinality(holders[q]) >= Size(q)
    <3>1. CASE waiters'[q] = waiters[q] BY <1>5, <2>2, <3>1 DEF WorkConserving
    <3>2. CASE next <= Len(need) /\ q = need[next] BY <1>4, <3>2 DEF Allocs
    <3>3. QED BY <1>4, <3>1, <3>2 DEF Allocs, SlotsOK
  <2>6. QED BY <2>1, <2>2, <2>4, <2>5
<1>6. \A q \in Queue : Size(q)' = Size(q) BY DEF Size
<1>7. QED BY <1>5, <1>6 DEF WorkConserving

LEMMA WorkConservingKept ==
    ASSUME Inductive, SlotInv, SlotsOK, SlotsOK', WorkConserving, [Next]_vars
    PROVE  WorkConserving'
<1>1. \A q \in Queue : Size(q)' = Size(q) BY DEF Size
<1>2. CASE UNCHANGED slotVars BY <1>1, <1>2 DEF WorkConserving, slotVars
<1>3. CASE \E back : GiveBack(back) BY <1>1, <1>3, GiveBackFills DEF WorkConserving, SlotInv
<1>4. CASE \E p \in Proc : AllocSlots(p) BY <1>4, AllocFills
<1>5. CASE Restart BY <1>5 DEF Restart, WorkConserving
<1>6. QED BY <1>2, <1>3, <1>4, <1>5, SlotSteps

LEMMA WorkConservingHolds == Spec => [](Inductive /\ SlotsOK /\ SlotInv /\ WorkConserving)
<1>1. Init => WorkConserving BY DEF Init, WorkConserving
<1>2. Inductive /\ SlotsOK /\ SlotsOK' /\ SlotInv /\ WorkConserving /\ [Next]_vars
        => WorkConserving'
  BY WorkConservingKept
<1>3. QED BY <1>1, <1>2, SlotInvHolds, PTL DEF Spec

\* While an operation waits for a slot of a queue, all slots of that queue are held: a slot that is
\* given back, by a destroyed operation too, goes to the first in line at once.
THEOREM NoSlotStaysFree == Spec => []WorkConserving
BY WorkConservingHolds, PTL

LEMMA GiveBackInOrder ==
    ASSUME SlotsOK, Lines, NEW back, GiveBack(back)
    PROVE  InOrder
<1> SUFFICES ASSUME NEW q \in Queue
             PROVE  /\ \A o \in holders'[q] \ holders[q] :
                          \E k \in 1..Len(waiters[q]) :
                             waiters[q][k] = o /\ \A i \in 1..k : waiters[q][i] \in holders'[q]
                    /\ \A o \in Op : InLine(o, q) => InLine(o, q)' \/ o \in holders'[q]
  BY DEF InOrder
<1> DEFINE w == waiters[q]
           n == Passed(q, back[q])
<1>1. w \in Seq(Op) BY DEF SlotsOK
<1>2. holders'[q] = (holders[q] \ back[q]) \union {w[i] : i \in 1..n} BY DEF GiveBack
<1>3. n \in 0..Len(w)
  <2>1. /\ holders[q] \subseteq Op /\ Cardinality(holders[q]) <= Size(q) /\ Size(q) \in Nat
    BY SizeType DEF SlotsOK
  <2>2. Cardinality(holders[q] \ back[q]) \in Nat /\ Cardinality(holders[q] \ back[q]) <= Size(q)
    <3>1. IsFiniteSet(holders[q]) /\ Cardinality(holders[q]) \in Nat BY <2>1, FiniteOps
    <3>2. Cardinality(holders[q] \ back[q]) \in Nat BY <2>1, FiniteOps
    <3>3. Cardinality(holders[q] \ back[q]) <= Cardinality(holders[q]) BY <3>1, FS_Subset
    <3>4. QED BY <2>1, <3>1, <3>2, <3>3
  <2> DEFINE room == Size(q) - Cardinality(holders[q] \ back[q])
  <2>3. room \in Nat BY <2>1, <2>2
  <2>4. n = IF room < Len(w) THEN room ELSE Len(w) BY DEF Passed
  <2>5. Len(w) \in Nat BY <1>1
  <2> HIDE DEF n, room, w
  <2>6. QED BY <2>3, <2>4, <2>5
<1> HIDE DEF n
<1>4. ASSUME NEW o \in holders'[q] \ holders[q]
      PROVE  \E k \in 1..Len(w) : w[k] = o /\ \A i \in 1..k : w[i] \in holders'[q]
  <2>1. PICK k \in 1..n : w[k] = o BY <1>2, <1>4
  <2>2. k \in 1..Len(w) /\ \A i \in 1..k : i \in 1..n BY <1>1, <1>3, <2>1
  <2>3. QED BY <1>2, <2>1, <2>2
<1>5. ASSUME NEW o \in Op, InLine(o, q) PROVE InLine(o, q)' \/ o \in holders'[q]
  <2>1. \A i, j \in 1..Len(waiters[q]) : waiters[q][i] = waiters[q][j] => i = j BY DEF Lines
  <2>2. QED BY <1>5, <2>1, GiveBackEffect
<1>6. QED BY <1>4, <1>5

LEMMA AllocInOrder ==
    ASSUME Inductive, SlotInv, SlotsOK, WorkConserving, NEW p \in Proc, AllocSlots(p)
    PROVE  InOrder
<1>1. ASSUME NEW q \in Queue, NEW o \in holders'[q] \ holders[q] PROVE waiters[q] = <<>>
  <2> DEFINE f == co[p]
             need == Need(f.op)
             Free(i) == Cardinality(holders[need[i]]) < Size(need[i])
  <2>1. PICK i \in f.step..Len(need) : Free(i) /\ q = need[i]
    <3>1. PICK i \in f.step..Len(need) : (\A n \in f.step..i : Free(n)) /\ q = need[i]
      BY <1>1 DEF AllocSlots
    <3>2. f.step \in Int /\ Len(need) \in Int
      <4>1. Holds(p) BY DEF SlotInv
      <4>2. f.step \in 1..Len(need) + 1 BY <4>1 DEF AllocSlots, At, Holds, Taking
      <4>3. QED BY <4>2, NeedLength
    <3>3. i \in f.step..i BY <3>2
    <3>4. QED BY <3>1, <3>3
  <2>2. Cardinality(holders[q]) < Size(q) BY <2>1
  <2>3. Cardinality(holders[q]) \in Nat /\ Size(q) \in Nat
    BY SizeType, FiniteOps DEF SlotsOK
  <2>4. QED BY <2>2, <2>3 DEF WorkConserving
<1>2. ASSUME NEW q \in Queue, NEW o \in Op, InLine(o, q) PROVE InLine(o, q)'
  <2>1. waiters[q] \in Seq(Op) BY DEF SlotsOK
  <2>2. waiters'[q] = waiters[q] \/ waiters'[q] = Append(waiters[q], co[p].op)
    BY DEF AllocSlots, SlotsOK
  <2>3. PICK i \in 1..Len(waiters[q]) : waiters[q][i] = o BY <1>2 DEF InLine
  <2>4. i \in 1..Len(waiters'[q]) /\ waiters'[q][i] = o BY <2>1, <2>2, <2>3
  <2>5. QED BY <2>4 DEF InLine
<1>3. QED BY <1>1, <1>2 DEF InOrder

\* Operations get the slots of a queue in the order in which they lined up, a newcomer only when
\* nobody is in line, and nobody is dropped from the line while the server is up.
THEOREM NobodyIsOvertaken == Spec => [][InOrder]_vars
<1>1. ASSUME Inductive, SlotsOK, SlotInv, WorkConserving, [Next]_vars PROVE InOrder
  <2>1. CASE UNCHANGED slotVars BY <2>1 DEF slotVars, InOrder, InLine
  <2>2. CASE \E back : GiveBack(back) BY <1>1, <2>2, GiveBackInOrder DEF SlotInv
  <2>3. CASE \E p \in Proc : AllocSlots(p) BY <1>1, <2>3, AllocInOrder
  <2>4. CASE Restart BY <2>4 DEF Restart, InOrder
  <2>5. QED BY <1>1, <2>1, <2>2, <2>3, <2>4, SlotSteps
<1>2. QED BY <1>1, WorkConservingHolds, PTL DEF Spec

-----------------------------------------------------------------------------
(***************************************************************************)
(* Nobody waits for himself.  An operation holds only slots it needs, and  *)
(* takes those of its kind, of its job and of the cpus in this order: who  *)
(* waits for a slot waits for an operation that waits, if at all, for a    *)
(* later one.                                                              *)
(***************************************************************************)
\* The place of a queue in the order of _slots_ready.
Rank(q) == IF q[1] = "op" THEN 1 ELSE IF q[1] = "run_dir" THEN 2 ELSE 3

NoCircularWait ==
    \A o \in Op : \A q, r \in Queue : InLine(o, q) /\ o \in holders[r] => Rank(r) < Rank(q)

HoldsNeeded == \A q \in Queue : \A o \in holders[q] : \E i \in 1..Len(Need(o)) : Need(o)[i] = q

\* An operation that is not forgotten stays what it is.
Stays(o) == op[o] = NoOp \/ op'[o] = NoOp \/ SameNeed(o)

LEMMA WithoutStays ==
    ASSUME OpsOK, NEW S, NEW p, NEW o \in Op
    PROVE  LET x == OpsWithout(S, p)[o]
           IN  x = NoOp \/ (x.name = op[o].name /\ x.job = op[o].job /\ x.kind = op[o].kind)
<1>1. op[o] \in OpRecord BY DEF OpsOK
<1> DEFINE dead == [op[o] EXCEPT !.alive = FALSE, !.prepared = FALSE, !.timer = FALSE,
                                 !.atAgent = FALSE,
                                 !.reply = IF @ = None THEN "null" ELSE @]
<1>2. dead.name = op[o].name /\ dead.job = op[o].job /\ dead.kind = op[o].kind
  BY <1>1 DEF OpRecord
<1>3. OpsWithout(S, p)[o] \in {op[o], dead, NoOp} BY DEF OpsWithout
<1>4. QED BY <1>2, <1>3

LEMMA OpStays ==
    ASSUME Inductive, [Next]_vars, NEW o \in Op
    PROVE  Stays(o)
<1> USE DEF SameNeed
<1>1. op \in [Op -> OpRecord] BY DEF Inductive, OpsOK
<1>2. CASE op' = op BY <1>2 DEF Stays
<1>3. ASSUME NEW S, NEW p, op' = OpsWithout(S, p) PROVE Stays(o)
  BY <1>3, WithoutStays DEF Stays, Inductive
<1>4. ASSUME NEW c \in Op, Fresh(c), NEW x, op' = [op EXCEPT ![c] = x] PROVE Stays(o)
  BY <1>1, <1>4 DEF Stays, Fresh
<1>5. ASSUME NEW c \in Op, Fresh(c), NEW x, NEW S, NEW p,
             op' = [OpsWithout(S, p) EXCEPT ![c] = x]
      PROVE  Stays(o)
  <2>1. CASE o = c BY <1>5, <2>1 DEF Stays, Fresh
  <2>2. CASE o # c
    <3>1. op'[o] = OpsWithout(S, p)[o] BY <1>5, <2>2 DEF OpsWithout
    <3>2. QED BY <3>1, WithoutStays DEF Stays, Inductive
  <2>3. QED BY <2>1, <2>2
<1>6. ASSUME NEW p, NEW f, NEW j, NEW k, NEW S, CancelJob(p, f, j, k, S) PROVE Stays(o)
  BY <1>5, <1>6 DEF CancelJob
<1>7. ASSUME NEW p, NEW f, NEW n, NEW cont, SendOp(p, f, n, cont) PROVE Stays(o)
  BY <1>2, <1>4, <1>7 DEF SendOp, Reply
<1>8. ASSUME NEW p, Handle(p) PROVE Stays(o)
  <2>1. CASE RunSimulation(p) BY <1>2, <2>1 DEF RunSimulation, Reply, Goto
  <2>2. CASE StartRun(p) BY <1>2, <1>4, <2>2 DEF StartRun, Reply, Goto
  <2>3. CASE RunStatus(p)
    <3>1. CASE Goto(p, "status_reply") BY <1>2, <3>1 DEF Goto
    <3>2. CASE ~Goto(p, "status_reply")
      <4>1. PICK c \in Op : Fresh(c) /\ op' = [op EXCEPT ![c] =
                               NewOp("run_status", co[p].job, KindOf(co[p].job, "run_status"))]
        BY <2>3, <3>2 DEF RunStatus
      <4>2. QED BY <1>4, <4>1
    <3>3. QED BY <3>1, <3>2
  <2>4. CASE StatusReply(p) BY <1>2, <1>7, <2>4 DEF StatusReply, Reply
  <2>5. CASE ReadData(p) BY <1>2, <1>7, <2>5 DEF ReadData, Reply
  <2>6. CASE RunCancel(p) BY <1>2, <1>6, <2>6 DEF RunCancel, Reply
  <2>7. QED BY <1>8, <2>1, <2>2, <2>3, <2>4, <2>5, <2>6 DEF Handle
<1>9. ASSUME NEW p, SendSteps(p) PROVE Stays(o)
  <2>1. CASE Send(p)
    <3>1. CASE co[p].op = o BY <1>1, <2>1, <3>1 DEF Send, Stays, OpRecord
    <3>2. CASE co[p].op # o BY <1>1, <2>1, <3>2 DEF Send, Stays
    <3>3. QED BY <3>1, <3>2
  <2>2. CASE ReplyGot(p) BY <1>2, <1>3, <2>2 DEF ReplyGot, Write, Resume
  <2>3. QED BY <1>2, <1>9, <2>1, <2>2
    DEF SendSteps, AgentReady, AgentWoken, AllocSlots, SlotGranted, Resume, Goto
<1>10. ASSUME NEW p, Return(p) PROVE Stays(o)
  BY <1>3, <1>10 DEF Return, ReturnRun, ReturnRunStatus, ReturnSingle, ReturnResult, Raise, Destroy,
                     Write
<1>11. ASSUME NEW p, SbatchLoginNeeded(p) \/ AgentStartFails(p) \/ Request(p) PROVE Stays(o)
  BY <1>2, <1>11 DEF SbatchLoginNeeded, AgentStartFails, Request, Receive, Goto
<1>12. ASSUME NEW p, NEW c, OpTimeout(p, c) PROVE Stays(o) BY <1>6, <1>12 DEF OpTimeout
<1>13. CASE Environment
  <2>1. CASE \E k \in Kind : AgentAlive(k) \/ SocketClose(k) \/ KillIfIdle(k) \/ ReadyTimeout(k)
    BY <1>2, <2>1 DEF AgentAlive, SocketClose, KillIfIdle, ReadyTimeout
  <2>2. ASSUME NEW k, FreeResources(k) PROVE Stays(o) BY <1>3, <2>2 DEF FreeResources
  <2>3. ASSUME NEW c \in Op, NEW r, AgentReply(c, r) PROVE Stays(o)
    <3>1. op' = [op EXCEPT ![c].reply = r] BY <2>3 DEF AgentReply
    <3>2. QED BY <1>1, <3>1 DEF Stays, OpRecord
  <2>4. ASSUME NEW j, NEW s, AgentUpdate(j, s) PROVE Stays(o) BY <1>3, <2>4 DEF AgentUpdate
  <2>5. ASSUME NEW j, CacheTimeout(j) \/ Purge(j) PROVE Stays(o)
    BY <1>2, <2>5 DEF CacheTimeout, Purge
  <2>6. CASE Restart BY <2>6 DEF Restart, Stays
  <2>7. QED BY <1>13, <2>1, <2>2, <2>3, <2>4, <2>5, <2>6 DEF Environment
<1>14. CASE UNCHANGED vars BY <1>2, <1>14 DEF vars
<1>15. QED BY <1>8, <1>9, <1>10, <1>11, <1>12, <1>13, <1>14 DEF Next, Step

\* Who is in a line or holds a slot is an operation, and needs the slot.
LEMMA InLineNeeds ==
    ASSUME Inductive, SlotInv, NEW q \in Queue, NEW o, InLine(o, q), o \in Op
    PROVE  /\ op[o] # NoOp
           /\ \E p \in Proc : /\ co[p].op = o /\ co[p].pc = "awaitSlot"
                              /\ co[p].step \in 1..Len(Need(o)) /\ Need(o)[co[p].step] = q
<1>1. PICK p \in Proc : co[p].op = o /\ co[p].pc = "awaitSlot" /\ Need(o)[co[p].step] = q
  BY DEF SlotInv, Lines, AwaitsSlot
<1>2. op[o] # NoOp BY <1>1, ReferredKnown, NoneAssumption
<1>3. co[p].step \in 1..Len(Need(o)) + 1 /\ co[p].step <= Len(Need(o))
  BY <1>1 DEF SlotInv, Holds, Taking
<1>4. co[p].step \in 1..Len(Need(o)) BY <1>3, NeedLength
<1>5. QED BY <1>1, <1>2, <1>4

LEMMA HolderIsOp ==
    ASSUME Inductive, SlotInv, NEW q \in Queue, NEW o \in holders[q], o \in Op
    PROVE  op[o] # NoOp
<1>1. CASE op[o].alive BY <1>1, NoOpType
<1>2. CASE AwaitsSlot(o, q) BY <1>2, ReferredKnown, NoneAssumption DEF AwaitsSlot
<1>3. QED BY <1>1, <1>2 DEF SlotInv, NoSlotLeak

LEMMA HoldsNeededKept ==
    ASSUME Inductive, Inductive', SlotInv, SlotInv', SlotsOK, SlotsOK', HoldsNeeded, [Next]_vars
    PROVE  HoldsNeeded'
<1>1. ASSUME NEW q \in Queue, NEW o \in holders'[q], o \in holders[q] \/ InLine(o, q)
      PROVE  (\E i \in 1..Len(Need(o)) : Need(o)[i] = q)'
  <2>1. o \in Op /\ op'[o] # NoOp
    <3>1. o \in Op BY <1>1 DEF SlotsOK
    <3>2. (op[o] # NoOp)'
      <4>1. CASE op'[o].alive
        <5>1. (NoOp.alive)' = FALSE BY DEF NoOp
        <5>2. QED BY <4>1, <5>1
      <4>2. CASE AwaitsSlot(o, q)'
        <5>1. PICK p \in Proc : co'[p].op = o BY <4>2 DEF AwaitsSlot
        <5>2. QED BY <3>1, <5>1, NoneAssumption DEF Inductive, FrameInv, Refers
      <4>3. QED BY <1>1, <4>1, <4>2 DEF SlotInv, NoSlotLeak
    <3>3. QED BY <3>1, <3>2 DEF NoOp
  <2>2. op[o] # NoOp BY <1>1, <2>1, InLineNeeds, HolderIsOp
  <2>3. SameNeed(o) BY <2>1, <2>2, OpStays DEF Stays
  <2>4. Need(o)' = Need(o) BY <2>3, NeedSame DEF SameNeed
  <2>5. \E i \in 1..Len(Need(o)) : Need(o)[i] = q BY <1>1, <2>1, InLineNeeds DEF HoldsNeeded
  <2>6. QED BY <2>4, <2>5
<1>2. CASE UNCHANGED slotVars BY <1>1, <1>2 DEF slotVars, HoldsNeeded
<1>3. ASSUME NEW back, GiveBack(back) PROVE HoldsNeeded'
  <2>1. \A q \in Queue : \A o \in holders'[q] : o \in holders[q] \/ InLine(o, q)
    BY <1>3, GiveBackEffect DEF SlotInv, Lines
  <2>2. QED BY <1>1, <2>1 DEF HoldsNeeded
<1>4. ASSUME NEW p \in Proc, AllocSlots(p) PROVE HoldsNeeded'
  <2>1. PICK o \in Op : o = co[p].op BY <1>4, AllocFacts
  <2>2. PICK need \in Seq(Queue) : \E s \in 1..Len(need) + 1 : \E next \in s..Len(need) + 1 :
                Allocs(p, o, need, s, next)
    BY <1>4, <2>1, AllocFacts
  <2>3. PICK s \in 1..Len(need) + 1 : \E next \in s..Len(need) + 1 : Allocs(p, o, need, s, next)
    BY <2>2
  <2>4. PICK next \in s..Len(need) + 1 : Allocs(p, o, need, s, next) BY <2>3
  <2>5. ASSUME NEW q \in Queue, NEW x \in holders'[q]
        PROVE  (\E i \in 1..Len(Need(x)) : Need(x)[i] = q)'
    <3>1. CASE x \in holders[q] BY <1>1, <2>5, <3>1
    <3>2. CASE x \notin holders[q]
      <4>1. x = o /\ \E i \in s..next - 1 : q = need[i] BY <2>4, <2>5, <3>2 DEF Allocs
      <4>2. PICK i \in s..next - 1 : q = need[i] BY <4>1
      <4>3. i \in 1..Len(need)
        <5>1. Len(need) \in Nat BY <2>2
        <5>2. QED BY <2>3, <2>4, <4>2, <5>1
      <4>4. need = Need(o)' BY <2>4 DEF Allocs
      <4>5. QED BY <4>1, <4>2, <4>3, <4>4
    <3>3. QED BY <3>1, <3>2
  <2>6. QED BY <2>5 DEF HoldsNeeded
<1>5. CASE Restart BY <1>5 DEF Restart, HoldsNeeded
<1>6. QED BY <1>2, <1>3, <1>4, <1>5, SlotSteps

\* The slots an operation needs come in the order of their queues.
LEMMA NeedRanks ==
    ASSUME NEW o \in Op, NEW i \in 1..Len(Need(o))
    PROVE  Rank(Need(o)[i]) = i
<1> DEFINE q1 == <<"op", op[o].kind, op[o].name>>
           q2 == <<"run_dir", op[o].job>>
           q3 == <<"cpu", op[o].kind>>
<1>1. Rank(q1) = 1 /\ Rank(q2) = 2 /\ Rank(q3) = 3 BY DEF Rank
<1>2. Need(o) = <<q1, q2, q3>> \/ Need(o) = <<q1, q2>> \/ Need(o) = <<>> BY DEF Need
<1> HIDE DEF q1, q2, q3
<1>3. CASE Need(o) = <<q1, q2, q3>>
  <2>1. i \in {1, 2, 3} BY <1>3
  <2>2. QED BY <1>1, <1>3, <2>1
<1>4. CASE Need(o) = <<q1, q2>>
  <2>1. i \in {1, 2} BY <1>4
  <2>2. QED BY <1>1, <1>4, <2>1
<1>5. QED BY <1>2, <1>3, <1>4

\* Whatever an operation that waits for a slot holds comes before that slot in the order in which
\* _slots_ready allocates: no operations wait for each other's slots.
THEOREM NobodyWaitsInACircle == Spec => []NoCircularWait
<1>1. Init => HoldsNeeded BY DEF Init, HoldsNeeded
<1>2. ASSUME Inductive, SlotInv, HoldsNeeded PROVE NoCircularWait
  <2> SUFFICES ASSUME NEW o \in Op, NEW q \in Queue, NEW r \in Queue,
                      InLine(o, q), o \in holders[r]
               PROVE  Rank(r) < Rank(q)
    BY DEF NoCircularWait
  <2>1. PICK p \in Proc : /\ co[p].op = o /\ co[p].pc = "awaitSlot"
                          /\ co[p].step \in 1..Len(Need(o)) /\ Need(o)[co[p].step] = q
    BY <1>2, InLineNeeds
  <2>2. PICK i \in 1..Len(Need(o)) : Need(o)[i] = r BY <1>2 DEF HoldsNeeded
  <2>3. \A n \in co[p].step..Len(Need(o)) : o \in holders[Need(o)[n]] => n = co[p].step
    BY <1>2, <2>1 DEF SlotInv, Holds, Taking
  <2>4. o \notin holders[q] BY <1>2 DEF SlotInv, Lines
  <2>5. i < co[p].step BY <2>1, <2>2, <2>3, <2>4, NeedLength
  <2>6. QED BY <2>1, <2>2, <2>5, NeedRanks
<1>3. Inductive /\ Inductive' /\ SlotInv /\ SlotInv' /\ SlotsOK /\ SlotsOK' /\ HoldsNeeded
        /\ [Next]_vars => HoldsNeeded'
  BY HoldsNeededKept
<1>4. QED BY <1>1, <1>2, <1>3, SlotInvHolds, PTL DEF Spec

-----------------------------------------------------------------------------
(***************************************************************************)
(* No wakeup is lost.                                                      *)
(***************************************************************************)
Wakes(p) == LET o == co[p].op
                q == Need(o)[co[p].step]
            IN  InLine(o, q) \/ o \in holders[q]

NoLostWakeup == \A p \in Proc : co[p].pc = "awaitSlot" => Wakes(p)

\* r goes on to something else than a slot, and the others stay where they are.
Leads(r) == co'[r].pc # "awaitSlot" /\ \A p \in Proc \ {r} : SameFrame(p)

LEMMA LeadsTo ==
    ASSUME FramesOK, NEW r \in Proc, NEW f, f.pc # "awaitSlot",
           co' = [co EXCEPT ![r] = f] \/ \E j : co' = [Touched(co, j) EXCEPT ![r] = f]
    PROVE  Leads(r)
<1>1. CASE co' = [co EXCEPT ![r] = f] BY <1>1 DEF Leads, SameFrame, FramesOK
<1>2. ASSUME NEW j, co' = [Touched(co, j) EXCEPT ![r] = f] PROVE Leads(r)
  <2>1. co'[r] = f /\ \A p \in Proc \ {r} : co'[p] = Touched(co, j)[p]
    BY <1>2 DEF Touched
  <2>2. QED BY <2>1, TouchedSame DEF Leads, SameFrame
<1>3. QED BY <1>1, <1>2

LEMMA LeadsPc ==
    ASSUME FramesOK, NEW r \in Proc, NEW pc, pc # "awaitSlot", co' = [co EXCEPT ![r].pc = pc]
    PROVE  Leads(r)
BY DEF Leads, SameFrame, FramesOK, FrameRecord

LEMMA SendingPc == ASSUME NEW f \in FrameRecord, NEW o, NEW cont
                   PROVE  Sending(f, o, cont).pc = "agent_ready"
BY DEF Sending, FrameRecord

\* Handlers, returns, requests and timers.
LEMMA HandleLeads ==
    ASSUME Inductive, NEW r \in Proc, Handle(r)
    PROVE  Leads(r)
<1>1. FramesOK /\ co[r] \in FrameRecord BY DEF Inductive, FramesOK
<1>2. ASSUME Reply(r) PROVE Leads(r)
  <2>1. IdleFrame.pc # "awaitSlot" BY DEF IdleFrame
  <2>2. co' = [co EXCEPT ![r] = IdleFrame] BY <1>2 DEF Reply, Finished
  <2>3. QED BY <1>1, <2>1, <2>2, LeadsTo
<1>3. ASSUME NEW pc, Goto(r, pc), pc # "awaitSlot" PROVE Leads(r)
  BY <1>1, <1>3, LeadsPc DEF Goto
<1>4. ASSUME NEW f \in FrameRecord, NEW n, NEW cont, SendOp(r, f, n, cont) PROVE Leads(r)
  <2>1. PICK o : co' = [co EXCEPT ![r] = Sending(f, o, cont)] BY <1>4 DEF SendOp
  <2>2. Sending(f, o, cont).pc # "awaitSlot" BY SendingPc
  <2>3. QED BY <1>1, <2>1, <2>2, LeadsTo
<1>5. Only(co[r]) \in FrameRecord BY <1>1, OnlyType
<1>6. CASE RunSimulation(r) BY <1>2, <1>3, <1>6 DEF RunSimulation
<1>7. CASE StartRun(r)
  <2>1. PICK o, t : co' = [Touched(co, co[r].job) EXCEPT ![r] =
                             [Sending(co[r], o, "run") EXCEPT !.serial = t, !.fresh = TRUE,
                                                              !.run = FALSE, !.force = FALSE]]
    BY <1>7 DEF StartRun
  <2> DEFINE f == [Sending(co[r], o, "run") EXCEPT !.serial = t, !.fresh = TRUE,
                                                   !.run = FALSE, !.force = FALSE]
  <2>2. f.pc # "awaitSlot" BY <1>1 DEF Sending, FrameRecord
  <2> HIDE DEF f
  <2>3. QED BY <1>1, <2>1, <2>2, LeadsTo DEF f
<1>8. CASE RunStatus(r)
  <2>1. CASE Goto(r, "status_reply") BY <1>3, <2>1
  <2>2. CASE ~Goto(r, "status_reply")
    <3>1. PICK o : co' = [co EXCEPT ![r] = [Sending(co[r], o, "run_status") EXCEPT !.fresh = TRUE]]
      BY <1>8, <2>2 DEF RunStatus
    <3> DEFINE f == [Sending(co[r], o, "run_status") EXCEPT !.fresh = TRUE]
    <3>2. f.pc # "awaitSlot" BY <1>1 DEF Sending, FrameRecord
    <3> HIDE DEF f
    <3>3. QED BY <1>1, <3>1, <3>2, LeadsTo DEF f
  <2>3. QED BY <2>1, <2>2
<1>9. CASE StatusReply(r) BY <1>1, <1>2, <1>4, <1>9 DEF StatusReply
<1>10. CASE ReadData(r) BY <1>2, <1>4, <1>5, <1>10 DEF ReadData
<1>11. CASE RunCancel(r)
  <2>1. ASSUME NEW j, NEW k, NEW S, CancelJob(r, Only(co[r]), j, k, S) PROVE Leads(r)
    <3>1. PICK c : co' = [Touched(co, j) EXCEPT ![r] = Sending(Only(co[r]), c, "cancel")]
      BY <2>1 DEF CancelJob
    <3>2. Sending(Only(co[r]), c, "cancel").pc # "awaitSlot" BY <1>5, SendingPc
    <3>3. QED BY <1>1, <3>1, <3>2, LeadsTo
  <2>2. QED BY <1>2, <1>11, <2>1 DEF RunCancel
<1>12. QED BY <1>6, <1>7, <1>8, <1>9, <1>10, <1>11 DEF Handle

LEMMA ReturnLeads ==
    ASSUME Inductive, NEW r \in Proc, Return(r)
    PROVE  Leads(r)
<1>1. FramesOK /\ co[r] \in FrameRecord BY DEF Inductive, FramesOK
<1>2. IdleFrame.pc # "awaitSlot" BY DEF IdleFrame
<1>3. \A pc : pc # "awaitSlot" => Without(r, pc).pc # "awaitSlot"
  BY <1>1 DEF Without, FrameRecord
<1>4. ASSUME NEW S, NEW f, Destroy(r, S, f), f.pc # "awaitSlot" PROVE Leads(r)
  BY <1>1, <1>4, LeadsTo DEF Destroy
<1>5. ASSUME NEW S, NEW f, NEW d, Write(r, S, f, d), f.pc # "awaitSlot" PROVE Leads(r)
  BY <1>1, <1>5, LeadsTo DEF Write
<1>6. CASE ReturnRun(r) BY <1>2, <1>3, <1>4, <1>5, <1>6 DEF ReturnRun
<1>7. CASE ReturnRunStatus(r) BY <1>3, <1>4, <1>5, <1>7 DEF ReturnRunStatus
<1>8. CASE ReturnSingle(r) BY <1>2, <1>4, <1>8 DEF ReturnSingle
<1>9. CASE ReturnResult(r)
  <2> DEFINE next == IF co[r].run THEN Without(r, "api_runSimulation") ELSE IdleFrame
  <2>1. next.pc # "awaitSlot" BY <1>2, <1>3
  <2> HIDE DEF next
  <2>2. \/ \E S, f, d : Write(r, S, f, d) /\ f \in {next, IdleFrame}
        \/ \E S, f : Destroy(r, S, f) /\ f \in {next, IdleFrame}
    BY <1>9 DEF ReturnResult, next
  <2>3. QED BY <1>2, <1>4, <1>5, <2>1, <2>2
<1>10. CASE Raise(r) BY <1>2, <1>4, <1>5, <1>10 DEF Raise
<1>11. QED BY <1>6, <1>7, <1>8, <1>9, <1>10 DEF Return

LEMMA SendLeads ==
    ASSUME Inductive, NEW r \in Proc, SendSteps(r), ~AllocSlots(r)
    PROVE  Leads(r)
<1>1. FramesOK /\ co[r] \in FrameRecord BY DEF Inductive, FramesOK
<1>2. CASE AgentReady(r)
  <2>1. PICK pc : pc # "awaitSlot" /\ co' = [co EXCEPT ![r].pc = pc]
    BY <1>2 DEF AgentReady, Goto
  <2>2. QED BY <1>1, <2>1, LeadsPc
<1>3. CASE AgentWoken(r)
  <2>1. PICK pc : pc # "awaitSlot" /\ co' = [co EXCEPT ![r].pc = pc]
    BY <1>3 DEF AgentWoken, Resume
  <2>2. QED BY <1>1, <2>1, LeadsPc
<1>4. CASE SlotGranted(r)
  <2>1. Waited(r) \in [Proc -> FrameRecord] BY <1>1, WaitedSame
  <2>2. co'[r].pc # "awaitSlot" BY <1>4, <2>1 DEF SlotGranted, FrameRecord
  <2>3. \A p \in Proc \ {r} : co'[p] = Waited(r)[p] BY <1>4, <2>1 DEF SlotGranted
  <2>4. QED BY <1>1, <2>2, <2>3, WaitedSame DEF Leads, SameFrame
<1>5. CASE Send(r)
  <2>1. \E pc \in {"awaitReply", "returned"} : co' = [co EXCEPT ![r].pc = pc] BY <1>5 DEF Send
  <2>2. QED BY <1>1, <2>1, LeadsPc
<1>6. CASE ReplyGot(r)
  <2> DEFINE f == [co[r] EXCEPT !.pc = "returned", !.op = None, !.ret = "missing"]
  <2>1. \/ Resume(r, "returned")
        \/ \E S, d : Write(r, S, f, d)
        \/ \E x : co' = [co EXCEPT ![r].pc = "returned", ![r].ret = x]
    BY <1>6 DEF ReplyGot
  <2>2. f.pc # "awaitSlot" BY <1>1 DEF FrameRecord
  <2> HIDE DEF f
  <2>3. CASE Resume(r, "returned") BY <1>1, <2>3, LeadsPc DEF Resume
  <2>4. CASE \E S, d : Write(r, S, f, d) BY <1>1, <2>2, <2>4, LeadsTo DEF Write
  <2>5. ASSUME NEW x, co' = [co EXCEPT ![r].pc = "returned", ![r].ret = x] PROVE Leads(r)
    BY <1>1, <2>5 DEF Leads, SameFrame, FramesOK, FrameRecord
  <2>6. QED BY <2>1, <2>3, <2>4, <2>5
<1>7. QED BY <1>2, <1>3, <1>4, <1>5, <1>6 DEF SendSteps

\* Only an alloc begins to await a slot, and only its own resumption ends the wait.
LEMMA WaitSteps ==
    ASSUME Inductive, [Next]_vars, NEW p \in Proc, co'[p].pc = "awaitSlot", ~AllocSlots(p)
    PROVE  SameFrame(p) /\ ~ReplyGot(p) /\ ~SlotGranted(p)
<1>1. FramesOK BY DEF Inductive
<1>2. \A r \in Proc : Leads(r) => SameFrame(p) BY DEF Leads
<1>3. ~ReplyGot(p) /\ ~SlotGranted(p) BY SendLeads DEF SendSteps, Leads
<1>4. ASSUME NEW r \in Proc, Step(r) PROVE SameFrame(p)
  <2>1. CASE AllocSlots(r)
    <3>1. r # p BY <2>1
    <3>2. FramesOK /\ Waited(r) \in [Proc -> FrameRecord] BY <1>1, WaitedSame
    <3>3. co'[p] = co[p] \/ co'[p] = Waited(r)[p] BY <2>1, <3>1, <3>2 DEF AllocSlots, FramesOK
    <3>4. QED BY <1>1, <3>3, WaitedSame DEF SameFrame
  <2>2. QED BY <1>2, <1>4, <2>1, HandleLeads, ReturnLeads, SendLeads DEF Step
<1>5. ASSUME NEW r \in Proc, SbatchLoginNeeded(r) \/ AgentStartFails(r) PROVE SameFrame(p)
  <2>1. co' = [co EXCEPT ![r].pc = "raise"]
    BY <1>5 DEF SbatchLoginNeeded, AgentStartFails, Goto
  <2>2. QED BY <1>1, <1>2, <2>1, LeadsPc
<1>6. ASSUME NEW r \in Req, Request(r) PROVE SameFrame(p)
  <2>1. PICK a \in Apis : \E f : f.pc = a /\ co' = [co EXCEPT ![r] = f]
    <3>1. PICK a \in Apis, j \in Job, h \in Hash, serial \in {0, clock}, force \in BOOLEAN :
            Receive(r, a, j, h, serial, force)
      BY <1>6 DEF Request
    <3> DEFINE f == [IdleFrame EXCEPT !.pc = a, !.job = j, !.hash = h, !.serial = serial,
                                      !.force = force, !.run = a = "api_runSimulation"]
    <3>2. co' = [co EXCEPT ![r] = f] BY <3>1 DEF Receive
    <3>3. f.pc = a BY DEF IdleFrame
    <3> HIDE DEF f
    <3>4. QED BY <3>2, <3>3
  <2>2. a # "awaitSlot" BY ApisAssumption DEF Api
  <2>3. r \in Proc BY DEF Proc
  <2>4. QED BY <1>1, <1>2, <2>1, <2>2, <2>3, LeadsTo
<1>7. ASSUME NEW r \in Timer, NEW o, OpTimeout(r, o) PROVE SameFrame(p)
  <2> DEFINE f == [IdleFrame EXCEPT !.job = op[o].job]
  <2>1. PICK c : co' = [Touched(co, op[o].job) EXCEPT ![r] = Sending(f, c, "cancel")]
    BY <1>7 DEF OpTimeout, CancelJob
  <2>2. Sending(f, c, "cancel").pc # "awaitSlot" BY DEF Sending, IdleFrame
  <2>3. r \in Proc BY DEF Proc
  <2> HIDE DEF f
  <2>4. QED BY <1>1, <1>2, <2>1, <2>2, <2>3, LeadsTo
<1>8. ASSUME Environment PROVE SameFrame(p)
  <2>1. ASSUME co' = co PROVE SameFrame(p) BY <2>1 DEF SameFrame
  <2>2. ASSUME NEW j, co' = Touched(co, j) PROVE SameFrame(p) BY <1>1, <2>2, TouchedSame DEF SameFrame
  <2>3. ASSUME NEW k, AgentAlive(k) PROVE SameFrame(p)
    <3>1. co[p] \in FrameRecord BY <1>1 DEF FramesOK
    <3>2. co'[p] \in {co[p], [co[p] EXCEPT !.pc = "agentSet"], [co[p] EXCEPT !.pc = "agentSetAgain"]}
      BY <2>3 DEF AgentAlive
    <3>3. QED BY <3>1, <3>2 DEF FrameRecord, SameFrame
  <2>4. ~Restart
    <3>1. Restart => co'[p] = IdleFrame BY DEF Restart
    <3>2. IdleFrame.pc # "awaitSlot" BY DEF IdleFrame
    <3>3. QED BY <3>1, <3>2
  <2>5. ASSUME NEW k, SocketClose(k) \/ KillIfIdle(k) \/ ReadyTimeout(k) \/ FreeResources(k)
        PROVE  SameFrame(p)
    BY <2>1, <2>5 DEF SocketClose, KillIfIdle, ReadyTimeout, FreeResources
  <2>6. ASSUME NEW o, NEW x, AgentReply(o, x) PROVE SameFrame(p) BY <2>1, <2>6 DEF AgentReply
  <2>7. ASSUME NEW j, NEW s, AgentUpdate(j, s) PROVE SameFrame(p) BY <2>2, <2>7 DEF AgentUpdate
  <2>8. ASSUME NEW j, CacheTimeout(j) \/ Purge(j) PROVE SameFrame(p)
    BY <2>1, <2>8 DEF CacheTimeout, Purge
  <2>9. QED BY <1>8, <2>3, <2>4, <2>5, <2>6, <2>7, <2>8 DEF Environment
<1>9. ASSUME UNCHANGED vars PROVE SameFrame(p) BY <1>9 DEF vars, SameFrame
<1>10. QED BY <1>3, <1>4, <1>5, <1>6, <1>7, <1>8, <1>9 DEF Next

\* An alloc that waits and is not resumed is still in line, or has its slot.
LEMMA WakesKept ==
    ASSUME Inductive, Inductive', SlotInv, SlotInv', SlotsOK, [Next]_vars, NEW p \in Proc,
           co'[p].pc = "awaitSlot", ~AllocSlots(p), Wakes(p)
    PROVE  Wakes(p)'
<1>1. PICK o \in Op : o = co[p].op /\ op[o] # NoOp /\ o # None
  <2>1. co[p].pc = "awaitSlot" BY WaitSteps DEF SameFrame
  <2>2. co[p].op \in Op BY <2>1 DEF Inductive, FrameInv, Frame, SendPc
  <2>3. QED BY <2>2, ReferredKnown, NoneAssumption
<1>2. PICK q : q = Need(o)[co[p].step] OBVIOUS
<1>3. co[p].pc = "awaitSlot" /\ co'[p].op = o /\ co'[p].step = co[p].step
  BY <1>1, WaitSteps DEF SameFrame
<1>4. op'[o] # NoOp
  <2>1. (op[co[p].op] # NoOp)' BY <1>1, <1>3 DEF Inductive, FrameInv, Refers
  <2>2. NoOp' = NoOp BY DEF NoOp
  <2>3. QED BY <1>3, <2>1, <2>2
<1>5. Need(o)' = Need(o)
  <2>1. SameNeed(o) BY <1>1, <1>4, OpStays DEF Stays
  <2>2. QED BY <2>1, NeedSame DEF SameNeed
<1>6. q \in Queue
  <2>1. Holds(p) BY DEF SlotInv
  <2>2. co[p].step \in 1..Len(Need(o)) BY <1>1, <1>3, <2>1, NeedLength DEF Holds, Taking
  <2>3. Known(o) BY <1>1, ReferredKnown
  <2>4. Need(o) \in Seq(Queue) BY <1>1, <2>3, NeedFacts
  <2>5. QED BY <1>2, <2>2, <2>4
<1>7. InLine(o, q) \/ o \in holders[q] BY <1>1, <1>2 DEF Wakes
<1>8. AwaitsSlot(o, q) BY <1>1, <1>2, <1>3 DEF AwaitsSlot
<1>9. SUFFICES InLine(o, q)' \/ o \in holders'[q]
  BY <1>1, <1>2, <1>3, <1>5 DEF Wakes, InLine
<1>10. ASSUME NEW back, GiveBack(back), o \notin back[q]
       PROVE  InLine(o, q)' \/ o \in holders'[q]
  BY <1>6, <1>7, <1>10, GiveBackEffect DEF SlotInv, Lines
<1>11. CASE UNCHANGED slotVars BY <1>7, <1>11 DEF slotVars, InLine
<1>12. ASSUME NEW S, GiveBack(SlotsOf(S)) PROVE InLine(o, q)' \/ o \in holders'[q]
  <2>1. o \notin SlotsOf(S)[q] BY <1>6, <1>8 DEF SlotsOf
  <2>2. QED BY <1>10, <1>12, <2>1
<1>13. ASSUME NEW r \in Proc, ReplyGot(r) \/ SlotGranted(r), NEW x,
              GiveBack([y \in Queue |-> IF y = x THEN {co[r].op} ELSE {}])
       PROVE  InLine(o, q)' \/ o \in holders'[q]
  <2>1. r # p BY <1>13, WaitSteps
  <2>2. co[r].op # o BY <1>1, <2>1 DEF SlotInv, OneCoroutine
  <2>3. QED BY <1>6, <1>10, <1>13, <2>2
<1>14. ASSUME NEW r \in Proc, AllocSlots(r) PROVE InLine(o, q)' \/ o \in holders'[q]
  <2>1. CASE o \in holders[q] BY <1>6, <1>14, <2>1 DEF AllocSlots
  <2>2. CASE InLine(o, q)
    <3>1. waiters[q] \in Seq(Op) BY <1>6 DEF SlotsOK
    <3>2. waiters'[q] = waiters[q] \/ waiters'[q] = Append(waiters[q], co[r].op)
      BY <1>6, <1>14 DEF AllocSlots, SlotsOK
    <3>3. PICK i \in 1..Len(waiters[q]) : waiters[q][i] = o BY <2>2 DEF InLine
    <3>4. i \in 1..Len(waiters'[q]) /\ waiters'[q][i] = o BY <3>1, <3>2, <3>3
    <3>5. QED BY <3>4 DEF InLine
  <2>3. QED BY <1>7, <2>1, <2>2
<1>15. ~Restart
  <2>1. Restart => co'[p] = IdleFrame BY DEF Restart
  <2>2. IdleFrame.pc # "awaitSlot" BY DEF IdleFrame
  <2>3. QED BY <2>1, <2>2
<1>16. QED BY <1>11, <1>12, <1>13, <1>14, <1>15, SlotOwners

LEMMA WakeupsKept ==
    ASSUME Inductive, Inductive', SlotInv, SlotInv', SlotsOK, SlotsOK', NoLostWakeup, [Next]_vars
    PROVE  NoLostWakeup'
<1>1. ASSUME NEW p \in Proc, co'[p].pc = "awaitSlot", AllocSlots(p) PROVE Wakes(p)'
  <2>1. PICK o \in Op : o = co[p].op BY <1>1, AllocFacts
  <2>2. PICK need \in Seq(Queue) : \E s \in 1..Len(need) + 1 : \E next \in s..Len(need) + 1 :
                Allocs(p, o, need, s, next)
    BY <1>1, <2>1, AllocFacts
  <2>3. PICK s \in 1..Len(need) + 1 : \E next \in s..Len(need) + 1 : Allocs(p, o, need, s, next)
    BY <2>2
  <2>4. PICK next \in s..Len(need) + 1 : Allocs(p, o, need, s, next) BY <2>3
  <2>5. /\ next <= Len(need) /\ co'[p].step = next /\ need = Need(o)'
        /\ waiters' = [waiters EXCEPT ![need[next]] = Append(@, o)]
    BY <1>1, <2>4 DEF Allocs
  <2>6. co'[p].op = o BY <1>1, <2>1, AllocFacts
  <2>7. need[next] \in Queue
    <3>1. next \in 1..Len(need) BY <2>2, <2>3, <2>4, <2>5
    <3>2. QED BY <2>2, <3>1
  <2>8. waiters[need[next]] \in Seq(Op) /\ waiters'[need[next]] = Append(waiters[need[next]], o)
    BY <2>5, <2>7 DEF SlotsOK
  <2>9. InLine(o, need[next])'
    <3>1. PICK w \in Seq(Op) : w = waiters[need[next]] BY <2>8
    <3>2. Len(w) + 1 \in 1..Len(Append(w, o)) /\ Append(w, o)[Len(w) + 1] = o BY <3>1
    <3>3. QED BY <2>8, <3>1, <3>2 DEF InLine
  <2>10. QED BY <2>5, <2>6, <2>9 DEF Wakes
<1>2. ASSUME NEW p \in Proc, co'[p].pc = "awaitSlot", ~AllocSlots(p) PROVE Wakes(p)'
  <2>1. co[p].pc = "awaitSlot" BY <1>2, WaitSteps DEF SameFrame
  <2>2. QED BY <1>2, <2>1, WakesKept DEF NoLostWakeup
<1>3. QED BY <1>1, <1>2 DEF NoLostWakeup

\* A coroutine that awaits a slot is in the line of its queue or was handed the slot, even if its
\* operation was destroyed meanwhile: the event loop will not forget it (SlotProxy.alloc).
THEOREM NoWakeupIsLost == Spec => []NoLostWakeup
<1>1. Init => NoLostWakeup BY DEF Init, NoLostWakeup, IdleFrame
<1>2. Inductive /\ Inductive' /\ SlotInv /\ SlotInv' /\ SlotsOK /\ SlotsOK' /\ NoLostWakeup
        /\ [Next]_vars => NoLostWakeup'
  BY WakeupsKept
<1>3. QED BY <1>1, <1>2, SlotInvHolds, PTL DEF Spec
================================================================================
