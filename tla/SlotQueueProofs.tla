--------------------------- MODULE SlotQueueProofs ---------------------------
(***************************************************************************)
(* Proofs about SlotQueue: for any operations and any pool size, no slot   *)
(* is used twice, lost, or left idle while somebody waits, and the queue   *)
(* implements FairSlots.                                                   *)
(***************************************************************************)
EXTENDS SlotQueue, TLAPS

\* No slot is twice in the queue, no operation waits twice.
QueueDistinct == \A i, j \in 1..Len(queue) : queue[i] = queue[j] => i = j
GettersDistinct == \A i, j \in 1..Len(getters) : getters[i] = getters[j] => i = j

\* A waiter has neither a result nor a value; a result means no value yet.
WaitersHaveNothing ==
    /\ \A i \in 1..Len(getters) : /\ given[getters[i]] = NoSlot
                                  /\ value[getters[i]] = NoSlot
    /\ \A o \in Op : given[o] # NoSlot => value[o] = NoSlot

\* The strengthening of the safety properties that every step preserves.
IInv ==
    /\ TypeOK
    /\ QueueDistinct
    /\ GettersDistinct
    /\ WaitersHaveNothing
    /\ MutualExclusion
    /\ NoSlotLost
    /\ NoIdleSlot
    /\ DestroyedKeepsNothing

(***************************************************************************)
(* put_nowait of a slot nobody has: the slot is put where exactly one      *)
(* waiter, or the queue, has it.  r is the results after the proxy or the  *)
(* resumed coroutine let the slot go, v the values.                        *)
(***************************************************************************)
LEMMA PutNowaitKeepsInv ==
    ASSUME TypeOK, QueueDistinct, GettersDistinct, NoIdleSlot,
           NEW s \in Slot,
           NEW r \in [Op -> Slot \union {NoSlot}],
           NEW v \in [Op -> Slot \union {NoSlot}],
           \A i \in 1..Len(getters) : r[getters[i]] = NoSlot /\ v[getters[i]] = NoSlot,
           \A o \in Op : r[o] # NoSlot => v[o] = NoSlot,
           ~InQueue(s),
           \A o \in Op : r[o] # s /\ v[o] # s,
           \A t \in Slot : \A o1, o2 \in Op :
               (r[o1] = t \/ v[o1] = t) /\ (r[o2] = t \/ v[o2] = t) => o1 = o2,
           \A t \in Slot : InQueue(t) => \A o \in Op : r[o] # t /\ v[o] # t,
           \A t \in Slot : t = s \/ InQueue(t) \/ \E o \in Op : r[o] = t \/ v[o] = t,
           PutNowait(s, r),
           value' = v,
           destroyed' \subseteq Op,
           \A o \in destroyed' : v[o] = NoSlot
    PROVE  IInv'
<1>1. CASE getters = <<>>
  <2>1. queue' = Append(queue, s) /\ given' = r /\ getters' = getters
    BY <1>1 DEF PutNowait
  <2>2. /\ Len(queue') = Len(queue) + 1
        /\ \A i \in 1..Len(queue) : queue'[i] = queue[i]
        /\ queue'[Len(queue) + 1] = s
        /\ queue' \in Seq(Slot)
    BY <2>1 DEF TypeOK
  <2>3. TypeOK'
    BY <2>1, <2>2 DEF TypeOK
  <2>4. QueueDistinct'
    <3> SUFFICES ASSUME NEW i \in 1..Len(queue'), NEW j \in 1..Len(queue'),
                        queue'[i] = queue'[j]
                 PROVE  i = j
      BY DEF QueueDistinct
    <3>1. \A k \in 1..Len(queue) : queue[k] # s
      BY DEF InQueue, TypeOK
    <3>2. (i \in 1..Len(queue) \/ i = Len(queue) + 1) /\ (j \in 1..Len(queue) \/ j = Len(queue) + 1)
      BY <2>2 DEF TypeOK
    <3> QED BY <2>2, <3>1, <3>2 DEF QueueDistinct
  <2>5. \A t : InQueue(t)' <=> (InQueue(t) \/ t = s)
    <3>0. DOMAIN queue = 1..Len(queue) /\ DOMAIN queue' = 1..(Len(queue) + 1) /\ Len(queue) \in Nat
      BY <2>2 DEF TypeOK
    <3> TAKE t
    <3>1. ASSUME InQueue(t)' PROVE InQueue(t) \/ t = s
      BY <3>0, <3>1, <2>2 DEF InQueue
    <3>2. ASSUME InQueue(t) PROVE InQueue(t)'
      BY <3>0, <3>2, <2>2 DEF InQueue
    <3>3. ASSUME t = s PROVE InQueue(t)'
      <4>1. Len(queue) + 1 \in DOMAIN queue'
        BY <3>0
      <4> QED BY <4>1, <3>3, <2>2 DEF InQueue
    <3> QED BY <3>1, <3>2, <3>3
  <2>6. GettersDistinct' /\ WaitersHaveNothing'
    BY <2>1 DEF GettersDistinct, WaitersHaveNothing
  <2>7. MutualExclusion'
    BY <2>1, <2>5 DEF MutualExclusion, Has
  <2>8. NoSlotLost'
    BY <2>1, <2>5 DEF NoSlotLost, Has
  <2>9. NoIdleSlot'
    BY <1>1, <2>1 DEF NoIdleSlot
  <2>10. DestroyedKeepsNothing'
    BY DEF DestroyedKeepsNothing
  <2> QED
    BY <2>3, <2>4, <2>6, <2>7, <2>8, <2>9, <2>10 DEF IInv
<1>2. CASE getters # <<>>
  <2> DEFINE h == Head(getters)
  <2>1. given' = [r EXCEPT ![h] = s] /\ getters' = Tail(getters) /\ queue' = queue
    BY <1>2 DEF PutNowait
  <2>2. /\ h \in Op /\ h = getters[1] /\ Len(getters) >= 1
        /\ getters' \in Seq(Op)
        /\ Len(getters') = Len(getters) - 1
        /\ \A i \in 1..Len(getters') : getters'[i] = getters[i + 1]
    BY <1>2, <2>1 DEF TypeOK
  <2>3. \A i \in 1..Len(getters') : i + 1 \in 1..Len(getters) /\ getters'[i] # h
    <3> TAKE i \in 1..Len(getters')
    <3>1. i + 1 \in 1..Len(getters) /\ 1 \in 1..Len(getters) /\ i + 1 # 1
      BY <2>2 DEF TypeOK
    <3> QED BY <2>2, <3>1 DEF GettersDistinct
  <2>4. r[h] = NoSlot /\ v[h] = NoSlot
    <3>1. 1 \in 1..Len(getters)
      BY <2>2 DEF TypeOK
    <3> QED BY <3>1, <2>2
  <2> HIDE DEF h
  <2>5. given' \in [Op -> Slot \union {NoSlot}]
    BY <2>1, <2>2
  <2>6. TypeOK'
    BY <2>1, <2>2, <2>5 DEF TypeOK
  <2>7. QueueDistinct'
    BY <2>1 DEF QueueDistinct
  <2>8. GettersDistinct'
    <3> SUFFICES ASSUME NEW i \in 1..Len(getters'), NEW j \in 1..Len(getters'),
                        getters'[i] = getters'[j]
                 PROVE  i = j
      BY DEF GettersDistinct
    <3>1. i + 1 \in 1..Len(getters) /\ j + 1 \in 1..Len(getters)
      BY <2>3
    <3>2. i + 1 = j + 1
      BY <2>2, <3>1 DEF GettersDistinct
    <3>3. i \in Nat /\ j \in Nat
      BY <2>2
    <3> QED BY <3>2, <3>3
  <2>9. WaitersHaveNothing'
    <3>1. \A i \in 1..Len(getters') : given'[getters'[i]] = NoSlot /\ value'[getters'[i]] = NoSlot
      <4> TAKE i \in 1..Len(getters')
      <4>1. i + 1 \in 1..Len(getters) /\ getters'[i] = getters[i + 1] /\ getters'[i] # h
        BY <2>2, <2>3
      <4>2. getters'[i] \in Op
        BY <2>2
      <4>3. given'[getters'[i]] = r[getters'[i]]
        BY <2>1, <4>1, <4>2
      <4> QED BY <4>1, <4>3
    <3>2. \A o \in Op : given'[o] # NoSlot => value'[o] = NoSlot
      BY <2>1, <2>4
    <3> QED BY <3>1, <3>2 DEF WaitersHaveNothing
  <2>10. s # NoSlot /\ NoSlot \notin Slot
    BY MaxSizeAssumption DEF Slot, NoSlot
  <2>11. \A o \in Op, t \in Slot :
            Has(o, t)' <=> (r[o] = t \/ v[o] = t \/ (o = h /\ t = s))
    BY <2>1, <2>2, <2>4, <2>10 DEF Has
  <2>12. \A t : InQueue(t)' <=> InQueue(t)
    BY <2>1 DEF InQueue
  <2>13. MutualExclusion'
    BY <2>11, <2>12 DEF MutualExclusion
  <2>14. NoSlotLost'
    BY <2>2, <2>11, <2>12 DEF NoSlotLost
  <2>15. NoIdleSlot'
    BY <1>2, <2>1 DEF NoIdleSlot
  <2>16. DestroyedKeepsNothing'
    BY DEF DestroyedKeepsNothing
  <2> QED
    BY <2>6, <2>7, <2>8, <2>9, <2>13, <2>14, <2>15, <2>16 DEF IInv
<1> QED BY <1>1, <1>2

-----------------------------------------------------------------------------
\* The invariant holds initially: all slots are in the queue.
LEMMA InitInv == Init => IInv
<1> SUFFICES ASSUME Init PROVE IInv
  OBVIOUS
<1>1. NoSlot \notin Slot
  BY MaxSizeAssumption DEF Slot, NoSlot
<1>2. queue \in Seq(Slot) /\ Len(queue) = MaxSize /\ \A i \in Slot : queue[i] = i
  BY MaxSizeAssumption DEF Init, Slot
<1>3. DOMAIN queue = Slot
  BY <1>2 DEF Init
<1>4. TypeOK
  BY <1>2 DEF Init, TypeOK
<1>5. QueueDistinct
  BY <1>2 DEF QueueDistinct, Slot
<1>6. GettersDistinct /\ WaitersHaveNothing /\ NoIdleSlot
  BY DEF Init, GettersDistinct, WaitersHaveNothing, NoIdleSlot
<1>7. MutualExclusion
  BY <1>1 DEF Init, MutualExclusion, Has
<1>8. NoSlotLost
  BY <1>2, <1>3 DEF NoSlotLost, InQueue
<1>9. DestroyedKeepsNothing
  BY DEF Init, DestroyedKeepsNothing
<1> QED
  BY <1>4, <1>5, <1>6, <1>7, <1>8, <1>9 DEF IInv

\* get_nowait: the head of the queue moves into the proxy.
LEMMA AllocNowInv == ASSUME IInv, NEW o \in Op, AllocNow(o) PROVE IInv'
<1> USE DEF IInv
<1>0. NoSlot \notin Slot
  BY MaxSizeAssumption DEF Slot, NoSlot
<1>s. PICK s \in Slot : s = Head(queue)
  BY DEF AllocNow, TypeOK
<1>1. /\ s \in Slot /\ s = queue[1] /\ Len(queue) >= 1 /\ Len(queue) \in Nat
      /\ queue' \in Seq(Slot)
      /\ Len(queue') = Len(queue) - 1
      /\ \A i \in 1..Len(queue') : queue'[i] = queue[i + 1]
      /\ DOMAIN queue = 1..Len(queue) /\ DOMAIN queue' = 1..Len(queue')
  BY <1>s DEF AllocNow, TypeOK
<1>2. /\ value' = [value EXCEPT ![o] = s] /\ value[o] = NoSlot /\ given[o] = NoSlot
      /\ o \notin destroyed
      /\ UNCHANGED <<getters, given, destroyed>>
  BY <1>s DEF AllocNow, Awaiting
<1>3. \A t \in Slot : InQueue(t) <=> (t = s \/ InQueue(t)')
  <2> TAKE t \in Slot
  <2>1. ASSUME InQueue(t), t # s PROVE InQueue(t)'
    <3>1. PICK i \in 1..Len(queue) : queue[i] = t
      BY <1>1, <2>1 DEF InQueue
    <3>2. i # 1 /\ i - 1 \in 1..Len(queue') /\ queue'[i - 1] = t
      BY <1>1, <2>1, <3>1
    <3> QED BY <1>1, <3>2 DEF InQueue
  <2>2. ASSUME InQueue(t)' PROVE InQueue(t)
    <3>1. PICK i \in 1..Len(queue') : queue'[i] = t
      BY <1>1, <2>2 DEF InQueue
    <3>2. i + 1 \in 1..Len(queue) /\ queue[i + 1] = t
      BY <1>1, <3>1
    <3> QED BY <1>1, <3>2 DEF InQueue
  <2>3. ASSUME t = s PROVE InQueue(t)
    <3>1. 1 \in DOMAIN queue
      BY <1>1
    <3> QED BY <1>1, <2>3, <3>1 DEF InQueue
  <2> QED BY <2>1, <2>2, <2>3
<1>4. ~InQueue(s)'
  <2> SUFFICES ASSUME NEW i \in 1..Len(queue'), queue'[i] = s PROVE FALSE
    BY <1>1 DEF InQueue
  <2>1. i + 1 \in 1..Len(queue) /\ 1 \in 1..Len(queue) /\ queue[i + 1] = queue[1] /\ i + 1 # 1
    BY <1>1
  <2> QED BY <2>1 DEF QueueDistinct
<1>5. \A q \in Op, t \in Slot : Has(q, t)' <=> (Has(q, t) \/ (q = o /\ t = s))
  BY <1>0, <1>1, <1>2 DEF TypeOK, Has
<1>6. TypeOK'
  BY <1>1, <1>2 DEF TypeOK
<1>7. QueueDistinct'
  <2> SUFFICES ASSUME NEW i \in 1..Len(queue'), NEW j \in 1..Len(queue'),
                      queue'[i] = queue'[j]
               PROVE  i = j
    BY DEF QueueDistinct
  <2>1. i + 1 \in 1..Len(queue) /\ j + 1 \in 1..Len(queue) /\ queue[i + 1] = queue[j + 1]
    BY <1>1
  <2>2. i + 1 = j + 1
    BY <2>1 DEF QueueDistinct
  <2>3. i \in Nat /\ j \in Nat
    BY <1>1
  <2> QED BY <2>2, <2>3
<1>8. GettersDistinct'
  BY <1>2 DEF GettersDistinct
<1>9. getters = <<>>
  BY DEF AllocNow, NoIdleSlot
<1>10. WaitersHaveNothing' /\ NoIdleSlot'
  BY <1>1, <1>2, <1>9 DEF WaitersHaveNothing, NoIdleSlot, TypeOK
<1>11. InQueue(s)
  BY <1>1, <1>3
<1>12. MutualExclusion'
  <2>1. \A q \in Op : ~Has(q, s)
    BY <1>1, <1>11 DEF MutualExclusion
  <2> QED BY <1>1, <1>3, <1>4, <1>5, <2>1 DEF MutualExclusion
<1>13. NoSlotLost'
  BY <1>3, <1>5 DEF NoSlotLost
<1>14. DestroyedKeepsNothing'
  BY <1>2 DEF DestroyedKeepsNothing, TypeOK
<1> QED
  BY <1>6, <1>7, <1>8, <1>10, <1>12, <1>13, <1>14

\* get() with an empty queue: the operation joins the waiters.
LEMMA AllocAwaitInv == ASSUME IInv, NEW o \in Op, AllocAwait(o) PROVE IInv'
<1> USE DEF IInv
<1>1. /\ getters' = Append(getters, o) /\ queue = <<>>
      /\ UNCHANGED <<queue, given, value, destroyed>>
      /\ value[o] = NoSlot /\ given[o] = NoSlot
  BY DEF AllocAwait, Awaiting
<1>2. \A i \in 1..Len(getters) : getters[i] # o
  BY DEF AllocAwait, Awaiting, TypeOK
<1>3. /\ getters' \in Seq(Op) /\ Len(getters) \in Nat
      /\ Len(getters') = Len(getters) + 1
      /\ \A i \in 1..Len(getters) : getters'[i] = getters[i]
      /\ getters'[Len(getters) + 1] = o
  BY <1>1 DEF TypeOK
<1>4. TypeOK'
  BY <1>1, <1>3 DEF TypeOK
<1>5. GettersDistinct'
  <2> SUFFICES ASSUME NEW i \in 1..Len(getters'), NEW j \in 1..Len(getters'),
                      getters'[i] = getters'[j]
               PROVE  i = j
    BY DEF GettersDistinct
  <2>1. (i \in 1..Len(getters) \/ i = Len(getters) + 1) /\ (j \in 1..Len(getters) \/ j = Len(getters) + 1)
    BY <1>3
  <2> QED BY <1>2, <1>3, <2>1 DEF GettersDistinct
<1>6. WaitersHaveNothing'
  <2>1. \A i \in 1..Len(getters') : i \in 1..Len(getters) \/ i = Len(getters) + 1
    BY <1>3
  <2> QED BY <1>1, <1>3, <2>1 DEF WaitersHaveNothing
<1>7. QueueDistinct' /\ NoIdleSlot' /\ DestroyedKeepsNothing'
  BY <1>1 DEF QueueDistinct, NoIdleSlot, DestroyedKeepsNothing
<1>8. MutualExclusion' /\ NoSlotLost'
  BY <1>1 DEF MutualExclusion, NoSlotLost, InQueue, Has
<1> QED
  BY <1>4, <1>5, <1>6, <1>7, <1>8

\* A resolved future becomes the proxy's value.
LEMMA AllocResumeInv == ASSUME IInv, NEW o \in Op, AllocResume(o) PROVE IInv'
<1> USE DEF IInv
<1>1. /\ value' = [value EXCEPT ![o] = given[o]] /\ given' = [given EXCEPT ![o] = NoSlot]
      /\ UNCHANGED <<queue, getters, destroyed>>
      /\ given[o] # NoSlot /\ value[o] = NoSlot /\ o \notin destroyed
  BY DEF AllocResume, WaitersHaveNothing
<1>2. NoSlot \notin Slot
  BY MaxSizeAssumption DEF Slot, NoSlot
<1>3. \A q \in Op, t \in Slot : Has(q, t)' <=> Has(q, t)
  BY <1>1, <1>2 DEF TypeOK, Has
<1>4. TypeOK' /\ QueueDistinct' /\ GettersDistinct' /\ NoIdleSlot'
  BY <1>1 DEF TypeOK, QueueDistinct, GettersDistinct, NoIdleSlot
<1>5. WaitersHaveNothing'
  BY <1>1 DEF WaitersHaveNothing, TypeOK
<1>6. MutualExclusion' /\ NoSlotLost'
  BY <1>1, <1>3 DEF MutualExclusion, NoSlotLost, InQueue
<1>7. DestroyedKeepsNothing'
  BY <1>1 DEF DestroyedKeepsNothing, TypeOK
<1> QED
  BY <1>4, <1>5, <1>6, <1>7

\* The three places that call put_nowait.
LEMMA AllocResumeDestroyedInv ==
    ASSUME IInv, NEW o \in Op, AllocResumeDestroyed(o) PROVE IInv'
<1> USE DEF IInv
<1> DEFINE s == given[o]
           r == [given EXCEPT ![o] = NoSlot]
<1>0. NoSlot \notin Slot
  BY MaxSizeAssumption DEF Slot, NoSlot
<1>1. s \in Slot /\ Has(o, s) /\ value' = value /\ destroyed' = destroyed /\ PutNowait(s, r)
  BY DEF AllocResumeDestroyed, TypeOK, Has
<1>2. r \in [Op -> Slot \union {NoSlot}] /\ value \in [Op -> Slot \union {NoSlot}]
  BY DEF TypeOK
<1>3. value[o] = NoSlot
  BY DEF AllocResumeDestroyed, WaitersHaveNothing
<1>4. \A q \in Op : r[q] # s /\ value[q] # s
  BY <1>0, <1>1, <1>3 DEF MutualExclusion, Has, TypeOK
<1>5. \A q \in Op, t \in Slot : (r[q] = t \/ value[q] = t) <=> (Has(q, t) /\ ~(q = o /\ t = s))
  BY <1>0, <1>1, <1>3 DEF Has, TypeOK
<1>6. ~InQueue(s)
  BY <1>1 DEF MutualExclusion
<1>7. \A i \in 1..Len(getters) : r[getters[i]] = NoSlot /\ value[getters[i]] = NoSlot
  BY DEF WaitersHaveNothing, TypeOK
<1>8. \A q \in Op : r[q] # NoSlot => value[q] = NoSlot
  BY DEF WaitersHaveNothing, TypeOK
<1>9. \A t \in Slot : \A q1, q2 \in Op :
          (r[q1] = t \/ value[q1] = t) /\ (r[q2] = t \/ value[q2] = t) => q1 = q2
  BY <1>5 DEF MutualExclusion
<1>10. \A t \in Slot : InQueue(t) => \A q \in Op : r[q] # t /\ value[q] # t
  BY <1>5 DEF MutualExclusion
<1>11. \A t \in Slot : t = s \/ InQueue(t) \/ \E q \in Op : r[q] = t \/ value[q] = t
  BY <1>5 DEF NoSlotLost
<1>12. destroyed' \subseteq Op /\ \A q \in destroyed' : value[q] = NoSlot
  BY <1>1 DEF TypeOK, DestroyedKeepsNothing
<1> HIDE DEF s, r
<1> QED
  BY <1>1, <1>2, <1>4, <1>6, <1>7, <1>8, <1>9, <1>10, <1>11, <1>12, PutNowaitKeepsInv

LEMMA FreeInv ==
    ASSUME IInv, NEW o \in Op, value[o] # NoSlot,
           PutNowait(value[o], given), value' = [value EXCEPT ![o] = NoSlot],
           destroyed' \in {destroyed, destroyed \union {o}}
    PROVE  IInv'
<1> USE DEF IInv
<1> DEFINE s == value[o]
           v == [value EXCEPT ![o] = NoSlot]
<1>0. NoSlot \notin Slot
  BY MaxSizeAssumption DEF Slot, NoSlot
<1>1. s \in Slot /\ Has(o, s) /\ value' = v /\ PutNowait(s, given)
  BY DEF TypeOK, Has
<1>2. v \in [Op -> Slot \union {NoSlot}] /\ given \in [Op -> Slot \union {NoSlot}]
  BY DEF TypeOK
<1>3. given[o] = NoSlot
  BY DEF WaitersHaveNothing
<1>4. \A q \in Op : given[q] # s /\ v[q] # s
  BY <1>0, <1>1, <1>3 DEF MutualExclusion, Has, TypeOK
<1>5. \A q \in Op, t \in Slot : (given[q] = t \/ v[q] = t) <=> (Has(q, t) /\ ~(q = o /\ t = s))
  BY <1>0, <1>1, <1>3 DEF Has, TypeOK
<1>6. ~InQueue(s)
  BY <1>1 DEF MutualExclusion
<1>7. \A i \in 1..Len(getters) : given[getters[i]] = NoSlot /\ v[getters[i]] = NoSlot
  BY DEF WaitersHaveNothing, TypeOK
<1>8. \A q \in Op : given[q] # NoSlot => v[q] = NoSlot
  BY DEF WaitersHaveNothing, TypeOK
<1>9. \A t \in Slot : \A q1, q2 \in Op :
          (given[q1] = t \/ v[q1] = t) /\ (given[q2] = t \/ v[q2] = t) => q1 = q2
  BY <1>5 DEF MutualExclusion
<1>10. \A t \in Slot : InQueue(t) => \A q \in Op : given[q] # t /\ v[q] # t
  BY <1>5 DEF MutualExclusion
<1>11. \A t \in Slot : t = s \/ InQueue(t) \/ \E q \in Op : given[q] = t \/ v[q] = t
  BY <1>5 DEF NoSlotLost
<1>12. destroyed' \subseteq Op /\ \A q \in destroyed' : v[q] = NoSlot
  BY DEF TypeOK, DestroyedKeepsNothing
<1> HIDE DEF s, v
<1> QED
  BY <1>1, <1>2, <1>4, <1>6, <1>7, <1>8, <1>9, <1>10, <1>11, <1>12, PutNowaitKeepsInv

\* Every step of every operation preserves the invariant.
LEMMA NextInv == IInv /\ [Next]_vars => IInv'
<1> SUFFICES ASSUME IInv, [Next]_vars PROVE IInv'
  OBVIOUS
<1>1. CASE UNCHANGED vars
  BY <1>1 DEF vars, IInv, TypeOK, QueueDistinct, GettersDistinct, WaitersHaveNothing,
              MutualExclusion, NoSlotLost, NoIdleSlot, DestroyedKeepsNothing, InQueue, Has
<1>2. ASSUME NEW o \in Op, Step(o) PROVE IInv'
  <2>1. CASE AllocNow(o)
    BY <2>1, AllocNowInv
  <2>2. CASE AllocAwait(o)
    BY <2>2, AllocAwaitInv
  <2>3. CASE AllocResume(o)
    BY <2>3, AllocResumeInv
  <2>4. CASE AllocResumeDestroyed(o)
    BY <2>4, AllocResumeDestroyedInv
  <2>5. CASE Free(o)
    BY <2>5, FreeInv DEF Free
  <2>6. CASE Destroy(o)
    <3>1. CASE value[o] # NoSlot
      BY <2>6, <3>1, FreeInv DEF Destroy
    <3>2. CASE value[o] = NoSlot
      <4>1. UNCHANGED <<queue, getters, given, value>> /\ destroyed' = destroyed \union {o}
        BY <2>6, <3>2 DEF Destroy
      <4> QED
        BY <3>2, <4>1 DEF IInv, TypeOK, QueueDistinct, GettersDistinct, WaitersHaveNothing,
              MutualExclusion, NoSlotLost, NoIdleSlot, DestroyedKeepsNothing, InQueue, Has
    <3> QED BY <3>1, <3>2
  <2> QED BY <1>2, <2>1, <2>2, <2>3, <2>4, <2>5, <2>6 DEF Step
<1> QED BY <1>1, <1>2 DEF Next

\* The invariant holds in every reachable state.
LEMMA SlotQueueInv == Spec => []IInv
  BY InitInv, NextInv, PTL DEF Spec

(***************************************************************************)
(* The types of the queue, its waiters and what operations hold.           *)
(***************************************************************************)
THEOREM SlotQueueTypes == Spec => []TypeOK
<1>1. IInv => TypeOK BY DEF IInv
<1> QED BY <1>1, SlotQueueInv, PTL

(***************************************************************************)
(* For any operations and any number of slots, no two operations have one  *)
(* slot (SlotProxy.alloc and free, job_supervisor.py:137-158).             *)
(***************************************************************************)
THEOREM SlotQueueExclusive == Spec => []MutualExclusion
<1>1. IInv => MutualExclusion BY DEF IInv
<1> QED BY <1>1, SlotQueueInv, PTL

(***************************************************************************)
(* A slot is in the queue or with somebody, although an operation may be   *)
(* destroyed after a slot was handed to it (job_supervisor.py:144).        *)
(***************************************************************************)
THEOREM SlotQueueLosesNothing == Spec => []NoSlotLost
<1>1. IInv => NoSlotLost BY DEF IInv
<1> QED BY <1>1, SlotQueueInv, PTL

(***************************************************************************)
(* No slot is free while an operation waits (job_supervisor.py:143-158).   *)
(***************************************************************************)
THEOREM SlotQueueNotIdle == Spec => []NoIdleSlot
<1>1. IInv => NoIdleSlot BY DEF IInv
<1> QED BY <1>1, SlotQueueInv, PTL

(***************************************************************************)
(* What is destroyed keeps no slot once its coroutine has gone on          *)
(* (_Op.destroy, job_supervisor.py:1282-1304).                             *)
(***************************************************************************)
THEOREM SlotQueueDestroyed == Spec => []DestroyedKeepsNothing
<1>1. IInv => DestroyedKeepsNothing BY DEF IInv
<1> QED BY <1>1, SlotQueueInv, PTL

-----------------------------------------------------------------------------
(***************************************************************************)
(* The refinement.  Under the invariant Owner says who has a slot, and a   *)
(* slot nobody has is in the queue.                                        *)
(***************************************************************************)
OwnerFacts ==
    \A s \in Slot :
        /\ Owner[s] \in Op \union {Nobody}
        /\ \A o \in Op : (Owner[s] = o <=> Has(o, s))
        /\ (Owner[s] = Nobody <=> InQueue(s))

LEMMA OwnerIs == IInv => OwnerFacts
<1> SUFFICES ASSUME IInv, NEW s \in Slot
             PROVE  /\ Owner[s] \in Op \union {Nobody}
                    /\ \A o \in Op : (Owner[s] = o <=> Has(o, s))
                    /\ (Owner[s] = Nobody <=> InQueue(s))
  BY DEF OwnerFacts
<1> USE DEF IInv
<1>1. CASE \E o \in Op : Has(o, s)
  <2>1. Owner[s] \in Op /\ Has(Owner[s], s)
    BY <1>1 DEF Owner
  <2>2. ~InQueue(s)
    BY <1>1 DEF MutualExclusion
  <2> QED BY <2>1, <2>2, NobodyAssumption DEF MutualExclusion
<1>2. CASE \A o \in Op : ~Has(o, s)
  <2>1. Owner[s] = Nobody
    BY <1>2 DEF Owner
  <2>2. InQueue(s)
    BY <1>2 DEF NoSlotLost
  <2> QED BY <1>2, <2>1, <2>2, NobodyAssumption
<1> QED BY <1>1, <1>2

LEMMA OwnerIsNext == IInv' => OwnerFacts'
BY OwnerIs, PTL

\* Owner after a step in which slot s alone changed hands.
LEMMA OwnerChanges ==
    ASSUME IInv, IInv', NEW s \in Slot, NEW x \in Op \union {Nobody},
           x \in Op => Has(x, s)',
           x = Nobody => InQueue(s)',
           \A t \in Slot \ {s} : \A o \in Op : Has(o, t)' <=> Has(o, t)
    PROVE  Owner' = [Owner EXCEPT ![s] = x]
<1>1. \A t \in Slot : /\ Owner[t] \in Op \union {Nobody}
                      /\ \A o \in Op : (Owner[t] = o <=> Has(o, t))
  BY OwnerIs DEF OwnerFacts
<1>2. \A t \in Slot : /\ Owner'[t] \in Op \union {Nobody}
                      /\ \A o \in Op : (Owner'[t] = o <=> Has(o, t)')
                      /\ (Owner'[t] = Nobody <=> InQueue(t)')
  BY OwnerIsNext DEF OwnerFacts
<1>3. Owner'[s] = x
  BY <1>2
<1>4. \A t \in Slot \ {s} : Owner'[t] = Owner[t]
  <2> TAKE t \in Slot \ {s}
  <2>1. CASE Owner[t] \in Op
    BY <1>1, <1>2, <2>1
  <2>2. CASE Owner[t] = Nobody
    <3>1. \A o \in Op : ~Has(o, t)
      BY <1>1, <2>2, NobodyAssumption
    <3> QED BY <1>2, <2>2, <3>1
  <2> QED BY <1>1, <2>1, <2>2
<1>5. Owner = [t \in Slot |-> Owner[t]] /\ Owner' = [t \in Slot |-> Owner'[t]]
  BY DEF Owner
<1> QED BY <1>3, <1>4, <1>5

\* A slot that is put back is given back, or passed on to the head of the line.
LEMMA PutNowaitGivesBack ==
    ASSUME IInv, IInv', NEW o \in Op, NEW s \in Slot, Has(o, s),
           NEW r \in [Op -> Slot \union {NoSlot}],
           PutNowait(s, r),
           \A t \in Slot \ {s}, q \in Op :
               Has(q, t) <=> (r[q] = t \/ value'[q] = t),
           value' \in [Op -> Slot \union {NoSlot}],
           \A i \in 1..Len(getters) : r[getters[i]] = NoSlot
    PROVE  Pool!GiveBack(s) \/ Pool!PassOn(s)
<1>0. NoSlot \notin Slot
  BY MaxSizeAssumption DEF Slot, NoSlot
<1>1. Owner[s] # Nobody
  BY OwnerIs, NobodyAssumption DEF OwnerFacts
<1>2. CASE getters = <<>>
  <2>1. queue' = Append(queue, s) /\ given' = r /\ getters' = getters
    BY <1>2 DEF PutNowait
  <2>2. InQueue(s)'
    <3>1. queue \in Seq(Slot) /\ Len(queue) + 1 \in DOMAIN queue' /\ queue'[Len(queue) + 1] = s
      BY <2>1 DEF IInv, TypeOK
    <3> QED BY <3>1 DEF InQueue
  <2>3. \A t \in Slot \ {s} : \A q \in Op : Has(q, t)' <=> Has(q, t)
    BY <2>1 DEF Has
  <2>4. Owner' = [Owner EXCEPT ![s] = Nobody]
    BY <2>2, <2>3, OwnerChanges, NobodyAssumption
  <2> QED BY <1>1, <1>2, <2>1, <2>4 DEF Pool!GiveBack
<1>3. CASE getters # <<>>
  <2>0. PICK h \in Op : h = Head(getters)
    BY <1>3 DEF IInv, TypeOK
  <2>1. given' = [r EXCEPT ![h] = s] /\ getters' = Tail(getters)
    BY <1>3, <2>0 DEF PutNowait
  <2>2. r[h] = NoSlot
    <3>1. h = getters[1] /\ 1 \in 1..Len(getters)
      BY <1>3, <2>0 DEF IInv, TypeOK
    <3> QED BY <3>1
  <2>3. Has(h, s)'
    BY <2>0, <2>1 DEF Has
  <2>4. \A t \in Slot \ {s} : \A q \in Op : Has(q, t)' <=> Has(q, t)
    BY <1>0, <2>1, <2>2 DEF Has
  <2>5. Owner' = [Owner EXCEPT ![s] = h]
    BY <2>0, <2>3, <2>4, OwnerChanges, NobodyAssumption
  <2> QED BY <1>1, <1>3, <2>0, <2>1, <2>5 DEF Pool!PassOn
<1> QED BY <1>2, <1>3

\* A step in which no slot changes hands is a stutter of the pool.
LEMMA SameOwner ==
    ASSUME \A q \in Op, t \in Slot : Has(q, t)' <=> Has(q, t), getters' = getters
    PROVE  UNCHANGED Pool!vars
<1>1. Owner' = Owner
  BY DEF Owner
<1> QED BY <1>1 DEF Pool!vars

\* Each step is a step of the pool, or a stutter.
LEMMA StepRefines ==
    ASSUME IInv, IInv', NEW o \in Op, Step(o)
    PROVE  [Pool!Next]_(Pool!vars)
<1>0. NoSlot \notin Slot
  BY MaxSizeAssumption DEF Slot, NoSlot
<1>1. CASE AllocNow(o)
  <2>1. PICK s \in Slot : s = Head(queue) /\ s = queue[1] /\ 1 \in DOMAIN queue
    BY <1>1 DEF AllocNow, IInv, TypeOK
  <2>2. value' = [value EXCEPT ![o] = s] /\ value[o] = NoSlot /\ UNCHANGED <<given, getters>>
    BY <1>1, <2>1 DEF AllocNow
  <2>3. InQueue(s)
    BY <2>1 DEF InQueue
  <2>4. Owner[s] = Nobody
    BY <2>3, OwnerIs DEF OwnerFacts
  <2>5. Has(o, s)' /\ \A t \in Slot \ {s} : \A q \in Op : Has(q, t)' <=> Has(q, t)
    BY <1>0, <2>2 DEF Has, IInv, TypeOK
  <2>6. Owner' = [Owner EXCEPT ![s] = o]
    BY <2>5, OwnerChanges, NobodyAssumption
  <2>7. Pool!Take(o, s)
    BY <2>2, <2>4, <2>6 DEF Pool!Take
  <2> QED BY <2>7 DEF Pool!Next
<1>2. CASE AllocAwait(o)
  <2>1. queue = <<>> /\ getters' = Append(getters, o) /\ UNCHANGED <<queue, given, value, destroyed>>
    BY <1>2 DEF AllocAwait
  <2>2. \A s \in Slot : ~InQueue(s)
    BY <2>1 DEF InQueue
  <2>3. \A s \in Slot : Owner[s] # Nobody
    BY <2>2, OwnerIs DEF OwnerFacts
  <2>4. Owner' = Owner
    BY <2>1 DEF Owner, Has
  <2>5. Pool!LineUp(o)
    BY <2>1, <2>3, <2>4 DEF Pool!LineUp
  <2> QED BY <2>5 DEF Pool!Next
<1>3. CASE AllocResume(o)
  <2>1. \A q \in Op, t \in Slot : Has(q, t)' <=> Has(q, t)
    BY <1>0, <1>3 DEF AllocResume, Has, IInv, TypeOK, WaitersHaveNothing
  <2>2. getters' = getters
    BY <1>3 DEF AllocResume
  <2> QED BY <2>1, <2>2, SameOwner
<1>4. CASE AllocResumeDestroyed(o)
  <2>1. PICK s \in Slot : s = given[o]
    BY <1>4 DEF AllocResumeDestroyed, IInv, TypeOK
  <2>2. PICK r : r = [given EXCEPT ![o] = NoSlot]
    OBVIOUS
  <2>3. PutNowait(s, r) /\ value' = value /\ value[o] = NoSlot
    BY <1>4, <2>1, <2>2 DEF AllocResumeDestroyed, IInv, WaitersHaveNothing
  <2>4. r \in [Op -> Slot \union {NoSlot}] /\ Has(o, s) /\ value' \in [Op -> Slot \union {NoSlot}]
    BY <2>1, <2>2, <2>3 DEF Has, IInv, TypeOK
  <2>5. \A t \in Slot \ {s}, q \in Op : Has(q, t) <=> (r[q] = t \/ value'[q] = t)
    BY <1>0, <2>1, <2>2, <2>3 DEF Has, IInv, TypeOK
  <2>6. \A i \in 1..Len(getters) : r[getters[i]] = NoSlot
    BY <2>2 DEF IInv, TypeOK, WaitersHaveNothing
  <2>7. Pool!GiveBack(s) \/ Pool!PassOn(s)
    BY <2>3, <2>4, <2>5, <2>6, PutNowaitGivesBack
  <2> QED BY <2>7 DEF Pool!Next
<1>5. ASSUME value[o] # NoSlot, PutNowait(value[o], given),
             value' = [value EXCEPT ![o] = NoSlot]
      PROVE  [Pool!Next]_(Pool!vars)
  <2>1. PICK s \in Slot : s = value[o]
    BY <1>5 DEF IInv, TypeOK
  <2>2. PutNowait(s, given) /\ Has(o, s)
    BY <1>5, <2>1 DEF Has
  <2>3. given \in [Op -> Slot \union {NoSlot}] /\ value' \in [Op -> Slot \union {NoSlot}]
    BY <1>5 DEF IInv, TypeOK
  <2>4. \A t \in Slot \ {s}, q \in Op : Has(q, t) <=> (given[q] = t \/ value'[q] = t)
    BY <1>0, <1>5, <2>1 DEF Has, IInv, TypeOK
  <2>5. \A i \in 1..Len(getters) : given[getters[i]] = NoSlot
    BY DEF IInv, WaitersHaveNothing
  <2>6. Pool!GiveBack(s) \/ Pool!PassOn(s)
    BY <2>2, <2>3, <2>4, <2>5, PutNowaitGivesBack
  <2> QED BY <2>6 DEF Pool!Next
<1>6. CASE Free(o)
  BY <1>5, <1>6 DEF Free
<1>7. CASE Destroy(o)
  <2>1. CASE value[o] # NoSlot
    BY <1>5, <1>7, <2>1 DEF Destroy
  <2>2. CASE value[o] = NoSlot
    <3>1. UNCHANGED <<getters, given, value>>
      BY <1>7, <2>2 DEF Destroy
    <3> QED BY <3>1, SameOwner DEF Has
  <2> QED BY <2>1, <2>2
<1> QED BY <1>1, <1>2, <1>3, <1>4, <1>6, <1>7 DEF Step

(***************************************************************************)
(* SlotQueue implements FairSlots: an alloc, free, destroy or resumption   *)
(* takes, lines up for, gives back or passes on one slot, or does nothing  *)
(* the pool can see (job_supervisor.py:133-168).                           *)
(***************************************************************************)
THEOREM SlotQueueRefines == Spec => ImplementsFairSlots
<1>1. Spec => []IInv
  BY SlotQueueInv
<1>2. Init => Pool!Init
  <2> SUFFICES ASSUME Init PROVE Pool!Init
    OBVIOUS
  <2>1. \A o \in Op, s \in Slot : ~Has(o, s)
    BY MaxSizeAssumption DEF Init, Has, Slot, NoSlot
  <2>2. Owner = [s \in Slot |-> Nobody]
    BY <2>1 DEF Owner
  <2> QED BY <2>2 DEF Init, Pool!Init
<1>3. IInv /\ IInv' /\ [Next]_vars => [Pool!Next]_(Pool!vars)
  <2> SUFFICES ASSUME IInv, IInv', [Next]_vars PROVE [Pool!Next]_(Pool!vars)
    OBVIOUS
  <2>1. CASE Next
    BY <2>1, StepRefines DEF Next
  <2>2. CASE UNCHANGED vars
    BY <2>2 DEF vars, Pool!vars, Owner, Has
  <2> QED BY <2>1, <2>2
<1> QED BY <1>1, <1>2, <1>3, PTL DEF Spec, ImplementsFairSlots, Pool!Spec
=============================================================================
