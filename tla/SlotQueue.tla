------------------------------ MODULE SlotQueue ------------------------------
(***************************************************************************)
(* SlotQueue and SlotProxy of sirepo/job_supervisor.py: a tornado queue    *)
(* preloaded with the slot numbers 1..MaxSize, and one proxy per operation *)
(* that takes a number out of the queue (alloc) and puts it back (free).   *)
(*                                                                         *)
(* The queue hands an item that is put while somebody waits directly to    *)
(* the first waiter's future.  The waiter learns of it only when the event *)
(* loop resumes it; in between its operation may be destroyed, and then    *)
(* alloc itself must put the slot back, because destroy found no value in  *)
(* the proxy to free.                                                      *)
(***************************************************************************)
EXTENDS Naturals, Sequences

CONSTANTS Op,       \* the operations, each with one proxy of this queue
          MaxSize,  \* number of slots
          Nobody    \* not an operation

ASSUME MaxSizeAssumption == MaxSize \in Nat \ {0}
ASSUME NobodyAssumption == Nobody \notin Op

Slot == 1..MaxSize
NoSlot == 0

VARIABLES
    queue,      \* the items of the tornado queue
    getters,    \* the operations whose alloc awaits get(), in order
    given,      \* given[o]: result of o's future, NoSlot while it is pending
    value,      \* value[o]: SlotProxy._value, NoSlot for None
    destroyed   \* the operations with is_destroyed set

vars == <<queue, getters, given, value, destroyed>>

Init ==
    /\ queue = [i \in Slot |-> i]
    /\ getters = <<>>
    /\ given = [o \in Op |-> NoSlot]
    /\ value = [o \in Op |-> NoSlot]
    /\ destroyed = {}

\* alloc of o is suspended in get(): pending or with a result not yet seen.
Awaiting(o) ==
    given[o] # NoSlot \/ \E i \in DOMAIN getters : getters[i] = o

\* Wrong: the item is queued although somebody waits, or the last one gets it.
PutNowaitQueued(s, results) ==
    /\ queue' = Append(queue, s)
    /\ given' = results
    /\ UNCHANGED getters

PutNowaitLast(s, results) ==
    IF getters = <<>>
    THEN queue' = Append(queue, s) /\ given' = results /\ UNCHANGED getters
    ELSE /\ given' = [results EXCEPT ![getters[Len(getters)]] = s]
         /\ getters' = SubSeq(getters, 1, Len(getters) - 1)
         /\ UNCHANGED queue

\* put_nowait(s): to the first waiter if there is one, else into the queue.
PutNowait(s, results) ==
    IF getters = <<>>
    THEN /\ queue' = Append(queue, s)
         /\ given' = results
         /\ UNCHANGED getters
    ELSE /\ given' = [results EXCEPT ![Head(getters)] = s]
         /\ getters' = Tail(getters)
         /\ UNCHANGED queue

-----------------------------------------------------------------------------
\* alloc when get_nowait succeeds.
AllocNow(o) ==
    /\ o \notin destroyed
    /\ value[o] = NoSlot /\ ~Awaiting(o)
    /\ queue # <<>>
    /\ value' = [value EXCEPT ![o] = Head(queue)]
    /\ queue' = Tail(queue)
    /\ UNCHANGED <<getters, given, destroyed>>

\* alloc when get_nowait raises QueueEmpty: await get().
AllocAwait(o) ==
    /\ o \notin destroyed
    /\ value[o] = NoSlot /\ ~Awaiting(o)
    /\ queue = <<>>
    /\ getters' = Append(getters, o)
    /\ UNCHANGED <<queue, given, value, destroyed>>

\* Wrong: is_destroyed is not looked at.
AllocResumeAnyway(o) ==
    /\ given[o] # NoSlot
    /\ value' = [value EXCEPT ![o] = given[o]]
    /\ given' = [given EXCEPT ![o] = NoSlot]
    /\ UNCHANGED <<queue, getters, destroyed>>

\* The event loop resumes alloc with its slot: HAD_TO_AWAIT.
AllocResume(o) ==
    /\ given[o] # NoSlot
    /\ o \notin destroyed
    /\ value' = [value EXCEPT ![o] = given[o]]
    /\ given' = [given EXCEPT ![o] = NoSlot]
    /\ UNCHANGED <<queue, getters, destroyed>>

\* Wrong: the slot is not given back.
AllocResumeKept(o) ==
    /\ given[o] # NoSlot
    /\ o \in destroyed
    /\ given' = [given EXCEPT ![o] = NoSlot]
    /\ UNCHANGED <<queue, getters, value, destroyed>>

\* The same for an operation destroyed while it waited: OP_IS_DESTROYED.
AllocResumeDestroyed(o) ==
    /\ given[o] # NoSlot
    /\ o \in destroyed
    /\ PutNowait(given[o], [given EXCEPT ![o] = NoSlot])
    /\ UNCHANGED <<value, destroyed>>

\* Wrong: _value is reset before it is put back, or not at all.
FreeEarlyReset(o) ==
    /\ value[o] # NoSlot
    /\ PutNowait(NoSlot, given)
    /\ value' = [value EXCEPT ![o] = NoSlot]
    /\ UNCHANGED destroyed

FreeNoReset(o) ==
    /\ value[o] # NoSlot
    /\ PutNowait(value[o], given)
    /\ UNCHANGED <<value, destroyed>>

\* SlotProxy.free of a live operation (a run gives up its run_dir_slot).
Free(o) ==
    /\ value[o] # NoSlot
    /\ PutNowait(value[o], given)
    /\ value' = [value EXCEPT ![o] = NoSlot]
    /\ UNCHANGED destroyed

\* _Op.destroy: frees the proxy; a proxy without a value has nothing to free.
Destroy(o) ==
    /\ o \notin destroyed
    /\ destroyed' = destroyed \union {o}
    /\ IF value[o] = NoSlot
       THEN UNCHANGED <<queue, getters, given, value>>
       ELSE /\ PutNowait(value[o], given)
            /\ value' = [value EXCEPT ![o] = NoSlot]

\* All that can happen to one operation.
Step(o) ==
    \/ AllocNow(o) \/ AllocAwait(o) \/ AllocResume(o)
    \/ AllocResumeDestroyed(o) \/ Free(o) \/ Destroy(o)

Next == \E o \in Op : Step(o)

(***************************************************************************)
(* Fairness: the event loop runs every coroutine whose future is resolved, *)
(* and an operation does not live forever (max_run_secs, or its request    *)
(* ends, which destroys it).                                               *)
(***************************************************************************)
Fairness == \A o \in Op : /\ WF_vars(AllocResume(o) \/ AllocResumeDestroyed(o))
                          /\ WF_vars(Destroy(o))

Spec == Init /\ [][Next]_vars
FairSpec == Spec /\ Fairness

-----------------------------------------------------------------------------
TypeOK ==
    /\ queue \in Seq(Slot)
    /\ getters \in Seq(Op)
    /\ given \in [Op -> Slot \union {NoSlot}]
    /\ value \in [Op -> Slot \union {NoSlot}]
    /\ destroyed \subseteq Op

\* o has slot s, whether or not it knows yet.
Has(o, s) == value[o] = s \/ given[o] = s

InQueue(s) == \E i \in DOMAIN queue : queue[i] = s

(***************************************************************************)
(* A slot is never in use by two operations, and a slot in the queue is in *)
(* use by none: alloc, free, destroy and a resumption after destroy, in    *)
(* any order, hand every slot on exactly once (job_supervisor.py:133-158). *)
(***************************************************************************)
MutualExclusion ==
    \A s \in Slot :
        /\ \A o1, o2 \in Op : Has(o1, s) /\ Has(o2, s) => o1 = o2
        /\ InQueue(s) => \A o \in Op : ~Has(o, s)

(***************************************************************************)
(* No slot is lost: it is in the queue, or an operation has it.  A leaked  *)
(* slot would block every later operation of the user for good.            *)
(***************************************************************************)
NoSlotLost == \A s \in Slot : InQueue(s) \/ \E o \in Op : Has(o, s)

(***************************************************************************)
(* No operation waits while a slot is free (no lost wake-up).              *)
(***************************************************************************)
NoIdleSlot == getters # <<>> => queue = <<>>

(***************************************************************************)
(* A destroyed operation keeps no slot once the event loop has run it:     *)
(* destroy freed the value, and the resumption frees a slot handed over    *)
(* before or after destroy.                                                *)
(***************************************************************************)
DestroyedKeepsNothing == \A o \in destroyed : value[o] = NoSlot

(***************************************************************************)
(* Every waiter gets an answer: slot or OP_IS_DESTROYED.                   *)
(***************************************************************************)
EveryWaiterResumes == \A o \in Op : Awaiting(o) ~> ~Awaiting(o)

-----------------------------------------------------------------------------
(***************************************************************************)
(* The pool as its users see it: an operation owns a slot from the moment  *)
(* the queue hands it over.                                                *)
(***************************************************************************)
Owner == [s \in Slot |-> IF \E o \in Op : Has(o, s)
                         THEN CHOOSE o \in Op : Has(o, s)
                         ELSE Nobody]

Pool == INSTANCE FairSlots WITH owner <- Owner, line <- getters

\* SlotQueue implements FairSlots.
ImplementsFairSlots == Pool!Spec
==============================================================================
