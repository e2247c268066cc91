------------------------ MODULE SimulationQueueProofs ------------------------
(***************************************************************************)
(* Proofs about SimulationQueue: for any panels, simulations, items and    *)
(* clicks, the type invariant, that reports take turns and none blocks the *)
(* others, that a panel shows the answer to its last request, and when a   *)
(* poll may escape its controller.                                         *)
(***************************************************************************)
EXTENDS SimulationQueue, TLAPS

QState == {"pending", "processing", "removing"}

QueueRecord == [items : Seq(Item), inbox : SUBSET Message]

\* A transient item is named for a panel, the others are not.
Named(x) == x.name \in Panels <=> x.kind = "transient"

QueueType(q) ==
    /\ q \in QueueRecord
    /\ Len(q.items) <= MaxItem
    /\ \A i \in DOMAIN q.items : Named(q.items[i])
    /\ \A m \in q.inbox : m.item \in DOMAIN q.items

\* What is processed comes first; this is OneTransient but for a first item to be run.
FirstOnly(q) ==
    \A i \in Transient(q) : IsProcessingItem(q, i) => \A j \in Transient(q) : i <= j

InTurn(q) ==
    \A i \in Transient(q) : IsProcessingItem(q, i) <=> \A j \in Transient(q) : i <= j

\* A reply is to come for the item or a request to be sent, or there was neither before the step.
Asked(q, i) ==
    \/ i \in Unfollowed
    \/ q.items[i].interval
    \/ \E m \in q.inbox : m.item = i /\ m.awaited

\* No item loses both, but for the item k whose reply is being processed.
FollowedBut(q, k) == \A i \in Live(q) : IsProcessingItem(q, i) /\ i # k => Asked(q, i)

QueueInv(q) == QueueType(q) /\ InTurn(q) /\ FollowedBut(q, 0)

\* What never changes of an item.
SameItem(x, y) == y.kind = x.kind /\ y.name = x.name /\ y.sim = x.sim /\ y.version = x.version

\* r has the items of q.
Keeps(q, r) ==
    /\ Len(r.items) = Len(q.items)
    /\ \A i \in DOMAIN q.items : SameItem(q.items[i], r.items[i])

\* A transient item is the last of its panel, and of the simulation of the page.
Awaited ==
    \A i \in Transient(Queue) :
        /\ queueItems[items[i].name] = i
        /\ items[i].sim = sim
        /\ \A j \in DOMAIN items : j > i => items[j].name # items[i].name

PendingIsEmpty == \A p \in pendingRequests : panels[p].data = 0

Shown == \A p \in Panels : panels[p].data # 0 => panels[p].data \in DOMAIN items

PanelInv == Awaited /\ PendingIsEmpty /\ Shown /\ LatestItemShown

\* The controller's item is of the simulation of the page.
Controlled == simulationQueueItem \in DOMAIN items => items[simulationQueueItem].sim = sim

Unloaded == ~loaded => simulationQueueItem = 0 /\ saving = <<>>

\* TypeOK but for the queue, of which QueueInv says more.
ModelType ==
    /\ jobs \in [Simulations -> [Name -> Job]]
    /\ sim \in Simulations
    /\ section \in Section /\ loaded \in BOOLEAN
    /\ version \in [Simulations -> [Name -> 0..MaxClick]]
    /\ clicks \in 0..MaxClick

Panel == [data : 0..MaxItem, loading : BOOLEAN, error : BOOLEAN]

PanelType ==
    /\ hidden \in [Simulations -> SUBSET Panels]
    /\ pendingRequests \subseteq Panels /\ due \subseteq Panels
    /\ panels \in [Panels -> Panel]
    /\ queueItems \in [Panels -> 0..MaxItem]

ControllerType ==
    /\ status \in [state : State, sim : Simulations]
    /\ simulationQueueItem \in 0..MaxItem /\ handled \subseteq ItemId /\ saving \in Seq(BOOLEAN)

IInv ==
    /\ ModelType /\ PanelType /\ ControllerType
    /\ QueueInv(Queue)
    /\ PanelInv /\ Controlled /\ Unloaded

\* The action properties.
FollowStep == Unfollowed' \subseteq Unfollowed \union (IF sim' = sim THEN {} ELSE Loose)
LooseStep ==
    \/ Loose' \subseteq Loose
    \/ Len(saving') < Len(saving)
    \/ ~(Loose \subseteq Live(Queue)')
StatusStep == status'.sim = sim' \/ status' = status \/ Loose # {}

StepOK == IInv' /\ FollowStep /\ LooseStep /\ StatusStep

-----------------------------------------------------------------------------
\* Updates of an item.
LEMMA StateUpdate ==
    ASSUME NEW x \in Item, NEW s \in QState, NEW y, y = [x EXCEPT !.qState = s]
    PROVE  y \in Item /\ SameItem(x, y) /\ y.qState = s /\ y.interval = x.interval
BY DEF Item, QState, SameItem

LEMMA RemoveUpdate ==
    ASSUME NEW x \in Item, NEW y, y = [x EXCEPT !.qState = "removing", !.interval = FALSE]
    PROVE  y \in Item /\ SameItem(x, y) /\ y.qState = "removing"
BY DEF Item, SameItem

LEMMA StatusUpdate ==
    ASSUME NEW x \in Item, NEW n \in Nat, NEW y, y = [x EXCEPT !.serial = n, !.interval = TRUE]
    PROVE  y \in Item /\ SameItem(x, y) /\ y.qState = x.qState /\ y.interval
BY DEF Item, SameItem

LEMMA IntervalUpdate ==
    ASSUME NEW x \in Item, NEW y, y = [x EXCEPT !.interval = FALSE]
    PROVE  y \in Item /\ SameItem(x, y) /\ y.qState = x.qState
BY DEF Item, SameItem

\* A queue with an item replaced.
LEMMA ReplaceItem ==
    ASSUME NEW s \in Seq(Item), NEW i \in DOMAIN s, NEW y \in Item, NEW t, t = [s EXCEPT ![i] = y]
    PROVE  t \in Seq(Item) /\ Len(t) = Len(s) /\ DOMAIN t = DOMAIN s /\ t[i] = y
           /\ \A j \in DOMAIN s : j # i => t[j] = s[j]
OBVIOUS

LEMMA DomainIds ==
    ASSUME NEW q, QueueType(q)
    PROVE  /\ q.items \in Seq(Item) /\ q.inbox \subseteq Message
           /\ DOMAIN q.items = 1..Len(q.items)
           /\ DOMAIN q.items \subseteq ItemId /\ DOMAIN q.items \subseteq Nat \ {0}
           /\ \A i \in DOMAIN q.items : q.items[i] \in Item
<1>1. q.items \in Seq(Item) /\ q.inbox \subseteq Message /\ Len(q.items) <= MaxItem
  BY DEF QueueType, QueueRecord
<1>2. Len(q.items) \in Nat /\ DOMAIN q.items = 1..Len(q.items)
  BY <1>1
<1>3. DOMAIN q.items \subseteq ItemId
  BY <1>1, <1>2, BoundsAssumption DEF ItemId
<1>4. DOMAIN q.items \subseteq Nat \ {0}
  BY <1>2
<1>5. \A i \in DOMAIN q.items : q.items[i] \in Item
  BY <1>1, <1>2
<1> QED
  BY <1>1, <1>2, <1>3, <1>4, <1>5

-----------------------------------------------------------------------------
LEMMA RunItemFacts ==
    ASSUME NEW q, QueueType(q), NEW i \in Live(q), NEW r, r = RunItem(q, i)
    PROVE  /\ QueueType(r) /\ Keeps(q, r)
           /\ IsProcessingItem(r, i) /\ Asked(r, i)
           /\ \A j \in DOMAIN q.items : j # i => r.items[j] = q.items[j]
           /\ q.inbox \subseteq r.inbox
<1> DEFINE y == [q.items[i] EXCEPT !.qState = "processing"]
           m == [item |-> i, api |-> FirstRoute(i, q), awaited |-> TRUE]
<1>1. i \in DOMAIN q.items /\ q.items[i] \in Item
  BY DomainIds DEF Live
<1>2. y \in Item /\ SameItem(q.items[i], y) /\ y.qState = "processing"
  BY <1>1, StateUpdate DEF QState
<1>3. m \in Message /\ m.item = i /\ m.awaited
  BY <1>1, DomainIds DEF Message, FirstRoute
<1>4. r.items = [q.items EXCEPT ![i] = y] /\ r.inbox = q.inbox \union {m}
      /\ r = [items |-> r.items, inbox |-> r.inbox]
  BY DEF RunItem
<1> HIDE DEF y, m
<1>5. r.items \in Seq(Item) /\ Len(r.items) = Len(q.items) /\ DOMAIN r.items = DOMAIN q.items /\ r.items[i] = y
      /\ \A j \in DOMAIN q.items : j # i => r.items[j] = q.items[j]
  BY <1>1, <1>2, <1>4, DomainIds, ReplaceItem
<1>6. r.inbox \subseteq Message
  BY <1>3, <1>4, DomainIds
<1>7. \A j \in DOMAIN q.items : SameItem(q.items[j], r.items[j])
  BY <1>2, <1>5 DEF SameItem
<1>8. QueueType(r)
  <2>1. \A k \in r.inbox : k.item \in DOMAIN r.items
    BY <1>1, <1>3, <1>4, <1>5 DEF QueueType
  <2> QED
    BY <2>1, <1>4, <1>5, <1>6, <1>7 DEF QueueType, QueueRecord, SameItem, Named
<1>9. Asked(r, i)
  BY <1>3, <1>4 DEF Asked
<1> QED
  BY <1>2, <1>4, <1>5, <1>7, <1>8, <1>9 DEF Keeps, IsProcessingItem

LEMMA SameItemsLive ==
    ASSUME NEW q, NEW r, Keeps(q, r), DOMAIN r.items = DOMAIN q.items,
           \A i \in DOMAIN q.items : r.items[i].qState = "removing" <=> q.items[i].qState = "removing"
    PROVE  Live(r) = Live(q) /\ Transient(r) = Transient(q)
BY DEF Live, Transient, Keeps, SameItem

LEMMA RunFirst ==
    ASSUME NEW q, QueueType(q), FirstOnly(q), FollowedBut(q, 0),
           NEW r, r = RunFirstTransientItem(q)
    PROVE  QueueInv(r) /\ Keeps(q, r) /\ Live(r) = Live(q)
<1> DEFINE first == {i \in Transient(q) : \A j \in Transient(q) : i <= j}
           f == CHOOSE i \in first : TRUE
<1>1. CASE \E i \in first : ~IsProcessingItem(q, i)
  <2>1. r = RunItem(q, f)
    BY <1>1 DEF RunFirstTransientItem
  <2>2. f \in first
    BY <1>1
  <2>3. f \in Transient(q) /\ (\A j \in Transient(q) : f <= j)
    BY <2>2
  <2>4. Transient(q) \subseteq Live(q) /\ Live(q) \subseteq DOMAIN q.items /\ Transient(q) \subseteq Nat
    BY DomainIds DEF Transient, Live
  <2>5. \A i \in first : i = f
    BY <2>2, <2>4
  <2> HIDE DEF f
  <2>6. /\ QueueType(r) /\ Keeps(q, r) /\ IsProcessingItem(r, f) /\ Asked(r, f)
        /\ \A j \in DOMAIN q.items : j # f => r.items[j] = q.items[j]
        /\ q.inbox \subseteq r.inbox
    BY <2>1, <2>3, <2>4, RunItemFacts
  <2>7. DOMAIN r.items = DOMAIN q.items
    BY <2>6, DomainIds DEF Keeps
  <2>8. Live(r) = Live(q) /\ Transient(r) = Transient(q)
    BY <2>3, <2>4, <2>6, <2>7, SameItemsLive DEF IsProcessingItem, Live
  <2>9. InTurn(r)
    <3> SUFFICES ASSUME NEW i \in Transient(q)
                 PROVE  IsProcessingItem(r, i) <=> \A j \in Transient(q) : i <= j
      BY <2>8 DEF InTurn
    <3>1. CASE i = f
      BY <3>1, <2>3, <2>6
    <3>2. CASE i # f
      <4>1. IsProcessingItem(r, i) <=> IsProcessingItem(q, i)
        BY <3>2, <2>4, <2>6 DEF IsProcessingItem
      <4>2. ~\A j \in Transient(q) : i <= j
        BY <3>2, <2>5
      <4>3. ~IsProcessingItem(q, i)
        BY <4>2 DEF FirstOnly
      <4> QED
        BY <4>1, <4>2, <4>3
    <3> QED
      BY <3>1, <3>2
  <2>10. FollowedBut(r, 0)
    <3> SUFFICES ASSUME NEW i \in Live(q), IsProcessingItem(r, i), i # 0
                 PROVE  Asked(r, i)
      BY <2>8 DEF FollowedBut
    <3>1. CASE i = f
      BY <3>1, <2>6
    <3>2. CASE i # f
      <4>1. r.items[i] = q.items[i]
        BY <3>2, <2>4, <2>6
      <4>2. Asked(q, i)
        BY <4>1 DEF FollowedBut, IsProcessingItem
      <4> QED
        BY <4>1, <4>2, <2>6 DEF Asked
    <3> QED
      BY <3>1, <3>2
  <2> QED
    BY <2>6, <2>8, <2>9, <2>10 DEF QueueInv
<1>2. CASE ~\E i \in first : ~IsProcessingItem(q, i)
  <2>1. r = q
    BY <1>2 DEF RunFirstTransientItem
  <2>2. InTurn(q)
    BY <1>2 DEF InTurn, FirstOnly
  <2> QED
    BY <2>1, <2>2 DEF QueueInv, Keeps, SameItem
<1> QED
  BY <1>1, <1>2

-----------------------------------------------------------------------------
\* r is q with the items S removed.
Without(q, S, r) ==
    /\ QueueType(r) /\ Keeps(q, r) /\ DOMAIN r.items = DOMAIN q.items
    /\ Live(r) = Live(q) \ S /\ Transient(r) = Transient(q) \ S
    /\ \A i \in DOMAIN q.items \ S : r.items[i] = q.items[i]
    /\ q.inbox \subseteq r.inbox

LEMMA RemovedFacts ==
    ASSUME NEW q, QueueType(q), NEW S, S \subseteq DOMAIN q.items,
           NEW C, C \subseteq DOMAIN q.items, NEW r, r = Removed(q, S, C)
    PROVE  Without(q, S, r)
<1> DEFINE y(i) == [q.items[i] EXCEPT !.qState = "removing", !.interval = FALSE]
           new(i) == IF i \in S THEN y(i) ELSE q.items[i]
<1>1. r.items = [i \in DOMAIN q.items |-> new(i)]
      /\ r.inbox = q.inbox \union [item : C, api : {"runCancel"}, awaited : {FALSE}]
      /\ r = [items |-> r.items, inbox |-> r.inbox]
  BY DEF Removed
<1>2. \A i \in DOMAIN q.items : y(i) \in Item /\ SameItem(q.items[i], y(i)) /\ y(i).qState = "removing"
  BY DomainIds, RemoveUpdate
<1> HIDE DEF y
<1>3. \A i \in DOMAIN q.items : new(i) \in Item /\ SameItem(q.items[i], new(i))
  BY <1>2, DomainIds DEF SameItem
<1>4. (\A i \in DOMAIN q.items : i \in S => new(i).qState = "removing")
      /\ (\A i \in DOMAIN q.items : i \notin S => new(i) = q.items[i])
  BY <1>2
<1> HIDE DEF new
<1>5. Len(q.items) \in Nat /\ DOMAIN q.items = 1..Len(q.items)
  BY DomainIds
<1>6. r.items \in Seq(Item) /\ Len(r.items) = Len(q.items) /\ DOMAIN r.items = DOMAIN q.items
  BY <1>1, <1>3, <1>5
<1>7. \A i \in DOMAIN q.items : r.items[i] = new(i)
  BY <1>1
<1>8. r.inbox \subseteq Message
  <2>1. [item : C, api : {"runCancel"}, awaited : {FALSE}] \subseteq Message
    BY DomainIds DEF Message
  <2> QED
    BY <2>1, <1>1, DomainIds
<1>9. Keeps(q, r)
  BY <1>3, <1>6, <1>7 DEF Keeps
<1>10. QueueType(r)
  <2>1. r \in QueueRecord
    BY <1>1, <1>6, <1>8 DEF QueueRecord
  <2>2. Len(r.items) <= MaxItem
    BY <1>6 DEF QueueType
  <2>3. \A i \in DOMAIN r.items : Named(r.items[i])
    BY <1>6, <1>9 DEF Keeps, SameItem, Named, QueueType
  <2>4. \A m \in r.inbox : m.item \in DOMAIN r.items
    BY <1>1, <1>6 DEF QueueType
  <2> QED
    BY <2>1, <2>2, <2>3, <2>4 DEF QueueType
<1>11. Live(r) = Live(q) \ S
  BY <1>4, <1>6, <1>7 DEF Live
<1>12. Transient(r) = Transient(q) \ S
  BY <1>11, <1>9 DEF Transient, Keeps, SameItem, Live
<1> QED
  BY <1>1, <1>4, <1>6, <1>7, <1>9, <1>10, <1>11, <1>12 DEF Without

\* What is removed neither lets an item overtake nor leaves one unasked for.
LEMMA RemovedKeeps ==
    ASSUME NEW q, QueueType(q), FirstOnly(q), NEW k, FollowedBut(q, k),
           NEW S, S \subseteq DOMAIN q.items, k = 0 \/ k \in S,
           NEW C, C \subseteq DOMAIN q.items, NEW r, r = Removed(q, S, C)
    PROVE  FirstOnly(r) /\ FollowedBut(r, 0)
<1>1. /\ DOMAIN r.items = DOMAIN q.items /\ q.inbox \subseteq r.inbox
      /\ Live(r) = Live(q) \ S /\ Transient(r) = Transient(q) \ S
      /\ \A i \in DOMAIN q.items \ S : r.items[i] = q.items[i]
  <2>1. Without(q, S, r)
    BY RemovedFacts
  <2> QED
    BY <2>1 DEF Without
<1>2. Transient(q) \subseteq Live(q) /\ Live(q) \subseteq DOMAIN q.items
  BY DEF Transient, Live
<1>3. FirstOnly(r)
  BY <1>1, <1>2 DEF FirstOnly, IsProcessingItem
<1>4. FollowedBut(r, 0)
  <2> SUFFICES ASSUME NEW i \in Live(r), IsProcessingItem(r, i), i # 0
               PROVE  Asked(r, i)
    BY DEF FollowedBut
  <2>1. i \in Live(q) /\ i \notin S /\ r.items[i] = q.items[i]
    BY <1>1, <1>2
  <2>2. Asked(q, i)
    BY <2>1 DEF FollowedBut, IsProcessingItem
  <2> QED
    BY <2>1, <2>2, <1>1 DEF Asked
<1> QED
  BY <1>3, <1>4

LEMMA InTurnFirst ==
    ASSUME NEW q, InTurn(q)
    PROVE  FirstOnly(q)
BY DEF InTurn, FirstOnly

\* A pending transient item is not the first.
LEMMA PendingWaits ==
    ASSUME NEW q, QueueInv(q), NEW i \in Transient(q), ~IsProcessingItem(q, i)
    PROVE  \E j \in Transient(q) : j < i
BY DomainIds DEF QueueInv, InTurn, Transient, Live

LEMMA CancelItemFacts ==
    ASSUME NEW q, QueueInv(q), NEW i, NEW r, r = CancelItem(q, i)
    PROVE  QueueInv(r) /\ Keeps(q, r) /\ Live(r) = Live(q) \ {i}
<1>1. CASE i \notin Live(q)
  BY <1>1 DEF CancelItem, Keeps, SameItem
<1>2. CASE i \in Live(q)
  <2>1. i \in DOMAIN q.items /\ QueueType(q) /\ InTurn(q) /\ FirstOnly(q) /\ FollowedBut(q, 0)
    BY <1>2, InTurnFirst DEF Live, QueueInv
  <2>2. ASSUME NEW C, C \subseteq {i}, NEW t, t = Removed(q, {i}, C)
        PROVE  /\ QueueType(t) /\ Keeps(q, t) /\ DOMAIN t.items = DOMAIN q.items
               /\ Live(t) = Live(q) \ {i} /\ Transient(t) = Transient(q) \ {i}
               /\ FirstOnly(t) /\ FollowedBut(t, 0)
               /\ \A j \in DOMAIN q.items \ {i} : t.items[j] = q.items[j]
    <3>1. {i} \subseteq DOMAIN q.items /\ C \subseteq DOMAIN q.items
      BY <2>1, <2>2
    <3> QED
      <4>1. /\ QueueType(t) /\ Keeps(q, t) /\ DOMAIN t.items = DOMAIN q.items
            /\ Live(t) = Live(q) \ {i} /\ Transient(t) = Transient(q) \ {i}
            /\ \A j \in DOMAIN q.items \ {i} : t.items[j] = q.items[j]
        <5>1. Without(q, {i}, t)
          BY <2>1, <2>2, <3>1, RemovedFacts
        <5> QED
          BY <5>1 DEF Without
      <4>2. FirstOnly(t) /\ FollowedBut(t, 0)
        BY <2>1, <2>2, <3>1, RemovedKeeps
      <4> QED
        BY <4>1, <4>2
  <2>3. CASE i \in Transient(q) /\ IsProcessingItem(q, i)
    <3> DEFINE t == Removed(q, {i}, {i})
    <3>1. r = RunFirstTransientItem(t)
      BY <1>2, <2>3 DEF CancelItem
    <3>2. QueueType(t) /\ Keeps(q, t) /\ FirstOnly(t) /\ FollowedBut(t, 0) /\ Live(t) = Live(q) \ {i}
          /\ DOMAIN t.items = DOMAIN q.items
      BY <2>2
    <3> HIDE DEF t
    <3>3. QueueInv(r) /\ Keeps(t, r) /\ Live(r) = Live(t)
      BY <3>1, <3>2, RunFirst
    <3> QED
      BY <3>2, <3>3 DEF Keeps, SameItem
  <2>4. CASE ~(i \in Transient(q) /\ IsProcessingItem(q, i))
    <3>1. \E C \in SUBSET {i} : r = Removed(q, {i}, C)
      BY <1>2, <2>4 DEF CancelItem
    <3>2. PICK C \in SUBSET {i} : r = Removed(q, {i}, C)
      BY <3>1
    <3>3. QueueType(r) /\ Keeps(q, r) /\ FollowedBut(r, 0) /\ Live(r) = Live(q) \ {i}
          /\ Transient(r) = Transient(q) \ {i} /\ FirstOnly(r)
          /\ \A j \in DOMAIN q.items \ {i} : r.items[j] = q.items[j]
      BY <3>2, <2>2
    <3>4. InTurn(r)
      <4> SUFFICES ASSUME NEW j \in Transient(q), j # i, \A k \in Transient(q) \ {i} : j <= k
                   PROVE  IsProcessingItem(r, j)
        BY <3>3 DEF InTurn, FirstOnly
      <4>0. Transient(q) \subseteq Nat /\ Transient(q) \subseteq DOMAIN q.items
        BY <2>1, DomainIds DEF Transient, Live
      <4>1. \A k \in Transient(q) : j <= k
        <5>1. CASE i \notin Transient(q)
          BY <5>1
        <5>2. CASE i \in Transient(q)
          <6>1. PICK k \in Transient(q) : k < i
            BY <5>2, <2>4, PendingWaits
          <6>2. k # i /\ j <= k
            BY <6>1, <4>0, <5>2
          <6>3. j <= i
            BY <6>1, <6>2, <4>0, <5>2
          <6> QED
            BY <6>3
        <5> QED
          BY <5>1, <5>2
      <4>2. IsProcessingItem(q, j)
        BY <4>1, <2>1 DEF InTurn
      <4> QED
        BY <4>2, <4>0, <3>3 DEF IsProcessingItem
    <3> QED
      BY <3>3, <3>4 DEF QueueInv
  <2> QED
    BY <2>3, <2>4
<1> QED
  BY <1>1, <1>2
-----------------------------------------------------------------------------
\* r is q with one item more.
OneMore(q, r, kind, name, s) ==
    /\ Len(r.items) = Len(q.items) + 1
    /\ \A i \in DOMAIN q.items : SameItem(q.items[i], r.items[i])
    /\ Live(r) = Live(q) \union {Len(q.items) + 1}
    /\ r.items[Len(q.items) + 1].kind = kind
    /\ r.items[Len(q.items) + 1].name = name
    /\ r.items[Len(q.items) + 1].sim = s

LEMMA SetItems ==
    ASSUME NEW q \in QueueRecord, NEW s \in Seq(Item), NEW r, r = [q EXCEPT !.items = s]
    PROVE  r \in QueueRecord /\ r.items = s /\ r.inbox = q.inbox
BY DEF QueueRecord

LEMMA AddItemFacts ==
    ASSUME NEW q, QueueInv(q), HasRoom(q),
           NEW kind \in {"transient", "persistent", "persistentStatus"},
           NEW name \in Name, name \in Panels <=> kind = "transient",
           sim \in Simulations, version[sim][name] \in Nat,
           NEW r, r = AddItem(q, kind, name)
    PROVE  QueueInv(r) /\ OneMore(q, r, kind, name, sim)
<1> DEFINE n == Len(q.items) + 1
           item == [kind |-> kind, name |-> name, sim |-> sim, version |-> version[sim][name],
                    serial |-> 0, qState |-> "pending", interval |-> FALSE]
           added == [q EXCEPT !.items = Append(q.items, item)]
<1>1. /\ QueueType(q) /\ InTurn(q) /\ FollowedBut(q, 0) /\ FirstOnly(q)
      /\ q \in QueueRecord /\ q.items \in Seq(Item) /\ q.inbox \subseteq Message
      /\ Len(q.items) \in Nat /\ DOMAIN q.items = 1..Len(q.items)
  BY InTurnFirst, DomainIds DEF QueueInv, QueueType
<1>2. item \in Item /\ Named(item) /\ item.qState = "pending"
  BY DEF Item, Named
<1>3. item.kind = kind /\ item.name = name /\ item.sim = sim
  OBVIOUS
<1> HIDE DEF item
<1> DEFINE a == Append(q.items, item)
<1>4. added.items = a /\ added.inbox = q.inbox /\ added \in QueueRecord
  <2>1. a \in Seq(Item)
    BY <1>1, <1>2
  <2>2. added = [q EXCEPT !.items = a]
    OBVIOUS
  <2> HIDE DEF a, added
  <2> QED
    BY <1>1, <2>1, <2>2, SetItems
<1>5. r = IF kind = "transient" THEN RunFirstTransientItem(added) ELSE RunItem(added, n)
  BY DEF AddItem, item
<1> HIDE DEF added
<1>6. /\ added.items \in Seq(Item) /\ Len(added.items) = n /\ DOMAIN added.items = 1..n
      /\ added.items[n] = item /\ \A i \in DOMAIN q.items : added.items[i] = q.items[i]
  BY <1>1, <1>2, <1>4
<1>7. n \in Nat \ {0} /\ n \notin DOMAIN q.items /\ 1..n = DOMAIN q.items \union {n} /\ n <= MaxItem
      /\ \A i \in DOMAIN q.items : i \in Nat /\ i < n
  BY <1>1, BoundsAssumption DEF HasRoom
<1> HIDE DEF n
<1>8. QueueType(added)
  <2>1. added \in QueueRecord
    BY <1>4
  <2>2. \A i \in DOMAIN added.items : Named(added.items[i])
    BY <1>1, <1>2, <1>6, <1>7 DEF QueueType
  <2>3. \A m \in added.inbox : m.item \in DOMAIN added.items
    BY <1>1, <1>4, <1>6, <1>7 DEF QueueType
  <2> QED
    BY <1>6, <1>7, <2>1, <2>2, <2>3 DEF QueueType
<1>9. Live(added) = Live(q) \union {n}
  BY <1>2, <1>6, <1>7 DEF Live
<1>10. Live(q) \subseteq DOMAIN q.items /\ Transient(q) \subseteq Live(q)
  BY DEF Live, Transient
<1>11. ~IsProcessingItem(added, n) /\ \A i \in DOMAIN q.items : IsProcessingItem(added, i) <=> IsProcessingItem(q, i)
  BY <1>2, <1>6 DEF IsProcessingItem
<1>12. FollowedBut(added, 0)
  BY <1>1, <1>4, <1>6, <1>9, <1>10, <1>11 DEF FollowedBut, Asked
<1>13. \A i \in DOMAIN q.items : SameItem(q.items[i], added.items[i])
  BY <1>6 DEF SameItem
<1>14. CASE kind = "transient"
  <2>1. Transient(added) = Transient(q) \union {n}
    BY <1>14, <1>3, <1>6, <1>9, <1>10 DEF Transient
  <2>2. FirstOnly(added)
    BY <1>1, <1>7, <1>10, <1>11, <2>1 DEF FirstOnly
  <2>3. QueueInv(r) /\ Keeps(added, r) /\ Live(r) = Live(added)
    BY <1>5, <1>8, <1>12, <1>14, <2>2, RunFirst
  <2>4. SameItem(added.items[n], r.items[n]) /\ \A i \in DOMAIN q.items : SameItem(q.items[i], r.items[i])
    BY <1>6, <1>7, <1>13, <2>3 DEF Keeps, SameItem
  <2>5. OneMore(q, r, kind, name, sim)
    BY <1>3, <1>6, <1>9, <2>3, <2>4 DEF OneMore, Keeps, SameItem, n
  <2> QED
    BY <2>3, <2>5
<1>15. CASE kind # "transient"
  <2>1. n \in Live(added)
    BY <1>9
  <2>2. /\ QueueType(r) /\ Keeps(added, r) /\ IsProcessingItem(r, n) /\ Asked(r, n)
        /\ \A j \in DOMAIN added.items : j # n => r.items[j] = added.items[j]
        /\ added.inbox \subseteq r.inbox
    BY <1>5, <1>8, <1>15, <2>1, RunItemFacts
  <2>3. DOMAIN r.items = DOMAIN added.items
    BY <2>2, <1>8, DomainIds DEF Keeps
  <2>4. \A i \in DOMAIN q.items : r.items[i] = q.items[i]
    BY <1>6, <1>7, <2>2
  <2>5. Live(r) = Live(added)
    <3>1. r.items[n].qState # "removing"
      BY <2>2 DEF IsProcessingItem
    <3> QED
      BY <1>6, <1>7, <1>9, <2>3, <2>4, <3>1 DEF Live
  <2>6. r.items[n].kind = kind /\ r.items[n].name = name /\ r.items[n].sim = sim
    BY <1>3, <1>6, <1>7, <2>2 DEF Keeps, SameItem
  <2>7. Transient(r) = Transient(q)
    BY <1>9, <1>10, <1>15, <2>4, <2>5, <2>6 DEF Transient
  <2>8. InTurn(r)
    BY <1>1, <1>10, <2>4, <2>7 DEF InTurn, IsProcessingItem
  <2>9. FollowedBut(r, 0)
    <3> SUFFICES ASSUME NEW i \in Live(r), IsProcessingItem(r, i)
                 PROVE  Asked(r, i)
      BY DEF FollowedBut
    <3>1. CASE i = n
      BY <3>1, <2>2
    <3>2. CASE i # n
      <4>1. i \in Live(q) /\ r.items[i] = q.items[i] /\ i # 0
        BY <3>2, <1>7, <1>9, <1>10, <2>4, <2>5
      <4>2. Asked(q, i)
        BY <4>1, <1>1 DEF FollowedBut, IsProcessingItem
      <4> QED
        BY <4>1, <4>2, <1>4, <2>2 DEF Asked
    <3> QED
      BY <3>1, <3>2
  <2>10. OneMore(q, r, kind, name, sim)
    BY <1>6, <1>9, <1>13, <2>2, <2>4, <2>5, <2>6 DEF OneMore, Keeps, SameItem, n
  <2> QED
    BY <2>2, <2>8, <2>9, <2>10 DEF QueueInv
<1> QED
  BY <1>14, <1>15
-----------------------------------------------------------------------------
\* Items are removed with the requests RemoveItems sends.
LEMMA RemoveItemsFacts ==
    ASSUME NEW q, QueueType(q), FirstOnly(q), FollowedBut(q, 0),
           NEW S, S \subseteq Live(q), NEW r, r = RemoveItems(q, S)
    PROVE  Without(q, S, r) /\ FirstOnly(r) /\ FollowedBut(r, 0)
<1> DEFINE C == {i \in S \intersect Transient(q) : IsProcessingItem(q, i)}
<1>1. S \subseteq DOMAIN q.items /\ C \subseteq DOMAIN q.items
  BY DEF Live
<1>2. r = Removed(q, S, C)
  BY DEF RemoveItems
<1> HIDE DEF C
<1>3. Without(q, S, r)
  BY <1>1, <1>2, RemovedFacts
<1>4. FirstOnly(r) /\ FollowedBut(r, 0)
  BY <1>1, <1>2, RemovedKeeps
<1> QED
  BY <1>3, <1>4

LEMMA RemoveWithout ==
    ASSUME NEW q, QueueType(q), NEW S, S \subseteq Live(q), NEW r, r = RemoveItems(q, S)
    PROVE  Without(q, S, r)
<1> DEFINE C == {i \in S \intersect Transient(q) : IsProcessingItem(q, i)}
<1>1. S \subseteq DOMAIN q.items /\ C \subseteq DOMAIN q.items
  BY DEF Live
<1>2. r = Removed(q, S, C)
  BY DEF RemoveItems
<1> HIDE DEF C
<1> QED
  BY <1>1, <1>2, RemovedFacts

LEMMA NoneInTurn ==
    ASSUME NEW q, QueueType(q), FollowedBut(q, 0), Transient(q) = {}
    PROVE  QueueInv(q)
BY DEF QueueInv, InTurn

\* No report outlives clearCache.
LEMMA CancelTransientFacts ==
    ASSUME NEW q, QueueInv(q), NEW r, r = CancelTransientItems(q)
    PROVE  QueueInv(r) /\ Keeps(q, r) /\ Live(r) \subseteq Live(q) /\ Transient(r) = {}
<1>1. QueueType(q) /\ FirstOnly(q) /\ FollowedBut(q, 0) /\ Transient(q) \subseteq Live(q)
  BY InTurnFirst DEF QueueInv, Transient
<1>2. Without(q, Transient(q), r) /\ FollowedBut(r, 0)
  BY <1>1, RemoveItemsFacts DEF CancelTransientItems
<1>3. QueueType(r) /\ Keeps(q, r) /\ Live(r) \subseteq Live(q) /\ Transient(r) = {}
  BY <1>2 DEF Without
<1> QED
  BY <1>2, <1>3, NoneInTurn

LEMMA ControllerDestroyedFacts ==
    ASSUME QueueInv(Queue), NEW r, r = ControllerDestroyed(Queue)
    PROVE  /\ QueueInv(r) /\ Keeps(Queue, r) /\ Transient(r) = {}
           /\ Live(r) \subseteq Live(Queue) \ {simulationQueueItem}
<1> DEFINE t == CancelTransientItems(Queue)
           S == {simulationQueueItem} \intersect Live(t)
<1>1. QueueInv(t) /\ Keeps(Queue, t) /\ Live(t) \subseteq Live(Queue) /\ Transient(t) = {}
  BY CancelTransientFacts
<1>2. r = RemoveItems(t, S)
  BY DEF ControllerDestroyed, RemoveItem
<1> HIDE DEF t
<1>3. QueueType(t) /\ FirstOnly(t) /\ FollowedBut(t, 0)
  BY <1>1, InTurnFirst DEF QueueInv
<1>4. S \subseteq Live(t)
  OBVIOUS
<1>5. Live(t) \ S = Live(t) \ {simulationQueueItem}
  OBVIOUS
<1> HIDE DEF S
<1>6. Without(t, S, r) /\ FollowedBut(r, 0)
  BY <1>2, <1>3, <1>4, RemoveItemsFacts
<1>7. QueueType(r) /\ Keeps(t, r) /\ Live(r) = Live(t) \ S /\ Transient(r) = {}
  BY <1>1, <1>6 DEF Without
<1>8. Keeps(Queue, r)
  BY <1>1, <1>7 DEF Keeps, SameItem, QueueInv
<1> QED
  BY <1>1, <1>5, <1>6, <1>7, <1>8, NoneInTurn

\* No report and no item of the controller outlives a route, whatever the page awaits.
LEMMA DestroyedFacts ==
    ASSUME NEW q, QueueType(q), NEW r, r = ControllerDestroyed(q)
    PROVE  /\ QueueType(r) /\ Keeps(q, r) /\ Transient(r) = {}
           /\ Live(r) \subseteq Live(q) \ {simulationQueueItem}
<1> DEFINE t == CancelTransientItems(q)
           S == {simulationQueueItem} \intersect Live(t)
<1>1. Transient(q) \subseteq Live(q)
  BY DEF Transient
<1>2. Without(q, Transient(q), t)
  BY <1>1, RemoveWithout DEF CancelTransientItems
<1>3. QueueType(t) /\ Keeps(q, t) /\ DOMAIN t.items = DOMAIN q.items /\ Live(t) \subseteq Live(q)
      /\ Transient(t) = {}
  BY <1>2 DEF Without
<1>4. r = RemoveItems(t, S)
  BY DEF ControllerDestroyed, RemoveItem
<1> HIDE DEF t
<1>5. S \subseteq Live(t) /\ Live(t) \ S \subseteq Live(q) \ {simulationQueueItem}
  BY <1>3
<1> HIDE DEF S
<1>6. Without(t, S, r)
  BY <1>3, <1>4, <1>5, RemoveWithout
<1>7. QueueType(r) /\ Keeps(t, r) /\ Live(r) = Live(t) \ S /\ Transient(r) = {}
  BY <1>3, <1>6 DEF Without
<1>8. Keeps(q, r)
  BY <1>3, <1>7 DEF Keeps, SameItem
<1> QED
  BY <1>5, <1>7, <1>8

LEMMA ForgottenFacts ==
    ASSUME QueueType(Queue), NEW q, q = Forgotten(Queue)
    PROVE  QueueType(q) /\ q.items = items /\ Keeps(Queue, q) /\ Live(q) = Live(Queue)
<1> DEFINE forgotten(m) == [m EXCEPT !.awaited = FALSE]
           B == {forgotten(m) : m \in inbox}
<1>1. Queue.items = items /\ Queue.inbox = inbox
  BY DEF Queue
<1>2. q = [items |-> items, inbox |-> B]
  BY DEF Forgotten, Queue
<1>3. ASSUME NEW m \in inbox
      PROVE  forgotten(m) \in Message /\ forgotten(m).item = m.item
  <2>1. m \in [item : ItemId, api : {"runSimulation", "runStatus", "runCancel"}, awaited : BOOLEAN]
    BY <1>1, DomainIds DEF Message
  <2>2. /\ forgotten(m).item = m.item /\ ~forgotten(m).awaited
        /\ forgotten(m) \in [item : ItemId, api : {"runSimulation", "runStatus", "runCancel"},
                            awaited : BOOLEAN]
    BY <2>1
  <2> QED
    BY <2>2 DEF Message
<1> HIDE DEF forgotten
<1>4. B \subseteq Message /\ \A m \in B : m.item \in DOMAIN items
  BY <1>1, <1>3 DEF QueueType
<1>5. items \in Seq(Item)
  BY <1>1, DomainIds
<1> HIDE DEF B
<1>6. q.items = items /\ q.inbox = B /\ q \in QueueRecord
  BY <1>2, <1>4, <1>5 DEF QueueRecord
<1>7. QueueType(q)
  BY <1>1, <1>4, <1>6 DEF QueueType
<1>8. Keeps(Queue, q) /\ Live(q) = Live(Queue)
  BY <1>1, <1>6 DEF Keeps, SameItem, Live
<1> QED
  BY <1>6, <1>7, <1>8
-----------------------------------------------------------------------------
\* r is q with the item i replaced by one as live and as processed.
Replaced(q, i, y, r) ==
    /\ y \in Item /\ SameItem(q.items[i], y) /\ y.qState = q.items[i].qState
    /\ r \in QueueRecord /\ r.items = [q.items EXCEPT ![i] = y] /\ q.inbox \subseteq r.inbox
    /\ \A m \in r.inbox : m.item \in DOMAIN q.items

LEMMA ReplaceFacts ==
    ASSUME NEW q, QueueType(q), InTurn(q), NEW i \in DOMAIN q.items,
           NEW y, NEW r, Replaced(q, i, y, r),
           NEW k, FollowedBut(q, k), k = 0 \/ k = i, Asked(r, i)
    PROVE  QueueInv(r) /\ Keeps(q, r) /\ Live(r) = Live(q)
<1>0. /\ y \in Item /\ SameItem(q.items[i], y) /\ y.qState = q.items[i].qState
      /\ r \in QueueRecord /\ r.items = [q.items EXCEPT ![i] = y] /\ q.inbox \subseteq r.inbox
      /\ \A m \in r.inbox : m.item \in DOMAIN q.items
  BY DEF Replaced
<1>1. /\ Len(r.items) = Len(q.items) /\ DOMAIN r.items = DOMAIN q.items /\ r.items[i] = y
      /\ \A j \in DOMAIN q.items : j # i => r.items[j] = q.items[j]
  BY <1>0, DomainIds, ReplaceItem
<1>2. Keeps(q, r)
  BY <1>0, <1>1 DEF Keeps, SameItem
<1>3. Live(r) = Live(q) /\ Transient(r) = Transient(q)
  BY <1>0, <1>1, <1>2, SameItemsLive
<1>4. \A j \in DOMAIN q.items : IsProcessingItem(r, j) <=> IsProcessingItem(q, j)
  BY <1>0, <1>1 DEF IsProcessingItem
<1>5. Live(q) \subseteq DOMAIN q.items /\ Transient(q) \subseteq Live(q)
  BY DEF Live, Transient
<1>6. InTurn(r)
  BY <1>3, <1>4, <1>5 DEF InTurn
<1>7. FollowedBut(r, 0)
  BY <1>0, <1>1, <1>3, <1>4, <1>5 DEF FollowedBut, Asked
<1>8. QueueType(r)
  BY <1>0, <1>1, <1>2 DEF QueueType, Keeps, SameItem, Named
<1> QED
  BY <1>2, <1>3, <1>6, <1>7, <1>8 DEF QueueInv

LEMMA AnsweredFacts ==
    ASSUME QueueInv(Queue), NEW m \in inbox, NEW q, q = [Queue EXCEPT !.inbox = inbox \ {m}]
    PROVE  /\ QueueType(q) /\ InTurn(q) /\ FollowedBut(q, m.item)
           /\ m.item \in DOMAIN q.items /\ q.items = items /\ q.inbox = inbox \ {m}
<1>1. q.items = items /\ q.inbox = inbox \ {m} /\ q = [items |-> items, inbox |-> inbox \ {m}]
  BY DEF Queue
<1>2. Queue.items = items /\ Queue.inbox = inbox
  BY DEF Queue
<1>3. QueueType(q)
  BY <1>1, <1>2 DEF QueueInv, QueueType, QueueRecord
<1>4. Live(q) = Live(Queue) /\ Transient(q) = Transient(Queue)
  BY <1>1, <1>2 DEF Live, Transient
<1>5. InTurn(q)
  BY <1>1, <1>2, <1>4 DEF QueueInv, InTurn, IsProcessingItem
<1>6. FollowedBut(q, m.item)
  <2> SUFFICES ASSUME NEW i \in Live(q), IsProcessingItem(q, i), i # m.item
               PROVE  Asked(q, i)
    BY DEF FollowedBut
  <2>1. i # 0
    BY <1>3, DomainIds DEF Live
  <2>2. Asked(Queue, i)
    BY <1>1, <1>2, <1>4, <2>1 DEF QueueInv, FollowedBut, IsProcessingItem
  <2> QED
    BY <1>1, <1>2, <2>2 DEF Asked
<1>7. m.item \in DOMAIN items
  BY <1>2 DEF QueueInv, QueueType
<1> QED
  BY <1>1, <1>3, <1>5, <1>6, <1>7

\* A reply that nobody awaits changes nothing of the queue but its inbox.
LEMMA UnawaitedFacts ==
    ASSUME QueueInv(Queue), NEW m \in inbox, ~m.awaited,
           NEW q, q = [Queue EXCEPT !.inbox = inbox \ {m}]
    PROVE  QueueInv(q)
<1>1. QueueType(q) /\ InTurn(q) /\ q.items = items /\ q.inbox = inbox \ {m}
  BY AnsweredFacts
<1>2. Queue.items = items /\ Queue.inbox = inbox
  BY DEF Queue
<1>3. Live(q) = Live(Queue)
  BY <1>1, <1>2 DEF Live
<1>4. FollowedBut(q, 0)
  BY <1>1, <1>2, <1>3 DEF QueueInv, FollowedBut, IsProcessingItem, Asked
<1> QED
  BY <1>1, <1>4 DEF QueueInv

LEMMA UnfinishedFacts ==
    ASSUME NEW q, QueueType(q), InTurn(q), NEW i \in DOMAIN q.items, FollowedBut(q, i), NEW n \in Nat,
           NEW r, r = [q EXCEPT !.items[i].serial = n, !.items[i].interval = TRUE]
    PROVE  QueueInv(r) /\ Keeps(q, r) /\ Live(r) = Live(q)
<1> DEFINE y == [q.items[i] EXCEPT !.serial = n, !.interval = TRUE]
           t == [q.items EXCEPT ![i] = y]
<1>1. q.items[i] \in Item /\ q.items \in Seq(Item) /\ q \in QueueRecord
  BY DomainIds DEF QueueType
<1>2. y \in Item /\ SameItem(q.items[i], y) /\ y.qState = q.items[i].qState /\ y.interval
  BY <1>1, StatusUpdate
<1>3. r = [q EXCEPT !.items = t]
  BY <1>1 DEF QueueRecord
<1> HIDE DEF y
<1>4. t \in Seq(Item) /\ t[i] = y
  BY <1>1, <1>2, ReplaceItem
<1>5. r \in QueueRecord /\ r.items = t /\ r.inbox = q.inbox
  <2> HIDE DEF t
  <2> QED
    BY <1>1, <1>3, <1>4, SetItems
<1>6. Asked(r, i)
  BY <1>2, <1>4, <1>5 DEF Asked
<1>7. \A m \in r.inbox : m.item \in DOMAIN q.items
  BY <1>5 DEF QueueType
<1>8. Replaced(q, i, y, r)
  BY <1>2, <1>5, <1>7 DEF Replaced
<1> QED
  BY <1>6, <1>8, ReplaceFacts

LEMMA ResultFacts ==
    ASSUME NEW q, QueueType(q), InTurn(q), NEW i \in DOMAIN q.items, FollowedBut(q, i),
           NEW r, r = RunFirstTransientItem(Removed(q, {i}, {}))
    PROVE  QueueInv(r) /\ Keeps(q, r) /\ Live(r) = Live(q) \ {i}
<1> DEFINE t == Removed(q, {i}, {})
<1>1. {i} \subseteq DOMAIN q.items /\ {} \subseteq DOMAIN q.items /\ FirstOnly(q)
  BY InTurnFirst
<1>2. Without(q, {i}, t)
  BY <1>1, RemovedFacts
<1>3. FirstOnly(t) /\ FollowedBut(t, 0)
  BY <1>1, RemovedKeeps
<1> HIDE DEF t
<1>4. r = RunFirstTransientItem(t)
  BY DEF t
<1>5. QueueType(t) /\ Keeps(q, t) /\ Live(t) = Live(q) \ {i} /\ DOMAIN t.items = DOMAIN q.items
  BY <1>2 DEF Without
<1>6. QueueInv(r) /\ Keeps(t, r) /\ Live(r) = Live(t)
  BY <1>3, <1>4, <1>5, RunFirst
<1> QED
  BY <1>5, <1>6 DEF Keeps, SameItem

LEMMA IntervalFacts ==
    ASSUME QueueInv(Queue), NEW i \in DOMAIN items,
           NEW r, r = [items |-> [items EXCEPT ![i].interval = FALSE],
                       inbox |-> inbox \union {[item |-> i, api |-> "runStatus", awaited |-> TRUE]}]
    PROVE  QueueInv(r) /\ Keeps(Queue, r) /\ Live(r) = Live(Queue)
<1> DEFINE y == [items[i] EXCEPT !.interval = FALSE]
           m == [item |-> i, api |-> "runStatus", awaited |-> TRUE]
<1>1. /\ Queue.items = items /\ Queue.inbox = inbox
      /\ QueueType(Queue) /\ InTurn(Queue) /\ FollowedBut(Queue, 0)
  BY DEF Queue, QueueInv
<1>2. items[i] \in Item /\ items \in Seq(Item) /\ inbox \subseteq Message /\ i \in ItemId
  BY <1>1, DomainIds
<1>3. y \in Item /\ SameItem(items[i], y) /\ y.qState = items[i].qState
  BY <1>2, IntervalUpdate
<1>4. m \in Message /\ m.item = i /\ m.awaited
  BY <1>2 DEF Message
<1>5. r.items = [items EXCEPT ![i] = y] /\ r.inbox = inbox \union {m}
      /\ r = [items |-> r.items, inbox |-> r.inbox]
  OBVIOUS
<1> HIDE DEF y, m
<1>6. r.items \in Seq(Item)
  <2> DEFINE t == [items EXCEPT ![i] = y]
  <2>1. t \in Seq(Item)
    BY <1>2, <1>3, ReplaceItem
  <2> QED
    BY <1>5, <2>1
<1>7. r.inbox \subseteq Message
  BY <1>2, <1>4, <1>5
<1>8. r \in QueueRecord
  BY <1>5, <1>6, <1>7 DEF QueueRecord
<1>9. Asked(r, i)
  BY <1>4, <1>5 DEF Asked
<1>10. \A k \in r.inbox : k.item \in DOMAIN Queue.items
  BY <1>1, <1>4, <1>5 DEF QueueType
<1>11. Queue.inbox \subseteq r.inbox
  BY <1>1, <1>5
<1>12. Replaced(Queue, i, y, r)
  BY <1>1, <1>3, <1>5, <1>8, <1>10, <1>11 DEF Replaced
<1> QED
  BY <1>1, <1>9, <1>12, ReplaceFacts
-----------------------------------------------------------------------------
LEMMA BecomesQueue ==
    ASSUME NEW q, QueueType(q), Becomes(q)
    PROVE  Queue' = q
BY DEF QueueType, QueueRecord, Becomes, Queue

LEMMA QueueFields ==
    /\ Queue.items = items /\ Queue.inbox = inbox
    /\ (Queue').items = items' /\ (Queue').inbox = inbox'
BY DEF Queue

\* r has the items of q, and new ones of the page's simulation.
Grows(q, r) ==
    /\ \A i \in DOMAIN q.items : i \in DOMAIN r.items /\ SameItem(q.items[i], r.items[i])
    /\ \A i \in DOMAIN r.items \ DOMAIN q.items : r.items[i].sim = sim

NoReport(q, r) == \A i \in DOMAIN r.items \ DOMAIN q.items : r.items[i].name \notin Panels

LEMMA KeepsGrows ==
    ASSUME NEW q, QueueType(q), NEW r, QueueType(r), Keeps(q, r)
    PROVE  Grows(q, r) /\ NoReport(q, r) /\ DOMAIN r.items = DOMAIN q.items
BY DomainIds DEF Keeps, Grows, NoReport

LEMMA OneMoreGrows ==
    ASSUME NEW q, QueueType(q), NEW r, QueueType(r), NEW kind, NEW name, OneMore(q, r, kind, name, sim)
    PROVE  /\ Grows(q, r) /\ (name \notin Panels => NoReport(q, r))
           /\ DOMAIN r.items = DOMAIN q.items \union {Len(q.items) + 1}
           /\ Len(q.items) + 1 \notin DOMAIN q.items
           /\ Transient(r) \subseteq Transient(q) \union {Len(q.items) + 1}
           /\ (kind # "transient" => Transient(r) \subseteq Transient(q))
<1> DEFINE n == Len(q.items) + 1
<1>1. DOMAIN q.items = 1..Len(q.items) /\ DOMAIN r.items = 1..Len(r.items) /\ Len(q.items) \in Nat
      /\ Len(r.items) = n
  BY DomainIds DEF OneMore
<1>2. DOMAIN r.items = DOMAIN q.items \union {n} /\ n \notin DOMAIN q.items
  BY <1>1
<1>3. Live(r) = Live(q) \union {n} /\ r.items[n].kind = kind /\ r.items[n].name = name /\ r.items[n].sim = sim
      /\ \A i \in DOMAIN q.items : SameItem(q.items[i], r.items[i])
  BY DEF OneMore
<1> HIDE DEF n
<1>4. Live(q) \subseteq DOMAIN q.items
  BY DEF Live
<1>5. Transient(r) \subseteq Transient(q) \union {n} /\ (kind # "transient" => Transient(r) \subseteq Transient(q))
  BY <1>2, <1>3, <1>4 DEF Transient, SameItem
<1>6. Grows(q, r) /\ (name \notin Panels => NoReport(q, r))
  BY <1>2, <1>3 DEF Grows, NoReport
<1> QED
  BY <1>2, <1>5, <1>6 DEF n

LEMMA GrowsTwice ==
    ASSUME NEW q, NEW r, NEW t, Grows(q, r), NoReport(q, r), Grows(r, t), NoReport(r, t)
    PROVE  Grows(q, t) /\ NoReport(q, t)
BY DEF Grows, NoReport, SameItem

-----------------------------------------------------------------------------
\* The panels in a step that asks for no report; what may come to a panel is its item's answer.
LEMMA PanelsStep ==
    ASSUME QueueInv(Queue), PanelInv, PanelType,
           NEW r, Queue' = r, QueueType(r), Grows(Queue, r), NoReport(Queue, r),
           Transient(r) \subseteq Transient(Queue), sim' = sim,
           \A i \in Transient(r) : queueItems'[items[i].name] = queueItems[items[i].name],
           \A p \in Panels : \/ panels'[p].data = 0
                            \/ panels'[p].data = panels[p].data
                            \/ panels'[p].data \in {i \in Transient(Queue) : items[i].name = p},
           \A p \in pendingRequests' : panels'[p].data = 0
    PROVE  PanelInv'
<1>1. /\ Queue.items = items /\ r.items = items' /\ DOMAIN items' \subseteq Nat \ {0}
      /\ DOMAIN items \subseteq Nat \ {0} /\ Transient(Queue') = Transient(r)
  BY QueueFields, DomainIds DEF QueueInv
<1>2. /\ \A i \in DOMAIN items : i \in DOMAIN items' /\ SameItem(items[i], items'[i])
      /\ \A i \in DOMAIN items' : items'[i].name \in Panels => i \in DOMAIN items
  BY <1>1 DEF Grows, NoReport
<1>3. \A i \in Transient(Queue) : i \in DOMAIN items /\ items[i].name \in Panels
  BY <1>1 DEF Transient, Live, QueueInv, QueueType, Named
<1>4. Awaited'
  <2> SUFFICES ASSUME NEW i \in Transient(r)
               PROVE  /\ queueItems'[items'[i].name] = i
                      /\ items'[i].sim = sim
                      /\ \A j \in DOMAIN items' : j > i => items'[j].name # items'[i].name
    BY <1>1 DEF Awaited
  <2>1. /\ i \in Transient(Queue) /\ i \in DOMAIN items /\ items[i].name \in Panels
        /\ items'[i].name = items[i].name /\ items'[i].sim = items[i].sim
    BY <1>2, <1>3 DEF SameItem
  <2>2. /\ queueItems[items[i].name] = i /\ items[i].sim = sim
        /\ \A j \in DOMAIN items : j > i => items[j].name # items[i].name
    BY <2>1 DEF PanelInv, Awaited
  <2> QED
    BY <1>2, <2>1, <2>2 DEF SameItem
<1>5. PendingIsEmpty'
  BY DEF PendingIsEmpty
<1>6. ASSUME NEW p \in Panels, panels'[p].data # 0
      PROVE  /\ panels'[p].data \in DOMAIN items'
             /\ items'[panels'[p].data].sim = sim
             /\ \A j \in DOMAIN items' : j > panels'[p].data => items'[j].name # p
  <2> DEFINE d == panels'[p].data
  <2>1. d \in DOMAIN items /\ items[d].sim = sim /\ \A j \in DOMAIN items : j > d => items[j].name # p
    <3>1. CASE d = panels[p].data
      BY <1>6, <3>1 DEF PanelInv, Shown, LatestItemShown
    <3>2. CASE d \in {i \in Transient(Queue) : items[i].name = p}
      BY <1>3, <3>2 DEF PanelInv, Awaited
    <3> QED
      BY <1>6, <3>1, <3>2
  <2> HIDE DEF d
  <2>2. d \in DOMAIN items' /\ items'[d].sim = sim
    BY <1>2, <2>1 DEF SameItem
  <2>3. \A j \in DOMAIN items' : j > d => items'[j].name # p
    BY <1>2, <2>1 DEF SameItem
  <2> QED
    BY <2>2, <2>3 DEF d
<1>7. Shown'
  BY <1>6 DEF Shown
<1>8. LatestItemShown'
  BY <1>6 DEF LatestItemShown
<1> QED
  BY <1>4, <1>5, <1>7, <1>8 DEF PanelInv
\* The page of another simulation.
LEMMA EmptyPanels ==
    ASSUME Transient(Queue') = {}, \A p \in Panels : panels'[p].data = 0, pendingRequests' = {}
    PROVE  PanelInv'
<1>1. Awaited' /\ PendingIsEmpty'
  BY DEF Awaited, PendingIsEmpty
<1>2. Shown' /\ LatestItemShown'
  BY DEF Shown, LatestItemShown
<1> QED
  BY <1>1, <1>2 DEF PanelInv

LEMMA LoadingUpdate ==
    ASSUME NEW x \in Panel, NEW y, y = [x EXCEPT !.loading = TRUE, !.error = FALSE]
    PROVE  y \in Panel /\ y.data = x.data
BY DEF Panel

LEMMA SetPanel ==
    ASSUME NEW f \in [Panels -> Panel], NEW p \in Panels, NEW y \in Panel, NEW g, g = [f EXCEPT ![p] = y]
    PROVE  g \in [Panels -> Panel] /\ g[p] = y /\ \A x \in Panels : x # p => g[x] = f[x]
OBVIOUS

\* The queue after a step, all of whose new items are S.
Step(r, S) ==
    /\ Queue' = r /\ QueueInv(r) /\ Grows(Queue, r)
    /\ Live(r) \ S \subseteq Live(Queue)

LEMMA SendRequestStep ==
    ASSUME QueueInv(Queue), PanelInv, PanelType, ModelType,
           NEW q, QueueInv(q), Keeps(Queue, q), Live(q) \subseteq Live(Queue),
           NEW p \in Panels, \A i \in Transient(q) : items[i].name # p,
           panels[p].data = 0, SendRequest(q, p),
           sim' = sim, pendingRequests' \subseteq pendingRequests \union {p}
    PROVE  /\ \E r, n : Step(r, {n}) /\ r.items[n].kind = "transient"
           /\ PanelInv'
           /\ panels' \in [Panels -> Panel] /\ queueItems' \in [Panels -> 0..MaxItem]
<1> DEFINE r == AddItem(q, "transient", p)
           n == Len(q.items) + 1
           y == [panels[p] EXCEPT !.loading = TRUE, !.error = FALSE]
<1>0. QueueType(Queue) /\ QueueType(q) /\ HasRoom(q) /\ Becomes(r)
  BY DEF QueueInv, SendRequest
<1>1. QueueInv(r) /\ OneMore(q, r, "transient", p, sim)
  <2>1. p \in Name /\ sim \in Simulations /\ version[sim][p] \in Nat
    BY BoundsAssumption DEF Name, ModelType
  <2> QED
    BY <2>1, <1>0, AddItemFacts
<1>2. panels' = [panels EXCEPT ![p] = y] /\ queueItems' = [queueItems EXCEPT ![p] = n]
  BY DEF SendRequest
<1>3. y \in Panel /\ y.data = panels[p].data
  BY LoadingUpdate DEF PanelType
<1> HIDE DEF r, y
<1>4. Queue' = r /\ QueueType(r)
  BY <1>0, <1>1, BecomesQueue DEF QueueInv
<1>5. Grows(Queue, q) /\ NoReport(Queue, q) /\ DOMAIN q.items = DOMAIN Queue.items
  BY <1>0, KeepsGrows
<1>6. /\ Grows(q, r) /\ DOMAIN r.items = DOMAIN q.items \union {n} /\ n \notin DOMAIN q.items
      /\ Transient(r) \subseteq Transient(q) \union {n}
  BY <1>0, <1>1, <1>4, OneMoreGrows
<1>7. Grows(Queue, r)
  BY <1>5, <1>6 DEF Grows, SameItem
<1>8. Live(r) = Live(q) \union {n} /\ r.items[n].kind = "transient" /\ r.items[n].name = p /\ r.items[n].sim = sim
  BY <1>1 DEF OneMore
<1>9. n \in 0..MaxItem /\ n \in Nat /\ \A i \in DOMAIN q.items : i \in Nat /\ i < n
  BY <1>0, <1>1, <1>4, <1>6, DomainIds, BoundsAssumption DEF ItemId
<1> HIDE DEF n
<1>10. \E t, k : Step(t, {k}) /\ t.items[k].kind = "transient"
  BY <1>1, <1>4, <1>7, <1>8 DEF Step
<1>11. panels' \in [Panels -> Panel] /\ \A x \in Panels : panels'[x].data = panels[x].data
  BY <1>2, <1>3, SetPanel DEF PanelType
<1>12. queueItems' \in [Panels -> 0..MaxItem] /\ queueItems'[p] = n
       /\ \A x \in Panels : x # p => queueItems'[x] = queueItems[x]
  BY <1>2, <1>9 DEF PanelType
<1>13. Queue.items = items /\ r.items = items'
  BY <1>4, QueueFields
<1>14. \A i \in DOMAIN items : i \in DOMAIN items' /\ SameItem(items[i], items'[i]) /\ i < n
  BY <1>5, <1>6, <1>7, <1>9, <1>13 DEF Grows
<1>15. DOMAIN items' = DOMAIN items \union {n} /\ n \notin DOMAIN items
       /\ items'[n].name = p /\ items'[n].sim = sim
  BY <1>5, <1>6, <1>8, <1>13
<1>16. Awaited'
  <2> SUFFICES ASSUME NEW i \in Transient(r)
               PROVE  /\ queueItems'[items'[i].name] = i
                      /\ items'[i].sim = sim
                      /\ \A j \in DOMAIN items' : j > i => items'[j].name # items'[i].name
    BY <1>4 DEF Awaited
  <2>1. CASE i = n
    <3>1. \A j \in DOMAIN items' : ~(j > n)
      BY <1>9, <1>14, <1>15, <1>5, <1>13
    <3> QED
      BY <2>1, <3>1, <1>12, <1>15
  <2>2. CASE i # n
    <3>1. i \in Transient(q)
      BY <2>2, <1>6
    <3>2. i \in Transient(Queue) /\ i \in DOMAIN items /\ items[i].name \in Panels
      <4>1. i \in Live(Queue) /\ i \in DOMAIN items /\ q.items[i].kind = "transient"
        BY <3>1, <1>13 DEF Transient, Live
      <4>2. items[i].kind = "transient"
        BY <4>1, <1>13 DEF Keeps, SameItem
      <4> QED
        BY <4>1, <4>2, <1>0, <1>13 DEF Transient, QueueType, Named
    <3>3. items[i].name # p
      BY <3>1
    <3>4. /\ queueItems[items[i].name] = i /\ items[i].sim = sim
          /\ \A j \in DOMAIN items : j > i => items[j].name # items[i].name
      BY <3>2 DEF PanelInv, Awaited
    <3>5. items'[i].name = items[i].name /\ items'[i].sim = items[i].sim
      BY <3>2, <1>14 DEF SameItem
    <3>6. queueItems'[items'[i].name] = i
      BY <3>2, <3>3, <3>4, <3>5, <1>12
    <3>7. \A j \in DOMAIN items' : j > i => items'[j].name # items'[i].name
      BY <3>3, <3>4, <3>5, <1>14, <1>15 DEF SameItem
    <3> QED
      BY <3>4, <3>5, <3>6, <3>7
  <2> QED
    BY <2>1, <2>2
<1>17. PendingIsEmpty'
  BY <1>11 DEF PanelInv, PendingIsEmpty, PanelType
<1>18. ASSUME NEW x \in Panels, panels'[x].data # 0
       PROVE  /\ panels'[x].data \in DOMAIN items'
              /\ items'[panels'[x].data].sim = sim
              /\ \A j \in DOMAIN items' : j > panels'[x].data => items'[j].name # x
  <2> DEFINE d == panels[x].data
  <2>1. panels'[x].data = d /\ d # 0 /\ x # p
    BY <1>11, <1>18
  <2>2. d \in DOMAIN items /\ items[d].sim = sim /\ \A j \in DOMAIN items : j > d => items[j].name # x
    BY <2>1 DEF PanelInv, Shown, LatestItemShown
  <2> HIDE DEF d
  <2>3. d \in DOMAIN items' /\ items'[d].sim = sim
    BY <2>2, <1>14 DEF SameItem
  <2>4. \A j \in DOMAIN items' : j > d => items'[j].name # x
    BY <2>1, <2>2, <1>14, <1>15 DEF SameItem
  <2> QED
    BY <2>1, <2>3, <2>4
<1>19. Shown' /\ LatestItemShown'
  BY <1>18 DEF Shown, LatestItemShown
<1>20. PanelInv'
  BY <1>16, <1>17, <1>19 DEF PanelInv
<1> QED
  BY <1>10, <1>11, <1>12, <1>20
-----------------------------------------------------------------------------
LEMMA KeepsStep ==
    ASSUME QueueInv(Queue), NEW q, QueueInv(q), Becomes(q),
           Keeps(Queue, q), Live(q) \subseteq Live(Queue)
    PROVE  /\ Step(q, {}) /\ Queue' = q /\ QueueType(q) /\ Grows(Queue, q) /\ NoReport(Queue, q)
           /\ Transient(q) \subseteq Transient(Queue)
<1>1. QueueType(Queue) /\ QueueType(q)
  BY DEF QueueInv
<1>2. Queue' = q
  BY <1>1, BecomesQueue
<1>3. Grows(Queue, q) /\ NoReport(Queue, q) /\ DOMAIN q.items = DOMAIN Queue.items
  BY <1>1, KeepsGrows
<1>4. Transient(q) \subseteq Transient(Queue)
  BY <1>3 DEF Transient, Live, Keeps, SameItem
<1>5. Step(q, {})
  BY <1>2, <1>3 DEF Step
<1> QED
  BY <1>1, <1>2, <1>3, <1>4, <1>5

LEMMA SameQueueStep ==
    ASSUME QueueInv(Queue), UNCHANGED queueVars
    PROVE  Becomes(Queue) /\ Keeps(Queue, Queue) /\ Step(Queue, {})
<1>1. Becomes(Queue)
  BY DEF queueVars, Queue, Becomes
<1>2. Keeps(Queue, Queue)
  BY DEF Keeps, SameItem
<1> QED
  BY <1>1, <1>2, KeepsStep

LEMMA LooseKept ==
    ASSUME QueueInv(Queue), NEW r, NEW S, Step(r, S),
           \A i \in S : r.items[i].kind = "transient" \/ i = simulationQueueItem',
           simulationQueueItem' = simulationQueueItem \/ simulationQueueItem \notin Live(r)
    PROVE  Loose' \subseteq Loose
<1>1. Queue' = r /\ Queue.items = items /\ r.items = items' /\ Live(Queue') = Live(r)
  BY QueueFields DEF Step
<1> SUFFICES ASSUME NEW i \in Live(r), items'[i].kind # "transient", i # simulationQueueItem'
             PROVE  i \in Live(Queue) /\ items[i].kind # "transient" /\ i # simulationQueueItem
  BY <1>1 DEF Loose
<1>2. i \in Live(Queue)
  BY <1>1 DEF Step
<1>3. items[i].kind # "transient"
  BY <1>1, <1>2 DEF Step, Grows, SameItem, Live
<1> QED
  BY <1>2, <1>3

LEMMA ControlledKept ==
    ASSUME Controlled, NEW r, NEW S, Step(r, S), sim' = sim,
           \/ simulationQueueItem' = simulationQueueItem
           \/ simulationQueueItem' = 0
           \/ simulationQueueItem' \notin DOMAIN items
    PROVE  Controlled'
<1>1. Queue' = r /\ Queue.items = items /\ r.items = items' /\ 0 \notin DOMAIN items'
  BY QueueFields, DomainIds DEF Step, QueueInv
<1> SUFFICES ASSUME simulationQueueItem' \in DOMAIN items'
             PROVE  items'[simulationQueueItem'].sim = sim
  BY DEF Controlled
<1>2. CASE simulationQueueItem' \in DOMAIN items
  BY <1>1, <1>2 DEF Controlled, Step, Grows, SameItem
<1>3. CASE simulationQueueItem' \notin DOMAIN items
  BY <1>1, <1>3 DEF Step, Grows
<1> QED
  BY <1>2, <1>3

\* By its definition, Unfollowed has what FollowedBut lacks.
LEMMA FollowedSoFar == FollowedBut(Queue, 0)
BY QueueFields DEF FollowedBut, Asked, Unfollowed

LEMMA TypedTogether ==
    ASSUME NEW r, Queue' = r, QueueType(r), InTurn(r), ModelType', PanelType', ControllerType',
           PanelInv', Controlled', Unloaded', FollowStep, LooseStep, StatusStep
    PROVE  StepOK
<1>1. QueueType(Queue') /\ InTurn(Queue')
  OBVIOUS
<1>2. FollowedBut(Queue, 0)'
  BY FollowedSoFar, PTL
<1>3. QueueInv(Queue)'
  BY <1>1, <1>2 DEF QueueInv
<1> QED
  BY <1>3 DEF StepOK, IInv

LEMMA Together ==
    ASSUME NEW r, NEW S, Step(r, S), ModelType', PanelType', ControllerType',
           PanelInv', Controlled', Unloaded', LooseStep, StatusStep
    PROVE  StepOK
<1>1. Queue' = r /\ QueueType(r) /\ InTurn(r) /\ FollowedBut(r, 0)
  BY DEF Step, QueueInv
<1>2. r.items = items' /\ r.inbox = inbox' /\ \A i \in Live(r) : i # 0
  BY <1>1, QueueFields, DomainIds DEF Live
<1>3. Unfollowed' \subseteq Unfollowed
  <2> SUFFICES ASSUME NEW i \in Live(r), IsProcessingItem(r, i), ~items'[i].interval,
                      ~\E m \in inbox' : m.item = i /\ m.awaited
               PROVE  i \in Unfollowed
    BY <1>1 DEF Unfollowed
  <2>1. Asked(r, i)
    BY <1>1, <1>2 DEF FollowedBut
  <2> QED
    BY <1>2, <2>1 DEF Asked
<1>4. FollowStep
  BY <1>3 DEF FollowStep
<1> QED
  BY <1>1, <1>4, TypedTogether

\* What panels do leaves the controller as it is.
LEMMA PanelAction ==
    ASSUME IInv, NEW r, NEW S, Step(r, S), \A i \in S : r.items[i].kind = "transient",
           sim' = sim, loaded' = loaded, UNCHANGED controllerVars,
           ModelType', PanelType', PanelInv'
    PROVE  StepOK
<1>1. ControllerType' /\ Unloaded' /\ StatusStep
  BY DEF IInv, ControllerType, Unloaded, StatusStep, controllerVars
<1>2. Controlled'
  BY ControlledKept DEF IInv, controllerVars
<1>3. LooseStep
  BY LooseKept DEF IInv, controllerVars, LooseStep
<1> QED
  BY <1>1, <1>2, <1>3, Together

LEMMA RequestDataStep ==
    ASSUME IInv, NEW p \in Panels, RequestData(p)
    PROVE  StepOK
<1> USE DEF IInv
<1>1. UNCHANGED <<sim, loaded>> /\ UNCHANGED controllerVars /\ ModelType'
  BY DEF RequestData, modelVars, ModelType
<1>2. hidden' = hidden /\ due' \subseteq Panels
  BY DEF RequestData, PanelType
<1>3. CASE panels[p].data # 0
  <2>1. UNCHANGED <<queueVars, panels, pendingRequests, queueItems>>
    BY <1>3 DEF RequestData
  <2>2. Step(Queue, {}) /\ QueueType(Queue) /\ Queue' = Queue /\ Grows(Queue, Queue) /\ NoReport(Queue, Queue)
    BY <2>1, SameQueueStep, KeepsStep
  <2>3. PanelType'
    BY <1>2, <2>1 DEF PanelType
  <2>4. PanelInv'
    BY <1>1, <2>1, <2>2, PanelsStep DEF PanelInv, PendingIsEmpty
  <2> QED
    BY <1>1, <2>2, <2>3, <2>4, PanelAction
<1>4. CASE panels[p].data = 0
  <2> DEFINE q == CancelItem(Queue, queueItems[p])
  <2>1. /\ pendingRequests' = pendingRequests \union {p}
        /\ \/ SendRequest(q, p)
           \/ Becomes(q) /\ UNCHANGED <<panels, queueItems>>
    BY <1>4 DEF RequestData
  <2>2. QueueInv(q) /\ Keeps(Queue, q) /\ Live(q) = Live(Queue) \ {queueItems[p]}
    BY CancelItemFacts
  <2> HIDE DEF q
  <2>3. \A i \in Transient(q) : items[i].name # p
    <3> SUFFICES ASSUME NEW i \in Transient(q), items[i].name = p
                 PROVE  FALSE
      OBVIOUS
    <3>1. i \in Live(Queue) /\ i # queueItems[p] /\ q.items[i].kind = "transient" /\ i \in DOMAIN Queue.items
      BY <2>2 DEF Transient, Live
    <3>2. i \in Transient(Queue)
      BY <2>2, <3>1 DEF Transient, Keeps, SameItem
    <3> QED
      BY <3>1, <3>2 DEF PanelInv, Awaited
  <2>4. CASE SendRequest(q, p)
    <3>1. /\ \E r, n : Step(r, {n}) /\ r.items[n].kind = "transient"
          /\ PanelInv'
          /\ panels' \in [Panels -> Panel] /\ queueItems' \in [Panels -> 0..MaxItem]
      BY <1>1, <1>4, <2>1, <2>2, <2>3, <2>4, SendRequestStep
    <3>2. PanelType'
      BY <1>2, <2>1, <3>1 DEF PanelType
    <3> QED
      BY <1>1, <3>1, <3>2, PanelAction
  <2>5. CASE Becomes(q) /\ UNCHANGED <<panels, queueItems>>
    <3>1. /\ Step(q, {}) /\ Queue' = q /\ QueueType(q) /\ Grows(Queue, q) /\ NoReport(Queue, q)
          /\ Transient(q) \subseteq Transient(Queue)
      BY <2>2, <2>5, KeepsStep
    <3>2. PanelType'
      BY <1>2, <2>1, <2>5 DEF PanelType
    <3>3. PanelInv'
      BY <1>1, <1>4, <2>1, <2>5, <3>1, PanelsStep DEF PanelInv, PendingIsEmpty
    <3> QED
      BY <1>1, <3>1, <3>2, <3>3, PanelAction
  <2> QED
    BY <2>1, <2>4, <2>5
<1> QED
  BY <1>3, <1>4
LEMMA ClickType ==
    ASSUME ModelType, Click
    PROVE  clicks' \in 0..MaxClick
BY BoundsAssumption DEF ModelType, Click

LEMMA ShowPanelStep ==
    ASSUME IInv, NEW p \in Panels, ShowPanel(p)
    PROVE  StepOK
<1> USE DEF IInv
<1>1. UNCHANGED <<sim, loaded>> /\ UNCHANGED controllerVars /\ ModelType'
  BY ClickType DEF ShowPanel, modelVars, ModelType
<1>2. hidden' \in [Simulations -> SUBSET Panels] /\ due' = due /\ pendingRequests' = pendingRequests
  BY DEF ShowPanel, PanelType, ModelType
<1>3. CASE p \in pendingRequests /\ queueItems[p] = 0 /\ SendRequest(Queue, p)
  <2>1. \A i \in Transient(Queue) : items[i].name # p
    <3>1. \A i \in Transient(Queue) : i # 0
      BY DomainIds DEF Transient, Live, QueueInv
    <3> QED
      BY <1>3, <3>1 DEF PanelInv, Awaited
  <2>2. Keeps(Queue, Queue) /\ panels[p].data = 0
    BY <1>3 DEF Keeps, SameItem, PanelInv, PendingIsEmpty
  <2>3. /\ \E r, n : Step(r, {n}) /\ r.items[n].kind = "transient"
        /\ PanelInv'
        /\ panels' \in [Panels -> Panel] /\ queueItems' \in [Panels -> 0..MaxItem]
    BY <1>1, <1>2, <1>3, <2>1, <2>2, SendRequestStep
  <2>4. PanelType'
    BY <1>2, <2>3 DEF PanelType
  <2> QED
    BY <1>1, <2>3, <2>4, PanelAction
<1>4. CASE UNCHANGED <<queueVars, panels, queueItems>>
  <2>1. Step(Queue, {}) /\ QueueType(Queue) /\ Queue' = Queue /\ Grows(Queue, Queue) /\ NoReport(Queue, Queue)
    BY <1>4, SameQueueStep, KeepsStep
  <2>2. PanelType'
    BY <1>2, <1>4 DEF PanelType
  <2>3. PanelInv'
    BY <1>1, <1>2, <1>4, <2>1, PanelsStep DEF PanelInv, PendingIsEmpty
  <2> QED
    BY <1>1, <2>1, <2>2, <2>3, PanelAction
<1> QED
  BY <1>3, <1>4 DEF ShowPanel

LEMMA HidePanelStep ==
    ASSUME IInv, NEW p \in Panels, HidePanel(p)
    PROVE  StepOK
<1> USE DEF IInv
<1> DEFINE q == CancelItem(Queue, queueItems[p])
<1>1. UNCHANGED <<sim, loaded>> /\ UNCHANGED controllerVars /\ ModelType'
  BY ClickType DEF HidePanel, modelVars, ModelType
<1>2. /\ hidden' \in [Simulations -> SUBSET Panels]
      /\ due' = due /\ pendingRequests' = pendingRequests /\ panels' = panels
      /\ queueItems' = [queueItems EXCEPT ![p] = 0] /\ Becomes(q)
  BY DEF HidePanel, PanelType, ModelType
<1>3. QueueInv(q) /\ Keeps(Queue, q) /\ Live(q) = Live(Queue) \ {queueItems[p]}
  BY CancelItemFacts
<1> HIDE DEF q
<1>4. /\ Step(q, {}) /\ Queue' = q /\ QueueType(q) /\ Grows(Queue, q) /\ NoReport(Queue, q)
      /\ Transient(q) \subseteq Transient(Queue)
  BY <1>2, <1>3, KeepsStep
<1>5. PanelType'
  BY <1>2, BoundsAssumption DEF PanelType
<1>6. \A i \in Transient(q) : queueItems'[items[i].name] = queueItems[items[i].name]
  <2> SUFFICES ASSUME NEW i \in Transient(q)
               PROVE  queueItems'[items[i].name] = queueItems[items[i].name]
    OBVIOUS
  <2>1. i \in Transient(Queue) /\ i # queueItems[p]
    BY <1>3, <1>4 DEF Transient
  <2>2. queueItems[items[i].name] = i
    BY <2>1 DEF PanelInv, Awaited
  <2>3. items[i].name # p
    BY <2>1, <2>2
  <2> QED
    BY <1>2, <2>3 DEF PanelType
<1>7. PanelInv'
  BY <1>1, <1>2, <1>4, <1>6, PanelsStep DEF PanelInv, PendingIsEmpty
<1> QED
  BY <1>1, <1>4, <1>5, <1>7, PanelAction

LEMMA ChangedType ==
    ASSUME ModelType, NEW names, Changed(names)
    PROVE  clicks' \in 0..MaxClick /\ version' \in [Simulations -> [Name -> 0..MaxClick]]
<1>1. clicks' \in 0..MaxClick
  BY ClickType DEF Changed
<1> DEFINE f == [n \in Name |-> IF n \in names THEN clicks' ELSE version[sim][n]]
<1>2. f \in [Name -> 0..MaxClick]
  BY <1>1 DEF ModelType
<1>3. version' = [version EXCEPT ![sim] = f]
  BY DEF Changed
<1> HIDE DEF f
<1> QED
  BY <1>1, <1>2, <1>3 DEF ModelType

LEMMA NoPanelType == NoPanel \in Panel /\ NoPanel.data = 0
BY BoundsAssumption DEF NoPanel, Panel

LEMMA ChangeReportStep ==
    ASSUME IInv, NEW p \in Panels, ChangeReport(p)
    PROVE  StepOK
<1> USE DEF IInv
<1>1. UNCHANGED <<sim, loaded>> /\ UNCHANGED controllerVars /\ ModelType'
  <2>1. clicks' \in 0..MaxClick /\ version' \in [Simulations -> [Name -> 0..MaxClick]]
    BY ChangedType DEF ChangeReport
  <2> QED
    BY <2>1 DEF ChangeReport, ModelType
<1>2. /\ panels' = [panels EXCEPT ![p] = NoPanel] /\ pendingRequests' = pendingRequests \ {p}
      /\ due' = due \union {p} /\ hidden' = hidden /\ queueItems' = queueItems
      /\ UNCHANGED queueVars
  BY DEF ChangeReport
<1>3. /\ panels' \in [Panels -> Panel] /\ panels'[p].data = 0
      /\ \A x \in Panels : x # p => panels'[x] = panels[x]
  BY <1>2, NoPanelType, SetPanel DEF PanelType
<1>4. Step(Queue, {}) /\ QueueType(Queue) /\ Queue' = Queue /\ Grows(Queue, Queue) /\ NoReport(Queue, Queue)
  BY <1>2, SameQueueStep, KeepsStep
<1>5. PanelType'
  BY <1>2, <1>3 DEF PanelType
<1>6. \A x \in pendingRequests' : panels'[x].data = 0
  BY <1>2, <1>3 DEF PanelInv, PendingIsEmpty, PanelType
<1>7. \A x \in Panels : panels'[x].data = 0 \/ panels'[x].data = panels[x].data
  BY <1>3
<1>8. PanelInv'
  BY <1>1, <1>2, <1>4, <1>6, <1>7, PanelsStep
<1> QED
  BY <1>1, <1>4, <1>5, <1>8, PanelAction

LEMMA NoPanels ==
    ASSUME panels' = [x \in Panels |-> NoPanel]
    PROVE  panels' \in [Panels -> Panel] /\ \A x \in Panels : panels'[x].data = 0
BY NoPanelType

LEMMA ChangeModelsStep ==
    ASSUME IInv, ChangeModels
    PROVE  StepOK
<1> USE DEF IInv
<1> DEFINE q == CancelTransientItems(Queue)
<1>1. UNCHANGED <<sim, loaded>> /\ UNCHANGED controllerVars /\ ModelType'
  <2>1. clicks' \in 0..MaxClick /\ version' \in [Simulations -> [Name -> 0..MaxClick]]
    BY ChangedType DEF ChangeModels
  <2> QED
    BY <2>1 DEF ChangeModels, ModelType
<1>2. /\ panels' = [x \in Panels |-> NoPanel] /\ pendingRequests' = {}
      /\ due' \subseteq Panels /\ hidden' = hidden /\ queueItems' = queueItems /\ Becomes(q)
  BY DEF ChangeModels, PlotsDue
<1>3. QueueInv(q) /\ Keeps(Queue, q) /\ Live(q) \subseteq Live(Queue) /\ Transient(q) = {}
  BY CancelTransientFacts
<1> HIDE DEF q
<1>4. Step(q, {}) /\ Queue' = q
  BY <1>2, <1>3, KeepsStep
<1>5. panels' \in [Panels -> Panel] /\ \A x \in Panels : panels'[x].data = 0
  BY <1>2, NoPanels
<1>6. PanelType'
  BY <1>2, <1>5 DEF PanelType
<1>7. PanelInv'
  BY <1>2, <1>3, <1>4, <1>5, EmptyPanels
<1> QED
  BY <1>1, <1>4, <1>6, <1>7, PanelAction
-----------------------------------------------------------------------------
\* An item of the simulation is added.
LEMMA AddPersistentStep ==
    ASSUME QueueInv(Queue), ModelType,
           NEW q, QueueInv(q), Keeps(Queue, q), Live(q) \subseteq Live(Queue), HasRoom(q),
           NEW kind \in {"persistent", "persistentStatus"},
           NEW r, r = AddItem(q, kind, "animation"), Becomes(r),
           NEW n, n = Len(q.items) + 1
    PROVE  /\ Step(r, {n}) /\ Queue' = r /\ QueueType(r) /\ Grows(Queue, r) /\ NoReport(Queue, r)
           /\ Transient(r) \subseteq Transient(q) /\ Transient(q) \subseteq Transient(Queue)
           /\ Live(r) = Live(q) \union {n}
           /\ n \in 0..MaxItem /\ n \in ItemId /\ n \notin DOMAIN items
<1>1. QueueInv(r) /\ OneMore(q, r, kind, "animation", sim)
  <2>1. "animation" \in Name /\ sim \in Simulations /\ version[sim]["animation"] \in Nat
        /\ "animation" \notin Panels
    BY BoundsAssumption DEF Name, ModelType
  <2> QED
    BY <2>1, AddItemFacts
<1>2. QueueType(Queue) /\ QueueType(q) /\ QueueType(r)
  BY <1>1 DEF QueueInv
<1>3. Queue' = r
  BY <1>2, BecomesQueue
<1>4. Grows(Queue, q) /\ NoReport(Queue, q) /\ DOMAIN q.items = DOMAIN Queue.items
  BY <1>2, KeepsGrows
<1>5. /\ Grows(q, r) /\ NoReport(q, r) /\ DOMAIN r.items = DOMAIN q.items \union {n}
      /\ n \notin DOMAIN q.items /\ Transient(r) \subseteq Transient(q)
  BY <1>1, <1>2, OneMoreGrows, BoundsAssumption
<1>6. Grows(Queue, r) /\ NoReport(Queue, r)
  BY <1>4, <1>5, GrowsTwice
<1>7. Transient(q) \subseteq Transient(Queue)
  BY <1>4 DEF Transient, Live, Keeps, SameItem
<1>8. Live(r) = Live(q) \union {n}
  BY <1>1 DEF OneMore
<1>9. n \in 0..MaxItem /\ n \in ItemId /\ n \notin DOMAIN items
  BY <1>2, <1>4, <1>5, DomainIds, QueueFields DEF ItemId
<1>10. Step(r, {n})
  BY <1>1, <1>3, <1>6, <1>8 DEF Step
<1> QED
  BY <1>2, <1>3, <1>5, <1>6, <1>7, <1>8, <1>9, <1>10

\* The queue after PollStatus, whose new items are S.
Polled(q, r, S) ==
    /\ Step(r, S) /\ Queue' = r /\ QueueType(r) /\ Grows(Queue, r) /\ NoReport(Queue, r)
    /\ Transient(r) \subseteq Transient(q) /\ Transient(q) \subseteq Transient(Queue)
    /\ Live(r) \subseteq Live(q) \union S /\ S \subseteq {simulationQueueItem'}
    /\ S \intersect DOMAIN items = {}
    /\ simulationQueueItem' \in 0..MaxItem /\ handled' \subseteq ItemId
    /\ simulationQueueItem' = 0 \/ simulationQueueItem' \notin DOMAIN items

LEMMA PollStatusStep ==
    ASSUME QueueInv(Queue), ModelType,
           NEW q, QueueInv(q), Keeps(Queue, q), Live(q) \subseteq Live(Queue),
           NEW view, PollStatus(q, view)
    PROVE  \E r, S : Polled(q, r, S)
<1>1. CASE view = "visualization" /\ HasRoom(q) /\ Becomes(AddItem(q, "persistentStatus", "animation"))
           /\ simulationQueueItem' = Len(q.items) + 1 /\ handled' = {Len(q.items) + 1}
  <2> DEFINE r == AddItem(q, "persistentStatus", "animation")
             n == Len(q.items) + 1
  <2>1. Becomes(r) /\ HasRoom(q) /\ simulationQueueItem' = n /\ handled' = {n}
    BY <1>1
  <2>2. /\ Step(r, {n}) /\ Queue' = r /\ QueueType(r) /\ Grows(Queue, r) /\ NoReport(Queue, r)
        /\ Transient(r) \subseteq Transient(q) /\ Transient(q) \subseteq Transient(Queue)
        /\ Live(r) = Live(q) \union {n}
        /\ n \in 0..MaxItem /\ n \in ItemId /\ n \notin DOMAIN items
    BY <2>1, AddPersistentStep
  <2> HIDE DEF r, n
  <2>3. Polled(q, r, {n})
    BY <2>1, <2>2 DEF Polled
  <2> QED
    BY <2>3
<1>2. CASE Becomes(q) /\ simulationQueueItem' = 0 /\ handled' = {}
  <2>1. /\ Step(q, {}) /\ Queue' = q /\ QueueType(q) /\ Grows(Queue, q) /\ NoReport(Queue, q)
        /\ Transient(q) \subseteq Transient(Queue)
    BY <1>2, KeepsStep
  <2>2. Polled(q, q, {})
    BY <1>2, <2>1, BoundsAssumption DEF Polled
  <2> QED
    BY <2>2
<1> QED
  BY <1>1, <1>2 DEF PollStatus

LEMMA OpenStep ==
    ASSUME IInv, NEW s \in Simulations, NEW view \in Section, Open(s, view)
    PROVE  StepOK
<1> USE DEF IInv
<1> DEFINE t == Forgotten(Queue)
           q == ControllerDestroyed(t)
<1>1. ModelType'
  BY ClickType DEF Open, ModelType
<1>2. /\ panels' = [x \in Panels |-> NoPanel] /\ pendingRequests' = {}
      /\ due' = {} /\ hidden' = hidden /\ queueItems' = queueItems /\ Becomes(q)
      /\ simulationQueueItem' = 0 /\ handled' = {} /\ saving' = <<>> /\ sim' = s /\ s # sim
      /\ status' = [state |-> "missing", sim |-> s]
  BY DEF Open
<1>3. QueueType(t) /\ Keeps(Queue, t) /\ Live(t) = Live(Queue) /\ t.items = items
  BY ForgottenFacts DEF QueueInv
<1> HIDE DEF t
<1>4. QueueType(q) /\ Keeps(t, q) /\ Transient(q) = {} /\ Live(q) \subseteq Live(Queue) \ {simulationQueueItem}
  BY <1>3, DestroyedFacts
<1> HIDE DEF q
<1>5. Queue' = q /\ InTurn(q)
  BY <1>2, <1>4, BecomesQueue DEF InTurn
<1>6. panels' \in [Panels -> Panel] /\ \A x \in Panels : panels'[x].data = 0
  BY <1>2, NoPanels
<1>7. PanelType'
  BY <1>2, <1>6 DEF PanelType
<1>8. PanelInv'
  BY <1>2, <1>4, <1>5, <1>6, EmptyPanels
<1>9. ControllerType' /\ Unloaded'
  <2>1. <<>> \in Seq(BOOLEAN)
    OBVIOUS
  <2>2. status' \in [state : State, sim : Simulations]
    BY <1>2 DEF State
  <2> QED
    BY <1>2, <2>1, <2>2, BoundsAssumption DEF ControllerType, Unloaded
<1>10. Controlled'
  <2>1. 0 \notin DOMAIN items'
    BY <1>4, <1>5, DomainIds, QueueFields
  <2> QED
    BY <1>2, <2>1 DEF Controlled
<1>11. Live(q) \subseteq Loose
  <2> SUFFICES ASSUME NEW i \in Live(q)
               PROVE  i \in Loose
    OBVIOUS
  <2>1. i \in Live(Queue) /\ i # simulationQueueItem /\ i \in DOMAIN items
    BY <1>4, QueueFields DEF Live
  <2>2. q.items[i].kind # "transient"
    BY <1>4 DEF Transient
  <2>3. items[i].kind # "transient"
    BY <1>3, <1>4, <2>1, <2>2 DEF Keeps, SameItem
  <2> QED
    BY <2>1, <2>3 DEF Loose
<1>12. Unfollowed' \subseteq Live(q) /\ Loose' \subseteq Live(q)
  BY <1>5 DEF Unfollowed, Loose
<1>13. FollowStep /\ LooseStep
  BY <1>2, <1>11, <1>12 DEF FollowStep, LooseStep
<1>14. StatusStep
  BY <1>2 DEF StatusStep
<1> QED
  BY <1>1, <1>4, <1>5, <1>7, <1>8, <1>9, <1>10, <1>13, <1>14, TypedTogether

LEMMA ModelsLoadedStep ==
    ASSUME IInv, ModelsLoaded
    PROVE  StepOK
<1> USE DEF IInv
<1>1. ModelType' /\ sim' = sim
  BY DEF ModelsLoaded, ModelType
<1>2. /\ panels' = panels /\ pendingRequests' = pendingRequests /\ due' \subseteq Panels
      /\ hidden' = hidden /\ queueItems' = queueItems
      /\ saving' = saving /\ status' = [state |-> "pending", sim |-> sim] /\ loaded'
      /\ PollStatus(Queue, section)
  BY DEF ModelsLoaded, PlotsDue
<1>3. simulationQueueItem = 0
  BY DEF ModelsLoaded, Unloaded
<1>4. Keeps(Queue, Queue)
  BY DEF Keeps, SameItem
<1>5. PICK r, S : Polled(Queue, r, S)
  BY <1>2, <1>4, PollStatusStep
<1>6. /\ Step(r, S) /\ Queue' = r /\ QueueType(r) /\ Grows(Queue, r) /\ NoReport(Queue, r)
      /\ Transient(r) \subseteq Transient(Queue) /\ S \subseteq {simulationQueueItem'}
      /\ simulationQueueItem' \in 0..MaxItem /\ handled' \subseteq ItemId
      /\ simulationQueueItem' = 0 \/ simulationQueueItem' \notin DOMAIN items
  BY <1>5 DEF Polled
<1>7. PanelType'
  BY <1>2 DEF PanelType
<1>8. PanelInv'
  BY <1>1, <1>2, <1>6, PanelsStep DEF PanelInv, PendingIsEmpty
<1>9. ControllerType' /\ Unloaded' /\ StatusStep
  BY <1>1, <1>2, <1>6 DEF ControllerType, Unloaded, StatusStep, State, ModelType
<1>10. Controlled'
  BY <1>1, <1>6, ControlledKept
<1>11. LooseStep
  <2>1. simulationQueueItem \notin Live(r)
    BY <1>3, <1>6, DomainIds DEF Live
  <2>2. \A i \in S : i = simulationQueueItem'
    BY <1>6
  <2>3. Loose' \subseteq Loose
    BY <1>6, <2>1, <2>2, LooseKept
  <2> QED
    BY <2>3 DEF LooseStep
<1> QED
  BY <1>1, <1>6, <1>7, <1>8, <1>9, <1>10, <1>11, Together

LEMMA ForgetCallbacks ==
    ASSUME NEW s \in Seq(BOOLEAN), NEW t, t = [k \in DOMAIN s |-> FALSE]
    PROVE  t \in Seq(BOOLEAN)
<1>1. Len(s) \in Nat /\ DOMAIN s = 1..Len(s)
  OBVIOUS
<1>2. t \in [1..Len(s) -> BOOLEAN]
  BY <1>1, Zenon
<1> QED
  BY <1>1, <1>2

LEMMA OpenSectionStep ==
    ASSUME IInv, NEW view \in Section, OpenSection(view)
    PROVE  StepOK
<1> USE DEF IInv
<1> DEFINE q == ControllerDestroyed(Queue)
<1>1. ModelType' /\ sim' = sim /\ loaded' = loaded /\ loaded
  BY ClickType DEF OpenSection, ModelType
<1>2. /\ panels' = panels /\ pendingRequests' = pendingRequests /\ due' \subseteq Panels
      /\ hidden' = hidden /\ queueItems' = queueItems
      /\ saving' = [k \in DOMAIN saving |-> FALSE]
      /\ status' = [state |-> "missing", sim |-> sim] \/ status' = status
      /\ PollStatus(q, view)
  BY DEF OpenSection, PlotsDue
<1>3. QueueInv(q) /\ Keeps(Queue, q) /\ Live(q) \subseteq Live(Queue) \ {simulationQueueItem}
  BY ControllerDestroyedFacts
<1> HIDE DEF q
<1>4. PICK r, S : Polled(q, r, S)
  BY <1>2, <1>3, PollStatusStep
<1>5. /\ Step(r, S) /\ Queue' = r /\ QueueType(r) /\ Grows(Queue, r) /\ NoReport(Queue, r)
      /\ Transient(r) \subseteq Transient(Queue) /\ S \subseteq {simulationQueueItem'}
      /\ Live(r) \subseteq Live(q) \union S
      /\ simulationQueueItem' \in 0..MaxItem /\ handled' \subseteq ItemId
      /\ simulationQueueItem' = 0 \/ simulationQueueItem' \notin DOMAIN items
  BY <1>4 DEF Polled
<1>6. PanelType'
  BY <1>2 DEF PanelType
<1>7. PanelInv'
  BY <1>1, <1>2, <1>5, PanelsStep DEF PanelInv, PendingIsEmpty
<1>8. ControllerType' /\ Unloaded' /\ StatusStep
  <2>1. saving' \in Seq(BOOLEAN)
    BY <1>2, ForgetCallbacks DEF ControllerType
  <2> QED
    BY <1>1, <1>2, <1>5, <2>1 DEF ControllerType, Unloaded, StatusStep, State, ModelType
<1>9. Controlled'
  BY <1>1, <1>5, ControlledKept
<1>10. LooseStep
  <2>1. simulationQueueItem \notin Live(r) \/ simulationQueueItem' = simulationQueueItem
    BY <1>3, <1>5
  <2>2. \A i \in S : i = simulationQueueItem'
    BY <1>5
  <2>3. Loose' \subseteq Loose
    BY <1>5, <2>1, <2>2, LooseKept
  <2> QED
    BY <2>3 DEF LooseStep
<1> QED
  BY <1>1, <1>5, <1>6, <1>7, <1>8, <1>9, <1>10, Together
\* What the user does to the controller, and its callbacks, leave the panels as they are.
ControllerAction(r) ==
    /\ UNCHANGED panelVars /\ UNCHANGED <<sim, loaded>> /\ ModelType' /\ ControllerType'
    /\ Queue' = r /\ QueueType(r) /\ Grows(Queue, r) /\ NoReport(Queue, r)
    /\ Transient(r) \subseteq Transient(Queue)

LEMMA ControllerActionStep ==
    ASSUME IInv, NEW r, NEW S, Step(r, S), ControllerAction(r),
           Controlled', Unloaded', LooseStep, StatusStep
    PROVE  StepOK
<1>1. /\ UNCHANGED <<hidden, panels, pendingRequests, queueItems, due>> /\ ModelType' /\ ControllerType'
      /\ sim' = sim
      /\ Queue' = r /\ QueueType(r) /\ Grows(Queue, r) /\ NoReport(Queue, r)
      /\ Transient(r) \subseteq Transient(Queue)
  BY DEF ControllerAction, panelVars
<1>2. PanelType'
  BY <1>1 DEF IInv, PanelType
<1>3. PanelInv'
  BY <1>1, PanelsStep DEF IInv, PanelInv, PendingIsEmpty
<1> QED
  BY <1>1, <1>2, <1>3, Together

LEMMA SaveAndRunStep ==
    ASSUME IInv, SaveAndRunSimulation
    PROVE  StepOK
<1> USE DEF IInv
<1>1. Step(Queue, {}) /\ QueueType(Queue) /\ Queue' = Queue /\ Grows(Queue, Queue) /\ NoReport(Queue, Queue)
  BY SameQueueStep, KeepsStep DEF SaveAndRunSimulation
<1>2. saving' \in Seq(BOOLEAN)
  BY DEF SaveAndRunSimulation, ControllerType
<1>3. ModelType' /\ ControllerType' /\ Unloaded' /\ StatusStep
  BY <1>2
  DEF SaveAndRunSimulation, modelVars, ModelType, ControllerType, Unloaded, StatusStep, State
<1>4. UNCHANGED panelVars /\ UNCHANGED <<sim, loaded>> /\ simulationQueueItem' = simulationQueueItem
  BY DEF SaveAndRunSimulation, modelVars
<1>5. ControllerAction(Queue)
  BY <1>1, <1>3, <1>4 DEF ControllerAction
<1>6. Controlled'
  BY <1>1, <1>4, ControlledKept
<1>7. LooseStep
  BY <1>1, <1>4, LooseKept DEF LooseStep
<1> QED
  BY <1>1, <1>3, <1>5, <1>6, <1>7, ControllerActionStep

LEMMA TailFacts ==
    ASSUME ControllerType, saving # <<>>, saving' = Tail(saving)
    PROVE  saving' \in Seq(BOOLEAN) /\ Len(saving') < Len(saving)
BY DEF ControllerType

LEMMA RunSimulationStep ==
    ASSUME IInv, RunSimulation
    PROVE  StepOK
<1> USE DEF IInv
<1>1. saving' \in Seq(BOOLEAN) /\ LooseStep
  BY TailFacts DEF RunSimulation, LooseStep
<1>2. UNCHANGED panelVars /\ UNCHANGED <<sim, loaded>> /\ ModelType' /\ loaded
  BY DEF RunSimulation, modelVars, ModelType, Unloaded
<1>3. CASE UNCHANGED <<queueVars, status, simulationQueueItem, handled>>
  <2>1. Step(Queue, {}) /\ QueueType(Queue) /\ Queue' = Queue /\ Grows(Queue, Queue) /\ NoReport(Queue, Queue)
    BY <1>3, SameQueueStep, KeepsStep
  <2>2. ControllerType' /\ Unloaded' /\ StatusStep
    BY <1>1, <1>2, <1>3 DEF ControllerType, Unloaded, StatusStep
  <2>3. ControllerAction(Queue)
    BY <1>2, <2>1, <2>2 DEF ControllerAction
  <2>4. Controlled'
    BY <1>2, <1>3, <2>1, ControlledKept
  <2> QED
    BY <1>1, <2>1, <2>2, <2>3, <2>4, ControllerActionStep
<1>4. CASE /\ HasRoom(Queue)
           /\ status' = [state |-> "pending", sim |-> sim]
           /\ Becomes(AddItem(Queue, "persistent", "animation"))
           /\ \/ simulationQueueItem' = Len(items) + 1 /\ handled' = handled \union {Len(items) + 1}
              \/ UNCHANGED <<simulationQueueItem, handled>>
  <2> DEFINE r == AddItem(Queue, "persistent", "animation")
             n == Len(Queue.items) + 1
  <2>1. Keeps(Queue, Queue) /\ n = Len(items) + 1 /\ Live(Queue) \subseteq Live(Queue)
        /\ HasRoom(Queue) /\ Becomes(r)
    BY <1>4, QueueFields DEF Keeps, SameItem
  <2>0. r = AddItem(Queue, "persistent", "animation") /\ n = Len(Queue.items) + 1
    OBVIOUS
  <2> HIDE DEF r, n
  <2>2. /\ Step(r, {n}) /\ Queue' = r /\ QueueType(r) /\ Grows(Queue, r) /\ NoReport(Queue, r)
        /\ Transient(r) \subseteq Transient(Queue)
        /\ n \in 0..MaxItem /\ n \in ItemId /\ n \notin DOMAIN items
    <3> DEFINE q == Queue
    <3>1. QueueInv(q) /\ Keeps(Queue, q) /\ Live(q) \subseteq Live(Queue) /\ HasRoom(q)
          /\ r = AddItem(q, "persistent", "animation") /\ Becomes(r) /\ n = Len(q.items) + 1
      BY <2>0, <2>1
    <3> HIDE DEF q
    <3>3. QueueInv(Queue) /\ ModelType
      OBVIOUS
    <3> DEFINE kind == "persistent"
    <3>4. kind \in {"persistent", "persistentStatus"} /\ r = AddItem(q, kind, "animation")
      BY <3>1
    <3> HIDE DEF IInv, kind
    <3>2. /\ Step(r, {n}) /\ Queue' = r /\ QueueType(r) /\ Grows(Queue, r) /\ NoReport(Queue, r)
          /\ Transient(r) \subseteq Transient(q) /\ Transient(q) \subseteq Transient(Queue)
          /\ n \in 0..MaxItem /\ n \in ItemId /\ n \notin DOMAIN items
      BY <3>1, <3>3, <3>4, AddPersistentStep
    <3> QED
      BY <3>2
  <2>3. \/ simulationQueueItem' = n /\ handled' = handled \union {n}
        \/ simulationQueueItem' = simulationQueueItem /\ handled' = handled
    BY <1>4, <2>1
  <2>4. ControllerType' /\ Unloaded' /\ StatusStep
    BY <1>1, <1>2, <1>4, <2>2, <2>3 DEF ControllerType, Unloaded, StatusStep, State, ModelType
  <2>5. ControllerAction(r)
    BY <1>2, <2>2, <2>4 DEF ControllerAction
  <2>6. Controlled'
    BY <1>2, <2>2, <2>3, ControlledKept
  <2> QED
    BY <1>1, <2>2, <2>4, <2>5, <2>6, ControllerActionStep
<1> QED
  BY <1>3, <1>4 DEF RunSimulation

LEMMA SaveFailsStep ==
    ASSUME IInv, SaveFails
    PROVE  StepOK
<1> USE DEF IInv
<1>1. saving' \in Seq(BOOLEAN) /\ LooseStep
  BY TailFacts DEF SaveFails, LooseStep
<1>2. Step(Queue, {}) /\ QueueType(Queue) /\ Queue' = Queue /\ Grows(Queue, Queue) /\ NoReport(Queue, Queue)
  BY SameQueueStep, KeepsStep DEF SaveFails
<1>3. /\ UNCHANGED panelVars /\ UNCHANGED <<sim, loaded>> /\ ModelType' /\ loaded
      /\ simulationQueueItem' = simulationQueueItem
  BY DEF SaveFails, modelVars, ModelType, Unloaded
<1>4. ControllerType' /\ Unloaded' /\ StatusStep
  BY <1>1, <1>3 DEF SaveFails, ControllerType, Unloaded, StatusStep
<1>5. ControllerAction(Queue)
  BY <1>2, <1>3, <1>4 DEF ControllerAction
<1>6. Controlled'
  BY <1>2, <1>3, ControlledKept
<1> QED
  BY <1>1, <1>2, <1>4, <1>5, <1>6, ControllerActionStep

LEMMA CancelSimulationStep ==
    ASSUME IInv, CancelSimulation
    PROVE  StepOK
<1> USE DEF IInv
<1> DEFINE q == CancelItem(Queue, simulationQueueItem)
<1>1. QueueInv(q) /\ Keeps(Queue, q) /\ Live(q) = Live(Queue) \ {simulationQueueItem}
  BY CancelItemFacts
<1>2. Becomes(q) /\ simulationQueueItem' = 0 /\ status' = [state |-> "canceled", sim |-> sim]
      /\ saving' = saving /\ handled' = handled
  BY DEF CancelSimulation
<1> HIDE DEF q
<1>3. /\ Step(q, {}) /\ Queue' = q /\ QueueType(q) /\ Grows(Queue, q) /\ NoReport(Queue, q)
      /\ Transient(q) \subseteq Transient(Queue)
  BY <1>1, <1>2, KeepsStep
<1>4. UNCHANGED panelVars /\ UNCHANGED <<sim, loaded>> /\ ModelType'
  BY ClickType DEF CancelSimulation, modelVars, ModelType
<1>5. ControllerType' /\ Unloaded' /\ StatusStep
  BY <1>2, <1>4, BoundsAssumption DEF ControllerType, Unloaded, StatusStep, State, ModelType
<1>6. ControllerAction(q)
  BY <1>3, <1>4, <1>5 DEF ControllerAction
<1>7. Controlled'
  BY <1>2, <1>3, <1>4, ControlledKept
<1>8. LooseStep
  BY <1>1, <1>3, LooseKept DEF LooseStep
<1> QED
  BY <1>3, <1>5, <1>6, <1>7, <1>8, ControllerActionStep

LEMMA IntervalFiresStep ==
    ASSUME IInv, NEW i \in DOMAIN items, IntervalFires(i)
    PROVE  StepOK
<1> USE DEF IInv
<1> DEFINE q == [items |-> [items EXCEPT ![i].interval = FALSE],
                 inbox |-> inbox \union {[item |-> i, api |-> "runStatus", awaited |-> TRUE]}]
<1>1. QueueInv(q) /\ Keeps(Queue, q) /\ Live(q) = Live(Queue)
  BY IntervalFacts
<1>2. Becomes(q)
  BY DEF IntervalFires, Becomes
<1> HIDE DEF q
<1>3. /\ Step(q, {}) /\ Queue' = q /\ QueueType(q) /\ Grows(Queue, q) /\ NoReport(Queue, q)
      /\ Transient(q) \subseteq Transient(Queue)
  BY <1>1, <1>2, KeepsStep
<1>4. /\ UNCHANGED panelVars /\ UNCHANGED <<sim, loaded>> /\ ModelType'
      /\ UNCHANGED <<status, simulationQueueItem, handled, saving>>
  BY DEF IntervalFires, modelVars, controllerVars, ModelType
<1>5. ControllerType' /\ Unloaded' /\ StatusStep
  BY <1>4 DEF ControllerType, Unloaded, StatusStep
<1>6. ControllerAction(q)
  BY <1>3, <1>4, <1>5 DEF ControllerAction
<1>7. Controlled'
  BY <1>3, <1>4, ControlledKept
<1>8. LooseStep
  BY <1>3, <1>4, LooseKept DEF LooseStep
<1> QED
  BY <1>3, <1>5, <1>6, <1>7, <1>8, ControllerActionStep
-----------------------------------------------------------------------------
\* Replies.
LEMMA PanelResponseStep ==
    ASSUME IInv, NEW i \in Transient(Queue), NEW p, p = items[i].name,
           NEW q, QueueInv(q), Becomes(q), Keeps(Queue, q), Live(q) = Live(Queue) \ {i},
           NEW r, r.item = i, PanelResponse(p, r),
           sim' = sim, loaded' = loaded, ModelType'
    PROVE  StepOK
<1> USE DEF IInv
<1>1. /\ Step(q, {}) /\ Queue' = q /\ QueueType(q) /\ Grows(Queue, q) /\ NoReport(Queue, q)
      /\ Transient(q) \subseteq Transient(Queue)
  BY KeepsStep
<1>2. p \in Panels /\ i \in 0..MaxItem
  <2>1. QueueType(Queue) /\ Queue.items = items /\ i \in DOMAIN items /\ items[i].kind = "transient"
    BY QueueFields DEF QueueInv, Transient, Live
  <2> QED
    BY <2>1, DomainIds DEF QueueType, Named, ItemId
<1>3. UNCHANGED controllerVars /\ hidden' = hidden /\ due' = due
  BY DEF PanelResponse, controllerVars
<1>4. CASE /\ panels' = [panels EXCEPT ![p].loading = FALSE, ![p].error = TRUE]
           /\ UNCHANGED <<pendingRequests, queueItems>>
  <2> DEFINE y == [panels[p] EXCEPT !.loading = FALSE, !.error = TRUE]
  <2>1. panels' = [panels EXCEPT ![p] = y]
    BY <1>4
  <2>2. y \in Panel /\ y.data = panels[p].data
    BY <1>2 DEF Panel, PanelType
  <2> HIDE DEF y
  <2>3. panels' \in [Panels -> Panel] /\ \A x \in Panels : panels'[x].data = panels[x].data
    BY <1>2, <2>1, <2>2, SetPanel DEF PanelType
  <2>4. PanelType'
    BY <1>3, <1>4, <2>3 DEF PanelType
  <2>5. \A x \in pendingRequests' : panels'[x].data = 0
    BY <1>4, <2>3 DEF PanelInv, PendingIsEmpty, PanelType
  <2>6. PanelInv'
    BY <1>1, <1>4, <2>3, <2>5, PanelsStep
  <2> QED
    BY <1>1, <1>3, <2>4, <2>6, PanelAction
<1>5. CASE /\ panels' = [panels EXCEPT ![p] =
                 [data |-> r.item, loading |-> FALSE, error |-> r.state # "completed"]]
           /\ pendingRequests' = pendingRequests \ {p}
           /\ queueItems' = [queueItems EXCEPT ![p] = 0]
  <2> DEFINE y == [data |-> r.item, loading |-> FALSE, error |-> r.state # "completed"]
  <2>1. y \in Panel /\ y.data = i
    BY <1>2 DEF Panel
  <2>2. panels' = [panels EXCEPT ![p] = y]
    BY <1>5
  <2> HIDE DEF y
  <2>3. /\ panels' \in [Panels -> Panel] /\ panels'[p].data = i
        /\ \A x \in Panels : x # p => panels'[x].data = panels[x].data
    BY <1>2, <2>1, <2>2, SetPanel DEF PanelType
  <2>4. PanelType'
    BY <1>3, <1>5, <2>3, BoundsAssumption DEF PanelType
  <2>5. \A x \in pendingRequests' : panels'[x].data = 0
    BY <1>5, <2>3 DEF PanelInv, PendingIsEmpty, PanelType
  <2>6. \A x \in Panels : \/ panels'[x].data = 0
                         \/ panels'[x].data = panels[x].data
                         \/ panels'[x].data \in {j \in Transient(Queue) : items[j].name = x}
    BY <2>3
  <2>7. \A j \in Transient(q) : queueItems'[items[j].name] = queueItems[items[j].name]
    <3> SUFFICES ASSUME NEW j \in Transient(q)
                 PROVE  queueItems'[items[j].name] = queueItems[items[j].name]
      OBVIOUS
    <3>1. j \in Transient(Queue) /\ j # i
      BY <1>1 DEF Transient
    <3>2. queueItems[items[j].name] = j /\ queueItems[p] = i
      BY <3>1 DEF PanelInv, Awaited
    <3>3. items[j].name # p
      BY <3>1, <3>2
    <3> QED
      BY <1>5, <3>3 DEF PanelType
  <2>8. PanelInv'
    BY <1>1, <2>5, <2>6, <2>7, PanelsStep
  <2> QED
    BY <1>1, <1>3, <2>4, <2>8, PanelAction
<1> QED
  BY <1>4, <1>5 DEF PanelResponse

LEMMA StatusResponseStep ==
    ASSUME IInv, NEW i \in Live(Queue), items[i].kind # "transient",
           NEW q, QueueInv(q), Becomes(q), Keeps(Queue, q), Live(q) \subseteq Live(Queue),
           NEW r, r.item = i, r.state \in State, ~Unfinished(r) => i \notin Live(q), StatusResponse(r),
           sim' = sim, loaded' = loaded, ModelType'
    PROVE  StepOK
<1> USE DEF IInv
<1>1. /\ Step(q, {}) /\ Queue' = q /\ QueueType(q) /\ Grows(Queue, q) /\ NoReport(Queue, q)
      /\ Transient(q) \subseteq Transient(Queue)
  BY KeepsStep
<1>2. /\ status' = [state |-> r.state, sim |-> items[i].sim]
      /\ UNCHANGED panelVars /\ saving' = saving /\ handled' = handled
      /\ \/ simulationQueueItem' = simulationQueueItem
         \/ simulationQueueItem' = 0 /\ ~Unfinished(r)
  BY DEF StatusResponse
<1>3. i \in DOMAIN items /\ items[i] \in Item
  BY QueueFields, DomainIds DEF QueueInv, Live
<1>4. items[i].sim \in Simulations
  BY <1>3 DEF Item
<1>5. ControllerType' /\ Unloaded'
  BY <1>2, <1>4, BoundsAssumption DEF ControllerType, Unloaded
<1>6. StatusStep
  <2>1. CASE i = simulationQueueItem
    BY <1>2, <1>3, <2>1 DEF Controlled, StatusStep
  <2>2. CASE i # simulationQueueItem
    BY <2>2 DEF Loose, StatusStep
  <2> QED
    BY <2>1, <2>2
<1>7. ControllerAction(q)
  BY <1>1, <1>2, <1>5 DEF ControllerAction
<1>8. Controlled'
  BY <1>1, <1>2, ControlledKept
<1>9. LooseStep
  <2>1. CASE simulationQueueItem' = simulationQueueItem \/ simulationQueueItem \notin Live(q)
    BY <1>1, <2>1, LooseKept DEF LooseStep
  <2>2. CASE simulationQueueItem \in Live(q) /\ ~Unfinished(r)
    <3>1. i \in Loose /\ i \notin Live(Queue')
      BY <1>1, <2>2 DEF Loose
    <3> QED
      BY <3>1 DEF LooseStep
  <2> QED
    BY <1>2, <2>1, <2>2
<1> QED
  BY <1>1, <1>5, <1>6, <1>7, <1>8, <1>9, ControllerActionStep

\* A reply that only the queue takes.
LEMMA QueueOnlyStep ==
    ASSUME IInv, NEW q, QueueInv(q), Becomes(q), Keeps(Queue, q), Live(q) \subseteq Live(Queue),
           UNCHANGED panelVars, UNCHANGED controllerVars,
           sim' = sim, loaded' = loaded, ModelType'
    PROVE  StepOK
<1> USE DEF IInv
<1>1. /\ Step(q, {}) /\ Queue' = q /\ QueueType(q) /\ Grows(Queue, q) /\ NoReport(Queue, q)
      /\ Transient(q) \subseteq Transient(Queue)
  BY KeepsStep
<1>2. UNCHANGED <<status, simulationQueueItem, handled, saving>>
  BY DEF controllerVars
<1>3. ControllerType' /\ Unloaded' /\ StatusStep
  BY <1>2 DEF ControllerType, Unloaded, StatusStep
<1>4. ControllerAction(q)
  BY <1>1, <1>3 DEF ControllerAction
<1>5. Controlled' /\ LooseStep
  BY <1>1, <1>2, ControlledKept, LooseKept DEF LooseStep
<1> QED
  BY <1>1, <1>3, <1>4, <1>5, ControllerActionStep

LEMMA ReplyStep ==
    ASSUME IInv, NEW m \in inbox, NEW state \in State, NEW serial \in Nat, Reply(m, state, serial),
           sim' = sim, loaded' = loaded, ModelType'
    PROVE  StepOK
<1> DEFINE q == [Queue EXCEPT !.inbox = inbox \ {m}]
           r == [item |-> m.item, state |-> state, serial |-> serial]
           i == m.item
<1>1. QueueInv(Queue)
  BY DEF IInv
<1>2. /\ QueueType(q) /\ InTurn(q) /\ FollowedBut(q, i)
      /\ i \in DOMAIN q.items /\ q.items = items /\ q.inbox = inbox \ {m}
  BY <1>1, AnsweredFacts
<1>3. \/ m.awaited /\ Process(q, r)
      \/ ~m.awaited /\ Becomes(q) /\ UNCHANGED panelVars /\ UNCHANGED controllerVars
  BY QueueFields DEF Reply
<1>4. r.item = i /\ r.state = state /\ r.serial = serial
  OBVIOUS
<1>5. ~m.awaited => QueueInv(q)
  BY <1>1, UnawaitedFacts
<1> HIDE DEF q, r
<1>6. Live(q) = Live(Queue) /\ Keeps(Queue, q)
  BY <1>2, QueueFields DEF Live, Keeps, SameItem
<1> HIDE DEF i
<1>7. CASE ~m.awaited
  BY <1>3, <1>5, <1>6, <1>7, QueueOnlyStep
<1>8. CASE m.awaited /\ items[i].qState = "removing"
  <2>1. Becomes(q) /\ UNCHANGED panelVars /\ UNCHANGED controllerVars
    BY <1>3, <1>4, <1>8 DEF Process
  <2>2. QueueInv(q)
    BY <1>2, <1>8 DEF QueueInv, FollowedBut, Live
  <2> QED
    BY <1>6, <2>1, <2>2, QueueOnlyStep
<1>9. CASE m.awaited /\ items[i].qState # "removing" /\ Unfinished(r)
  <2> DEFINE t == [q EXCEPT !.items[i].serial = serial, !.items[i].interval = TRUE]
  <2>1. /\ Becomes(t)
        /\ \/ items[i].kind = "transient" /\ UNCHANGED panelVars /\ UNCHANGED controllerVars
           \/ items[i].kind # "transient" /\ StatusResponse(r)
    BY <1>3, <1>4, <1>9 DEF Process, HandleStatus
  <2>2. QueueInv(t) /\ Keeps(q, t) /\ Live(t) = Live(q)
    BY <1>2, UnfinishedFacts
  <2> HIDE DEF t
  <2>3. Keeps(Queue, t) /\ Live(t) \subseteq Live(Queue)
    BY <1>2, <1>6, <2>2, QueueFields DEF Keeps, SameItem
  <2>4. i \in Live(Queue)
    BY <1>2, <1>9, QueueFields DEF Live
  <2>5. CASE items[i].kind = "transient" /\ UNCHANGED panelVars /\ UNCHANGED controllerVars
    BY <2>1, <2>2, <2>3, <2>5, QueueOnlyStep
  <2>6. CASE items[i].kind # "transient" /\ StatusResponse(r)
    BY <1>4, <1>9, <2>1, <2>2, <2>3, <2>4, <2>6, StatusResponseStep
  <2> QED
    BY <2>1, <2>5, <2>6
<1>10. CASE m.awaited /\ items[i].qState # "removing" /\ ~Unfinished(r)
  <2> DEFINE t == RunFirstTransientItem(Removed(q, {i}, {}))
  <2>1. /\ Becomes(t)
        /\ \/ items[i].kind = "transient" /\ PanelResponse(items[i].name, r)
           \/ items[i].kind # "transient" /\ StatusResponse(r)
    BY <1>3, <1>4, <1>10 DEF Process, HandleResult, Respond
  <2>2. QueueInv(t) /\ Keeps(q, t) /\ Live(t) = Live(q) \ {i}
    BY <1>2, ResultFacts
  <2> HIDE DEF t
  <2>3. Keeps(Queue, t) /\ Live(t) = Live(Queue) \ {i}
    BY <1>2, <1>6, <2>2, QueueFields DEF Keeps, SameItem
  <2>4. i \in Live(Queue) /\ (items[i].kind = "transient" => i \in Transient(Queue))
    BY <1>2, <1>10, QueueFields DEF Live, Transient
  <2>5. CASE items[i].kind = "transient" /\ PanelResponse(items[i].name, r)
    BY <1>4, <2>1, <2>2, <2>3, <2>4, <2>5, PanelResponseStep
  <2>6. CASE items[i].kind # "transient" /\ StatusResponse(r)
    BY <1>4, <2>1, <2>2, <2>3, <2>4, <2>6, StatusResponseStep
  <2> QED
    BY <2>1, <2>5, <2>6
<1> QED
  BY <1>7, <1>8, <1>9, <1>10

LEMMA SetJobType ==
    ASSUME IInv, NEW i \in DOMAIN items, NEW job \in Job, SetJob(i, job)
    PROVE  jobs' \in [Simulations -> [Name -> Job]]
<1>1. items[i] \in Item
  BY QueueFields, DomainIds DEF IInv, QueueInv
<1>2. items[i].sim \in Simulations /\ items[i].name \in Name
  BY <1>1 DEF Item
<1> QED
  BY <1>2 DEF SetJob, IInv, ModelType

LEMMA JobFacts ==
    ASSUME IInv, NEW i \in DOMAIN items
    PROVE  JobOf(i) \in Job /\ items[i].version \in Nat
<1>1. items[i] \in Item
  BY QueueFields, DomainIds DEF IInv, QueueInv
<1> QED
  BY <1>1 DEF Item, JobOf, IInv, ModelType

LEMMA ServerTaskStep ==
    ASSUME IInv, NEW m \in inbox, ServerTask(m)
    PROVE  StepOK
<1>1. m.item \in DOMAIN items
  BY QueueFields DEF IInv, QueueInv, QueueType
<1>2. UNCHANGED <<sim, section, loaded, version, clicks>>
  BY DEF ServerTask, modelVars
<1>3. JobOf(m.item) \in Job /\ items[m.item].version \in Nat
  BY <1>1, JobFacts
<1>4. JobOf(m.item).state \in State /\ JobOf(m.item).serial \in Nat
  BY <1>3 DEF Job
<1>5. jobs' \in [Simulations -> [Name -> Job]] => ModelType'
  BY <1>2 DEF IInv, ModelType
<1>6. CASE ReplyRun(m)
  <2>1. jobs' = jobs /\ ModelType'
    BY <1>5, <1>6 DEF ReplyRun, IInv, ModelType
  <2>2. Reply(m, "error", 0) \/ Reply(m, JobOf(m.item).state, JobOf(m.item).serial)
    BY <1>6 DEF ReplyRun
  <2>3. "error" \in State /\ 0 \in Nat
    BY DEF State
  <2> QED
    BY <1>2, <1>4, <2>1, <2>2, <2>3, ReplyStep
<1>7. CASE StartRun(m)
  <2>1. PICK state \in {"running", "error"} :
           /\ SetJob(m.item, [state |-> state, version |-> items[m.item].version,
                              serial |-> JobOf(m.item).serial + 1])
           /\ Reply(m, state, JobOf(m.item).serial + 1)
    BY <1>7 DEF StartRun
  <2> DEFINE job == [state |-> state, version |-> items[m.item].version,
                     serial |-> JobOf(m.item).serial + 1]
  <2>2. state \in State /\ JobOf(m.item).serial + 1 \in Nat
    BY <1>4 DEF State
  <2>3. job \in Job
    BY <1>3, <2>2 DEF Job
  <2>4. SetJob(m.item, job)
    BY <2>1
  <2> HIDE DEF job
  <2>5. ModelType'
    BY <1>1, <1>5, <2>3, <2>4, SetJobType
  <2> QED
    BY <1>2, <2>1, <2>2, <2>5, ReplyStep
<1>8. CASE ReplyStatus(m)
  <2>1. jobs' = jobs /\ ModelType'
    BY <1>5, <1>8 DEF ReplyStatus, IInv, ModelType
  <2>2. Reply(m, "missing", 0) \/ Reply(m, JobOf(m.item).state, JobOf(m.item).serial)
    BY <1>8 DEF ReplyStatus
  <2>3. "missing" \in State /\ 0 \in Nat
    BY DEF State
  <2> QED
    BY <1>2, <1>4, <2>1, <2>2, <2>3, ReplyStep
<1>9. CASE CancelRun(m)
  <2> DEFINE q == [Queue EXCEPT !.inbox = inbox \ {m}]
             job == [JobOf(m.item) EXCEPT !.state = "canceled"]
  <2>1. m.api = "runCancel" /\ inbox' = inbox \ {m} /\ items' = items
        /\ UNCHANGED panelVars /\ UNCHANGED controllerVars
    BY <1>9 DEF CancelRun
  <2>2. jobs' = jobs \/ SetJob(m.item, job)
    BY <1>9 DEF CancelRun
  <2>3. job \in Job
    BY <1>3 DEF Job, State
  <2> HIDE DEF job
  <2>4. jobs' \in [Simulations -> [Name -> Job]]
    <3>1. CASE jobs' = jobs
      BY <3>1 DEF IInv, ModelType
    <3>2. CASE SetJob(m.item, job)
      BY <1>1, <2>3, <3>2, SetJobType
    <3> QED
      BY <2>2, <3>1, <3>2
  <2>5. q.items = items /\ q.inbox = inbox \ {m}
    BY AnsweredFacts DEF IInv
  <2>6. QueueInv(q)
    <3>1. inbox \subseteq Message
      BY QueueFields, DomainIds DEF IInv, QueueInv
    <3>2. ~m.awaited
      BY <2>1, <3>1 DEF Message
    <3> QED
      BY <3>2, UnawaitedFacts DEF IInv
  <2>7. Becomes(q)
    BY <2>1, <2>5 DEF Becomes
  <2> HIDE DEF q
  <2>8. Live(q) = Live(Queue) /\ Keeps(Queue, q)
    BY <2>5, QueueFields DEF Live, Keeps, SameItem
  <2> QED
    BY <1>2, <1>5, <2>1, <2>4, <2>5, <2>6, <2>7, <2>8, QueueOnlyStep
<1> QED
  BY <1>6, <1>7, <1>8, <1>9 DEF ServerTask

LEMMA JobEndsStep ==
    ASSUME IInv, NEW s \in Simulations, NEW n \in Name, JobEnds(s, n)
    PROVE  StepOK
<1> DEFINE job == [jobs[s][n] EXCEPT !.state = "completed"]
<1>1. job \in Job
  <2>1. jobs[s][n] \in Job
    BY DEF IInv, ModelType
  <2> QED
    BY <2>1 DEF Job, State
<1>2. jobs' = [jobs EXCEPT ![s][n] = job]
  BY DEF JobEnds
<1> HIDE DEF job
<1>3. jobs' \in [Simulations -> [Name -> Job]]
  BY <1>1, <1>2 DEF IInv, ModelType
<1>4. ModelType' /\ sim' = sim /\ loaded' = loaded /\ UNCHANGED panelVars /\ UNCHANGED controllerVars
  BY <1>3 DEF JobEnds, IInv, ModelType, modelVars
<1>5. Becomes(Queue) /\ Keeps(Queue, Queue)
  BY SameQueueStep DEF JobEnds, IInv
<1> QED
  BY <1>4, <1>5, QueueOnlyStep DEF IInv

LEMMA StutterStep ==
    ASSUME IInv, UNCHANGED vars
    PROVE  StepOK
<1>1. ModelType' /\ sim' = sim /\ loaded' = loaded /\ UNCHANGED panelVars /\ UNCHANGED controllerVars
      /\ UNCHANGED queueVars
  BY DEF vars, IInv, ModelType, modelVars
<1>2. Becomes(Queue) /\ Keeps(Queue, Queue)
  BY <1>1, SameQueueStep DEF IInv
<1> QED
  BY <1>1, <1>2, QueueOnlyStep DEF IInv

-----------------------------------------------------------------------------
LEMMA InitInv == Init => IInv
<1> SUFFICES ASSUME Init
             PROVE  IInv
  OBVIOUS
<1>1. sim \in Simulations
  BY BoundsAssumption DEF Init
<1>2. ModelType
  <2>1. NoJob \in Job /\ [NoJob EXCEPT !.state = "running", !.serial = 1] \in Job
    BY DEF NoJob, Job, State
  <2>2. jobs \in [Simulations -> [Name -> Job]]
    BY <2>1 DEF Init
  <2>3. version \in [Simulations -> [Name -> 0..MaxClick]]
    BY BoundsAssumption DEF Init
  <2>4. section \in Section /\ loaded \in BOOLEAN /\ clicks = 0
    BY DEF Init
  <2>5. clicks \in 0..MaxClick
    BY <2>4, BoundsAssumption
  <2> QED
    BY <1>1, <2>2, <2>3, <2>4, <2>5 DEF ModelType
<1>3. PanelType
  BY NoPanelType, BoundsAssumption DEF Init, PanelType
<1>4. ControllerType
  <2>1. <<>> \in Seq(BOOLEAN)
    OBVIOUS
  <2> QED
    BY <1>1, <2>1, BoundsAssumption DEF Init, ControllerType, State
<1>5. QueueInv(Queue)
  <2>1. <<>> \in Seq(Item) /\ Len(<<>>) = 0 /\ DOMAIN <<>> = {}
    OBVIOUS
  <2>2. Queue.items = <<>> /\ Queue.inbox = {}
    BY QueueFields DEF Init
  <2>3. QueueType(Queue)
    BY <2>1, <2>2, BoundsAssumption DEF QueueType, QueueRecord, Queue
  <2>4. Live(Queue) = {} /\ Transient(Queue) = {}
    BY <2>1, <2>2 DEF Live, Transient
  <2> QED
    BY <2>3, <2>4 DEF QueueInv, InTurn, FollowedBut
<1>6. PanelInv
  <2>1. Transient(Queue) = {}
    BY QueueFields DEF Init, Transient, Live
  <2> QED
    BY <2>1 DEF Init, PanelInv, Awaited, PendingIsEmpty, Shown, LatestItemShown, NoPanel
<1>7. Controlled /\ Unloaded
  BY DEF Init, Controlled, Unloaded
<1> QED
  BY <1>2, <1>3, <1>4, <1>5, <1>6, <1>7 DEF IInv

LEMMA NextStep ==
    ASSUME IInv, [Next]_vars
    PROVE  StepOK
<1>1. ASSUME NEW p \in Panels, RequestData(p) \/ ShowPanel(p) \/ HidePanel(p) \/ ChangeReport(p)
      PROVE  StepOK
  BY <1>1, RequestDataStep, ShowPanelStep, HidePanelStep, ChangeReportStep
<1>2. CASE ChangeModels \/ ModelsLoaded
  BY <1>2, ChangeModelsStep, ModelsLoadedStep
<1>3. ASSUME NEW s \in Simulations, NEW view \in Section, Open(s, view)
      PROVE  StepOK
  BY <1>3, OpenStep
<1>4. ASSUME NEW view \in Section, OpenSection(view)
      PROVE  StepOK
  BY <1>4, OpenSectionStep
<1>5. CASE SaveAndRunSimulation \/ RunSimulation \/ SaveFails \/ CancelSimulation
  BY <1>5, SaveAndRunStep, RunSimulationStep, SaveFailsStep, CancelSimulationStep
<1>6. ASSUME NEW i \in DOMAIN items, IntervalFires(i)
      PROVE  StepOK
  BY <1>6, IntervalFiresStep
<1>7. ASSUME NEW m \in inbox, ServerTask(m)
      PROVE  StepOK
  BY <1>7, ServerTaskStep
<1>8. ASSUME NEW s \in Simulations, NEW n \in Name, JobEnds(s, n)
      PROVE  StepOK
  BY <1>8, JobEndsStep
<1>9. CASE UNCHANGED vars
  BY <1>9, StutterStep
<1> QED
  BY <1>1, <1>2, <1>3, <1>4, <1>5, <1>6, <1>7, <1>8, <1>9 DEF Next

LEMMA InvTypeOK == IInv => TypeOK
<1>1. QueueType(Queue) => items \in Seq(Item) /\ Len(items) <= MaxItem /\ inbox \subseteq Message
  BY QueueFields DEF QueueType, QueueRecord
<1> QED
  BY <1>1 DEF IInv, QueueInv, ModelType, PanelType, ControllerType, Panel, TypeOK

(***************************************************************************)
(* The type invariant.                                                     *)
(***************************************************************************)
THEOREM QueueTypes == Spec => []TypeOK
<1>1. IInv /\ [Next]_vars => IInv'
  BY NextStep DEF StepOK
<1> QED
  BY <1>1, InitInv, InvTypeOK, PTL DEF Spec

(***************************************************************************)
(* Reports take turns: one transient item at most is processed, and it is  *)
(* the oldest, for any number of panels, items and clicks.                 *)
(***************************************************************************)
THEOREM ReportsTakeTurns == Spec => []OneTransient
<1>1. IInv /\ [Next]_vars => IInv'
  BY NextStep DEF StepOK
<1>2. IInv => OneTransient
  BY DEF IInv, QueueInv, InTurn, OneTransient
<1> QED
  BY <1>1, <1>2, InitInv, PTL DEF Spec

(***************************************************************************)
(* What is processed keeps a reply to come or an interval that will send a *)
(* request; only a loose poll may lose both, to a route to another         *)
(* simulation.                                                             *)
(***************************************************************************)
THEOREM ProcessingIsFollowed == Spec => Followed
<1>1. IInv /\ [Next]_vars =>
         IInv' /\ (Unfollowed' \subseteq Unfollowed \union (IF sim' = sim THEN {} ELSE Loose))
  BY NextStep DEF StepOK, FollowStep
<1> QED
  BY <1>1, InitInv, PTL DEF Spec, Followed

(***************************************************************************)
(* No late reply of an earlier item replaces the data of a panel.          *)
(***************************************************************************)
THEOREM PanelsShowTheLatest == Spec => []LatestItemShown
<1>1. IInv /\ [Next]_vars => IInv'
  BY NextStep DEF StepOK
<1>2. IInv => LatestItemShown
  BY DEF IInv, PanelInv
<1> QED
  BY <1>1, <1>2, InitInv, PTL DEF Spec

(***************************************************************************)
(* A poll escapes its controller only when a save calls back or a poll     *)
(* that has escaped before is answered for the last time.                  *)
(***************************************************************************)
THEOREM PollsAreHeld == Spec => LooseByCallback
<1>1. IInv /\ [Next]_vars =>
         IInv' /\ (\/ Loose' \subseteq Loose
                   \/ Len(saving') < Len(saving)
                   \/ ~(Loose \subseteq Live(Queue)'))
  BY NextStep DEF StepOK, LooseStep
<1> QED
  BY <1>1, InitInv, PTL DEF Spec, LooseByCallback

(***************************************************************************)
(* The status of the page is told of its own simulation while no poll is   *)
(* loose.                                                                  *)
(***************************************************************************)
THEOREM StatusOfThePage == Spec => StatusIsLoaded
<1>1. IInv /\ [Next]_vars => IInv' /\ (status'.sim = sim' \/ status' = status \/ Loose # {})
  BY NextStep DEF StepOK, StatusStep
<1> QED
  BY <1>1, InitInv, PTL DEF Spec, StatusIsLoaded
=============================================================================
