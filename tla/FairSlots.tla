------------------------------ MODULE FairSlots ------------------------------
(***************************************************************************)
(* What a pool of slots promises to the operations that share it.  A slot  *)
(* has at most one owner.  An operation that finds no free slot lines up,  *)
(* and a slot that is given back goes to the head of the line: nobody in   *)
(* the line is overtaken and no slot stays free while somebody waits.      *)
(*                                                                         *)
(* SlotQueue (sirepo's SlotQueue and SlotProxy) implements this.           *)
(***************************************************************************)
EXTENDS Naturals, Sequences

CONSTANTS Op,       \* the operations that compete for the slots
          Slot,     \* the slots of the pool
          Nobody    \* the owner of a free slot

VARIABLES owner,    \* owner[s]: the operation that owns slot s, or Nobody
          line      \* the operations waiting for a slot, first come first

vars == <<owner, line>>

Init ==
    /\ owner = [s \in Slot |-> Nobody]
    /\ line = <<>>

\* o takes a free slot.
Take(o, s) ==
    /\ owner[s] = Nobody
    /\ owner' = [owner EXCEPT ![s] = o]
    /\ UNCHANGED line

\* All slots are owned: o waits.
LineUp(o) ==
    /\ \A s \in Slot : owner[s] # Nobody
    /\ line' = Append(line, o)
    /\ UNCHANGED owner

\* The owner of s gives it back and nobody waits for it.
GiveBack(s) ==
    /\ owner[s] # Nobody
    /\ line = <<>>
    /\ owner' = [owner EXCEPT ![s] = Nobody]
    /\ UNCHANGED line

\* The owner of s gives it back: the head of the line owns it at once.
PassOn(s) ==
    /\ owner[s] # Nobody
    /\ line # <<>>
    /\ owner' = [owner EXCEPT ![s] = Head(line)]
    /\ line' = Tail(line)

Next ==
    \/ \E o \in Op : LineUp(o) \/ \E s \in Slot : Take(o, s)
    \/ \E s \in Slot : GiveBack(s) \/ PassOn(s)

Spec == Init /\ [][Next]_vars
==============================================================================
