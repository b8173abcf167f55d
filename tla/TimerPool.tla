----------------------------- MODULE TimerPool -----------------------------
(***************************************************************************)
(* lib/timer_pool.S: the one software timer pool that every part of the    *)
(* stack shares (TPOOL_DEFAULT_CAP = 16 slots in the product).             *)
(*                                                                         *)
(* A slot is [cb, ctx, left]: the callback, its context and the ticks left *)
(* until its expiry (0: expiry <= now).  The code stores the absolute      *)
(* expiry; the countdown tells the same timers apart and keeps the states  *)
(* finite.  An inactive slot is one whose callback is 0; its other two     *)
(* fields are never read, so the model resets them.                        *)
(*                                                                         *)
(* The functions of the file become operators from pools to pools, so that *)
(* every module that arms or cancels timers uses the same ones.            *)
(***************************************************************************)
EXTENDS Integers, FiniteSetsExt

CONSTANT Cap        \* TPOOL_CAP, the number of slots

ASSUME CapAssumption == Cap \in Nat \ {0}

Slots == 0 .. Cap - 1

\* timer_set's answer when the pool is full, and the "unarmed" mark that
\* the owners keep in their slot fields.
NoSlot == -1

NoCb == "none"

Inactive == [cb |-> NoCb, ctx |-> 0, left |-> 0]

timer_pool_init == [i \in Slots |-> Inactive]

FreeSlots(p) == {i \in Slots : p[i].cb = NoCb}

\* Mutant: the scan keeps the last free slot instead of stopping at the first.
timer_set_slot_last(p) ==
    IF FreeSlots(p) = {} THEN NoSlot ELSE Max(FreeSlots(p))

\* The slot index that timer_set returns.
timer_set_slot(p) ==
    IF FreeSlots(p) = {} THEN NoSlot ELSE Min(FreeSlots(p))

\* The pool that timer_set leaves: the first free slot is filled, a full
\* pool is left alone.
timer_set(p, cb, ctx, left) ==
    IF FreeSlots(p) = {} THEN p
    ELSE [p EXCEPT ![timer_set_slot(p)] =
                       [cb |-> cb, ctx |-> ctx, left |-> left]]

\* timer_cancel does not ask who owns the slot.  An index out of range (the
\* -1 mark is 2^32 - 1 to the unsigned comparison) is ignored.
timer_cancel(p, slot) ==
    IF slot \in Slots THEN [p EXCEPT ![slot] = Inactive] ELSE p

\* timer_check visits the slots in index order.  Due(p, from) are the slots
\* it would fire from index from on; Firing is the next one; the callback
\* runs on Fired, the pool in which its own slot is already free.
Due(p, from) == {i \in Slots : i >= from /\ p[i].cb # NoCb /\ p[i].left = 0}

Firing(p, from) == Min(Due(p, from))

Fired(p, from) == timer_cancel(p, Firing(p, from))

\* One tick of CNTPCT_EL0 as the pool sees it.
Elapse(p) ==
    [i \in Slots |-> IF p[i].left > 0 THEN [p[i] EXCEPT !.left = @ - 1]
                                      ELSE p[i]]
=============================================================================
