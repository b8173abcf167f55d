-------------------------- MODULE NetServicesProofs --------------------------
(***************************************************************************)
(* NetServices for every capacity, period, lease and retry budget: the     *)
(* variables keep their types, the watchdog never bites, the boot timers   *)
(* never move, and an awaited lease timer is lost only to a stale handle.  *)
(***************************************************************************)
EXTENDS NetServices, TLAPS, WellFoundedInduction

(***************************************************************************)
(* What lib/timer_pool.S guarantees its callers, for every capacity.       *)
(***************************************************************************)

Pools(CB, CX) == [Slots -> [cb : CB, ctx : CX, left : Nat]]

\* The linear scans of timer_set and timer_check end at the least index.
LEMMA MinInSet ==
    ASSUME NEW S, S \subseteq Nat, S # {}
    PROVE  Min(S) \in S /\ \A y \in S : Min(S) <= y
<1>1. PICK x \in S : \A y \in S : ~(<<y, x>> \in OpToRel(<, Nat))
  BY NatLessThanWellFounded, WFMin
<1>2. \A y \in S : x <= y
  <2>1. SUFFICES ASSUME NEW y \in S PROVE x <= y
    OBVIOUS
  <2>2. ~(y < x)
    BY <1>1, <2>1 DEF OpToRel
  <2> QED
    BY <2>2
<1> QED
  BY <1>2 DEF Min

\* timer_set fills a slot that was free and leaves every other slot alone;
\* on a full pool it does nothing and says so.
LEMMA TimerSet ==
    ASSUME NEW CB, NEW CX, NEW p \in Pools(CB, CX),
           NEW cb \in CB, NEW ctx \in CX, NEW left \in Nat
    PROVE  /\ timer_set(p, cb, ctx, left) \in Pools(CB, CX)
           /\ timer_set_slot(p) \in Slots \cup {NoSlot}
           /\ timer_set_slot(p) # NoSlot =>
                /\ timer_set_slot(p) \in Slots
                /\ p[timer_set_slot(p)].cb = NoCb
                /\ \A i \in Slots : p[i].cb = NoCb => timer_set_slot(p) <= i
                /\ timer_set(p, cb, ctx, left)[timer_set_slot(p)]
                     = [cb |-> cb, ctx |-> ctx, left |-> left]
           /\ \A i \in Slots : i # timer_set_slot(p) =>
                timer_set(p, cb, ctx, left)[i] = p[i]
           /\ \A i \in Slots : p[i].cb # NoCb =>
                timer_set(p, cb, ctx, left)[i] = p[i]
<1>1. CASE FreeSlots(p) = {}
  BY <1>1, CapAssumption DEF timer_set, timer_set_slot, Pools, FreeSlots, Slots, NoSlot
<1>2. CASE FreeSlots(p) # {}
  <2>1. FreeSlots(p) \subseteq Nat
    BY CapAssumption DEF FreeSlots, Slots
  <2>2. /\ Min(FreeSlots(p)) \in FreeSlots(p)
        /\ \A y \in FreeSlots(p) : Min(FreeSlots(p)) <= y
    BY <1>2, <2>1, MinInSet
  <2>3. timer_set_slot(p) = Min(FreeSlots(p))
    BY <1>2 DEF timer_set_slot
  <2>4. timer_set(p, cb, ctx, left)
          = [p EXCEPT ![timer_set_slot(p)] =
                 [cb |-> cb, ctx |-> ctx, left |-> left]]
    BY <1>2 DEF timer_set
  <2>5. timer_set_slot(p) \in Slots /\ p[timer_set_slot(p)].cb = NoCb
    BY <2>2, <2>3 DEF FreeSlots
  <2>6. \A i \in Slots : p[i].cb = NoCb => timer_set_slot(p) <= i
    BY <2>2, <2>3 DEF FreeSlots
  <2>7. timer_set(p, cb, ctx, left) \in Pools(CB, CX)
    BY <2>4, <2>5 DEF Pools
  <2>8. timer_set(p, cb, ctx, left)[timer_set_slot(p)]
          = [cb |-> cb, ctx |-> ctx, left |-> left]
    BY <2>4, <2>5 DEF Pools
  <2>9. \A i \in Slots : i # timer_set_slot(p) =>
            timer_set(p, cb, ctx, left)[i] = p[i]
    BY <2>4, <2>5 DEF Pools
  <2>10. \A i \in Slots : p[i].cb # NoCb =>
            timer_set(p, cb, ctx, left)[i] = p[i]
    BY <2>5, <2>9
  <2> QED
    BY <2>5, <2>6, <2>7, <2>8, <2>9, <2>10
<1> QED
  BY <1>1, <1>2

\* timer_cancel frees at most the slot it is given.
LEMMA TimerCancel ==
    ASSUME NEW CB, NEW CX, NEW p \in Pools(CB, CX), NEW s,
           NoCb \in CB, 0 \in CX
    PROVE  /\ timer_cancel(p, s) \in Pools(CB, CX)
           /\ \A i \in Slots : i # s => timer_cancel(p, s)[i] = p[i]
           /\ s \in Slots => timer_cancel(p, s)[s].cb = NoCb
  BY DEF timer_cancel, Pools, Inactive

\* timer_check fires an active, expired slot at or after the scan index, and
\* the least such slot; only that slot is freed.
LEMMA TimerFire ==
    ASSUME NEW CB, NEW CX, NEW p \in Pools(CB, CX), NEW from,
           NoCb \in CB, 0 \in CX, Due(p, from) # {}
    PROVE  /\ Firing(p, from) \in Slots
           /\ Firing(p, from) >= from
           /\ p[Firing(p, from)].cb # NoCb
           /\ p[Firing(p, from)].left = 0
           /\ \A i \in Due(p, from) : Firing(p, from) <= i
           /\ Fired(p, from) \in Pools(CB, CX)
           /\ Fired(p, from)[Firing(p, from)].cb = NoCb
           /\ \A i \in Slots : i # Firing(p, from) => Fired(p, from)[i] = p[i]
<1>1. Due(p, from) \subseteq Nat
  BY CapAssumption DEF Due, Slots
<1>2. /\ Firing(p, from) \in Due(p, from)
      /\ \A i \in Due(p, from) : Firing(p, from) <= i
  BY <1>1, MinInSet DEF Firing
<1>3. /\ Firing(p, from) \in Slots /\ Firing(p, from) >= from
      /\ p[Firing(p, from)].cb # NoCb /\ p[Firing(p, from)].left = 0
  BY <1>2 DEF Due
<1>4. /\ Fired(p, from) \in Pools(CB, CX)
      /\ Fired(p, from)[Firing(p, from)].cb = NoCb
      /\ \A i \in Slots : i # Firing(p, from) => Fired(p, from)[i] = p[i]
  BY <1>3, TimerCancel DEF Fired
<1> QED
  BY <1>2, <1>3, <1>4

\* A tick changes no callback and no context, and takes at most one tick off
\* each countdown.
LEMMA TimerElapse ==
    ASSUME NEW CB, NEW CX, NEW p \in Pools(CB, CX)
    PROVE  /\ Elapse(p) \in Pools(CB, CX)
           /\ \A i \in Slots :
                /\ Elapse(p)[i].cb = p[i].cb /\ Elapse(p)[i].ctx = p[i].ctx
                /\ Elapse(p)[i].left
                     = IF p[i].left > 0 THEN p[i].left - 1 ELSE 0
<1>1. \A i \in Slots : p[i] \in [cb : CB, ctx : CX, left : Nat]
  BY DEF Pools
<1>2. \A i \in Slots : /\ Elapse(p)[i] \in [cb : CB, ctx : CX, left : Nat]
                       /\ Elapse(p)[i].cb = p[i].cb
                       /\ Elapse(p)[i].ctx = p[i].ctx
                       /\ Elapse(p)[i].left
                            = IF p[i].left > 0 THEN p[i].left - 1 ELSE 0
  BY <1>1 DEF Elapse
<1> QED
  BY <1>2 DEF Pools, Elapse

-----------------------------------------------------------------------------

ServicePools == Pools(Callbacks, {0})

\* Pinned, split into what it says of the pool and of a slot number.
Pin(p) ==
    /\ p[0].cb = "pet"
    /\ 2 <= Cap => p[1].cb = "reaper"
    /\ 3 <= Cap => p[2].cb = "arp"
Loose(s) == s \in SlotOrNone /\ (s = NoSlot \/ s > 2)

LooseSet(H) == \A i \in H : i > 2

\* Until a commit has robbed them, what TCP and reassembly remember is theirs.
HeldOwned == ~robbed => \A i \in held : pool[i].cb = "user"

IInv == TypeOK /\ Pinned /\ PetClock /\ LeaseTimersKept /\ HeldOwned

-----------------------------------------------------------------------------
(* The pool operations on a pool whose first three slots are pinned. *)

\* The body of Pinned is Pin of the pool and Loose of the remembered slots.
LEMMA PinnedIsPin ==
    ASSUME NEW p, NEW m \in SlotOrNone,
           NEW sl \in [LeaseTimers -> SlotOrNone], NEW H \in SUBSET Slots
    PROVE  (\A k \in 1 .. 3 : k <= Cap =>
                /\ p[k - 1].cb = PinnedCb[k]
                /\ m # k - 1
                /\ \A t \in LeaseTimers : sl[t] # k - 1
                /\ k - 1 \notin H)
           <=> /\ Pin(p) /\ Loose(m) /\ LooseSet(H)
               /\ \A t \in LeaseTimers : Loose(sl[t])
<1>1. /\ PinnedCb[1] = "pet" /\ PinnedCb[2] = "reaper" /\ PinnedCb[3] = "arp"
  BY DEF PinnedCb
<1>2. 1 <= Cap /\ 1 .. 3 = {1, 2, 3}
  BY CapAssumption
<1>3. 1 - 1 = 0 /\ 2 - 1 = 1 /\ 3 - 1 = 2
  OBVIOUS
<1>4. \A t \in LeaseTimers : sl[t] \in SlotOrNone
  OBVIOUS
<1> QED
  BY <1>1, <1>2, <1>3, <1>4, CapAssumption
  DEF Pin, Loose, LooseSet, SlotOrNone, Slots, NoSlot

\* TimerSet for the services' callbacks and context.
LEMMA ServiceSet ==
    ASSUME NEW p \in ServicePools, NEW cb \in Callbacks, NEW left \in Nat
    PROVE  LET q == timer_set(p, cb, 0, left)
               s == timer_set_slot(p)
           IN  /\ q \in ServicePools
               /\ s \in Slots \cup {NoSlot}
               /\ s # NoSlot =>
                    /\ s \in Slots
                    /\ p[s].cb = NoCb
                    /\ \A i \in Slots : p[i].cb = NoCb => s <= i
                    /\ q[s] = [cb |-> cb, ctx |-> 0, left |-> left]
               /\ \A i \in Slots : i # s => q[i] = p[i]
               /\ \A i \in Slots : p[i].cb # NoCb => q[i] = p[i]
<1>1. 0 \in {0} /\ p \in Pools(Callbacks, {0})
  BY DEF ServicePools
<1> QED
  BY <1>1, TimerSet DEF ServicePools

\* timer_set moves no pinned timer and returns no pinned slot.
LEMMA ArmKeeps ==
    ASSUME NEW p \in ServicePools, Pin(p),
           NEW cb \in Callbacks, NEW left \in Nat
    PROVE  /\ timer_set(p, cb, 0, left) \in ServicePools
           /\ Pin(timer_set(p, cb, 0, left))
           /\ Loose(timer_set_slot(p))
           /\ timer_set(p, cb, 0, left)[0] = p[0]
           /\ \A i \in Slots : p[i].cb # NoCb =>
                timer_set(p, cb, 0, left)[i] = p[i]
           /\ timer_set_slot(p) # NoSlot =>
                /\ p[timer_set_slot(p)].cb = NoCb
                /\ timer_set(p, cb, 0, left)[timer_set_slot(p)].cb = cb
<1> DEFINE q == timer_set(p, cb, 0, left)
           s == timer_set_slot(p)
<1>1. /\ q \in ServicePools
      /\ s \in Slots \cup {NoSlot}
      /\ s # NoSlot => s \in Slots /\ p[s].cb = NoCb /\ q[s].cb = cb
      /\ \A i \in Slots : p[i].cb # NoCb => q[i] = p[i]
  <2>1. /\ q \in ServicePools
        /\ s \in Slots \cup {NoSlot}
        /\ s # NoSlot =>
             /\ s \in Slots
             /\ p[s].cb = NoCb
             /\ q[s] = [cb |-> cb, ctx |-> 0, left |-> left]
        /\ \A i \in Slots : p[i].cb # NoCb => q[i] = p[i]
    BY ServiceSet
  <2> HIDE DEF q, s
  <2> QED
    BY <2>1
<1>2. 0 \in Slots /\ (2 <= Cap => 1 \in Slots) /\ (3 <= Cap => 2 \in Slots)
  BY CapAssumption DEF Slots
<1>3. /\ q[0] = p[0]
      /\ 2 <= Cap => q[1] = p[1]
      /\ 3 <= Cap => q[2] = p[2]
  BY <1>1, <1>2 DEF Pin, NoCb
<1>4. s # NoSlot => s > 2
  BY <1>1, <1>2, CapAssumption DEF Pin, NoCb, Slots
<1> HIDE DEF q, s
<1>5. Pin(q) /\ Loose(s)
  BY <1>1, <1>3, <1>4 DEF Pin, Loose, SlotOrNone
<1> QED
  BY <1>1, <1>3, <1>5 DEF q, s

\* timer_cancel of a slot that is not pinned moves no pinned timer.
LEMMA CancelKeeps ==
    ASSUME NEW p \in ServicePools, Pin(p), NEW s, Loose(s)
    PROVE  /\ timer_cancel(p, s) \in ServicePools
           /\ Pin(timer_cancel(p, s))
           /\ timer_cancel(p, s)[0] = p[0]
           /\ \A i \in Slots : i # s => timer_cancel(p, s)[i] = p[i]
<1>1. /\ timer_cancel(p, s) \in ServicePools
      /\ \A i \in Slots : i # s => timer_cancel(p, s)[i] = p[i]
  BY TimerCancel DEF ServicePools, Callbacks
<1>2. 0 \in Slots /\ (2 <= Cap => 1 \in Slots) /\ (3 <= Cap => 2 \in Slots)
  BY CapAssumption DEF Slots
<1>3. s # 0 /\ s # 1 /\ s # 2
  BY DEF Loose, SlotOrNone, Slots, NoSlot
<1> QED
  BY <1>1, <1>2, <1>3 DEF Pin

\* Firing a service that is not pinned moves no pinned timer.
LEMMA FireKeeps ==
    ASSUME NEW p \in ServicePools, Pin(p), NEW from, Due(p, from) # {},
           p[Firing(p, from)].cb \notin {"pet", "reaper", "arp"}
    PROVE  /\ Fired(p, from) \in ServicePools
           /\ Pin(Fired(p, from))
           /\ Firing(p, from) \in Slots
           /\ Firing(p, from) # 0
           /\ Fired(p, from)[0] = p[0]
           /\ \A i \in Slots : p[i].cb # p[Firing(p, from)].cb =>
                Fired(p, from)[i] = p[i]
<1>1. /\ Firing(p, from) \in Slots
      /\ Fired(p, from) \in ServicePools
      /\ \A i \in Slots : i # Firing(p, from) => Fired(p, from)[i] = p[i]
  BY TimerFire DEF ServicePools, Callbacks
<1>2. 0 \in Slots /\ (2 <= Cap => 1 \in Slots) /\ (3 <= Cap => 2 \in Slots)
  BY CapAssumption DEF Slots
<1>3. /\ Firing(p, from) # 0
      /\ 2 <= Cap => Firing(p, from) # 1
      /\ 3 <= Cap => Firing(p, from) # 2
  BY DEF Pin
<1> QED
  BY <1>1, <1>2, <1>3 DEF Pin

\* A pinned service that fires from slot f and re-arms itself gets f back,
\* also when it has cancelled other slots, S, in between.
LEMMA RearmIn ==
    ASSUME NEW p \in ServicePools, Pin(p), NEW f \in Slots,
           NEW cb \in {"pet", "reaper", "arp"}, p[f].cb = cb, NEW left \in Nat,
           NEW S, LooseSet(S), NEW r \in ServicePools, r[f].cb = NoCb,
           \A i \in Slots : i # f /\ i \notin S => r[i] = p[i]
    PROVE  LET q == timer_set(r, cb, 0, left)
           IN  /\ q \in ServicePools
               /\ Pin(q)
               /\ f = 0 => q[0].left = left /\ cb = "pet"
               /\ f # 0 => q[0] = p[0]
               /\ \A i \in Slots \ S :
                    p[i].cb # NoCb /\ p[i].cb # cb => q[i] = p[i]
<1> DEFINE s == timer_set_slot(r)
           q == timer_set(r, cb, 0, left)
<1>1. \A i \in Slots : i # f /\ i <= 2 => r[i] = p[i]
  BY CapAssumption DEF LooseSet, Slots
<1>2. 0 \in Slots /\ (2 <= Cap => 1 \in Slots) /\ (3 <= Cap => 2 \in Slots)
  BY CapAssumption DEF Slots
<1>3. cb \in Callbacks
  BY DEF Callbacks
<1>4. /\ q \in ServicePools
      /\ s \in Slots \cup {NoSlot}
      /\ s # NoSlot =>
            /\ s \in Slots
            /\ r[s].cb = NoCb
            /\ \A i \in Slots : r[i].cb = NoCb => s <= i
            /\ q[s] = [cb |-> cb, ctx |-> 0, left |-> left]
      /\ \A i \in Slots : i # s => q[i] = r[i]
      /\ \A i \in Slots : r[i].cb # NoCb => q[i] = r[i]
  BY <1>3, ServiceSet
<1>5. s # NoSlot /\ s <= f
  <2>1. FreeSlots(r) # {} /\ FreeSlots(r) \subseteq Nat
    BY CapAssumption DEF FreeSlots, Slots
  <2>2. s \in FreeSlots(r)
    BY <2>1, MinInSet DEF timer_set_slot
  <2> QED
    BY <1>4, <2>2 DEF FreeSlots, Slots, NoSlot
<1> HIDE DEF s, q
<1>6. CASE f = 0
  <2>1. s = 0
    BY <1>4, <1>5, <1>6 DEF Slots
  <2>2. q[0].left = left /\ q[0].cb = cb /\ cb = "pet"
    <3>1. q[0] = [cb |-> cb, ctx |-> 0, left |-> left]
      BY <1>4, <1>5, <2>1
    <3>2. p[0].cb = cb
      BY <1>6
    <3> QED
      BY <3>1, <3>2 DEF Pin
  <2>3. \A i \in Slots : i # 0 /\ i \notin S => q[i] = p[i]
    BY <1>4, <1>6, <2>1
  <2>4. /\ 2 <= Cap => q[1] = p[1]
        /\ 3 <= Cap => q[2] = p[2]
    BY <1>1, <1>2, <1>4, <1>6, <2>1
  <2>5. \A i \in Slots \ S : p[i].cb # NoCb /\ p[i].cb # cb => q[i] = p[i]
    BY <1>6, <2>3
  <2>6. Pin(q)
    BY <2>2, <2>4 DEF Pin
  <2> QED
    BY <1>4, <1>6, <2>2, <2>5, <2>6 DEF q
<1>7. CASE f # 0
  <2>1. q[0] = p[0]
    BY <1>1, <1>2, <1>4, <1>7 DEF Pin, NoCb
  <2>2. \A i \in Slots \ S : p[i].cb # NoCb /\ p[i].cb # cb => q[i] = p[i]
    BY <1>4
  <2>3. 2 <= Cap => q[1].cb = "reaper"
    <3>1. CASE f = 1
      BY <1>1, <1>2, <1>4, <1>5, <3>1, CapAssumption DEF Pin, NoCb, Slots
    <3>2. CASE f # 1
      BY <1>1, <1>2, <1>4, <3>2 DEF Pin, NoCb
    <3> QED
      BY <3>1, <3>2
  <2>4. 3 <= Cap => q[2].cb = "arp"
    <3>1. CASE f = 2
      BY <1>1, <1>2, <1>4, <1>5, <3>1, CapAssumption DEF Pin, NoCb, Slots
    <3>2. CASE f # 2
      BY <1>1, <1>2, <1>4, <3>2 DEF Pin, NoCb
    <3> QED
      BY <3>1, <3>2
  <2> QED
    BY <1>4, <1>7, <2>1, <2>2, <2>3, <2>4 DEF Pin, q
<1> QED
  BY <1>6, <1>7

\* The same without the cancels.
LEMMA RearmKeeps ==
    ASSUME NEW p \in ServicePools, Pin(p), NEW from, Due(p, from) # {},
           NEW cb \in {"pet", "reaper", "arp"},
           p[Firing(p, from)].cb = cb, NEW left \in Nat
    PROVE  LET q == timer_set(Fired(p, from), cb, 0, left)
           IN  /\ q \in ServicePools
               /\ Pin(q)
               /\ Firing(p, from) = 0 => q[0].left = left /\ cb = "pet"
               /\ Firing(p, from) # 0 => q[0] = p[0]
               /\ \A i \in Slots : p[i].cb # NoCb /\ p[i].cb # cb => q[i] = p[i]
<1> DEFINE f == Firing(p, from)
           r == Fired(p, from)
<1>1. /\ f \in Slots
      /\ r \in ServicePools
      /\ r[f].cb = NoCb
      /\ \A i \in Slots : i # f => r[i] = p[i]
  BY TimerFire DEF ServicePools, Callbacks
<1>2. p[f].cb = cb /\ LooseSet({})
  BY DEF LooseSet
<1> HIDE DEF f, r
<1>3. LET q == timer_set(r, cb, 0, left)
      IN  /\ q \in ServicePools
          /\ Pin(q)
          /\ f = 0 => q[0].left = left /\ cb = "pet"
          /\ f # 0 => q[0] = p[0]
          /\ \A i \in Slots \ {} :
               p[i].cb # NoCb /\ p[i].cb # cb => q[i] = p[i]
  BY <1>1, <1>2, RearmIn
<1> QED
  BY <1>3 DEF f, r

-----------------------------------------------------------------------------
(* The DHCP table and its handlers. *)

DhcpEvents == {"E_TIMER_RETRANS_RETRY", "E_TIMER_RETRANS_GIVEUP",
               "E_RX_OFFER_VALID", "E_RX_ACK_VALID", "E_RX_NAK_VALID",
               "E_TIMER_T1", "E_TIMER_T2", "E_TIMER_LEASE"}

\* What the cells of dhcp_fsa_trans_table have in common: which lease timers
\* the next state still waits for.
LEMMA TableCells ==
    ASSUME NEW s \in DhcpStates, NEW e \in DhcpEvents
    PROVE  LET cell == dhcp_fsa_trans_table(s, e)
           IN  /\ cell[1] \in DhcpStates
               /\ e \in {"E_TIMER_RETRANS_RETRY", "E_TIMER_RETRANS_GIVEUP"}
                    => cell[1] = s
               /\ e = "E_TIMER_T1" => Awaited(cell[1]) \subseteq Awaited(s) \ {"t1"}
               /\ e = "E_TIMER_T2" => Awaited(cell[1]) \subseteq Awaited(s) \ {"t2"}
               /\ e = "E_TIMER_LEASE" => Awaited(cell[1]) = {}
               /\ e \in {"E_RX_OFFER_VALID", "E_RX_NAK_VALID"}
                    /\ cell[2] = "send" => Awaited(cell[1]) = {}
<1>1. CASE s = "S_INIT"
  BY <1>1 DEF dhcp_fsa_trans_table, DhcpStates, DhcpEvents, Awaited
<1>2. CASE s = "S_SELECTING"
  BY <1>2 DEF dhcp_fsa_trans_table, DhcpStates, DhcpEvents, Awaited
<1>3. CASE s = "S_REQUESTING"
  BY <1>3 DEF dhcp_fsa_trans_table, DhcpStates, DhcpEvents, Awaited
<1>4. CASE s = "S_BOUND"
  BY <1>4 DEF dhcp_fsa_trans_table, DhcpStates, DhcpEvents, Awaited
<1>5. CASE s = "S_RENEWING"
  BY <1>5 DEF dhcp_fsa_trans_table, DhcpStates, DhcpEvents, Awaited
<1>6. CASE s = "S_REBINDING"
  BY <1>6 DEF dhcp_fsa_trans_table, DhcpStates, DhcpEvents, Awaited
<1> QED
  BY <1>1, <1>2, <1>3, <1>4, <1>5, <1>6 DEF DhcpStates

\* What a step does to the pool and the lease timers, on top of TypeOK.
PoolKept ==
    /\ pool' \in ServicePools
    /\ Pin(pool')
    /\ pool'[0] = pool[0]

\* dhcp_fsa_step run on pool p (the pool, or the pool without the slot that
\* fired) keeps the pins, the slots and the lease timers that p holds.
LEMMA DhcpStep ==
    ASSUME TypeOK,
           NEW p \in ServicePools, Pin(p), p[0] = pool[0],
           NEW left \in 0 .. MaxRetries, NEW e \in DhcpEvents,
           dhcp_fsa_step(e, p, left),
           \A t \in Awaited(dhcp') \ struck :
              slot[t] # NoSlot => p[slot[t]].cb = t,
           struck # {} => robbed,
           ~robbed => \A i \in held : p[i].cb = "user"
    PROVE  /\ PoolKept
           /\ dhcp' \in DhcpStates /\ retries' \in 0 .. MaxRetries
           /\ halted' \in {"run", "panic_d", "panic_n"}
           /\ UNCHANGED <<slot, ourIp, mdnsVars, userVars>>
           /\ LeaseTimersKept' /\ HeldOwned'
<1>1. dhcp' \in DhcpStates /\ dhcp \in DhcpStates
  BY TableCells DEF dhcp_fsa_step, TypeOK
<1>2. "retrans" \in Callbacks /\ Retrans \in Nat /\ MaxRetries \in Nat
  BY ServicesAssumption DEF Callbacks
<1>3. LET q == timer_set(p, "retrans", 0, Retrans)
      IN  /\ q \in ServicePools /\ Pin(q) /\ q[0] = p[0]
          /\ \A i \in Slots : p[i].cb # NoCb => q[i] = p[i]
  BY <1>2, ArmKeeps
<1>4. pool' = p \/ pool' = timer_set(p, "retrans", 0, Retrans)
  BY DEF dhcp_fsa_step, h_send, h_resend, h_panic_d, h_none, SendArm
<1>5. PoolKept /\ \A i \in Slots : p[i].cb # NoCb => pool'[i] = p[i]
  BY <1>3, <1>4 DEF PoolKept
<1>6. UNCHANGED <<slot, ourIp, mdnsVars, userVars>>
  BY DEF dhcp_fsa_step, h_send, h_resend, h_panic_d, h_none
<1>7. retries' \in 0 .. MaxRetries
  BY <1>2 DEF dhcp_fsa_step, h_send, h_resend, h_panic_d, h_none, SendArm, TypeOK
<1>8. halted' \in {"run", "panic_d", "panic_n"}
  BY DEF dhcp_fsa_step, h_send, h_resend, h_panic_d, h_none, TypeOK
<1>9. HeldOwned'
  BY <1>5, <1>6 DEF HeldOwned, userVars, TypeOK, NoCb
<1>10. LeaseTimersKept'
  <2>1. SUFFICES ASSUME NEW t \in Awaited(dhcp') \ struck, slot'[t] # NoSlot
                 PROVE  pool'[slot'[t]].cb = t
    BY <1>6 DEF LeaseTimersKept, userVars
  <2>2. t \in LeaseTimers
    BY <1>1 DEF Awaited, LeaseTimers, DhcpStates
  <2>3. slot[t] # NoSlot /\ slot[t] \in Slots
    BY <1>6, <2>1, <2>2 DEF TypeOK, SlotOrNone
  <2>4. p[slot[t]].cb = t /\ t # NoCb
    BY <2>1, <2>2, <2>3 DEF LeaseTimers, NoCb
  <2> QED
    BY <1>5, <1>6, <2>3, <2>4
<1> QED
  BY <1>1, <1>5, <1>6, <1>7, <1>8, <1>9, <1>10

\* h_commit_lease_arm_timers keeps the pins whatever slots it remembered, and
\* arms the three lease timers in three different slots; when one of the slots
\* it cancels holds a timer of TCP or reassembly, they have been robbed.
LEMMA CommitStep ==
    ASSUME TypeOK, Pin(pool), Loose(mdnsSlot), HeldOwned,
           \A t \in LeaseTimers : Loose(slot[t]),
           NEW ip \in IPs, NEW lease \in Leases,
           h_commit_lease_arm_timers(pool, ip, lease)
    PROVE  /\ PoolKept
           /\ slot' \in [LeaseTimers -> SlotOrNone]
           /\ \A t \in LeaseTimers : Loose(slot'[t])
           /\ mdnsSlot' \in SlotOrNone /\ Loose(mdnsSlot')
           /\ \A t \in LeaseTimers : slot'[t] # NoSlot =>
                pool'[slot'[t]].cb = t
           /\ HeldOwned'
<1> DEFINE dropped == MdnsDropOld(pool)
           kicked  == IF MdnsKicks(ip) THEN MdnsArm(pool) ELSE pool
           c1      == timer_cancel(kicked, slot["t1"])
           c2      == timer_cancel(c1, slot["t2"])
           cleared == timer_cancel(c2, slot["lease"])
           armedT1 == timer_set(cleared, "t1", 0, lease \div 2)
           armedT2 == timer_set(armedT1, "t2", 0, (lease * 7) \div 8)
           last    == timer_set(armedT2, "lease", 0, lease)
           s1      == timer_set_slot(cleared)
           s2      == timer_set_slot(armedT1)
           s3      == timer_set_slot(armedT2)
<1>1. pool \in ServicePools
  BY DEF TypeOK, ServicePools, Pools
<1>2. /\ "mdns" \in Callbacks /\ "t1" \in Callbacks
      /\ "t2" \in Callbacks /\ "lease" \in Callbacks /\ 0 \in Nat
  BY DEF Callbacks, LeaseTimers
<1>3. lease \in Nat /\ lease \div 2 \in Nat /\ (lease * 7) \div 8 \in Nat
  <2>1. lease \in Nat
    BY ServicesAssumption
  <2>2. lease * 7 \in Nat
    BY <2>1
  <2> QED
    BY <2>1, <2>2
<1>4. /\ dropped \in ServicePools /\ Pin(dropped) /\ dropped[0] = pool[0]
      /\ \A i \in Slots : pool[i].cb = "user" => dropped[i] = pool[i]
  <2>1. CASE mdnsSlot \in Slots /\ pool[mdnsSlot].cb = "mdns"
    <3>1. dropped = timer_cancel(pool, mdnsSlot)
      BY <2>1 DEF MdnsDropOld
    <3> QED
      BY <1>1, <2>1, <3>1, CancelKeeps
  <2>2. CASE ~(mdnsSlot \in Slots /\ pool[mdnsSlot].cb = "mdns")
    BY <1>1, <2>2 DEF MdnsDropOld
  <2> QED
    BY <2>1, <2>2
<1>5. /\ kicked \in ServicePools /\ Pin(kicked) /\ kicked[0] = pool[0]
      /\ Loose(MdnsArmSlot(pool))
      /\ \A i \in Slots : pool[i].cb = "user" => kicked[i].cb = "user"
  <2> HIDE DEF dropped
  <2>1. LET q == timer_set(dropped, "mdns", 0, 0)
        IN  /\ q \in ServicePools /\ Pin(q) /\ q[0] = dropped[0]
            /\ Loose(timer_set_slot(dropped))
            /\ \A i \in Slots : dropped[i].cb # NoCb => q[i] = dropped[i]
    BY <1>2, <1>4, ArmKeeps
  <2>2. \A i \in Slots : pool[i].cb = "user" =>
          timer_set(dropped, "mdns", 0, 0)[i].cb = "user"
    BY <1>4, <2>1 DEF NoCb
  <2> QED
    BY <1>1, <1>4, <2>1, <2>2 DEF MdnsArm, MdnsArmSlot, dropped
<1> HIDE DEF kicked
<1>6. /\ c1 \in ServicePools /\ Pin(c1) /\ c1[0] = pool[0]
      /\ \A i \in Slots : i # slot["t1"] => c1[i] = kicked[i]
  BY <1>5, CancelKeeps DEF LeaseTimers
<1> HIDE DEF c1
<1>7. /\ c2 \in ServicePools /\ Pin(c2) /\ c2[0] = pool[0]
      /\ \A i \in Slots : i # slot["t2"] => c2[i] = c1[i]
  BY <1>6, CancelKeeps DEF LeaseTimers
<1> HIDE DEF c2
<1>8. /\ cleared \in ServicePools /\ Pin(cleared) /\ cleared[0] = pool[0]
      /\ \A i \in Slots : i # slot["lease"] => cleared[i] = c2[i]
  BY <1>7, CancelKeeps DEF LeaseTimers
<1> HIDE DEF cleared
<1>9. /\ armedT1 \in ServicePools /\ Pin(armedT1) /\ armedT1[0] = pool[0]
      /\ Loose(s1) /\ (s1 # NoSlot => armedT1[s1].cb = "t1")
      /\ \A i \in Slots : cleared[i].cb # NoCb => armedT1[i] = cleared[i]
  BY <1>2, <1>3, <1>8, ArmKeeps
<1> HIDE DEF armedT1, s1
<1>10. /\ armedT2 \in ServicePools /\ Pin(armedT2) /\ armedT2[0] = pool[0]
       /\ Loose(s2) /\ (s2 # NoSlot => armedT2[s2].cb = "t2")
       /\ \A i \in Slots : armedT1[i].cb # NoCb => armedT2[i] = armedT1[i]
  BY <1>2, <1>3, <1>9, ArmKeeps
<1> HIDE DEF armedT2, s2
<1>11. /\ last \in ServicePools /\ Pin(last) /\ last[0] = pool[0]
       /\ Loose(s3) /\ (s3 # NoSlot => last[s3].cb = "lease")
       /\ \A i \in Slots : armedT2[i].cb # NoCb => last[i] = armedT2[i]
  <2>1. "lease" \in Callbacks /\ lease \in Nat
    BY <1>2, <1>3
  <2>2. armedT2 \in ServicePools /\ Pin(armedT2) /\ armedT2[0] = pool[0]
    BY <1>10
  <2> QED
    BY <2>1, <2>2, ArmKeeps
<1> HIDE DEF last, s3
<1>12. /\ pool' = last
       /\ slot' = [t \in LeaseTimers |-> CASE t = "t1" -> s1 [] t = "t2" -> s2
                                           [] t = "lease" -> s3]
       /\ mdnsSlot' = IF MdnsKicks(ip) THEN MdnsArmSlot(pool) ELSE mdnsSlot
  BY DEF h_commit_lease_arm_timers, last, s1, s2, s3, armedT1, armedT2,
         cleared, c1, c2, kicked, captured_slots
<1>13. slot'["t1"] = s1 /\ slot'["t2"] = s2 /\ slot'["lease"] = s3
  BY <1>12 DEF LeaseTimers
<1>14. /\ s1 \in SlotOrNone /\ s2 \in SlotOrNone /\ s3 \in SlotOrNone
       /\ Loose(mdnsSlot') /\ mdnsSlot' \in SlotOrNone
  BY <1>5, <1>9, <1>10, <1>11, <1>12 DEF Loose
<1>15. slot' \in [LeaseTimers -> SlotOrNone]
  <2>1. \A t \in LeaseTimers :
          (CASE t = "t1" -> s1 [] t = "t2" -> s2 [] t = "lease" -> s3)
            \in SlotOrNone
    BY <1>14 DEF LeaseTimers
  <2> QED
    BY <1>12, <2>1
<1>16. s1 # NoSlot => last[s1].cb = "t1"
  BY <1>9, <1>10, <1>11, <1>14 DEF SlotOrNone, NoCb
<1>17. s2 # NoSlot => last[s2].cb = "t2"
  BY <1>10, <1>11, <1>14 DEF SlotOrNone, NoCb
<1>18. \A t \in LeaseTimers : /\ Loose(slot'[t])
                              /\ slot'[t] # NoSlot => pool'[slot'[t]].cb = t
  BY <1>9, <1>10, <1>11, <1>12, <1>13, <1>16, <1>17 DEF LeaseTimers
<1>19. HeldOwned'
  <2>1. /\ robbed' = (robbed \/ \E t \in LeaseTimers :
                         slot[t] \in Slots /\ kicked[slot[t]].cb = "user")
        /\ held' = held
    BY DEF h_commit_lease_arm_timers, kicked
  <2>2. SUFFICES ASSUME ~robbed', NEW i \in held PROVE pool'[i].cb = "user"
    BY <2>1 DEF HeldOwned
  <2>3. i \in Slots /\ kicked[i].cb = "user"
    BY <1>5, <2>1, <2>2 DEF HeldOwned, TypeOK
  <2>4. i # slot["t1"] /\ i # slot["t2"] /\ i # slot["lease"]
    BY <2>1, <2>2, <2>3 DEF LeaseTimers
  <2>5. cleared[i].cb = "user"
    BY <1>6, <1>7, <1>8, <2>3, <2>4
  <2>6. armedT1[i].cb = "user"
    BY <1>9, <2>3, <2>5 DEF NoCb
  <2>7. armedT2[i].cb = "user"
    BY <1>10, <2>3, <2>6 DEF NoCb
  <2>8. last[i].cb = "user"
    BY <1>11, <2>3, <2>7 DEF NoCb
  <2> QED
    BY <1>12, <2>8
<1> QED
  BY <1>11, <1>12, <1>14, <1>15, <1>18, <1>19 DEF PoolKept

-----------------------------------------------------------------------------
(* The inductive invariant. *)

\* What IInv says, in the terms of the lemmas above.
LEMMA Unfold ==
    ASSUME IInv
    PROVE  /\ pool \in ServicePools /\ Pin(pool) /\ Loose(mdnsSlot)
           /\ LooseSet(held)
           /\ \A t \in LeaseTimers : Loose(slot[t])
<1>1. /\ TypeOK /\ Pinned /\ pool \in ServicePools /\ held \in SUBSET Slots
      /\ mdnsSlot \in SlotOrNone /\ slot \in [LeaseTimers -> SlotOrNone]
  BY DEF IInv, TypeOK, ServicePools, Pools
<1> QED
  BY <1>1, PinnedIsPin DEF Pinned

\* ... and back, in the next state.
LEMMA Refold ==
    ASSUME Pin(pool'), Loose(mdnsSlot'), LooseSet(held'),
           \A t \in LeaseTimers : Loose(slot'[t]), held' \in SUBSET Slots,
           mdnsSlot' \in SlotOrNone, slot' \in [LeaseTimers -> SlotOrNone]
    PROVE  Pinned'
  BY PinnedIsPin DEF Pinned

\* A scan that has gone past slot 0 has left an armed pet there.
LEMMA ScanStep ==
    ASSUME IInv, NEW c, Fires(c)
    PROVE  /\ Due(pool, scan) # {} /\ pool[Firing(pool, scan)].cb = c
           /\ Firing(pool, scan) \in Slots
           /\ scan' \in -1 .. Cap /\ scan' > 0 /\ busy' = busy
           /\ Firing(pool, scan) # 0 => pool[0].left > 0
<1>1. /\ Due(pool, scan) # {} /\ pool[Firing(pool, scan)].cb = c
      /\ scan' = Firing(pool, scan) + 1 /\ busy' = busy /\ scan # -1
  BY DEF Fires, Dispatching
<1>2. pool \in Pools(Callbacks, {0}) /\ Pin(pool)
  BY Unfold DEF ServicePools
<1>3. NoCb \in Callbacks /\ 0 \in {0}
  BY DEF Callbacks
<1>4. /\ Firing(pool, scan) \in Slots
      /\ \A i \in Due(pool, scan) : Firing(pool, scan) <= i
  BY <1>1, <1>2, <1>3, TimerFire
<1>5. scan \in 0 .. Cap /\ 0 \in Slots /\ pool[0].left \in Nat
  BY <1>1, CapAssumption DEF IInv, TypeOK, Slots
<1>6. Firing(pool, scan) # 0 => pool[0].left > 0
  <2>1. CASE scan > 0
    BY <2>1 DEF IInv, PetClock
  <2>2. CASE scan = 0
    <3>1. pool[0].left = 0 => 0 \in Due(pool, scan)
      BY <1>2, <1>5, <2>2 DEF Due, Pin, NoCb
    <3> QED
      BY <1>4, <1>5, <3>1 DEF Slots
  <2> QED
    BY <1>5, <2>1, <2>2
<1>7. scan' \in -1 .. Cap /\ scan' > 0
  BY <1>1, <1>4, CapAssumption DEF Slots
<1> QED
  BY <1>1, <1>4, <1>6, <1>7

\* PetClock survives a step that touches neither slot 0 nor the watchdog.
LEMMA ClockStep ==
    ASSUME IInv, pool'[0] = pool[0], UNCHANGED <<wdog, busy>>,
           scan' = scan \/ scan' = -1 \/ scan' = 0 \/ pool[0].left > 0
    PROVE  PetClock'
  BY DEF IInv, PetClock, TypeOK

\* The lease timers survive a step that keeps the state and their slots, and
\* so do the timers of TCP and reassembly.
LEMMA KeptStep ==
    ASSUME IInv, UNCHANGED <<dhcp, slot, userVars>>,
           \A i \in Slots : pool[i].cb \in LeaseTimers \cup {"user"}
                              => pool'[i].cb = pool[i].cb
    PROVE  LeaseTimersKept' /\ HeldOwned'
<1>1. UNCHANGED <<held, robbed, struck>> /\ held \subseteq Slots
  BY DEF userVars, IInv, TypeOK
<1>2. HeldOwned'
  BY <1>1 DEF HeldOwned, IInv
<1>3. ASSUME NEW t \in Awaited(dhcp') \ struck, slot'[t] # NoSlot
      PROVE  pool'[slot'[t]].cb = t
  <2>1. t \in LeaseTimers /\ t \in Awaited(dhcp) \ struck
    BY <1>3 DEF IInv, TypeOK, Awaited, LeaseTimers, DhcpStates
  <2>2. slot[t] # NoSlot /\ slot[t] \in Slots
    BY <1>3, <2>1 DEF IInv, TypeOK, SlotOrNone
  <2>3. pool[slot[t]].cb = t
    BY <2>1, <2>2 DEF IInv, LeaseTimersKept
  <2> QED
    BY <2>1, <2>2, <2>3
<1>4. struck' # {} => robbed'
  BY <1>1 DEF IInv, LeaseTimersKept
<1> QED
  BY <1>1, <1>2, <1>3, <1>4 DEF LeaseTimersKept

\* sys_watchdog_pet_cb keeps IInv.
LEMMA PetStep == ASSUME IInv, sys_watchdog_pet_cb PROVE IInv'
<1> DEFINE q == timer_set(Fired(pool, scan), "pet", 0, PetPeriod)
<1>1. /\ Fires("pet") /\ pool' = q
      /\ UNCHANGED <<pollShift, dhcpVars, mdnsVars, halted, userVars>>
  BY DEF sys_watchdog_pet_cb
<1>2. PetPeriod \in Nat
  BY ServicesAssumption
<1>3. /\ pool \in ServicePools /\ Pin(pool) /\ Loose(mdnsSlot)
      /\ LooseSet(held) /\ \A t \in LeaseTimers : Loose(slot[t])
  BY Unfold
<1>4. /\ Due(pool, scan) # {} /\ pool[Firing(pool, scan)].cb = "pet"
      /\ scan' \in -1 .. Cap /\ scan' > 0 /\ busy' = busy
      /\ Firing(pool, scan) # 0 => pool[0].left > 0
  BY <1>1, ScanStep
<1>5. /\ q \in ServicePools
      /\ Pin(q)
      /\ Firing(pool, scan) = 0 => q[0].left = PetPeriod /\ "pet" = "pet"
      /\ Firing(pool, scan) # 0 => q[0] = pool[0]
      /\ \A i \in Slots : pool[i].cb # NoCb /\ pool[i].cb # "pet" =>
            q[i] = pool[i]
  BY <1>2, <1>3, <1>4, RearmKeeps
<1> HIDE DEF q
<1>6. TypeOK'
  BY <1>1, <1>4, <1>5, ServicesAssumption DEF IInv, TypeOK, ServicePools, Pools, dhcpVars, mdnsVars,
      userVars, sys_watchdog_pet_cb
<1>7. Pinned'
  BY <1>1, <1>3, <1>5, <1>6, Refold DEF TypeOK, dhcpVars, mdnsVars, userVars
<1>8. LeaseTimersKept' /\ HeldOwned'
  BY <1>1, <1>5, KeptStep DEF LeaseTimers, NoCb, dhcpVars
<1>9. PetClock'
  <2>1. wdog' = WdogTimeout /\ WdogTimeout \in Nat /\ PetPeriod \in Nat \ {0}
    BY ServicesAssumption DEF sys_watchdog_pet_cb
  <2>2. CASE Firing(pool, scan) = 0
    BY <1>1, <1>4, <1>5, <2>1, <2>2 DEF PetClock
  <2>3. CASE Firing(pool, scan) # 0
    <3>1. pool'[0].left > 0 /\ pool'[0].left <= PetPeriod
      BY <1>1, <1>4, <1>5, <2>3 DEF IInv, PetClock
    <3>2. 0 \in Slots /\ pool'[0].left \in Nat
      BY <1>1, <1>5, CapAssumption DEF ServicePools, Pools, Slots
    <3> QED
      BY <2>1, <3>1, <3>2 DEF PetClock
  <2> QED
    BY <2>2, <2>3
<1> QED
  BY <1>6, <1>7, <1>8, <1>9 DEF IInv

\* What TCP or reassembly cancel through the slots S that they remember: never
\* a pinned timer, a lease timer only once they have been robbed, and what they
\* cancel is struck.
LEMMA StrikeStep ==
    ASSUME IInv, NEW S \in SUBSET held, Strikes(S), UNCHANGED <<dhcp, slot>>,
           \A i \in Slots \ S : pool[i].cb \in LeaseTimers \cup {"user"}
                                  => pool'[i].cb = pool[i].cb
    PROVE  /\ LeaseTimersKept' /\ HeldOwned' /\ LooseSet(held')
           /\ held' \subseteq Slots /\ robbed' \in BOOLEAN
           /\ struck' \subseteq LeaseTimers
<1>1. /\ held' = held \ S /\ robbed' = robbed
      /\ struck' = struck \cup {t \in LeaseTimers : \E i \in S : pool[i].cb = t}
  BY DEF Strikes
<1>2. held \subseteq Slots /\ struck \subseteq LeaseTimers /\ robbed \in BOOLEAN
  BY DEF IInv, TypeOK
<1>3. LooseSet(held')
  BY <1>1, Unfold DEF LooseSet
<1>4. HeldOwned'
  BY <1>1, <1>2 DEF HeldOwned, IInv
<1>5. ASSUME NEW t \in Awaited(dhcp') \ struck', slot'[t] # NoSlot
      PROVE  pool'[slot'[t]].cb = t
  <2>1. t \in LeaseTimers /\ t \in Awaited(dhcp) \ struck
    BY <1>1, <1>5 DEF IInv, TypeOK, Awaited, LeaseTimers, DhcpStates
  <2>2. slot[t] # NoSlot /\ slot[t] \in Slots
    BY <1>5, <2>1 DEF IInv, TypeOK, SlotOrNone
  <2>3. pool[slot[t]].cb = t
    BY <2>1, <2>2 DEF IInv, LeaseTimersKept
  <2>4. slot[t] \notin S
    BY <1>1, <1>5, <2>1, <2>3
  <2> QED
    BY <2>1, <2>2, <2>3, <2>4
<1>6. struck' # {} => robbed'
  <2>1. SUFFICES ASSUME ~robbed PROVE struck' = {}
    BY <1>1
  <2>2. struck = {} /\ \A i \in S : pool[i].cb = "user"
    BY <2>1 DEF IInv, LeaseTimersKept, HeldOwned
  <2> QED
    BY <1>1, <2>2 DEF LeaseTimers
<1> QED
  BY <1>1, <1>2, <1>3, <1>4, <1>5, <1>6 DEF LeaseTimersKept

\* CancelAll touches the slots of S only.
LEMMA CancelAllKeeps ==
    ASSUME NEW p \in ServicePools, NEW S
    PROVE  /\ CancelAll(p, S) \in ServicePools
           /\ \A i \in Slots : i \notin S => CancelAll(p, S)[i] = p[i]
           /\ \A i \in Slots : i \in S => CancelAll(p, S)[i].cb = NoCb
  BY DEF CancelAll, ServicePools, Pools, Inactive, Callbacks

\* tcp_idle_reaper_rearm keeps IInv, whatever connections it closes.
LEMMA ReaperStep ==
    ASSUME IInv, NEW S \in SUBSET held, tcp_idle_reaper_rearm(S) PROVE IInv'
<1> DEFINE f == Firing(pool, scan)
           r == CancelAll(Fired(pool, scan), S)
           q == timer_set(r, "reaper", 0, ReaperInterval)
<1>1. /\ Fires("reaper") /\ pool' = q /\ Strikes(S)
      /\ UNCHANGED <<wdog, pollShift, dhcpVars, mdnsVars, halted>>
  BY DEF tcp_idle_reaper_rearm
<1>2. ReaperInterval \in Nat
  BY ServicesAssumption
<1>3. /\ pool \in ServicePools /\ Pin(pool) /\ Loose(mdnsSlot)
      /\ LooseSet(held) /\ \A t \in LeaseTimers : Loose(slot[t])
  BY Unfold
<1>4. /\ Due(pool, scan) # {} /\ pool[f].cb = "reaper" /\ f \in Slots
      /\ scan' \in -1 .. Cap /\ scan' > 0 /\ busy' = busy
      /\ f # 0 => pool[0].left > 0
  BY <1>1, ScanStep
<1>5. /\ Fired(pool, scan) \in ServicePools /\ Fired(pool, scan)[f].cb = NoCb
      /\ \A i \in Slots : i # f => Fired(pool, scan)[i] = pool[i]
  BY <1>3, <1>4, TimerFire DEF ServicePools, Callbacks
<1>6. /\ r \in ServicePools /\ r[f].cb = NoCb /\ LooseSet(S)
      /\ \A i \in Slots : i # f /\ i \notin S => r[i] = pool[i]
  <2>1. LooseSet(S)
    BY <1>3 DEF LooseSet
  <2> HIDE DEF f
  <2> QED
    BY <1>4, <1>5, <2>1, CancelAllKeeps
<1> HIDE DEF f, r
<1>7. /\ q \in ServicePools
      /\ Pin(q)
      /\ f = 0 => q[0].left = ReaperInterval /\ "reaper" = "pet"
      /\ f # 0 => q[0] = pool[0]
      /\ \A i \in Slots \ S :
           pool[i].cb # NoCb /\ pool[i].cb # "reaper" => q[i] = pool[i]
  BY <1>2, <1>3, <1>4, <1>6, RearmIn
<1> HIDE DEF q
<1>8. /\ LeaseTimersKept' /\ HeldOwned' /\ LooseSet(held')
      /\ held' \subseteq Slots /\ robbed' \in BOOLEAN
      /\ struck' \subseteq LeaseTimers
  BY <1>1, <1>7, StrikeStep DEF LeaseTimers, NoCb, dhcpVars
<1>9. TypeOK'
  BY <1>1, <1>4, <1>7, <1>8
  DEF IInv, TypeOK, ServicePools, Pools, dhcpVars, mdnsVars
<1>10. Pinned'
  BY <1>1, <1>3, <1>7, <1>8, <1>9, Refold DEF TypeOK, dhcpVars, mdnsVars
<1>11. PetClock'
  BY <1>1, <1>4, <1>7, ClockStep
<1> QED
  BY <1>8, <1>9, <1>10, <1>11 DEF IInv

\* arp_timer_cb keeps IInv.
LEMMA ArpStep == ASSUME IInv, arp_timer_cb PROVE IInv'
<1> DEFINE q == timer_set(Fired(pool, scan), "arp", 0, ArpRefresh)
<1>1. /\ Fires("arp") /\ pool' = q
      /\ UNCHANGED <<wdog, pollShift, dhcpVars, mdnsVars, halted, userVars>>
  BY DEF arp_timer_cb
<1>2. ArpRefresh \in Nat
  BY ServicesAssumption
<1>3. /\ pool \in ServicePools /\ Pin(pool) /\ Loose(mdnsSlot)
      /\ LooseSet(held) /\ \A t \in LeaseTimers : Loose(slot[t])
  BY Unfold
<1>4. /\ Due(pool, scan) # {} /\ pool[Firing(pool, scan)].cb = "arp"
      /\ scan' \in -1 .. Cap /\ scan' > 0 /\ busy' = busy
      /\ Firing(pool, scan) # 0 => pool[0].left > 0
  BY <1>1, ScanStep
<1>5. /\ q \in ServicePools
      /\ Pin(q)
      /\ Firing(pool, scan) = 0 => q[0].left = ArpRefresh /\ "arp" = "pet"
      /\ Firing(pool, scan) # 0 => q[0] = pool[0]
      /\ \A i \in Slots : pool[i].cb # NoCb /\ pool[i].cb # "arp" =>
            q[i] = pool[i]
  BY <1>2, <1>3, <1>4, RearmKeeps
<1> HIDE DEF q
<1>6. TypeOK'
  BY <1>1, <1>4, <1>5 DEF IInv, TypeOK, ServicePools, Pools, dhcpVars, mdnsVars,
      userVars
<1>7. Pinned'
  BY <1>1, <1>3, <1>5, <1>6, Refold DEF TypeOK, dhcpVars, mdnsVars, userVars
<1>8. LeaseTimersKept' /\ HeldOwned'
  BY <1>1, <1>5, KeptStep DEF LeaseTimers, NoCb, dhcpVars
<1>9. PetClock'
  BY <1>1, <1>4, <1>5, ClockStep
<1> QED
  BY <1>6, <1>7, <1>8, <1>9 DEF IInv

\* What the services without a pinned slot find when they fire.
LEMMA LooseFire ==
    ASSUME IInv, NEW c \in Callbacks \ {"pet", "reaper", "arp"}, Fires(c)
    PROVE  LET p == Fired(pool, scan)
           IN  /\ p \in ServicePools /\ Pin(p) /\ p[0] = pool[0]
               /\ pool[0].left > 0
               /\ scan' \in -1 .. Cap /\ busy' = busy
               /\ \A i \in Slots : pool[i].cb # c => p[i] = pool[i]
<1>1. pool \in ServicePools /\ Pin(pool)
  BY Unfold
<1>2. /\ Due(pool, scan) # {} /\ pool[Firing(pool, scan)].cb = c
      /\ scan' \in -1 .. Cap /\ busy' = busy
      /\ Firing(pool, scan) # 0 => pool[0].left > 0
  BY ScanStep
<1> QED
  BY <1>1, <1>2, FireKeeps

\* ntp_timer_cb keeps IInv.
LEMMA NtpStep == ASSUME IInv, ntp_timer_cb PROVE IInv'
<1> DEFINE p == Fired(pool, scan)
           gap == NtpPoll * 2^pollShift
           q == timer_set(p, "ntp", 0, gap)
<1>1. /\ Fires("ntp") /\ pool' = q
      /\ pollShift' = IF pollShift < ShiftCap THEN pollShift + 1 ELSE pollShift
      /\ UNCHANGED <<wdog, dhcpVars, mdnsVars, halted, userVars>>
  BY DEF ntp_timer_cb
<1>2. gap \in Nat /\ "ntp" \in Callbacks \ {"pet", "reaper", "arp"}
  BY PollAssumption DEF IInv, TypeOK, Callbacks
<1> HIDE DEF gap
<1>3. /\ p \in ServicePools /\ Pin(p) /\ p[0] = pool[0] /\ pool[0].left > 0
      /\ scan' \in -1 .. Cap /\ busy' = busy
      /\ \A i \in Slots : pool[i].cb # "ntp" => p[i] = pool[i]
  BY <1>1, <1>2, LooseFire
<1> HIDE DEF p
<1>4. /\ q \in ServicePools /\ Pin(q) /\ q[0] = pool[0]
      /\ \A i \in Slots : p[i].cb # NoCb => q[i] = p[i]
  BY <1>2, <1>3, ArmKeeps
<1> HIDE DEF q
<1>5. TypeOK'
  BY <1>1, <1>3, <1>4, ServicesAssumption
  DEF IInv, TypeOK, ServicePools, Pools, dhcpVars, mdnsVars, userVars
<1>6. Pinned'
  BY <1>1, <1>4, <1>5, Unfold, Refold DEF TypeOK, dhcpVars, mdnsVars, userVars
<1>7. LeaseTimersKept' /\ HeldOwned'
  BY <1>1, <1>3, <1>4, KeptStep DEF LeaseTimers, NoCb, dhcpVars
<1>8. PetClock'
  BY <1>1, <1>3, <1>4, ClockStep
<1> QED
  BY <1>5, <1>6, <1>7, <1>8 DEF IInv

\* mdns_timer_cb keeps IInv.
LEMMA MdnsStep == ASSUME IInv, mdns_timer_cb PROVE IInv'
<1> DEFINE p == Fired(pool, scan)
           gap == IF mdns + 1 = ANNOUNCE_2 THEN AnnounceGap ELSE ProbeGap
           again == mdns \in PROBE_1 .. ANNOUNCE_2 - 1
           q == timer_set(p, "mdns", 0, gap)
           s == timer_set_slot(p)
<1>1. /\ Fires("mdns")
      /\ mdns' = IF mdns \in PROBE_1 .. ANNOUNCE_2 THEN mdns + 1 ELSE mdns
      /\ prior' = IF mdns = ANNOUNCE_2 THEN NoIp ELSE prior
      /\ pool' = IF again THEN q ELSE p
      /\ mdnsSlot' = IF again THEN s ELSE mdnsSlot
      /\ UNCHANGED <<wdog, pollShift, dhcpVars, announced, halted, userVars>>
  BY DEF mdns_timer_cb, MdnsTimer
<1>2. gap \in Nat /\ "mdns" \in Callbacks \ {"pet", "reaper", "arp"}
  BY ServicesAssumption DEF Callbacks
<1> HIDE DEF gap
<1>3. /\ p \in ServicePools /\ Pin(p) /\ p[0] = pool[0] /\ pool[0].left > 0
      /\ scan' \in -1 .. Cap /\ busy' = busy
      /\ \A i \in Slots : pool[i].cb # "mdns" => p[i] = pool[i]
  BY <1>1, <1>2, LooseFire
<1> HIDE DEF p
<1>4. /\ q \in ServicePools /\ Pin(q) /\ q[0] = pool[0] /\ Loose(s)
      /\ \A i \in Slots : p[i].cb # NoCb => q[i] = p[i]
  BY <1>2, <1>3, ArmKeeps
<1> HIDE DEF q, s, again
<1>5. /\ pool' \in ServicePools /\ Pin(pool') /\ pool'[0] = pool[0]
      /\ \A i \in Slots : pool[i].cb \in LeaseTimers \cup {"user"}
                           => pool'[i].cb = pool[i].cb
  BY <1>1, <1>3, <1>4 DEF LeaseTimers, NoCb
<1>6. Loose(mdnsSlot') /\ mdnsSlot' \in SlotOrNone
  BY <1>1, <1>4, Unfold DEF Loose
<1>7. mdns' \in IDLE .. LIVE /\ prior' \in IPs \cup {NoIp, StaticIp}
  BY <1>1 DEF IInv, TypeOK, IDLE, LIVE, PROBE_1, ANNOUNCE_2
<1>8. TypeOK'
  BY <1>1, <1>3, <1>5, <1>6, <1>7
  DEF IInv, TypeOK, ServicePools, Pools, dhcpVars, userVars
<1>9. Pinned'
  BY <1>1, <1>5, <1>6, <1>8, Unfold, Refold DEF TypeOK, dhcpVars, userVars
<1>10. LeaseTimersKept' /\ HeldOwned'
  BY <1>1, <1>5, KeptStep DEF dhcpVars
<1>11. PetClock'
  BY <1>1, <1>3, <1>5, ClockStep
<1> QED
  BY <1>8, <1>9, <1>10, <1>11 DEF IInv

\* An event the DHCP timers raise keeps IInv: the timer that fired is one the
\* next state no longer waits for.
LEMMA DhcpTimerStep ==
    ASSUME IInv, NEW c \in {"retrans", "t1", "t2", "lease"}, Fires(c),
           NEW left \in 0 .. MaxRetries, NEW e \in DhcpEvents,
           dhcp_fsa_step(e, Fired(pool, scan), left),
           UNCHANGED <<wdog, pollShift>>,
           Awaited(dhcp') \subseteq Awaited(dhcp) \ {c}
    PROVE  IInv'
<1> DEFINE p == Fired(pool, scan)
<1>1. c \in Callbacks \ {"pet", "reaper", "arp"}
  BY DEF Callbacks, LeaseTimers
<1>2. /\ p \in ServicePools /\ Pin(p) /\ p[0] = pool[0] /\ pool[0].left > 0
      /\ scan' \in -1 .. Cap /\ busy' = busy
      /\ \A i \in Slots : pool[i].cb # c => p[i] = pool[i]
  BY <1>1, LooseFire
<1>3. dhcp_fsa_step(e, p, left)
  OBVIOUS
<1> HIDE DEF p
<1>4. \A t \in Awaited(dhcp') \ struck : slot[t] # NoSlot => p[slot[t]].cb = t
  <2>1. SUFFICES ASSUME NEW t \in Awaited(dhcp') \ struck, slot[t] # NoSlot
                 PROVE  p[slot[t]].cb = t
    OBVIOUS
  <2>2. t \in Awaited(dhcp) /\ t # c
    BY <2>1
  <2>3. t \in LeaseTimers
    BY <2>2 DEF IInv, TypeOK, Awaited, LeaseTimers, DhcpStates
  <2>4. slot[t] \in Slots /\ pool[slot[t]].cb = t
    BY <2>1, <2>2, <2>3 DEF IInv, LeaseTimersKept, TypeOK, SlotOrNone
  <2> QED
    BY <1>2, <2>2, <2>4
<1>5. /\ TypeOK
      /\ struck # {} => robbed
      /\ ~robbed => \A i \in held : p[i].cb = "user"
  BY <1>2 DEF IInv, LeaseTimersKept, HeldOwned, TypeOK, LeaseTimers
<1>6. /\ PoolKept
      /\ dhcp' \in DhcpStates /\ retries' \in 0 .. MaxRetries
      /\ halted' \in {"run", "panic_d", "panic_n"}
      /\ UNCHANGED <<slot, ourIp, mdnsVars, userVars>>
      /\ LeaseTimersKept' /\ HeldOwned'
  BY <1>2, <1>3, <1>4, <1>5, DhcpStep
<1>7. TypeOK'
  BY <1>2, <1>5, <1>6 DEF TypeOK, PoolKept, ServicePools, Pools, mdnsVars,
                           userVars
<1>8. Pinned'
  BY <1>6, <1>7, Unfold, Refold DEF TypeOK, PoolKept, mdnsVars, userVars
<1>9. PetClock'
  BY <1>2, <1>6, ClockStep DEF PoolKept
<1> QED
  BY <1>6, <1>7, <1>8, <1>9 DEF IInv

\* dhcp_retrans_cb, dhcp_t1_cb, dhcp_t2_cb and dhcp_lease_cb keep IInv.
LEMMA DhcpCbStep ==
    ASSUME IInv, dhcp_retrans_cb \/ dhcp_t1_cb \/ dhcp_t2_cb \/ dhcp_lease_cb
    PROVE  IInv'
<1>1. /\ dhcp \in DhcpStates /\ retries \in 0 .. MaxRetries
      /\ MaxRetries \in Nat
  BY ServicesAssumption DEF IInv, TypeOK
<1>2. \A e, p, left : dhcp_fsa_step(e, p, left) =>
        dhcp' = dhcp_fsa_trans_table(dhcp, e)[1]
  BY DEF dhcp_fsa_step
<1>3. Awaited(dhcp) \subseteq {"t1", "t2", "lease"}
  BY <1>1 DEF Awaited, DhcpStates
<1>4. CASE dhcp_retrans_cb
  <2>1. /\ Fires("retrans") /\ UNCHANGED <<wdog, pollShift>>
        /\ \/ dhcp_fsa_step("E_TIMER_RETRANS_GIVEUP", Fired(pool, scan), 0)
           \/ /\ retries # 0
              /\ dhcp_fsa_step("E_TIMER_RETRANS_RETRY", Fired(pool, scan),
                               retries - 1)
    BY <1>4 DEF dhcp_retrans_cb
  <2>2. dhcp' = dhcp
    BY <1>1, <1>2, <2>1, TableCells DEF DhcpEvents
  <2>3. Awaited(dhcp') \subseteq Awaited(dhcp) \ {"retrans"}
    BY <1>3, <2>2
  <2>4. 0 \in 0 .. MaxRetries /\ (retries # 0 => retries - 1 \in 0 .. MaxRetries)
    BY <1>1
  <2>5. CASE dhcp_fsa_step("E_TIMER_RETRANS_GIVEUP", Fired(pool, scan), 0)
    BY <2>1, <2>3, <2>4, <2>5, DhcpTimerStep DEF DhcpEvents
  <2>6. CASE /\ retries # 0
             /\ dhcp_fsa_step("E_TIMER_RETRANS_RETRY", Fired(pool, scan),
                              retries - 1)
    BY <2>1, <2>3, <2>4, <2>6, DhcpTimerStep DEF DhcpEvents
  <2> QED
    BY <2>1, <2>5, <2>6
<1>5. CASE dhcp_t1_cb
  <2>1. /\ Fires("t1") /\ UNCHANGED <<wdog, pollShift>>
        /\ dhcp_fsa_step("E_TIMER_T1", Fired(pool, scan), retries)
    BY <1>5 DEF dhcp_t1_cb
  <2>2. Awaited(dhcp') \subseteq Awaited(dhcp) \ {"t1"}
    BY <1>1, <1>2, <2>1, TableCells DEF DhcpEvents
  <2> QED
    BY <1>1, <2>1, <2>2, DhcpTimerStep DEF DhcpEvents
<1>6. CASE dhcp_t2_cb
  <2>1. /\ Fires("t2") /\ UNCHANGED <<wdog, pollShift>>
        /\ dhcp_fsa_step("E_TIMER_T2", Fired(pool, scan), retries)
    BY <1>6 DEF dhcp_t2_cb
  <2>2. Awaited(dhcp') \subseteq Awaited(dhcp) \ {"t2"}
    BY <1>1, <1>2, <2>1, TableCells DEF DhcpEvents
  <2> QED
    BY <1>1, <2>1, <2>2, DhcpTimerStep DEF DhcpEvents
<1>7. CASE dhcp_lease_cb
  <2>1. /\ Fires("lease") /\ UNCHANGED <<wdog, pollShift>>
        /\ dhcp_fsa_step("E_TIMER_LEASE", Fired(pool, scan), retries)
    BY <1>7 DEF dhcp_lease_cb
  <2>2. Awaited(dhcp') \subseteq Awaited(dhcp) \ {"lease"}
    BY <1>1, <1>2, <2>1, TableCells DEF DhcpEvents
  <2> QED
    BY <1>1, <2>1, <2>2, DhcpTimerStep DEF DhcpEvents
<1> QED
  BY <1>4, <1>5, <1>6, <1>7

\* A DHCP reply that starts a new phase keeps IInv: that phase waits for no
\* lease timer.
LEMMA DispatchStep ==
    ASSUME IInv, NEW e \in {"E_RX_OFFER_VALID", "E_RX_NAK_VALID"},
           dhcp_dispatch(e)
    PROVE  IInv'
<1>1. /\ TypeOK /\ dhcp \in DhcpStates /\ e \in DhcpEvents
      /\ retries \in 0 .. MaxRetries /\ pool \in ServicePools /\ Pin(pool)
  BY Unfold DEF IInv, TypeOK, DhcpEvents
<1>2. /\ dhcp_fsa_step(e, pool, retries)
      /\ dhcp_fsa_trans_table(dhcp, e)[2] = "send"
      /\ UNCHANGED <<scan, busy, wdog, pollShift>>
  BY DEF dhcp_dispatch
<1>3. Awaited(dhcp') = {}
  BY <1>1, <1>2, TableCells DEF dhcp_fsa_step
<1>4. /\ \A t \in Awaited(dhcp') \ struck :
           slot[t] # NoSlot => pool[slot[t]].cb = t
      /\ struck # {} => robbed
      /\ ~robbed => \A i \in held : pool[i].cb = "user"
  BY <1>3 DEF IInv, LeaseTimersKept, HeldOwned
<1>5. /\ PoolKept
      /\ dhcp' \in DhcpStates /\ retries' \in 0 .. MaxRetries
      /\ halted' \in {"run", "panic_d", "panic_n"}
      /\ UNCHANGED <<slot, ourIp, mdnsVars, userVars>>
      /\ LeaseTimersKept' /\ HeldOwned'
  BY <1>1, <1>2, <1>4, DhcpStep
<1>6. TypeOK'
  BY <1>1, <1>2, <1>5 DEF TypeOK, PoolKept, ServicePools, Pools, mdnsVars,
                           userVars
<1>7. Pinned'
  BY <1>5, <1>6, Unfold, Refold DEF TypeOK, PoolKept, mdnsVars, userVars
<1>8. PetClock'
  BY <1>2, <1>5, ClockStep DEF PoolKept
<1> QED
  BY <1>5, <1>6, <1>7, <1>8 DEF IInv

\* A valid ACK keeps IInv.
LEMMA AckStep ==
    ASSUME IInv, NEW ip \in IPs, NEW lease \in Leases,
           dhcp_dispatch_ack(ip, lease)
    PROVE  IInv'
<1>1. /\ TypeOK /\ HeldOwned
      /\ dhcp \in DhcpStates /\ "E_RX_ACK_VALID" \in DhcpEvents
  BY DEF IInv, TypeOK, DhcpEvents
<1>2. /\ h_commit_lease_arm_timers(pool, ip, lease)
      /\ dhcp' = dhcp_fsa_trans_table(dhcp, "E_RX_ACK_VALID")[1]
      /\ UNCHANGED <<scan, busy, wdog, pollShift>>
  BY DEF dhcp_dispatch_ack
<1>3. dhcp' \in DhcpStates
  BY <1>1, <1>2, TableCells
<1>4. /\ PoolKept
      /\ slot' \in [LeaseTimers -> SlotOrNone]
      /\ \A t \in LeaseTimers : Loose(slot'[t])
      /\ mdnsSlot' \in SlotOrNone /\ Loose(mdnsSlot')
      /\ \A t \in LeaseTimers : slot'[t] # NoSlot => pool'[slot'[t]].cb = t
      /\ HeldOwned'
  BY <1>1, <1>2, Unfold, CommitStep
<1>5. /\ ourIp' = ip /\ announced' = ip
      /\ mdns' \in {PROBE_1, mdns} /\ prior' \in {announced, prior}
      /\ UNCHANGED <<retries, halted, held>>
      /\ robbed' \in BOOLEAN /\ struck' = {}
  BY <1>2 DEF h_commit_lease_arm_timers
<1>6. mdns' \in IDLE .. LIVE /\ prior' \in IPs \cup {NoIp, StaticIp}
  BY <1>1, <1>5 DEF TypeOK, IDLE, LIVE, PROBE_1
<1>7. TypeOK'
  BY <1>1, <1>2, <1>3, <1>4, <1>5, <1>6
  DEF TypeOK, PoolKept, ServicePools, Pools
<1>8. Pinned'
  BY <1>1, <1>4, <1>5, Unfold, Refold DEF PoolKept, TypeOK
<1>9. PetClock'
  BY <1>2, <1>4, ClockStep DEF PoolKept
<1>10. LeaseTimersKept'
  <2>1. Awaited(dhcp') \subseteq LeaseTimers
    BY <1>3 DEF Awaited, DhcpStates, LeaseTimers
  <2> QED
    BY <1>4, <1>5, <2>1 DEF LeaseTimersKept
<1> QED
  BY <1>4, <1>7, <1>8, <1>9, <1>10 DEF IInv

\* The loop's own steps keep IInv.  Tick takes one tick off the pet's period
\* and one off the countdown; timer_check returns only with the pet armed.
LEMMA LoopStep ==
    ASSUME IInv, TimerCheck \/ TimerCheckReturn \/ Tick \/ PanicBlink
    PROVE  IInv'
<1>1. CASE TimerCheck
  <2>1. /\ scan' = 0
        /\ UNCHANGED <<pool, busy, wdog, pollShift, dhcpVars, mdnsVars, halted,
                       userVars>>
    BY <1>1 DEF TimerCheck
  <2>2. TypeOK' /\ Pinned' /\ LeaseTimersKept' /\ HeldOwned'
    BY <2>1, CapAssumption
    DEF IInv, TypeOK, Pinned, LeaseTimersKept, HeldOwned, dhcpVars,
        mdnsVars, userVars
  <2>3. PetClock'
    BY <2>1, ClockStep
  <2> QED
    BY <2>2, <2>3 DEF IInv
<1>2. CASE TimerCheckReturn
  <2>1. /\ scan' = -1 /\ busy' = 0 /\ scan # -1 /\ Due(pool, scan) = {}
        /\ UNCHANGED <<pool, wdog, pollShift, dhcpVars, mdnsVars, halted,
                       userVars>>
    BY <1>2 DEF TimerCheckReturn, Dispatching
  <2>2. TypeOK' /\ Pinned' /\ LeaseTimersKept' /\ HeldOwned'
    BY <2>1, CapAssumption, ServicesAssumption
    DEF IInv, TypeOK, Pinned, LeaseTimersKept, HeldOwned, dhcpVars,
        mdnsVars, userVars
  <2>3. scan \in 0 .. Cap /\ 0 \in Slots /\ pool[0].left \in Nat
    BY <2>1, CapAssumption DEF IInv, TypeOK, Slots
  <2>4. pool[0].left > 0
    <3>1. CASE scan > 0
      BY <3>1 DEF IInv, PetClock
    <3>2. CASE scan = 0
      BY <2>1, <2>3, <3>2, Unfold DEF Due, Pin, NoCb
    <3> QED
      BY <2>3, <3>1, <3>2
  <2>5. PetClock'
    BY <2>1, <2>4 DEF IInv, PetClock
  <2> QED
    BY <2>2, <2>5 DEF IInv
<1>3. CASE Tick
  <2>1. /\ scan = -1 /\ busy < MaxBusy /\ wdog > 0
        /\ busy' = busy + 1 /\ wdog' = wdog - 1 /\ pool' = Elapse(pool)
        /\ UNCHANGED <<scan, pollShift, dhcp, retries, slot, ourIp, mdnsVars,
                       halted, userVars>>
    BY <1>3 DEF Tick, Receiving, Dispatching
  <2>2. /\ pool' \in ServicePools
        /\ \A i \in Slots :
             /\ pool'[i].cb = pool[i].cb
             /\ pool'[i].left = IF pool[i].left > 0 THEN pool[i].left - 1 ELSE 0
    BY <2>1, Unfold, TimerElapse DEF ServicePools
  <2>3. 0 \in Slots /\ pool[0].left \in Nat
    BY CapAssumption DEF IInv, TypeOK, Slots
  <2>4. TypeOK'
    BY <2>1, <2>2, ServicesAssumption
    DEF IInv, TypeOK, ServicePools, Pools, mdnsVars, userVars
  <2>5. Pin(pool')
    BY <2>2, CapAssumption, Unfold DEF Pin, Slots
  <2>6. Pinned'
    BY <2>1, <2>4, <2>5, Unfold, Refold DEF TypeOK, mdnsVars, userVars
  <2>7. LeaseTimersKept' /\ HeldOwned'
    BY <2>1, <2>2, KeptStep
  <2>8. PetClock'
    <3>1. /\ WdogTimeout \in Nat /\ PetPeriod \in Nat /\ busy \in Nat
          /\ wdog \in Nat /\ pool'[0].left \in Nat
      BY <2>2, <2>3, ServicesAssumption DEF IInv, TypeOK
    <3>2. CASE pool[0].left > 0
      <4>1. pool'[0].left = pool[0].left - 1
        BY <2>2, <2>3, <3>2
      <4> QED
        BY <2>1, <2>3, <3>1, <3>2, <4>1 DEF IInv, PetClock
    <3>3. CASE pool[0].left = 0
      <4>1. pool'[0].left = 0
        BY <2>2, <2>3, <3>3
      <4> QED
        BY <2>1, <3>1, <3>3, <4>1 DEF IInv, PetClock
    <3> QED
      BY <2>3, <3>2, <3>3
  <2> QED
    BY <2>4, <2>6, <2>7, <2>8 DEF IInv
<1>4. CASE PanicBlink
  <2>1. /\ wdog' = WdogTimeout
        /\ UNCHANGED <<loopVars, pollShift, dhcpVars, mdnsVars, halted,
                       userVars>>
    BY <1>4 DEF PanicBlink
  <2>2. TypeOK' /\ Pinned' /\ LeaseTimersKept' /\ HeldOwned'
    BY <2>1, ServicesAssumption
    DEF IInv, TypeOK, Pinned, LeaseTimersKept, HeldOwned, loopVars,
      dhcpVars, mdnsVars, userVars
  <2>3. /\ WdogTimeout \in Nat /\ PetPeriod \in Nat /\ busy \in Nat
        /\ pool[0].left \in Nat
    BY ServicesAssumption, CapAssumption DEF IInv, TypeOK, Slots
  <2>4. PetClock'
    BY <2>1, <2>3 DEF IInv, PetClock, loopVars
  <2> QED
    BY <2>2, <2>4 DEF IInv
<1> QED
  BY <1>1, <1>2, <1>3, <1>4

\* ntp_handle and mdns_dispatch touch neither the pool nor a slot number.
LEMMA ReceiveStep ==
    ASSUME IInv, ntp_handle \/ \E ip \in IPs : mdns_dispatch(ip)
    PROVE  IInv'
<1>1. /\ UNCHANGED <<loopVars, wdog, dhcpVars, mdnsVars, userVars>>
      /\ pollShift' \in {0, pollShift}
      /\ halted' \in {halted, "panic_n"}
  BY DEF ntp_handle, mdns_dispatch
<1>2. TypeOK' /\ Pinned' /\ LeaseTimersKept' /\ HeldOwned'
  BY <1>1, ServicesAssumption
  DEF IInv, TypeOK, Pinned, LeaseTimersKept, HeldOwned, loopVars,
      dhcpVars, mdnsVars, userVars
<1>3. PetClock'
  BY <1>1 DEF IInv, PetClock, loopVars
<1> QED
  BY <1>2, <1>3 DEF IInv

\* A timer of TCP or reassembly armed on pool p (the pool, or the pool without
\* the slot that fired) and remembered or not.
LEMMA UserArmStep ==
    ASSUME IInv, NEW p \in ServicePools, Pin(p), p[0] = pool[0],
           NEW h \in SUBSET held, UserArm(p, h),
           UNCHANGED <<dhcp, slot, robbed, struck>>,
           \A i \in Slots : pool[i].cb \in LeaseTimers => p[i] = pool[i],
           ~robbed => \A i \in h : p[i].cb = "user"
    PROVE  /\ PoolKept /\ LeaseTimersKept' /\ HeldOwned'
           /\ held' \subseteq Slots /\ LooseSet(held')
<1> DEFINE q == timer_set(p, "user", 0, UserDelay)
           s == timer_set_slot(p)
<1>1. "user" \in Callbacks /\ UserDelay \in Nat
  BY ServicesAssumption DEF Callbacks
<1>2. /\ q \in ServicePools /\ Pin(q) /\ Loose(s) /\ q[0] = p[0]
      /\ \A i \in Slots : p[i].cb # NoCb => q[i] = p[i]
      /\ s # NoSlot => p[s].cb = NoCb /\ q[s].cb = "user"
  BY <1>1, ArmKeeps
<1>3. pool' = q /\ held' \in {h, h \cup ({s} \cap Slots)}
  BY DEF UserArm
<1> HIDE DEF q, s
<1>4. /\ held \subseteq Slots /\ LooseSet(held)
  BY Unfold DEF IInv, TypeOK
<1>5. held' \subseteq Slots
  BY <1>3, <1>4
<1>6. LooseSet(held')
  BY <1>2, <1>3, <1>4 DEF LooseSet, Loose, Slots, NoSlot
<1>7. HeldOwned'
  <2>1. SUFFICES ASSUME ~robbed, NEW i \in held' PROVE q[i].cb = "user"
    BY <1>3 DEF HeldOwned
  <2>2. CASE i \in h
    BY <1>2, <1>4, <2>1, <2>2 DEF NoCb
  <2>3. CASE i = s /\ s \in Slots
    BY <1>2, <2>3 DEF Slots, NoSlot
  <2> QED
    BY <1>3, <2>1, <2>2, <2>3
<1>8. ASSUME NEW t \in Awaited(dhcp') \ struck, slot'[t] # NoSlot
      PROVE  q[slot'[t]].cb = t
  <2>1. t \in LeaseTimers /\ t \in Awaited(dhcp) \ struck
    BY <1>8 DEF IInv, TypeOK, Awaited, LeaseTimers, DhcpStates
  <2>2. slot[t] # NoSlot /\ slot[t] \in Slots
    BY <1>8, <2>1 DEF IInv, TypeOK, SlotOrNone
  <2>3. pool[slot[t]].cb = t
    BY <2>1, <2>2 DEF IInv, LeaseTimersKept
  <2>4. p[slot[t]].cb = t /\ t # NoCb
    BY <2>1, <2>2, <2>3 DEF LeaseTimers, NoCb
  <2> QED
    BY <1>2, <2>2, <2>4
<1>9. LeaseTimersKept'
  BY <1>3, <1>8 DEF LeaseTimersKept, IInv
<1> QED
  BY <1>2, <1>3, <1>5, <1>6, <1>7, <1>9 DEF PoolKept

\* UserSet keeps IInv.
LEMMA UserSetStep == ASSUME IInv, UserSet PROVE IInv'
<1>1. /\ UserArm(pool, held)
      /\ UNCHANGED <<scan, busy, wdog, pollShift, dhcpVars, mdnsVars, halted,
                     robbed, struck>>
  BY DEF UserSet
<1>2. /\ pool \in ServicePools /\ Pin(pool)
      /\ ~robbed => \A i \in held : pool[i].cb = "user"
      /\ held \in SUBSET held
  BY Unfold DEF IInv, HeldOwned
<1>3. /\ PoolKept /\ LeaseTimersKept' /\ HeldOwned'
      /\ held' \subseteq Slots /\ LooseSet(held')
  BY <1>1, <1>2, UserArmStep DEF dhcpVars
<1>4. TypeOK'
  BY <1>1, <1>3 DEF IInv, TypeOK, PoolKept, ServicePools, Pools, dhcpVars,
                    mdnsVars
<1>5. Pinned'
  BY <1>1, <1>3, <1>4, Unfold, Refold DEF TypeOK, PoolKept, dhcpVars, mdnsVars
<1>6. PetClock'
  BY <1>1, <1>3, ClockStep DEF PoolKept
<1> QED
  BY <1>3, <1>4, <1>5, <1>6 DEF IInv

\* A callback of TCP or reassembly keeps IInv: until they have been robbed it
\* drops the slot it fired from.
LEMMA UserFiresStep ==
    ASSUME IInv, NEW rearms \in BOOLEAN, UserFires(rearms) PROVE IInv'
<1> DEFINE p == Fired(pool, scan)
           f == Firing(pool, scan)
<1>1. PICK h \in {held \ {f}, held} :
        /\ h = held => robbed \/ f \notin held
        /\ \/ pool' = p /\ held' = h
           \/ UserArm(p, h)
  BY DEF UserFires
<1>2. /\ Fires("user")
      /\ UNCHANGED <<wdog, pollShift, dhcpVars, mdnsVars, halted, robbed, struck>>
  BY DEF UserFires
<1>3. "user" \in Callbacks \ {"pet", "reaper", "arp"}
  BY DEF Callbacks
<1>4. /\ p \in ServicePools /\ Pin(p) /\ p[0] = pool[0] /\ pool[0].left > 0
      /\ scan' \in -1 .. Cap /\ busy' = busy
      /\ \A i \in Slots : pool[i].cb # "user" => p[i] = pool[i]
  BY <1>2, <1>3, LooseFire
<1>5. \A i \in Slots : i # f => p[i] = pool[i]
  <2>1. pool \in Pools(Callbacks, {0}) /\ NoCb \in Callbacks /\ 0 \in {0}
    BY Unfold DEF ServicePools, Callbacks
  <2>2. Due(pool, scan) # {}
    BY <1>2, ScanStep
  <2> QED
    BY <2>1, <2>2, TimerFire
<1> HIDE DEF p, f
<1>6. /\ h \in SUBSET held /\ held \subseteq Slots /\ LooseSet(held)
      /\ \A i \in Slots : pool[i].cb \in LeaseTimers => p[i] = pool[i]
      /\ ~robbed => \A i \in h : p[i].cb = "user"
  <2>1. h \in SUBSET held /\ held \subseteq Slots /\ LooseSet(held)
    BY <1>1, Unfold DEF IInv, TypeOK
  <2>2. ~robbed => f \notin h
    BY <1>1
  <2>3. ~robbed => \A i \in held : pool[i].cb = "user"
    BY DEF IInv, HeldOwned
  <2>4. \A i \in Slots : pool[i].cb \in LeaseTimers => p[i] = pool[i]
    BY <1>4 DEF LeaseTimers
  <2> QED
    BY <1>5, <2>1, <2>2, <2>3, <2>4
<1>7. /\ PoolKept /\ LeaseTimersKept' /\ HeldOwned'
      /\ held' \subseteq Slots /\ LooseSet(held')
  <2>1. CASE UserArm(p, h)
    BY <1>2, <1>4, <1>6, <2>1, UserArmStep DEF dhcpVars
  <2>2. CASE pool' = p /\ held' = h
    <3>1. PoolKept /\ held' \subseteq Slots /\ LooseSet(held') /\ HeldOwned'
      BY <1>2, <1>4, <1>6, <2>2 DEF PoolKept, LooseSet, HeldOwned
    <3>2. ASSUME NEW t \in Awaited(dhcp') \ struck, slot'[t] # NoSlot
          PROVE  p[slot'[t]].cb = t
      <4>1. t \in LeaseTimers /\ t \in Awaited(dhcp) \ struck
        BY <1>2, <3>2
        DEF IInv, TypeOK, Awaited, LeaseTimers, DhcpStates, dhcpVars
      <4>2. slot[t] # NoSlot /\ slot[t] \in Slots
        BY <1>2, <3>2, <4>1 DEF IInv, TypeOK, SlotOrNone, dhcpVars
      <4>3. pool[slot[t]].cb = t
        BY <4>1, <4>2 DEF IInv, LeaseTimersKept
      <4> QED
        BY <1>2, <1>6, <4>1, <4>2, <4>3 DEF dhcpVars
    <3>3. LeaseTimersKept'
      BY <1>2, <2>2, <3>2 DEF LeaseTimersKept, IInv
    <3> QED
      BY <3>1, <3>3
  <2> QED
    BY <1>1, <2>1, <2>2
<1>8. TypeOK'
  BY <1>2, <1>4, <1>7
  DEF IInv, TypeOK, PoolKept, ServicePools, Pools, dhcpVars, mdnsVars
<1>9. Pinned'
  BY <1>2, <1>7, <1>8, Unfold, Refold DEF TypeOK, PoolKept, dhcpVars, mdnsVars
<1>10. PetClock'
  BY <1>2, <1>4, <1>7, ClockStep DEF PoolKept
<1> QED
  BY <1>7, <1>8, <1>9, <1>10 DEF IInv

\* A cancel through a remembered slot, stale or not, keeps IInv.
LEMMA UserCancelStep ==
    ASSUME IInv, NEW i \in Slots, UserCancel(i) PROVE IInv'
<1> DEFINE q == CancelAll(pool, {i})
<1>1. /\ i \in held /\ pool' = q /\ Strikes({i})
      /\ UNCHANGED <<scan, busy, wdog, pollShift, dhcpVars, mdnsVars, halted>>
  BY DEF UserCancel
<1>2. /\ pool \in ServicePools /\ Pin(pool) /\ LooseSet(held)
      /\ {i} \in SUBSET held
  BY <1>1, Unfold
<1>3. /\ q \in ServicePools
      /\ \A j \in Slots : j \notin {i} => q[j] = pool[j]
  BY <1>2, CancelAllKeeps
<1> HIDE DEF q
<1>4. Pin(q) /\ q[0] = pool[0]
  <2>1. i > 2
    BY <1>1, <1>2 DEF LooseSet
  <2>2. 0 \in Slots /\ (2 <= Cap => 1 \in Slots) /\ (3 <= Cap => 2 \in Slots)
    BY CapAssumption DEF Slots
  <2> QED
    BY <1>2, <1>3, <2>1, <2>2 DEF Pin
<1>5. /\ LeaseTimersKept' /\ HeldOwned' /\ LooseSet(held')
      /\ held' \subseteq Slots /\ robbed' \in BOOLEAN
      /\ struck' \subseteq LeaseTimers
  BY <1>1, <1>2, <1>3, StrikeStep DEF dhcpVars
<1>6. TypeOK'
  BY <1>1, <1>3, <1>5
  DEF IInv, TypeOK, ServicePools, Pools, dhcpVars, mdnsVars
<1>7. Pinned'
  BY <1>1, <1>4, <1>5, <1>6, Unfold, Refold DEF TypeOK, dhcpVars, mdnsVars
<1>8. PetClock'
  BY <1>1, <1>4, ClockStep
<1> QED
  BY <1>5, <1>6, <1>7, <1>8 DEF IInv

\* Forgetting a slot keeps IInv.
LEMMA UserForgetStep ==
    ASSUME IInv, NEW i \in Slots, UserForget(i) PROVE IInv'
<1>1. /\ held' = held \ {i}
      /\ UNCHANGED <<loopVars, wdog, pollShift, dhcpVars, mdnsVars, halted,
                     robbed, struck>>
  BY DEF UserForget
<1>2. TypeOK'
  BY <1>1 DEF IInv, TypeOK, loopVars, dhcpVars, mdnsVars
<1>3. Pinned'
  BY <1>1 DEF IInv, Pinned, loopVars, dhcpVars, mdnsVars
<1>4. LeaseTimersKept' /\ HeldOwned'
  BY <1>1 DEF IInv, LeaseTimersKept, HeldOwned, loopVars, dhcpVars
<1>5. PetClock'
  BY <1>1 DEF IInv, PetClock, loopVars
<1> QED
  BY <1>2, <1>3, <1>4, <1>5 DEF IInv

\* Boot arms the pet, the reaper and the ARP refresh first.
LEMMA InitIInv == ASSUME Init PROVE IInv
<1>1. PICK petLeft \in 0 .. PetPeriod : pool = BootPool(petLeft)
  BY DEF Init
<1> DEFINE p0 == timer_pool_init
           p1 == timer_set(p0, "pet", 0, petLeft)
           p2 == timer_set(p1, "reaper", 0, ReaperInterval)
           p3 == timer_set(p2, "arp", 0, 0)
           p4 == BootStep(UseDhcp, p3, "retrans", Retrans)
           p5 == timer_set(p4, "ntp", 0, 0)
           p6 == BootStep(~UseDhcp, p5, "mdns", 0)
<1>2. /\ petLeft \in Nat /\ petLeft <= PetPeriod
      /\ ReaperInterval \in Nat /\ Retrans \in Nat /\ 0 \in Nat
  BY ServicesAssumption
<1>3. /\ "pet" \in Callbacks /\ "reaper" \in Callbacks /\ "arp" \in Callbacks
      /\ "retrans" \in Callbacks /\ "ntp" \in Callbacks
      /\ "mdns" \in Callbacks /\ NoCb \in Callbacks
  BY DEF Callbacks
<1>4. p0 \in ServicePools /\ \A i \in Slots : p0[i].cb = NoCb
  BY <1>3 DEF timer_pool_init, Inactive, ServicePools, Pools
<1>5. /\ p1 \in ServicePools /\ p1[0].cb = "pet" /\ p1[0].left = petLeft
      /\ \A i \in Slots : i # 0 => p1[i].cb = NoCb
  <2> HIDE DEF p0
  <2>1. timer_set_slot(p0) # NoSlot
    <3>1. 0 \in FreeSlots(p0) /\ FreeSlots(p0) \subseteq Nat
      BY <1>4, CapAssumption DEF FreeSlots, Slots
    <3> QED
      BY <3>1, MinInSet DEF timer_set_slot, NoSlot
  <2>2. timer_set_slot(p0) = 0
    <3>1. /\ timer_set_slot(p0) \in Slots
          /\ \A i \in Slots : p0[i].cb = NoCb => timer_set_slot(p0) <= i
      BY <1>2, <1>3, <1>4, <2>1, ServiceSet
    <3>2. 0 \in Slots /\ p0[0].cb = NoCb
      BY <1>4, CapAssumption DEF Slots
    <3> QED
      BY <3>1, <3>2 DEF Slots
  <2>3. /\ p1 \in ServicePools
        /\ p1[0] = [cb |-> "pet", ctx |-> 0, left |-> petLeft]
        /\ \A i \in Slots : i # 0 => p1[i] = p0[i]
    BY <1>2, <1>3, <1>4, <2>1, <2>2, ServiceSet
  <2> HIDE DEF p1
  <2> QED
    BY <1>4, <2>3
<1> HIDE DEF p0, p1
<1>6. /\ p2 \in ServicePools /\ p2[0] = p1[0]
      /\ 2 <= Cap => p2[1].cb = "reaper"
      /\ \A i \in Slots : i > 1 => p2[i].cb = NoCb
  <2> DEFINE s == timer_set_slot(p1)
  <2>1. /\ p2 \in ServicePools /\ s \in Slots \cup {NoSlot}
        /\ s # NoSlot =>
             /\ s \in Slots /\ p1[s].cb = NoCb
             /\ \A i \in Slots : p1[i].cb = NoCb => s <= i
             /\ p2[s] = [cb |-> "reaper", ctx |-> 0, left |-> ReaperInterval]
        /\ \A i \in Slots : i # s => p2[i] = p1[i]
    BY <1>2, <1>3, <1>5, ServiceSet
  <2>2. 2 <= Cap => s # NoSlot
    <3>1. 2 <= Cap => 1 \in FreeSlots(p1) /\ FreeSlots(p1) \subseteq Nat
      BY <1>5, CapAssumption DEF FreeSlots, Slots
    <3> QED
      BY <3>1, MinInSet DEF timer_set_slot, NoSlot
  <2> HIDE DEF s, p2
  <2>3. s # 0 /\ (2 <= Cap => s = 1)
    <3>1. s # 0
      BY <1>5, <2>1 DEF NoCb, NoSlot
    <3>2. 2 <= Cap => 1 \in Slots /\ p1[1].cb = NoCb
      BY <1>5, CapAssumption DEF Slots
    <3> QED
      BY <2>1, <2>2, <3>1, <3>2, CapAssumption DEF Slots
  <2>4. 0 \in Slots /\ \A i \in Slots : i > 1 => 2 <= Cap /\ i # s /\ i # 0
    BY <2>3, CapAssumption DEF Slots
  <2> QED
    BY <1>5, <2>1, <2>2, <2>3, <2>4
<1> HIDE DEF p2
<1>7. p3 \in ServicePools /\ Pin(p3) /\ p3[0] = p1[0]
  <2> DEFINE s == timer_set_slot(p2)
  <2>1. /\ p3 \in ServicePools /\ s \in Slots \cup {NoSlot}
        /\ s # NoSlot =>
             /\ s \in Slots /\ p2[s].cb = NoCb
             /\ \A i \in Slots : p2[i].cb = NoCb => s <= i
             /\ p3[s] = [cb |-> "arp", ctx |-> 0, left |-> 0]
        /\ \A i \in Slots : i # s => p3[i] = p2[i]
    BY <1>2, <1>3, <1>6, ServiceSet
  <2>2. 3 <= Cap => s # NoSlot
    <3>1. 3 <= Cap => 2 \in FreeSlots(p2) /\ FreeSlots(p2) \subseteq Nat
      BY <1>6, CapAssumption DEF FreeSlots, Slots
    <3> QED
      BY <3>1, MinInSet DEF timer_set_slot, NoSlot
  <2> HIDE DEF s, p3
  <2>3. s # 0 /\ (2 <= Cap => s # 1)
    BY <1>5, <1>6, <2>1, CapAssumption DEF NoCb, NoSlot, Slots
  <2>4. 3 <= Cap => s = 2
    <3>1. 3 <= Cap => 2 \in Slots /\ p2[2].cb = NoCb
      BY <1>6, CapAssumption DEF Slots
    <3> QED
      BY <2>1, <2>2, <2>3, <3>1, CapAssumption DEF Slots
  <2>5. 0 \in Slots /\ (2 <= Cap => 1 \in Slots)
    BY CapAssumption DEF Slots
  <2> QED
    BY <1>5, <1>6, <2>1, <2>2, <2>3, <2>4, <2>5 DEF Pin
<1> HIDE DEF p3
<1>8. p4 \in ServicePools /\ Pin(p4) /\ p4[0] = p1[0]
  <2>1. LET q == timer_set(p3, "retrans", 0, Retrans)
        IN  q \in ServicePools /\ Pin(q) /\ q[0] = p3[0]
    <3>1. "retrans" \in Callbacks /\ Retrans \in Nat
      BY <1>2, <1>3
    <3>2. p3 \in ServicePools /\ Pin(p3)
      BY <1>7
    <3> QED
      BY <3>1, <3>2, ArmKeeps
  <2>2. p4 = timer_set(p3, "retrans", 0, Retrans) \/ p4 = p3
    BY DEF BootStep
  <2> HIDE DEF p4
  <2> QED
    BY <1>7, <2>1, <2>2
<1> HIDE DEF p4
<1>9. p5 \in ServicePools /\ Pin(p5) /\ p5[0] = p1[0]
  BY <1>2, <1>3, <1>8, ArmKeeps
<1> HIDE DEF p5
<1>10. p6 \in ServicePools /\ Pin(p6) /\ p6[0] = p1[0]
  <2>1. LET q == timer_set(p5, "mdns", 0, 0)
        IN  q \in ServicePools /\ Pin(q) /\ q[0] = p5[0]
    BY <1>2, <1>3, <1>9, ArmKeeps
  <2>2. p6 = timer_set(p5, "mdns", 0, 0) \/ p6 = p5
    BY DEF BootStep
  <2> HIDE DEF p6
  <2> QED
    BY <1>9, <2>1, <2>2
<1>11. pool = p6
  BY <1>1 DEF BootPool, p0, p1, p2, p3, p4, p5
<1> HIDE DEF p6
<1>12. mdnsSlot \in SlotOrNone /\ Loose(mdnsSlot)
  <2> DEFINE S == {i \in Slots : pool[i].cb = "mdns"}
  <2>1. mdnsSlot = IF S = {} THEN NoSlot ELSE Min(S)
    BY DEF Init, BootMdnsSlot
  <2>2. S \subseteq Nat
    BY CapAssumption DEF Slots
  <2>3. \A i \in S : i > 2
    BY <1>10, <1>11, CapAssumption DEF Pin, Slots
  <2> HIDE DEF S
  <2>4. S # {} => Min(S) \in S
    BY <2>2, MinInSet
  <2>5. S \subseteq Slots
    BY DEF S
  <2> QED
    BY <2>1, <2>3, <2>4, <2>5 DEF Loose, SlotOrNone
<1>13. TypeOK
  <2>1. mdns \in IDLE .. LIVE
    BY DEF Init, IDLE, LIVE, PROBE_1
  <2>2. dhcp \in DhcpStates
    BY DEF Init, DhcpStates
  <2>3. slot \in [LeaseTimers -> SlotOrNone]
    BY DEF Init, unarmed_slots, SlotOrNone
  <2>4. ourIp \in {NoIp, StaticIp} /\ announced = ourIp /\ prior = NoIp
    BY DEF Init
  <2>5. /\ scan = -1 /\ busy = 0 /\ wdog = WdogTimeout /\ pollShift = 0
        /\ retries = MaxRetries /\ halted = "run"
    BY DEF Init, Dispatching
  <2>6. held \subseteq Slots /\ robbed \in BOOLEAN /\ struck \subseteq LeaseTimers
    BY DEF Init
  <2> QED
    BY <1>10, <1>11, <1>12, <2>1, <2>2, <2>3, <2>4, <2>5, <2>6,
       ServicesAssumption, CapAssumption
    DEF TypeOK, ServicePools, Pools
<1>14. Pinned
  <2>1. \A t \in LeaseTimers : Loose(slot[t])
    BY DEF Init, unarmed_slots, Loose, SlotOrNone
  <2>2. LooseSet(held)
    BY DEF Init, LooseSet
  <2> QED
    BY <1>10, <1>11, <1>12, <1>13, <2>1, <2>2, PinnedIsPin DEF Pinned, TypeOK
<1>15. PetClock
  BY <1>2, <1>5, <1>10, <1>11, ServicesAssumption
  DEF PetClock, Init, Dispatching
<1>16. LeaseTimersKept /\ HeldOwned
  BY DEF LeaseTimersKept, HeldOwned, Init, Awaited
<1> QED
  BY <1>13, <1>14, <1>15, <1>16 DEF IInv

\* Every step of net_loop keeps IInv.
LEMMA NextIInv == ASSUME IInv, [Next]_vars PROVE IInv'
<1>1. CASE TimerStep
  BY <1>1, PetStep, ReaperStep, UserFiresStep, ArpStep, NtpStep, MdnsStep,
     DhcpCbStep, LoopStep DEF TimerStep
<1>2. CASE dhcp_dispatch("E_RX_OFFER_VALID") \/ dhcp_dispatch("E_RX_NAK_VALID")
  BY <1>2, DispatchStep
<1>3. CASE \E ip \in IPs, lease \in Leases : dhcp_dispatch_ack(ip, lease)
  BY <1>3, AckStep
<1>4. CASE UNCHANGED vars
  BY <1>4 DEF IInv, TypeOK, Pinned, PetClock, LeaseTimersKept, HeldOwned, vars,
              loopVars, dhcpVars, mdnsVars, userVars
<1>5. CASE TimerCheck \/ Tick \/ PanicBlink
  BY <1>5, LoopStep
<1>6. CASE ntp_handle \/ \E ip \in IPs : mdns_dispatch(ip)
  BY <1>6, ReceiveStep
<1>7. CASE UserSet
  BY <1>7, UserSetStep
<1>8. CASE \E i \in Slots : UserCancel(i) \/ UserForget(i)
  BY <1>8, UserCancelStep, UserForgetStep
<1> QED
  BY <1>1, <1>2, <1>3, <1>4, <1>5, <1>6, <1>7, <1>8 DEF Next

-----------------------------------------------------------------------------
(* The theorems. *)

\* IInv holds in every reachable state of net_loop and its services.
THEOREM Invariance == Spec => []IInv
<1>1. Init => IInv
  BY InitIInv
<1>2. IInv /\ [Next]_vars => IInv'
  BY NextIInv
<1> QED
  BY <1>1, <1>2, PTL DEF Spec

\* Every variable of the loop and its services keeps its type: in particular
\* no slot number leaves the pool and DHCPC_RETRIES never wraps below zero.
THEOREM TypeCorrect == Spec => []TypeOK
<1>1. IInv => TypeOK
  BY DEF IInv
<1> QED
  BY <1>1, Invariance, PTL

\* For every period, timeout and traffic bound with TrafficAssumption, the
\* watchdog never bites while net_loop runs, nor during a panic.
THEOREM WatchdogNeverBites == Spec => []NoBite
<1>1. IInv => NoBite
  <2>1. SUFFICES ASSUME IInv PROVE wdog > 0
    BY DEF NoBite
  <2>2. /\ WdogTimeout \in Nat /\ PetPeriod \in Nat /\ MaxBusy \in Nat
        /\ WdogTimeout > PetPeriod + MaxBusy
        /\ busy \in 0 .. MaxBusy /\ wdog \in Nat /\ pool[0].left \in Nat
    BY <2>1, CapAssumption, ServicesAssumption, TrafficAssumption
    DEF IInv, TypeOK, Slots
  <2> QED
    BY <2>1, <2>2 DEF IInv, PetClock
<1> QED
  BY <1>1, Invariance, PTL

\* The pet, the reaper and the ARP refresh stay in slots 0, 1 and 2 for every
\* pool size, and no stale slot number ever points at one of them.
THEOREM BootTimersPinned == Spec => []Pinned
<1>1. IInv => Pinned
  BY DEF IInv
<1> QED
  BY <1>1, Invariance, PTL

\* No retransmission, mDNS cycle or lease renewal loses a lease timer that
\* the DHCP state still waits for.  Only a connection or a reassembly slot can
\* cancel one, through a slot it still remembers, and that only after a commit
\* (dhcp_fsa.S:585-596) has cancelled a timer of theirs.
THEOREM LeaseTimersNeverLost == Spec => []LeaseTimersKept
<1>1. IInv => LeaseTimersKept
  BY DEF IInv
<1> QED
  BY <1>1, Invariance, PTL

-----------------------------------------------------------------------------
(* The mDNS cycle with a static address: dhcp_start is never called, so no *)
(* lease is ever committed, none of its stale slot numbers cancelled, and  *)
(* what TCP and reassembly remember stays theirs.                          *)

StaticInv == dhcp = "S_INIT" /\ ~robbed /\ MdnsCycleArmed

\* A step that frees no slot of mdns_timer_cb and leaves the responder's
\* state alone keeps the cycle's timer.
LEMMA CycleKept ==
    ASSUME TypeOK, StaticInv, UNCHANGED <<dhcp, mdns, mdnsSlot, robbed>>,
           \A i \in Slots : pool[i].cb = "mdns" => pool'[i].cb = "mdns"
    PROVE  StaticInv'
<1>1. mdnsSlot # NoSlot => mdnsSlot \in Slots
  BY DEF TypeOK, SlotOrNone
<1> QED
  BY <1>1 DEF StaticInv, MdnsCycleArmed

\* timer_set takes no slot away from mdns_timer_cb.
LEMMA ArmAdds ==
    ASSUME NEW p \in ServicePools, NEW cb \in Callbacks, NEW left \in Nat
    PROVE  \A i \in Slots :
             p[i].cb = "mdns" => timer_set(p, cb, 0, left)[i].cb = "mdns"
<1> DEFINE q == timer_set(p, cb, 0, left)
           s == timer_set_slot(p)
<1>1. /\ q \in ServicePools
      /\ s \in Slots \cup {NoSlot}
      /\ s # NoSlot =>
           /\ s \in Slots
           /\ p[s].cb = NoCb
           /\ q[s] = [cb |-> cb, ctx |-> 0, left |-> left]
      /\ \A i \in Slots : p[i].cb # NoCb => q[i] = p[i]
  BY ServiceSet
<1> HIDE DEF q, s
<1>2. \A i \in Slots : p[i].cb = "mdns" => q[i].cb = "mdns"
  BY <1>1 DEF NoCb
<1> QED
  BY <1>2 DEF q

\* The callback of another service frees its own slot and arms in a free one.
LEMMA OtherFires ==
    ASSUME TypeOK, NEW x, x # "mdns", Fires(x),
           \/ pool' = Fired(pool, scan)
           \/ \E cb \in Callbacks, left \in Nat :
                pool' = timer_set(Fired(pool, scan), cb, 0, left)
    PROVE  \A i \in Slots : pool[i].cb = "mdns" => pool'[i].cb = "mdns"
<1> DEFINE r == Fired(pool, scan)
<1>1. pool \in ServicePools
  BY DEF TypeOK, ServicePools, Pools
<1>2. /\ r \in ServicePools
      /\ \A i \in Slots : i # Firing(pool, scan) => r[i] = pool[i]
  BY <1>1, TimerFire DEF Fires, ServicePools, Callbacks
<1>3. \A i \in Slots : pool[i].cb = "mdns" => r[i].cb = "mdns"
  BY <1>2 DEF Fires
<1> HIDE DEF r
<1>4. ASSUME NEW cb \in Callbacks, NEW left \in Nat
      PROVE  \A i \in Slots :
                r[i].cb = "mdns" => timer_set(r, cb, 0, left)[i].cb = "mdns"
  BY <1>2, ArmAdds
<1> QED
  BY <1>3, <1>4 DEF r

\* A step of the probe/announce cycle either re-arms and remembers the slot
\* it got, or ends the cycle.
LEMMA CycleStep ==
    ASSUME TypeOK, StaticInv, mdns_timer_cb PROVE StaticInv'
<1> DEFINE r == Fired(pool, scan)
           gap == IF mdns + 1 = ANNOUNCE_2 THEN AnnounceGap ELSE ProbeGap
<1>1. pool \in ServicePools
  BY DEF TypeOK, ServicePools, Pools
<1>2. r \in ServicePools
  BY <1>1, TimerFire DEF mdns_timer_cb, MdnsTimer, Fires, ServicePools, Callbacks
<1>3. gap \in Nat /\ "mdns" \in Callbacks
  BY ServicesAssumption DEF Callbacks
<1>4. /\ dhcp' = dhcp /\ robbed' = robbed
      /\ mdns' = IF mdns \in PROBE_1 .. ANNOUNCE_2 THEN mdns + 1 ELSE mdns
      /\ mdns \in PROBE_1 .. ANNOUNCE_2 - 1 =>
            /\ pool' = timer_set(r, "mdns", 0, gap)
            /\ mdnsSlot' = timer_set_slot(r)
  BY DEF mdns_timer_cb, MdnsTimer, dhcpVars, userVars
<1> HIDE DEF r, gap
<1>5. timer_set_slot(r) # NoSlot =>
        timer_set(r, "mdns", 0, gap)[timer_set_slot(r)].cb = "mdns"
  <2>1. timer_set_slot(r) # NoSlot =>
          timer_set(r, "mdns", 0, gap)[timer_set_slot(r)]
            = [cb |-> "mdns", ctx |-> 0, left |-> gap]
    BY <1>2, <1>3, ServiceSet
  <2> QED
    BY <2>1
<1>6. mdns' \in PROBE_1 .. ANNOUNCE_2 => mdns \in PROBE_1 .. ANNOUNCE_2 - 1
  BY <1>4 DEF TypeOK, PROBE_1, ANNOUNCE_2, IDLE, LIVE
<1> QED
  BY <1>4, <1>5, <1>6 DEF StaticInv, MdnsCycleArmed

\* In S_INIT the table ignores every event: a stray timer only frees its slot.
LEMMA InitIgnores ==
    ASSUME StaticInv, NEW e \in DhcpEvents
    PROVE  /\ dhcp_fsa_trans_table(dhcp, e) = <<"S_INIT", "none">>
           /\ \A p, left : dhcp_fsa_step(e, p, left) =>
                pool' = p /\ UNCHANGED <<dhcp, mdns, mdnsSlot, robbed>>
<1>1. dhcp_fsa_trans_table(dhcp, e) = <<"S_INIT", "none">>
  BY DEF dhcp_fsa_trans_table, StaticInv
<1>2. \A p, left : dhcp_fsa_step(e, p, left) => dhcp' = "S_INIT" /\ h_none(p, left)
  BY <1>1 DEF dhcp_fsa_step
<1> QED
  BY <1>1, <1>2 DEF h_none, mdnsVars, userVars, StaticInv

\* The reaper takes no slot away from mdns_timer_cb: what it cancels is TCP's.
LEMMA ReaperAdds ==
    ASSUME IInv, StaticInv, \E S \in SUBSET held : tcp_idle_reaper_rearm(S)
    PROVE  /\ \A i \in Slots : pool[i].cb = "mdns" => pool'[i].cb = "mdns"
           /\ UNCHANGED <<dhcp, mdns, mdnsSlot, robbed>>
<1>1. PICK S \in SUBSET held : tcp_idle_reaper_rearm(S)
  OBVIOUS
<1> DEFINE r == Fired(pool, scan)
           c == CancelAll(r, S)
<1>2. /\ Fires("reaper") /\ pool' = timer_set(c, "reaper", 0, ReaperInterval)
      /\ UNCHANGED <<dhcp, mdns, mdnsSlot, robbed>>
  BY <1>1 DEF tcp_idle_reaper_rearm, Strikes, dhcpVars, mdnsVars
<1>3. pool \in ServicePools /\ \A i \in S : pool[i].cb = "user"
  BY Unfold DEF IInv, HeldOwned, StaticInv
<1>4. /\ r \in ServicePools
      /\ \A i \in Slots : i # Firing(pool, scan) => r[i] = pool[i]
  BY <1>2, <1>3, TimerFire DEF Fires, ServicePools, Callbacks
<1>5. \A i \in Slots : pool[i].cb = "mdns" => r[i].cb = "mdns"
  BY <1>2, <1>4 DEF Fires
<1> HIDE DEF r
<1>6. /\ c \in ServicePools
      /\ \A i \in Slots : i \notin S => c[i] = r[i]
  BY <1>4, CancelAllKeeps
<1>7. \A i \in Slots : pool[i].cb = "mdns" => c[i].cb = "mdns"
  BY <1>3, <1>5, <1>6
<1> HIDE DEF c
<1>8. \A i \in Slots :
        c[i].cb = "mdns" => timer_set(c, "reaper", 0, ReaperInterval)[i].cb = "mdns"
  BY <1>6, ArmAdds, ServicesAssumption DEF Callbacks
<1> QED
  BY <1>2, <1>7, <1>8

\* Nor do the steps of TCP and reassembly.
LEMMA UserAdds ==
    ASSUME IInv, StaticInv,
           UserSet \/ (\E rearms \in BOOLEAN : UserFires(rearms))
             \/ \E i \in Slots : UserCancel(i)
    PROVE  /\ \A i \in Slots : pool[i].cb = "mdns" => pool'[i].cb = "mdns"
           /\ UNCHANGED <<dhcp, mdns, mdnsSlot, robbed>>
<1>1. /\ pool \in ServicePools /\ TypeOK /\ "user" \in Callbacks
      /\ UserDelay \in Nat /\ \A i \in held : pool[i].cb = "user"
  BY Unfold, ServicesAssumption DEF IInv, HeldOwned, StaticInv, Callbacks
<1>2. UNCHANGED <<dhcp, mdns, mdnsSlot, robbed>>
  BY DEF UserSet, UserFires, UserCancel, Strikes, dhcpVars, mdnsVars
<1>3. CASE UserSet
  <2>1. pool' = timer_set(pool, "user", 0, UserDelay)
    BY <1>3 DEF UserSet, UserArm
  <2> QED
    BY <1>1, <1>2, <2>1, ArmAdds
<1>4. CASE \E rearms \in BOOLEAN : UserFires(rearms)
  <2>1. /\ Fires("user")
        /\ \/ pool' = Fired(pool, scan)
           \/ pool' = timer_set(Fired(pool, scan), "user", 0, UserDelay)
    BY <1>4 DEF UserFires, UserArm
  <2> QED
    BY <1>1, <1>2, <2>1, OtherFires
<1>5. CASE \E i \in Slots : UserCancel(i)
  <2>1. PICK j \in Slots : j \in held /\ pool' = CancelAll(pool, {j})
    BY <1>5 DEF UserCancel
  <2>2. \A i \in Slots : i \notin {j} => CancelAll(pool, {j})[i] = pool[i]
    BY <1>1, CancelAllKeeps
  <2> QED
    BY <1>1, <1>2, <2>1, <2>2
<1> QED
  BY <1>3, <1>4, <1>5

\* Every step of net_loop keeps StaticInv.
LEMMA StaticStep == ASSUME IInv, StaticInv, [Next]_vars PROVE StaticInv'
<1>0. TypeOK
  BY DEF IInv
<1>1. CASE mdns_timer_cb
  BY <1>0, <1>1, CycleStep
<1>2. CASE sys_watchdog_pet_cb
  BY <1>0, <1>2, OtherFires, CycleKept, ServicesAssumption
  DEF sys_watchdog_pet_cb, Callbacks, dhcpVars, mdnsVars, userVars
<1>3. CASE \E S \in SUBSET held : tcp_idle_reaper_rearm(S)
  BY <1>3, ReaperAdds, CycleKept, <1>0
<1>4. CASE arp_timer_cb
  BY <1>0, <1>4, OtherFires, CycleKept, ServicesAssumption
  DEF arp_timer_cb, Callbacks, dhcpVars, mdnsVars, userVars
<1>5. CASE ntp_timer_cb
  <2>1. NtpPoll * 2^pollShift \in Nat /\ "ntp" \in Callbacks
    BY <1>0, PollAssumption DEF TypeOK, Callbacks
  <2> QED
    BY <1>0, <1>5, <2>1, OtherFires, CycleKept
    DEF ntp_timer_cb, dhcpVars, mdnsVars, userVars
<1>6. CASE dhcp_retrans_cb \/ dhcp_t1_cb \/ dhcp_t2_cb \/ dhcp_lease_cb
  <2>1. PICK x \in {"retrans", "t1", "t2", "lease"}, e \in DhcpEvents,
             left \in {0, retries, retries - 1} :
            Fires(x) /\ dhcp_fsa_step(e, Fired(pool, scan), left)
    BY <1>6 DEF dhcp_retrans_cb, dhcp_t1_cb, dhcp_t2_cb, dhcp_lease_cb, DhcpEvents
  <2>2. pool' = Fired(pool, scan) /\ UNCHANGED <<dhcp, mdns, mdnsSlot, robbed>>
    BY <2>1, InitIgnores
  <2> QED
    BY <1>0, <2>1, <2>2, OtherFires, CycleKept
<1>7. CASE TimerCheckReturn \/ TimerCheck \/ PanicBlink \/ ntp_handle
           \/ (\E ip \in IPs : mdns_dispatch(ip)) \/ UNCHANGED vars
           \/ \E i \in Slots : UserForget(i)
  <2>1. UNCHANGED <<pool, dhcp, mdns, mdnsSlot, robbed>>
    BY <1>7 DEF TimerCheckReturn, TimerCheck, PanicBlink, ntp_handle,
                mdns_dispatch, UserForget, vars, loopVars, dhcpVars, mdnsVars,
                userVars
  <2> QED
    BY <1>0, <2>1, CycleKept
<1>8. CASE Tick
  <2>1. \A i \in Slots : pool'[i].cb = pool[i].cb
    <3>1. pool \in Pools(Callbacks, {0})
      BY <1>0 DEF TypeOK, Pools
    <3>2. \A i \in Slots : Elapse(pool)[i].cb = pool[i].cb
      BY <3>1, TimerElapse
    <3> QED
      BY <1>8, <3>2 DEF Tick
  <2> QED
    BY <1>0, <1>8, <2>1, CycleKept DEF Tick, mdnsVars, userVars
<1>9. \A e \in DhcpEvents : ~dhcp_dispatch(e)
  BY InitIgnores DEF dhcp_dispatch
<1>10. \A ip \in IPs, lease \in Leases : ~dhcp_dispatch_ack(ip, lease)
  BY InitIgnores DEF dhcp_dispatch_ack, DhcpEvents
<1>11. CASE UserSet \/ (\E rearms \in BOOLEAN : UserFires(rearms))
            \/ \E i \in Slots : UserCancel(i)
  BY <1>0, <1>11, UserAdds, CycleKept
<1> QED
  BY <1>1, <1>2, <1>3, <1>4, <1>5, <1>6, <1>7, <1>8, <1>9, <1>10, <1>11
  DEF Next, TimerStep, DhcpEvents

\* With a static address a probe or announce cycle keeps the timer that
\* continues it, however full the pool is and whatever the other services'
\* callbacks do to it.  (A lease that is committed over stale slot numbers can
\* take it away, so the theorem says nothing of a Pi that uses DHCP.)
THEOREM MdnsNeverStalls == ~UseDhcp => (Spec => []MdnsCycleArmed)
<1>1. ~UseDhcp /\ Init => StaticInv
  <2>1. SUFFICES ASSUME ~UseDhcp, Init PROVE StaticInv
    OBVIOUS
  <2> DEFINE S == {i \in Slots : pool[i].cb = "mdns"}
  <2>2. mdnsSlot = IF S = {} THEN NoSlot ELSE Min(S)
    BY <2>1 DEF Init, BootMdnsSlot
  <2>3. S # {} => Min(S) \in S
    <3>1. S \subseteq Nat
      BY CapAssumption DEF Slots
    <3> QED
      BY <3>1, MinInSet
  <2>4. dhcp = "S_INIT" /\ ~robbed
    BY <2>1 DEF Init
  <2> QED
    BY <2>2, <2>3, <2>4 DEF StaticInv, MdnsCycleArmed
<1>2. IInv /\ StaticInv /\ [Next]_vars => StaticInv'
  BY StaticStep
<1>3. StaticInv => MdnsCycleArmed
  BY DEF StaticInv
<1> QED
  BY <1>1, <1>2, <1>3, Invariance, PTL DEF Spec
=============================================================================
