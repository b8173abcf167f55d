---------------------------- MODULE IpReasmProofs ---------------------------
(***************************************************************************)
(* IpReasm for every number of slots, every pool, every buffer and every   *)
(* set of datagrams: the slots stay well formed, no slot remembers a timer *)
(* that is not its own before a blind cancel of a DHCP build has hit one   *)
(* of theirs, only whole datagrams are delivered, and the oracle of the    *)
(* test vectors gives every fragment the verdict that ip_reasm_input gives *)
(* it.                                                                     *)
(***************************************************************************)
EXTENDS IpReasm, TLAPS, WellFoundedInduction

(***************************************************************************)
(* What lib/timer_pool.S guarantees its callers, for every capacity.       *)
(***************************************************************************)

Pools(CB, CX) == [Slots -> [cb : CB, ctx : CX, left : Nat]]

\* The linear scans of timer_set and timer_check end at the least index.
LEMMA MinInSet ==
    ASSUME NEW S, S \subseteq Nat, S # {}
    PROVE  Min(S) \in S /\ \A y \in S : Min(S) <= y
<1>1. PICK x \in S : \A y \in S : ~(<<y, x>> \in OpToRel(<, Nat))
  BY NatLessThanWellFounded, WFMin
<1>2. \A y \in S : x <= y
  <2>1. SUFFICES ASSUME NEW y \in S PROVE x <= y
    OBVIOUS
  <2>2. ~(y < x)
    BY <1>1, <2>1 DEF OpToRel
  <2> QED
    BY <2>2
<1> QED
  BY <1>2 DEF Min

\* timer_set fills a slot that was free and leaves every other slot alone;
\* on a full pool it does nothing and says so.
LEMMA TimerSet ==
    ASSUME NEW CB, NEW CX, NEW p \in Pools(CB, CX),
           NEW cb \in CB, NEW ctx \in CX, NEW left \in Nat
    PROVE  /\ timer_set(p, cb, ctx, left) \in Pools(CB, CX)
           /\ timer_set_slot(p) \in Slots \cup {NoSlot}
           /\ timer_set_slot(p) # NoSlot =>
                /\ timer_set_slot(p) \in Slots
                /\ p[timer_set_slot(p)].cb = NoCb
                /\ \A i \in Slots : p[i].cb = NoCb => timer_set_slot(p) <= i
                /\ timer_set(p, cb, ctx, left)[timer_set_slot(p)]
                     = [cb |-> cb, ctx |-> ctx, left |-> left]
           /\ \A i \in Slots : i # timer_set_slot(p) =>
                timer_set(p, cb, ctx, left)[i] = p[i]
           /\ \A i \in Slots : p[i].cb # NoCb =>
                timer_set(p, cb, ctx, left)[i] = p[i]
<1>1. CASE FreeSlots(p) = {}
  BY <1>1, CapAssumption DEF timer_set, timer_set_slot, Pools, FreeSlots, Slots, NoSlot
<1>2. CASE FreeSlots(p) # {}
  <2>1. FreeSlots(p) \subseteq Nat
    BY CapAssumption DEF FreeSlots, Slots
  <2>2. /\ Min(FreeSlots(p)) \in FreeSlots(p)
        /\ \A y \in FreeSlots(p) : Min(FreeSlots(p)) <= y
    BY <1>2, <2>1, MinInSet
  <2>3. timer_set_slot(p) = Min(FreeSlots(p))
    BY <1>2 DEF timer_set_slot
  <2>4. timer_set(p, cb, ctx, left)
          = [p EXCEPT ![timer_set_slot(p)] =
                 [cb |-> cb, ctx |-> ctx, left |-> left]]
    BY <1>2 DEF timer_set
  <2>5. timer_set_slot(p) \in Slots /\ p[timer_set_slot(p)].cb = NoCb
    BY <2>2, <2>3 DEF FreeSlots
  <2>6. \A i \in Slots : p[i].cb = NoCb => timer_set_slot(p) <= i
    BY <2>2, <2>3 DEF FreeSlots
  <2>7. timer_set(p, cb, ctx, left) \in Pools(CB, CX)
    BY <2>4, <2>5 DEF Pools
  <2>8. timer_set(p, cb, ctx, left)[timer_set_slot(p)]
          = [cb |-> cb, ctx |-> ctx, left |-> left]
    BY <2>4, <2>5 DEF Pools
  <2>9. \A i \in Slots : i # timer_set_slot(p) =>
            timer_set(p, cb, ctx, left)[i] = p[i]
    BY <2>4, <2>5 DEF Pools
  <2>10. \A i \in Slots : p[i].cb # NoCb =>
            timer_set(p, cb, ctx, left)[i] = p[i]
    BY <2>5, <2>9
  <2> QED
    BY <2>5, <2>6, <2>7, <2>8, <2>9, <2>10
<1> QED
  BY <1>1, <1>2

\* timer_cancel frees at most the slot it is given.
LEMMA TimerCancel ==
    ASSUME NEW CB, NEW CX, NEW p \in Pools(CB, CX), NEW s,
           NoCb \in CB, 0 \in CX
    PROVE  /\ timer_cancel(p, s) \in Pools(CB, CX)
           /\ \A i \in Slots : i # s => timer_cancel(p, s)[i] = p[i]
           /\ s \in Slots => timer_cancel(p, s)[s].cb = NoCb
  BY DEF timer_cancel, Pools, Inactive

\* timer_check fires an active, expired slot at or after the scan index, and
\* the least such slot; only that slot is freed.
LEMMA TimerFire ==
    ASSUME NEW CB, NEW CX, NEW p \in Pools(CB, CX), NEW from,
           NoCb \in CB, 0 \in CX, Due(p, from) # {}
    PROVE  /\ Firing(p, from) \in Slots
           /\ Firing(p, from) >= from
           /\ p[Firing(p, from)].cb # NoCb
           /\ p[Firing(p, from)].left = 0
           /\ \A i \in Due(p, from) : Firing(p, from) <= i
           /\ Fired(p, from) \in Pools(CB, CX)
           /\ Fired(p, from)[Firing(p, from)].cb = NoCb
           /\ \A i \in Slots : i # Firing(p, from) => Fired(p, from)[i] = p[i]
<1>1. Due(p, from) \subseteq Nat
  BY CapAssumption DEF Due, Slots
<1>2. /\ Firing(p, from) \in Due(p, from)
      /\ \A i \in Due(p, from) : Firing(p, from) <= i
  BY <1>1, MinInSet DEF Firing
<1>3. /\ Firing(p, from) \in Slots /\ Firing(p, from) >= from
      /\ p[Firing(p, from)].cb # NoCb /\ p[Firing(p, from)].left = 0
  BY <1>2 DEF Due
<1>4. /\ Fired(p, from) \in Pools(CB, CX)
      /\ Fired(p, from)[Firing(p, from)].cb = NoCb
      /\ \A i \in Slots : i # Firing(p, from) => Fired(p, from)[i] = p[i]
  BY <1>3, TimerCancel DEF Fired
<1> QED
  BY <1>2, <1>3, <1>4

\* A tick changes no callback and no context, and takes at most one tick off
\* each countdown.
LEMMA TimerElapse ==
    ASSUME NEW CB, NEW CX, NEW p \in Pools(CB, CX)
    PROVE  /\ Elapse(p) \in Pools(CB, CX)
           /\ \A i \in Slots :
                /\ Elapse(p)[i].cb = p[i].cb /\ Elapse(p)[i].ctx = p[i].ctx
                /\ Elapse(p)[i].left
                     = IF p[i].left > 0 THEN p[i].left - 1 ELSE 0
<1>1. \A i \in Slots : p[i] \in [cb : CB, ctx : CX, left : Nat]
  BY DEF Pools
<1>2. \A i \in Slots : /\ Elapse(p)[i] \in [cb : CB, ctx : CX, left : Nat]
                       /\ Elapse(p)[i].cb = p[i].cb
                       /\ Elapse(p)[i].ctx = p[i].ctx
                       /\ Elapse(p)[i].left
                            = IF p[i].left > 0 THEN p[i].left - 1 ELSE 0
  BY <1>1 DEF Elapse
<1> QED
  BY <1>2 DEF Pools, Elapse

-----------------------------------------------------------------------------

RCbs == {NoCb, "reasm", "other"}

RCtxs == 0 .. R

RPools == Pools(RCbs, RCtxs)

\* The context of a reassembly timer is a slot: ip_reasm_timeout_cb writes
\* where it points to.
PoolOK(p) ==
    /\ p \in RPools
    /\ \A i \in Slots : p[i].cb = "reasm" => p[i].ctx \in ReasmSlots

\* A record's handle is a timer of its own slot, unless it was robbed.
HandleOK(p, r, k) ==
    ~robbed /\ k.active /\ k.timer # NoSlot =>
        p[k.timer].cb = "reasm" /\ p[k.timer].ctx = r

\* A record vouches only for what was copied since it was taken.
RecOK(k) ==
    k \in SlotRecord /\ (k.active => k.bits \subseteq k.fresh)

\* The inductive invariant.
IInv ==
    /\ PoolOK(pool)
    /\ scan \in -1 .. Cap /\ busy \in 0 .. MaxBusy
    /\ reasm \in [ReasmSlots -> SlotRecord]
    /\ \A r \in ReasmSlots : RecOK(reasm[r]) /\ HandleOK(pool, r, reasm[r])
    /\ OneSlotPerKey
    /\ whole = TRUE
    /\ kept \subseteq Slots
    /\ robbed \in BOOLEAN /\ (robbed => UseDhcp)

\* A step from pool p to pool q on behalf of slot r touches no timer of
\* another slot, unless handles have become stale, and makes none.
Keeps(p, q, r) ==
    /\ PoolOK(q)
    /\ ~robbed => \A i \in Slots : p[i].cb = "reasm" /\ p[i].ctx # r => q[i] = p[i]

-----------------------------------------------------------------------------
(* Units and bytes. *)

\* The units of a fragment that lies in the buffer are bits of the bitmap.
LEMMA CoveredBits ==
    ASSUME NEW off \in Bits, NEW len \in Nat, len > 0,
           off * Unit + len <= Unit * Units
    PROVE  /\ Covered(off, len) \subseteq Bits
           /\ off * Unit + len \in 0 .. Unit * Units
<1> DEFINE d == (len - 1) \div Unit
<1>1. /\ Unit \in Nat \ {0} /\ Units \in Nat \ {0} /\ off \in Nat
      /\ len - 1 \in Nat
  BY ReasmAssumption DEF Bits
<1>2. d \in Nat /\ d * Unit <= len - 1
  BY <1>1
<1>3. (off + d) * Unit = off * Unit + d * Unit /\ off * Unit \in Nat
  BY <1>1, <1>2
<1> HIDE DEF d
<1>4. (off + d) * Unit < Units * Unit
  BY <1>1, <1>2, <1>3
<1>5. off + d < Units
  BY <1>1, <1>2, <1>4
<1>6. Covered(off, len) \subseteq Bits
  BY <1>1, <1>2, <1>5 DEF Covered, Bits, d
<1> QED
  BY <1>1, <1>3, <1>6

\* What a fragment adds keeps the record well formed.
LEMMA AddedOK ==
    ASSUME NEW k, RecOK(k), NEW off \in Bits, NEW len \in Nat,
           NEW mf \in BOOLEAN, Valid(off, len, mf)
    PROVE  LET l == Added(k, off, len, mf)
           IN  /\ RecOK(l) /\ l.active = k.active /\ l.key = k.key
               /\ l.timer = k.timer
<1> DEFINE m == [k EXCEPT !.bits = @ \cup Covered(off, len),
                          !.fresh = @ \cup Covered(off, len)]
           l == Added(k, off, len, mf)
<1>1. /\ Covered(off, len) \subseteq Bits
      /\ off * Unit + len \in 0 .. Unit * Units
  BY CoveredBits DEF Valid
<1>2. /\ m \in SlotRecord /\ m.active = k.active /\ m.key = k.key
      /\ m.timer = k.timer
      /\ m.bits = k.bits \cup Covered(off, len)
      /\ m.fresh = k.fresh \cup Covered(off, len)
  BY <1>1 DEF RecOK, SlotRecord
<1>3. l = IF mf THEN m
          ELSE [m EXCEPT !.last = TRUE, !.total = off * Unit + len]
  BY DEF Added
<1> HIDE DEF m
<1>4. /\ l \in SlotRecord /\ l.active = m.active /\ l.key = m.key
      /\ l.timer = m.timer /\ l.bits = m.bits /\ l.fresh = m.fresh
  BY <1>1, <1>2, <1>3 DEF SlotRecord
<1> HIDE DEF l
<1>5. RecOK(l)
  BY <1>2, <1>4 DEF RecOK
<1> QED
  BY <1>2, <1>4, <1>5 DEF l

LEMMA FreedOK ==
    ASSUME NEW k \in SlotRecord, NEW p, NEW r
    PROVE  /\ RecOK(Freed(k)) /\ ~Freed(k).active /\ HandleOK(p, r, Freed(k))
           /\ Freed(k) \in SlotRecord
<1>1. 0 \in 0 .. Unit * Units
  BY ReasmAssumption
<1>2. Freed(k) \in SlotRecord /\ Freed(k).active = FALSE
  BY <1>1 DEF SlotRecord, Freed
<1> QED
  BY <1>2 DEF RecOK, HandleOK

-----------------------------------------------------------------------------
(* The pool on behalf of a slot. *)

LEMMA PoolFacts ==
    ASSUME NEW p, PoolOK(p)
    PROVE  p \in Pools(RCbs, RCtxs) /\ NoCb \in RCbs /\ 0 \in RCtxs
  BY ReasmAssumption DEF PoolOK, RPools, RCbs, RCtxs

LEMMA SlotFacts == ReasmSlots \subseteq RCtxs /\ NoSlot \notin Slots
  BY ReasmAssumption, CapAssumption DEF ReasmSlots, RCtxs, Slots, NoSlot

LEMMA KeepsTrans ==
    ASSUME NEW p, NEW q, NEW s, NEW r, Keeps(p, q, r), Keeps(q, s, r)
    PROVE  Keeps(p, s, r)
  BY DEF Keeps

LEMMA KeepsSame ==
    ASSUME NEW p, PoolOK(p), NEW r
    PROVE  Keeps(p, p, r)
  BY DEF Keeps

\* The timeout that a slot is given when it is taken.
LEMMA SetKeeps ==
    ASSUME NEW p, PoolOK(p), NEW r \in ReasmSlots
    PROVE  LET q == timer_set(p, "reasm", r, Timeout)
               s == timer_set_slot(p)
           IN  /\ Keeps(p, q, r)
               /\ s \in Slots \cup {NoSlot}
               /\ s # NoSlot => q[s].cb = "reasm" /\ q[s].ctx = r
<1> DEFINE q == timer_set(p, "reasm", r, Timeout)
           s == timer_set_slot(p)
<1>1. /\ p \in Pools(RCbs, RCtxs) /\ "reasm" \in RCbs /\ r \in RCtxs
      /\ Timeout \in Nat
  BY PoolFacts, SlotFacts, ReasmAssumption DEF RCbs
<1>2. /\ q \in Pools(RCbs, RCtxs)
      /\ s \in Slots \cup {NoSlot}
      /\ s # NoSlot => /\ s \in Slots
                       /\ q[s] = [cb |-> "reasm", ctx |-> r, left |-> Timeout]
      /\ \A i \in Slots : i # s => q[i] = p[i]
      /\ \A i \in Slots : p[i].cb # NoCb => q[i] = p[i]
  BY <1>1, TimerSet
<1>3. \A i \in Slots : p[i].cb = "reasm" => q[i] = p[i]
  BY <1>2 DEF NoCb
<1>4. \A i \in Slots : q[i].cb = "reasm" => q[i].ctx \in ReasmSlots
  BY <1>2, SlotFacts DEF PoolOK
<1> QED
  BY <1>2, <1>3, <1>4 DEF Keeps, PoolOK, RPools

LEMMA CancelKeeps ==
    ASSUME NEW p, PoolOK(p), NEW r, NEW s,
           ~robbed /\ s # NoSlot =>
               s \in Slots /\ (p[s].cb = "reasm" => p[s].ctx = r)
    PROVE  LET q == timer_cancel(p, s)
           IN  /\ Keeps(p, q, r)
               /\ \A i \in Slots : i # s => q[i] = p[i]
<1> DEFINE q == timer_cancel(p, s)
<1>1. p \in Pools(RCbs, RCtxs) /\ NoCb \in RCbs /\ 0 \in RCtxs
  BY PoolFacts
<1>2. /\ q \in Pools(RCbs, RCtxs)
      /\ \A i \in Slots : i # s => q[i] = p[i]
      /\ s \in Slots => q[s].cb = NoCb
  BY <1>1, TimerCancel
<1>3. ~robbed =>
        \A i \in Slots : p[i].cb = "reasm" /\ p[i].ctx # r => q[i] = p[i]
  BY <1>2, SlotFacts
<1>4. \A i \in Slots : q[i].cb = "reasm" => q[i].ctx \in ReasmSlots
  BY <1>2 DEF NoCb, PoolOK
<1> QED
  BY <1>2, <1>3, <1>4 DEF Keeps, PoolOK, RPools

-----------------------------------------------------------------------------
(* Steps. *)

\* Everything of the invariant that a step on behalf of one slot has to show.
LEMMA StepOK ==
    ASSUME IInv, NEW r \in ReasmSlots, NEW k, Keeps(pool, pool', r),
           RecOK(k), HandleOK(pool', r, k),
           \/ ~k.active
           \/ reasm[r].active /\ k.key = reasm[r].key
           \/ Holding(k.key) = {},
           reasm' = [reasm EXCEPT ![r] = k], whole' = TRUE,
           scan' \in -1 .. Cap, busy' \in 0 .. MaxBusy,
           UNCHANGED <<kept, robbed>>
    PROVE  IInv'
<1>1. PoolOK(pool')
  BY DEF Keeps
<1>2. k \in SlotRecord
  BY DEF RecOK
<1>3. reasm' \in [ReasmSlots -> SlotRecord]
  BY <1>2 DEF IInv
<1>4. /\ reasm'[r] = k
      /\ \A s \in ReasmSlots : s # r => reasm'[s] = reasm[s]
  BY DEF IInv
<1>5. \A s \in ReasmSlots : RecOK(reasm'[s]) /\ HandleOK(pool', s, reasm'[s])
  <2> SUFFICES ASSUME NEW s \in ReasmSlots, s # r
               PROVE  RecOK(reasm'[s]) /\ HandleOK(pool', s, reasm'[s])
    BY <1>4
  <2>1. /\ reasm'[s] = reasm[s] /\ RecOK(reasm[s])
        /\ HandleOK(pool, s, reasm[s])
    BY <1>4 DEF IInv
  <2>2. reasm[s].timer \in Slots \cup {NoSlot}
    BY <2>1 DEF RecOK, SlotRecord
  <2>3. ~robbed /\ reasm[s].active /\ reasm[s].timer # NoSlot
          => pool'[reasm[s].timer] = pool[reasm[s].timer]
    BY <2>1, <2>2 DEF HandleOK, Keeps
  <2> QED
    BY <2>1, <2>3 DEF HandleOK
<1>6. OneSlotPerKey'
  <2> SUFFICES ASSUME NEW s \in ReasmSlots, NEW t \in ReasmSlots, s # t,
                      reasm'[s].active, reasm'[t].active,
                      reasm'[s].key = reasm'[t].key
               PROVE  FALSE
    BY DEF OneSlotPerKey
  <2>1. \A x \in ReasmSlots : x # r /\ reasm'[x].active
                              /\ reasm'[x].key = k.key /\ k.active => FALSE
    BY <1>4 DEF IInv, OneSlotPerKey, Holding
  <2> QED
    BY <1>4, <2>1 DEF IInv, OneSlotPerKey
<1> QED
  BY <1>1, <1>3, <1>5, <1>6 DEF IInv, HandleOK

\* What the fragment's record starts from, and the pool that goes with it:
\* the slot that holds its key, or a free one with a timeout.
Entered(r, key) == IF reasm[r].active THEN reasm[r] ELSE Taken(reasm[r], key)
EnteredPool(r) ==
    IF reasm[r].active THEN pool ELSE timer_set(pool, "reasm", r, Timeout)

LEMMA EnteredOK ==
    ASSUME IInv, NEW key \in Keys, NEW off, NEW len,
           NEW r \in Target(key, off, len)
    PROVE  LET k == Entered(r, key)
               p == EnteredPool(r)
           IN  /\ r \in ReasmSlots
               /\ Keeps(pool, p, r)
               /\ RecOK(k) /\ HandleOK(p, r, k) /\ k.active /\ k.key = key
               /\ \/ reasm[r].active /\ key = reasm[r].key
                  \/ Holding(key) = {}
<1> DEFINE k == Entered(r, key)
           p == EnteredPool(r)
<1>1. Holding(key) \subseteq Nat /\ Unused \subseteq Nat
  BY DEF Holding, Unused, ReasmSlots
<1>2. \/ r \in Holding(key)
      \/ r \in Unused /\ Holding(key) = {}
  BY <1>1, MinInSet DEF Target
<1>3. r \in ReasmSlots
  BY <1>2 DEF Holding, Unused
<1>4. RecOK(reasm[r]) /\ HandleOK(pool, r, reasm[r]) /\ PoolOK(pool)
  BY <1>3 DEF IInv
<1>5. CASE r \in Holding(key)
  <2>1. reasm[r].active /\ reasm[r].key = key
    BY <1>5 DEF Holding
  <2>2. k = reasm[r] /\ p = pool
    BY <2>1 DEF Entered, EnteredPool
  <2> HIDE DEF k, p
  <2>3. Keeps(pool, p, r)
    BY <1>4, <2>2, KeepsSame
  <2> QED
    BY <1>3, <1>4, <2>1, <2>2, <2>3 DEF k, p
<1>6. CASE r \in Unused /\ Holding(key) = {}
  <2> DEFINE s == timer_set_slot(pool)
             f == Freed(reasm[r])
  <2>1. /\ k = [f EXCEPT !.active = TRUE, !.key = key, !.bits = {}, !.timer = s]
        /\ p = timer_set(pool, "reasm", r, Timeout)
    BY <1>6 DEF Entered, EnteredPool, Unused, Taken
  <2>2. /\ Keeps(pool, p, r)
        /\ s \in Slots \cup {NoSlot}
        /\ s # NoSlot => p[s].cb = "reasm" /\ p[s].ctx = r
    BY <1>3, <1>4, <2>1, SetKeeps
  <2>3. f \in SlotRecord
    BY <1>4, FreedOK DEF RecOK
  <2> HIDE DEF s, f, k, p
  <2>4. /\ k \in SlotRecord /\ k.active = TRUE /\ k.key = key /\ k.bits = {}
        /\ k.timer = s
    BY <2>1, <2>2, <2>3 DEF SlotRecord
  <2>5. RecOK(k) /\ HandleOK(p, r, k)
    BY <2>2, <2>4 DEF RecOK, HandleOK
  <2> QED
    BY <1>3, <1>6, <2>2, <2>4, <2>5 DEF k, p
<1> QED
  BY <1>2, <1>5, <1>6

\* ip_reasm_input once the fragment is in the record.
LEMMA AddFragmentOK ==
    ASSUME IInv, NEW r \in ReasmSlots, NEW p, Keeps(pool, p, r),
           NEW k, RecOK(k), HandleOK(p, r, k), k.active,
           \/ reasm[r].active /\ k.key = reasm[r].key
           \/ Holding(k.key) = {},
           AddFragment(p, r, k), UNCHANGED <<scan, busy, kept, robbed>>
    PROVE  IInv'
<1>1. PoolOK(p) /\ k \in SlotRecord /\ scan' \in -1 .. Cap /\ busy' \in 0 .. MaxBusy
  BY DEF Keeps, RecOK, IInv
<1> DEFINE f == Freed(k)
<1>2. RecOK(f) /\ ~f.active /\ HandleOK(pool', r, f)
  BY <1>1, FreedOK
<1> HIDE DEF f
<1>3. CASE /\ Complete(k)
           /\ pool' = timer_cancel(p, k.timer)
           /\ reasm' = [reasm EXCEPT ![r] = f]
           /\ whole' = (whole /\ WholeUnits(k) \subseteq k.fresh)
  <2>1. ~robbed /\ k.timer # NoSlot =>
          k.timer \in Slots /\ (p[k.timer].cb = "reasm" => p[k.timer].ctx = r)
    BY <1>1 DEF HandleOK, SlotRecord
  <2>2. Keeps(p, pool', r)
    BY <1>1, <1>3, <2>1, CancelKeeps
  <2>3. Keeps(pool, pool', r)
    BY <2>2, KeepsTrans
  <2>4. whole' = TRUE
    BY <1>3 DEF Complete, RecOK, IInv
  <2> QED
    BY <1>1, <1>2, <1>3, <2>3, <2>4, StepOK
<1>4. CASE /\ pool' = p /\ reasm' = [reasm EXCEPT ![r] = f]
           /\ UNCHANGED whole
  BY <1>1, <1>2, <1>4, StepOK DEF IInv
<1>5. CASE /\ pool' = p /\ reasm' = [reasm EXCEPT ![r] = k]
           /\ UNCHANGED whole
  BY <1>1, <1>5, StepOK DEF IInv
<1> QED
  BY <1>3, <1>4, <1>5 DEF AddFragment, f

LEMMA InputOK ==
    ASSUME IInv, NEW key \in Keys, NEW off \in Bits,
           NEW len \in 1 .. Unit * Units, NEW mf \in BOOLEAN,
           ip_reasm_input(key, off, len, mf)
    PROVE  IInv'
<1>1. PICK r \in Target(key, off, len) :
          AddFragment(EnteredPool(r), r, Added(Entered(r, key), off, len, mf))
  BY DEF ip_reasm_input, EnteredPool, Entered, Slotted
<1>2. /\ Valid(off, len, mf) /\ UNCHANGED <<scan, busy, kept, robbed>>
      /\ len \in Nat
  BY DEF ip_reasm_input
<1> DEFINE k == Entered(r, key)
           p == EnteredPool(r)
           l == Added(k, off, len, mf)
<1>3. /\ r \in ReasmSlots /\ Keeps(pool, p, r)
      /\ RecOK(k) /\ HandleOK(p, r, k) /\ k.active /\ k.key = key
      /\ \/ reasm[r].active /\ key = reasm[r].key
         \/ Holding(key) = {}
  BY EnteredOK
<1> HIDE DEF k, p
<1>4. RecOK(l) /\ l.active = k.active /\ l.key = k.key /\ l.timer = k.timer
  BY <1>2, <1>3, AddedOK
<1>5. HandleOK(p, r, l)
  BY <1>3, <1>4 DEF HandleOK
<1>6. AddFragment(p, r, l)
  BY <1>1 DEF k, p
<1> HIDE DEF l
<1> QED
  BY <1>2, <1>3, <1>4, <1>5, <1>6, AddFragmentOK

\* A step that leaves the slots and, unless it robs, their timers alone.
LEMMA QuietOK ==
    ASSUME IInv, PoolOK(pool'),
           ~robbed' =>
               /\ ~robbed
               /\ \A i \in Slots : pool[i].cb = "reasm"
                    => pool'[i].cb = "reasm" /\ pool'[i].ctx = pool[i].ctx,
           reasm' = reasm, whole' = whole,
           scan' \in -1 .. Cap, busy' \in 0 .. MaxBusy,
           kept' \subseteq Slots, robbed' \in BOOLEAN, robbed' => UseDhcp
    PROVE  IInv'
<1>1. \A r \in ReasmSlots : RecOK(reasm'[r]) /\ HandleOK(pool, r, reasm[r])'
  <2> SUFFICES ASSUME NEW r \in ReasmSlots
               PROVE  RecOK(reasm[r]) /\ HandleOK(pool, r, reasm[r])'
    OBVIOUS
  <2>1. RecOK(reasm[r]) /\ HandleOK(pool, r, reasm[r])
    BY DEF IInv
  <2>2. reasm[r].timer \in Slots \cup {NoSlot}
    BY <2>1 DEF RecOK, SlotRecord
  <2> QED
    BY <2>1, <2>2 DEF HandleOK
<1> QED
  BY <1>1 DEF IInv, OneSlotPerKey

\* timer_check, about to call a callback.
LEMMA FireFacts ==
    ASSUME IInv, NEW cb, Fires(cb)
    PROVE  LET f == Firing(pool, scan)
           IN  /\ f \in Slots /\ pool[f].cb = cb
               /\ scan' \in -1 .. Cap /\ busy' \in 0 .. MaxBusy
               /\ whole' = whole /\ robbed' = robbed
<1> DEFINE f == Firing(pool, scan)
<1>1. PoolOK(pool)
  BY DEF IInv
<1>2. f \in Slots
  BY <1>1, PoolFacts, TimerFire DEF Fires
<1>3. /\ pool[f].cb = cb /\ scan' = f + 1 /\ busy' = busy /\ whole' = whole
      /\ robbed' = robbed
  BY DEF Fires
<1> QED
  BY <1>2, <1>3, CapAssumption DEF Slots, IInv

LEMMA TimeoutOK ==
    ASSUME IInv, ip_reasm_timeout_cb
    PROVE  IInv'
<1> DEFINE f == Firing(pool, scan)
           r == pool[f].ctx
           k == Freed(reasm[r])
<1>1. /\ Fires("reasm") /\ pool' = timer_cancel(pool, f)
      /\ reasm' = [reasm EXCEPT ![r] = k] /\ kept' = kept
  BY DEF ip_reasm_timeout_cb, Fired
<1>2. /\ f \in Slots /\ pool[f].cb = "reasm"
      /\ scan' \in -1 .. Cap /\ busy' \in 0 .. MaxBusy /\ whole' = whole
      /\ robbed' = robbed
  BY <1>1, FireFacts
<1>3. r \in ReasmSlots /\ PoolOK(pool)
  BY <1>2 DEF IInv, PoolOK
<1>4. Keeps(pool, pool', r)
  BY <1>1, <1>2, <1>3, CancelKeeps
<1>5. RecOK(k) /\ ~k.active /\ HandleOK(pool', r, k)
  BY <1>3, FreedOK DEF IInv
<1>6. whole' = TRUE
  BY <1>2 DEF IInv
<1> HIDE DEF k, r
<1> QED
  BY <1>1, <1>2, <1>3, <1>4, <1>5, <1>6, StepOK

\* timer_set for another user, in a pool that holds the timers of this one.
LEMMA OtherArmOK ==
    ASSUME NEW p, PoolOK(p), kept \subseteq Slots, OtherArm(p)
    PROVE  /\ PoolOK(pool') /\ kept' \subseteq Slots
           /\ \A i \in Slots : p[i].cb = "reasm" => pool'[i] = p[i]
<1> DEFINE s == timer_set_slot(p)
<1>1. pool' = timer_set(p, "other", 0, Timeout) /\ kept' \subseteq Slots
  BY DEF OtherArm
<1>2. /\ p \in Pools(RCbs, RCtxs) /\ "other" \in RCbs /\ 0 \in RCtxs
      /\ Timeout \in Nat
  BY PoolFacts, ReasmAssumption DEF RCbs
<1>3. /\ pool' \in Pools(RCbs, RCtxs)
      /\ s \in Slots \cup {NoSlot}
      /\ s # NoSlot =>
           pool'[s] = [cb |-> "other", ctx |-> 0, left |-> Timeout]
      /\ \A i \in Slots : i # s => pool'[i] = p[i]
      /\ \A i \in Slots : p[i].cb # NoCb => pool'[i] = p[i]
  BY <1>1, <1>2, TimerSet
<1>4. \A i \in Slots : pool'[i].cb = "reasm" => pool'[i] = p[i]
  BY <1>3, SlotFacts
<1>5. PoolOK(pool')
  BY <1>2, <1>3, <1>4 DEF PoolOK, RPools
<1>6. \A i \in Slots : p[i].cb = "reasm" => pool'[i] = p[i]
  BY <1>3 DEF NoCb
<1> QED
  BY <1>1, <1>5, <1>6

LEMMA OtherSetOK ==
    ASSUME IInv, OtherSet
    PROVE  IInv'
<1>1. PoolOK(pool) /\ kept \subseteq Slots /\ OtherArm(pool)
  BY DEF IInv, OtherSet
<1>2. /\ PoolOK(pool') /\ kept' \subseteq Slots
      /\ \A i \in Slots : pool[i].cb = "reasm" => pool'[i] = pool[i]
  BY <1>1, OtherArmOK
<1>3. /\ scan' \in -1 .. Cap /\ busy' \in 0 .. MaxBusy /\ reasm' = reasm
      /\ whole' = whole /\ robbed' = robbed /\ robbed \in BOOLEAN
      /\ (robbed => UseDhcp)
  BY DEF IInv, OtherSet
<1> QED
  BY <1>2, <1>3, QuietOK

\* timer_cancel for it, and timer_check about to call it.
LEMMA OtherFreeOK ==
    ASSUME IInv, NEW i \in Slots
    PROVE  /\ PoolOK(timer_cancel(pool, i))
           /\ \A j \in Slots : j # i => timer_cancel(pool, i)[j] = pool[j]
<1>1. pool \in Pools(RCbs, RCtxs) /\ NoCb \in RCbs /\ 0 \in RCtxs
  BY PoolFacts DEF IInv
<1>2. /\ timer_cancel(pool, i) \in Pools(RCbs, RCtxs)
      /\ \A j \in Slots : j # i => timer_cancel(pool, i)[j] = pool[j]
      /\ timer_cancel(pool, i)[i].cb = NoCb
  BY <1>1, TimerCancel
<1> QED
  BY <1>2 DEF IInv, PoolOK, RPools, NoCb

LEMMA OtherFiresOK ==
    ASSUME IInv, NEW rearms \in BOOLEAN, OtherFires(rearms)
    PROVE  IInv'
<1> DEFINE f == Firing(pool, scan)
           q == Fired(pool, scan)
<1>1. Fires("other") /\ reasm' = reasm
  BY DEF OtherFires
<1>2. /\ f \in Slots /\ pool[f].cb = "other"
      /\ scan' \in -1 .. Cap /\ busy' \in 0 .. MaxBusy /\ whole' = whole
      /\ robbed' = robbed
  BY <1>1, FireFacts
<1>3. q = timer_cancel(pool, f)
  BY DEF Fired
<1>4. PoolOK(q) /\ \A j \in Slots : j # f => q[j] = pool[j]
  BY <1>2, <1>3, OtherFreeOK
<1>5. \A j \in Slots : pool[j].cb = "reasm" => q[j] = pool[j]
  BY <1>2, <1>4
<1>6. /\ kept \subseteq Slots /\ robbed \in BOOLEAN /\ (robbed => UseDhcp)
  BY DEF IInv
<1>7. /\ PoolOK(pool') /\ kept' \subseteq Slots
      /\ \A j \in Slots : pool[j].cb = "reasm" => pool'[j] = pool[j]
  <2>1. CASE pool' = q /\ kept' = kept
    BY <1>4, <1>5, <1>6, <2>1
  <2>2. CASE OtherArm(q)
    <3> HIDE DEF q
    <3>1. /\ PoolOK(pool') /\ kept' \subseteq Slots
          /\ \A j \in Slots : q[j].cb = "reasm" => pool'[j] = q[j]
      BY <1>4, <1>6, <2>2, OtherArmOK
    <3> QED
      BY <1>5, <3>1
  <2> QED
    BY <2>1, <2>2 DEF OtherFires
<1> QED
  BY <1>1, <1>2, <1>6, <1>7, QuietOK

\* The only step that robs.
LEMMA OtherCancelOK ==
    ASSUME IInv, NEW i \in Slots, OtherCancel(i)
    PROVE  IInv'
<1>1. /\ (UseDhcp \/ pool[i].cb = "other")
      /\ pool' = timer_cancel(pool, i) /\ kept' = kept \ {i}
      /\ robbed' = (robbed \/ pool[i].cb = "reasm")
      /\ scan' = scan /\ busy' = busy /\ reasm' = reasm /\ whole' = whole
  BY DEF OtherCancel
<1>2. PoolOK(pool') /\ \A j \in Slots : j # i => pool'[j] = pool[j]
  BY <1>1, OtherFreeOK
<1>3. ~robbed' => ~robbed /\ pool[i].cb # "reasm"
  BY <1>1
<1>4. ~robbed' => \A j \in Slots : pool[j].cb = "reasm" => pool'[j] = pool[j]
  BY <1>2, <1>3
<1>5. /\ scan' \in -1 .. Cap /\ busy' \in 0 .. MaxBusy /\ robbed' \in BOOLEAN
      /\ robbed \in BOOLEAN /\ (robbed => UseDhcp) /\ kept' \subseteq Slots
  BY <1>1 DEF IInv
<1>6. robbed' => UseDhcp
  BY <1>1, <1>5
<1> QED
  BY <1>1, <1>2, <1>3, <1>4, <1>5, <1>6, QuietOK

LEMMA TickOK ==
    ASSUME IInv, Tick
    PROVE  IInv'
<1>1. /\ pool' = Elapse(pool) /\ reasm' = reasm /\ whole' = whole
      /\ scan' = scan /\ busy' = busy + 1 /\ busy < MaxBusy
      /\ kept' = kept /\ robbed' = robbed
  BY DEF Tick
<1>2. pool \in Pools(RCbs, RCtxs) /\ PoolOK(pool)
  BY PoolFacts DEF IInv
<1>3. /\ pool' \in Pools(RCbs, RCtxs)
      /\ \A i \in Slots : pool'[i].cb = pool[i].cb /\ pool'[i].ctx = pool[i].ctx
  BY <1>1, <1>2, TimerElapse
<1>4. PoolOK(pool')
  BY <1>2, <1>3 DEF PoolOK, RPools
<1>5. scan' \in -1 .. Cap /\ busy' \in 0 .. MaxBusy
  BY <1>1, ReasmAssumption DEF IInv
<1>6. kept \subseteq Slots /\ robbed \in BOOLEAN /\ (robbed => UseDhcp)
  BY DEF IInv
<1> QED
  BY <1>1, <1>3, <1>4, <1>5, <1>6, QuietOK

-----------------------------------------------------------------------------
(* The specification. *)

LEMMA InitOK == Init => IInv
<1> SUFFICES ASSUME Init PROVE IInv
  OBVIOUS
<1>1. pool \in Pools(RCbs, RCtxs) /\ \A i \in Slots : pool[i].cb # "reasm"
  BY ReasmAssumption DEF Init, timer_pool_init, Inactive, Pools, RCbs, RCtxs, NoCb
<1>2. PoolOK(pool)
  BY <1>1 DEF PoolOK, RPools
<1>3. /\ scan \in -1 .. Cap /\ busy \in 0 .. MaxBusy /\ whole = TRUE
      /\ kept = {} /\ robbed = FALSE
  BY CapAssumption, ReasmAssumption DEF Init, Dispatching
<1> DEFINE z == [active |-> FALSE, key |-> NoKey, last |-> FALSE, total |-> 0,
                 timer |-> NoSlot, bits |-> {}, fresh |-> {}]
<1>4. 0 \in 0 .. Unit * Units
  BY ReasmAssumption
<1>5. z \in SlotRecord /\ z.active = FALSE
  BY <1>4 DEF SlotRecord
<1>6. reasm = [r \in ReasmSlots |-> z]
  BY DEF Init, ip_reasm_init
<1> HIDE DEF z
<1>7. \A r \in ReasmSlots : reasm[r] = z
  BY <1>6
<1> QED
  BY <1>2, <1>3, <1>5, <1>6, <1>7 DEF IInv, RecOK, HandleOK, OneSlotPerKey

LEMMA NextOK == IInv /\ [Next]_vars => IInv'
<1> SUFFICES ASSUME IInv, [Next]_vars PROVE IInv'
  OBVIOUS
<1>1. CASE UNCHANGED vars
  BY <1>1, QuietOK DEF vars, IInv
<1>2. CASE TimerCheck
  <2>1. scan' \in -1 .. Cap
    BY <1>2, CapAssumption DEF TimerCheck
  <2> QED
    BY <1>2, <2>1, QuietOK DEF TimerCheck, IInv
<1>3. CASE TimerCheckReturn
  <2>1. scan' \in -1 .. Cap /\ busy' \in 0 .. MaxBusy
    BY <1>3, CapAssumption, ReasmAssumption DEF TimerCheckReturn, Dispatching
  <2> QED
    BY <1>3, <2>1, QuietOK DEF TimerCheckReturn, IInv
<1>4. ASSUME NEW key \in Keys, NEW off \in Bits, NEW len \in 1 .. Unit * Units,
             NEW mf \in BOOLEAN, ip_reasm_input(key, off, len, mf)
      PROVE  IInv'
  BY <1>4, InputOK
<1>5. ASSUME NEW rearms \in BOOLEAN, OtherFires(rearms) PROVE IInv'
  BY <1>5, OtherFiresOK
<1>6. ASSUME NEW i \in Slots, OtherCancel(i) PROVE IInv'
  BY <1>6, OtherCancelOK
<1> QED
  BY <1>1, <1>2, <1>3, <1>4, <1>5, <1>6, TimeoutOK, OtherSetOK, TickOK
  DEF Next, TimerStep

\* IInv holds in every reachable state of the reassembly slots and of the
\* timers they remember.
THEOREM Invariance == Spec => []IInv
  BY InitOK, NextOK, PTL DEF Spec

\* The fragments of a datagram are in one slot, and a bitmap vouches only for
\* bytes copied since its slot was taken, whatever the fragments are.
THEOREM SlotsSafe == Spec => []SlotInv
<1>1. IInv => SlotInv
  BY DEF IInv, SlotInv, TypeOK, BitmapFresh, RecOK, PoolOK, RPools, Pools,
         RCbs, RCtxs
<1> QED
  BY <1>1, Invariance, PTL

\* Until a blind cancel in a DHCP build has hit a reassembly timer, so always
\* with a static address, completing a datagram cancels its own timeout and
\* nobody else's.
THEOREM HandleSafe == Spec => []ReasmHandleOwned
<1>1. IInv => ReasmHandleOwned
  BY DEF IInv, ReasmHandleOwned, HandleOK, OwnTimer
<1> QED
  BY <1>1, Invariance, PTL

\* No datagram is handed on with a unit that no fragment of it has filled.
THEOREM WholeDelivered == Spec => []DeliversWhole
<1>1. IInv => DeliversWhole
  BY DEF IInv, DeliversWhole
<1> QED
  BY <1>1, Invariance, PTL

-----------------------------------------------------------------------------
(* reasm_oracle.py. *)

\* make_bitmap, which divides byte offsets, marks the units of Covered, which
\* divides only the length.
LEMMA OracleBits ==
    ASSUME NEW off \in Bits, NEW len \in Nat, len > 0
    PROVE  Oracle!make_bitmap(off * Unit, off * Unit + len) = Covered(off, len)
<1>1. Unit \in Nat \ {0} /\ off \in Nat /\ len - 1 \in Nat /\ off * Unit \in Nat
  BY ReasmAssumption DEF Bits
<1>2. (off * Unit + len) - 1 = off * Unit + (len - 1)
  BY <1>1
<1>3. (off * Unit + (len - 1)) \div Unit = off + (len - 1) \div Unit
  BY <1>1
<1>4. (off * Unit) \div Unit = off
  BY <1>1
<1>5. ((off * Unit + len) - 1) \div Unit = off + (len - 1) \div Unit
  BY <1>2, <1>3
<1>6. Oracle!make_bitmap(off * Unit, off * Unit + len)
        = (off * Unit) \div Unit .. ((off * Unit + len) - 1) \div Unit
  BY Zenon DEF Oracle!make_bitmap
<1> QED
  BY <1>4, <1>5, <1>6, Zenon DEF Covered

\* Steps 6 to 9 of the oracle against the record that the fragment makes.
LEMMA OracleAccepts ==
    ASSUME NEW j \in SlotRecord, NEW off \in Bits, NEW len \in Nat, len > 0,
           NEW mf \in BOOLEAN
    PROVE  LET k == Added(j, off, len, mf)
               said == Oracle!Accepts(j.bits, j.last, j.total, off * Unit, len,
                                      mf)
           IN  \/ /\ Complete(k)
                  /\ ~said.active
                  /\ said.reason = IF k.total <= FrameBytes
                                   THEN "ok_complete" ELSE "drop_oversized"
               \/ /\ ~Complete(k)
                  /\ said.reason = "ok_incomplete"
                  /\ said.last = k.last
                  /\ said.total = k.total
                  /\ said.bits = k.bits
<1> DEFINE m == [j EXCEPT !.bits = @ \cup Covered(off, len),
                          !.fresh = @ \cup Covered(off, len)]
           k == Added(j, off, len, mf)
           said == Oracle!Accepts(j.bits, j.last, j.total, off * Unit, len, mf)
           bm == j.bits \cup Covered(off, len)
           last == j.last \/ ~mf
           total == IF mf THEN j.total ELSE off * Unit + len
           all == last /\ 0 .. (total + Unit - 1) \div Unit - 1 \subseteq bm
<1>1. /\ m.bits = bm /\ m.last = j.last /\ m.total = j.total
      /\ DOMAIN m = DOMAIN j
  BY DEF SlotRecord
<1>2. k = IF mf THEN m
          ELSE [m EXCEPT !.last = TRUE, !.total = off * Unit + len]
  BY DEF Added
<1>3. "last" \in DOMAIN j /\ "total" \in DOMAIN j /\ "bits" \in DOMAIN j
  BY DEF SlotRecord
<1> HIDE DEF m
<1>4. k.bits = bm /\ k.last = last /\ k.total = total
  <2>1. CASE mf
    BY <1>1, <1>2, <2>1 DEF SlotRecord
  <2>2. CASE ~mf
    BY <1>1, <1>2, <1>3, <2>2
  <2> QED
    BY <2>1, <2>2
<1> HIDE DEF k
<1>5. Complete(k) <=> all
  BY <1>4 DEF Complete, WholeUnits
<1>6. bm = j.bits \cup Oracle!make_bitmap(off * Unit, off * Unit + len)
  BY OracleBits
<1>7. said = IF ~all
             THEN [reason |-> "ok_incomplete", active |-> TRUE, last |-> last,
                   total |-> total, bits |-> bm]
             ELSE [reason |-> IF total > FrameBytes THEN "drop_oversized"
                                                    ELSE "ok_complete",
                   active |-> FALSE, last |-> FALSE, total |-> 0, bits |-> {}]
  BY <1>6 DEF Oracle!Accepts, Oracle!Predicts, Oracle!bitmap_all_set,
              Oracle!EMPTY_BITMAP
<1>8. (total > FrameBytes) <=> ~(total <= FrameBytes)
  <2>1. total \in Int /\ FrameBytes \in Int
    BY ReasmAssumption DEF SlotRecord, Bits
  <2> QED
    BY <2>1
<1> HIDE DEF said, all, bm, last, total
<1>9. CASE all
  <2>1. /\ said.active = FALSE
        /\ said.reason = IF total > FrameBytes THEN "drop_oversized"
                                               ELSE "ok_complete"
    BY <1>7, <1>9
  <2> QED
    BY <1>4, <1>5, <1>8, <1>9, <2>1 DEF k, said
<1>10. CASE ~all
  <2>1. /\ said.reason = "ok_incomplete" /\ said.last = last
        /\ said.total = total /\ said.bits = bm
    BY <1>7, <1>10
  <2> QED
    BY <1>4, <1>5, <1>10, <2>1 DEF k, said
<1> QED
  BY <1>9, <1>10

\* What the oracle is told of the fragment's slot.
Pre(key) ==
    IF Holding(key) # {} THEN reasm[Min(Holding(key))]
    ELSE [active |-> FALSE, last |-> FALSE, total |-> 0, bits |-> {}]

Said(key, off, len, mf) ==
    Oracle!oracle(Pre(key), off * Unit, len, mf, Unused # {})

\* A fragment that ip_reasm_input refuses before it looks for a slot.
LEMMA OracleInvalid ==
    ASSUME NEW key, NEW off \in Bits, NEW len \in Nat, NEW mf \in BOOLEAN,
           ~Valid(off, len, mf)
    PROVE  Said(key, off, len, mf).reason \in {"drop_bounds", "drop_nonaligned"}
<1>1. off * Unit + len \in Int /\ Unit * Units \in Int
  BY ReasmAssumption DEF Bits
<1> DEFINE bad == len < 1 \/ off * Unit + len > Unit * Units
           odd == len >= 1 /\ off * Unit + len <= Unit * Units
                  /\ mf /\ len % Unit # 0
<1>2. (bad \/ odd) /\ ~(bad /\ odd)
  BY <1>1 DEF Valid
<1> DEFINE Drop(reason) ==
             Oracle!Predicts(reason, Pre(key).active, Pre(key).last,
                             Pre(key).total, Pre(key).bits)
<1>3. bad => Said(key, off, len, mf) = Drop("drop_bounds")
  BY <1>2 DEF Said, Oracle!oracle
<1>4. odd => Said(key, off, len, mf) = Drop("drop_nonaligned")
  BY <1>2 DEF Said, Oracle!oracle
<1>5. \A x : Drop(x).reason = x
  BY DEF Oracle!Predicts
<1> HIDE DEF Drop
<1> QED
  BY <1>2, <1>3, <1>4, <1>5

\* What the oracle says of a valid one.
LEMMA OracleValid ==
    ASSUME NEW key, NEW off \in Bits, NEW len \in Nat, NEW mf \in BOOLEAN,
           Valid(off, len, mf), Pre(key).active \in BOOLEAN,
           Pre(key).last \in BOOLEAN
    PROVE  LET pre == Pre(key)
               said == Said(key, off, len, mf)
           IN  /\ ~pre.active /\ Unused = {} => said.reason = "drop_no_slot"
               /\ pre.active /\ pre.bits \cap Covered(off, len) # {}
                    => said.reason = "drop_overlap"
               /\ pre.active /\ pre.bits \cap Covered(off, len) = {}
                    => said = Oracle!Accepts(pre.bits, pre.last, pre.total,
                                             off * Unit, len, mf)
               /\ ~pre.active /\ Unused # {}
                    => said = Oracle!Accepts({}, FALSE, 0, off * Unit, len, mf)
<1> DEFINE pre == Pre(key)
           said == Said(key, off, len, mf)
           free == Unused # {}
           bm == IF pre.active THEN pre.bits ELSE {}
           new == Oracle!make_bitmap(off * Unit, off * Unit + len)
           Drop(reason) == Oracle!Predicts(reason, pre.active, pre.last,
                                           pre.total, pre.bits)
<1>1. /\ ~(len < 1 \/ off * Unit + len > Unit * Units)
      /\ ~(/\ len >= 1 /\ off * Unit + len <= Unit * Units
           /\ mf /\ len % Unit # 0)
  <2>1. off * Unit + len \in Int /\ Unit * Units \in Int
    BY ReasmAssumption DEF Bits
  <2> QED
    BY <2>1 DEF Valid
<1>2. new = Covered(off, len)
  BY OracleBits DEF Valid
<1>3. said = CASE ~pre.active /\ ~free ->
                      Oracle!Predicts("drop_no_slot", TRUE, FALSE, 0, {})
               [] pre.active /\ bm \cap new # {} -> Drop("drop_overlap")
               [] OTHER -> Oracle!Accepts(bm, pre.active /\ pre.last,
                                          IF pre.active THEN pre.total ELSE 0,
                                          off * Unit, len, mf)
  BY <1>1 DEF Said, Oracle!oracle, Oracle!EMPTY_BITMAP
<1> HIDE DEF pre, said, free, new
<1>4. ~pre.active /\ ~free => said.reason = "drop_no_slot"
  BY <1>3 DEF Oracle!Predicts
<1>5. pre.active /\ pre.bits \cap new # {} => said.reason = "drop_overlap"
  BY <1>3 DEF Oracle!Predicts
<1>6. pre.active /\ pre.bits \cap new = {}
        => said = Oracle!Accepts(pre.bits, pre.active /\ pre.last, pre.total,
                                 off * Unit, len, mf)
  BY <1>3
<1>7. ~pre.active /\ free
        => said = Oracle!Accepts({}, pre.active /\ pre.last, 0, off * Unit,
                                 len, mf)
  BY <1>3
<1>8. /\ pre.active => (pre.active /\ pre.last) = pre.last
      /\ ~pre.active => (pre.active /\ pre.last) = FALSE
  BY DEF pre
<1> QED
  BY <1>2, <1>4, <1>5, <1>6, <1>7, <1>8 DEF pre, said, free

\* The verdict on the record that an accepted fragment makes.
Verdict(said, k) ==
    \/ /\ Complete(k)
       /\ ~said.active
       /\ said.reason = IF k.total <= FrameBytes
                        THEN "ok_complete" ELSE "drop_oversized"
    \/ /\ ~Complete(k)
       /\ said.reason = "ok_incomplete"
       /\ said.last = k.last
       /\ said.total = k.total
       /\ said.bits = k.bits

LEMMA OracleOK ==
    ASSUME IInv, NEW key \in Keys, NEW off \in Bits,
           NEW len \in 0 .. Unit * Units + 1, NEW mf \in BOOLEAN
    PROVE  LET said == Said(key, off, len, mf)
               dest == IF Valid(off, len, mf) THEN Target(key, off, len) ELSE {}
           IN  \/ /\ dest = {}
                  /\ said.reason \in {"drop_bounds", "drop_nonaligned",
                                      "drop_no_slot", "drop_overlap"}
               \/ \E r \in dest : Verdict(said, Slotted(r, key, off, len, mf))
<1> DEFINE held == Holding(key)
           pre == Pre(key)
           said == Said(key, off, len, mf)
<1>1. len \in Nat
  BY ReasmAssumption
<1>2. CASE ~Valid(off, len, mf)
  BY <1>1, <1>2, OracleInvalid
<1>3. CASE Valid(off, len, mf) /\ held # {}
  <2> DEFINE r == Min(held)
  <2>0. held \subseteq Nat
    BY DEF Holding, ReasmSlots
  <2>1. r \in held
    BY <1>3, <2>0, MinInSet
  <2>a. pre = reasm[r]
    BY <1>3 DEF Pre
  <2>b. reasm[r].active /\ r \in ReasmSlots
    BY <2>1 DEF Holding
  <2> HIDE DEF r, pre
  <2>2. /\ pre = reasm[r] /\ pre.active /\ r \in ReasmSlots
        /\ pre \in SlotRecord
    BY <2>a, <2>b DEF IInv
  <2>3. pre.active \in BOOLEAN /\ pre.last \in BOOLEAN
    BY <2>2 DEF SlotRecord
  <2>4. Target(key, off, len)
          = {x \in {r} : reasm[x].bits \cap Covered(off, len) = {}}
    BY <1>3 DEF Target, r
  <2>5. CASE pre.bits \cap Covered(off, len) # {}
    <3>1. Target(key, off, len) = {}
      BY <2>2, <2>4, <2>5
    <3>2. said.reason = "drop_overlap"
      BY <1>1, <1>3, <2>2, <2>3, <2>5, OracleValid DEF pre
    <3> QED
      BY <1>3, <3>1, <3>2
  <2>6. CASE pre.bits \cap Covered(off, len) = {}
    <3>1. r \in Target(key, off, len)
      BY <2>2, <2>4, <2>6
    <3>2. said = Oracle!Accepts(pre.bits, pre.last, pre.total, off * Unit, len,
                                mf)
      <4>1. /\ Pre(key).active /\ Pre(key).active \in BOOLEAN
            /\ Pre(key).last \in BOOLEAN
            /\ Pre(key).bits \cap Covered(off, len) = {}
        BY <2>2, <2>3, <2>6 DEF pre
      <4>2. Said(key, off, len, mf)
              = Oracle!Accepts(Pre(key).bits, Pre(key).last, Pre(key).total,
                               off * Unit, len, mf)
        BY <1>1, <1>3, <4>1, OracleValid
      <4> QED
        BY <4>2 DEF pre
    <3>3. Slotted(r, key, off, len, mf) = Added(pre, off, len, mf)
      BY <2>2 DEF Slotted
    <3>4. Verdict(said, Added(pre, off, len, mf))
      BY <1>1, <1>3, <2>2, <3>2, OracleAccepts DEF Verdict, Valid
    <3> HIDE DEF said
    <3>5. Verdict(said, Slotted(r, key, off, len, mf))
      BY <3>3, <3>4
    <3> QED
      BY <1>3, <3>1, <3>5 DEF said
  <2> QED
    BY <2>5, <2>6
<1>4. CASE Valid(off, len, mf) /\ held = {}
  <2>1. pre = [active |-> FALSE, last |-> FALSE, total |-> 0, bits |-> {}]
    BY <1>4 DEF Pre
  <2>2. pre.active = FALSE /\ pre.last = FALSE
    BY <2>1
  <2>3. CASE Unused = {}
    <3>1. Target(key, off, len) = {}
      BY <1>4, <2>3 DEF Target
    <3>2. said.reason = "drop_no_slot"
      BY <1>1, <1>4, <2>2, <2>3, OracleValid
    <3> QED
      BY <1>4, <3>1, <3>2
  <2>4. CASE Unused # {}
    <3> DEFINE r == Min(Unused)
               f == Freed(reasm[r])
               j == Taken(reasm[r], key)
    <3>1. r \in Unused
      BY <2>4, MinInSet DEF Unused, ReasmSlots
    <3>2. r \in Target(key, off, len)
      BY <1>4, <2>4 DEF Target
    <3>3. /\ ~reasm[r].active /\ r \in ReasmSlots /\ reasm[r] \in SlotRecord
          /\ PoolOK(pool)
      BY <3>1 DEF Unused, IInv
    <3>4. timer_set_slot(pool) \in Slots \cup {NoSlot}
      BY <3>3, SetKeeps
    <3>5. f \in SlotRecord /\ f.last = FALSE /\ f.total = 0
      BY <3>3, FreedOK DEF Freed, SlotRecord
    <3>6. j = [f EXCEPT !.active = TRUE, !.key = key, !.bits = {},
                        !.timer = timer_set_slot(pool)]
      BY DEF Taken
    <3> HIDE DEF f, r
    <3>7. /\ j \in SlotRecord /\ j.bits = {} /\ j.last = FALSE /\ j.total = 0
      BY <3>4, <3>5, <3>6 DEF SlotRecord
    <3>8. said = Oracle!Accepts({}, FALSE, 0, off * Unit, len, mf)
      BY <1>1, <1>4, <2>2, <2>4, OracleValid
    <3>9. Slotted(r, key, off, len, mf) = Added(j, off, len, mf)
      BY <3>3 DEF Slotted
    <3> HIDE DEF j
    <3>10. Verdict(Oracle!Accepts(j.bits, j.last, j.total, off * Unit, len, mf),
                   Added(j, off, len, mf))
      BY <1>1, <1>4, <3>7, OracleAccepts DEF Verdict, Valid
    <3>11. Verdict(said, Slotted(r, key, off, len, mf))
      BY <3>7, <3>8, <3>9, <3>10
    <3> HIDE DEF said
    <3> QED
      BY <1>4, <3>2, <3>11 DEF said
  <2> QED
    BY <2>3, <2>4
<1> QED
  BY <1>2, <1>3, <1>4

\* reasm_oracle.py, which computes the test vectors, gives every fragment in
\* every reachable state the verdict of ip_reasm_input and the slot it leaves,
\* whatever the sizes of the unit, of the buffer and of a frame.
THEOREM OracleSafe == Spec => []OracleAgrees
<1>1. IInv => OracleAgrees
  BY OracleOK DEF OracleAgrees, Said, Pre, Verdict
<1> QED
  BY <1>1, Invariance, PTL
=============================================================================
