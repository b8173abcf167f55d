--------------------------- MODULE TcpTableProofs ---------------------------
(***************************************************************************)
(* TcpTable for every size of the table and of the pool, every set of      *)
(* peers, every period and every number of timers of the rest of the       *)
(* stack: the records keep their ranges, no peer has two entries, no entry *)
(* remembers a timer that is not its own before DHCP has cancelled one of  *)
(* TCP's, and the reaper is never displaced.                               *)
(***************************************************************************)
EXTENDS TcpTable, TLAPS, WellFoundedInduction

(***************************************************************************)
(* What lib/timer_pool.S guarantees its callers, for every capacity.       *)
(***************************************************************************)

Pools(CB, CX) == [Slots -> [cb : CB, ctx : CX, left : Nat]]

\* The linear scans of timer_set and timer_check end at the least index.
LEMMA MinInSet ==
    ASSUME NEW S, S \subseteq Nat, S # {}
    PROVE  Min(S) \in S /\ \A y \in S : Min(S) <= y
<1>1. PICK x \in S : \A y \in S : ~(<<y, x>> \in OpToRel(<, Nat))
  BY NatLessThanWellFounded, WFMin
<1>2. \A y \in S : x <= y
  <2>1. SUFFICES ASSUME NEW y \in S PROVE x <= y
    OBVIOUS
  <2>2. ~(y < x)
    BY <1>1, <2>1 DEF OpToRel
  <2> QED
    BY <2>2
<1> QED
  BY <1>2 DEF Min

\* timer_set fills a slot that was free and leaves every other slot alone;
\* on a full pool it does nothing and says so.
LEMMA TimerSet ==
    ASSUME NEW CB, NEW CX, NEW p \in Pools(CB, CX),
           NEW cb \in CB, NEW ctx \in CX, NEW left \in Nat
    PROVE  /\ timer_set(p, cb, ctx, left) \in Pools(CB, CX)
           /\ timer_set_slot(p) \in Slots \cup {NoSlot}
           /\ timer_set_slot(p) # NoSlot =>
                /\ timer_set_slot(p) \in Slots
                /\ p[timer_set_slot(p)].cb = NoCb
                /\ \A i \in Slots : p[i].cb = NoCb => timer_set_slot(p) <= i
                /\ timer_set(p, cb, ctx, left)[timer_set_slot(p)]
                     = [cb |-> cb, ctx |-> ctx, left |-> left]
           /\ \A i \in Slots : i # timer_set_slot(p) =>
                timer_set(p, cb, ctx, left)[i] = p[i]
           /\ \A i \in Slots : p[i].cb # NoCb =>
                timer_set(p, cb, ctx, left)[i] = p[i]
<1>1. CASE FreeSlots(p) = {}
  BY <1>1, CapAssumption DEF timer_set, timer_set_slot, Pools, FreeSlots, Slots, NoSlot
<1>2. CASE FreeSlots(p) # {}
  <2>1. FreeSlots(p) \subseteq Nat
    BY CapAssumption DEF FreeSlots, Slots
  <2>2. /\ Min(FreeSlots(p)) \in FreeSlots(p)
        /\ \A y \in FreeSlots(p) : Min(FreeSlots(p)) <= y
    BY <1>2, <2>1, MinInSet
  <2>3. timer_set_slot(p) = Min(FreeSlots(p))
    BY <1>2 DEF timer_set_slot
  <2>4. timer_set(p, cb, ctx, left)
          = [p EXCEPT ![timer_set_slot(p)] =
                 [cb |-> cb, ctx |-> ctx, left |-> left]]
    BY <1>2 DEF timer_set
  <2>5. timer_set_slot(p) \in Slots /\ p[timer_set_slot(p)].cb = NoCb
    BY <2>2, <2>3 DEF FreeSlots
  <2>6. \A i \in Slots : p[i].cb = NoCb => timer_set_slot(p) <= i
    BY <2>2, <2>3 DEF FreeSlots
  <2>7. timer_set(p, cb, ctx, left) \in Pools(CB, CX)
    BY <2>4, <2>5 DEF Pools
  <2>8. timer_set(p, cb, ctx, left)[timer_set_slot(p)]
          = [cb |-> cb, ctx |-> ctx, left |-> left]
    BY <2>4, <2>5 DEF Pools
  <2>9. \A i \in Slots : i # timer_set_slot(p) =>
            timer_set(p, cb, ctx, left)[i] = p[i]
    BY <2>4, <2>5 DEF Pools
  <2>10. \A i \in Slots : p[i].cb # NoCb =>
            timer_set(p, cb, ctx, left)[i] = p[i]
    BY <2>5, <2>9
  <2> QED
    BY <2>5, <2>6, <2>7, <2>8, <2>9, <2>10
<1> QED
  BY <1>1, <1>2

\* timer_cancel frees at most the slot it is given.
LEMMA TimerCancel ==
    ASSUME NEW CB, NEW CX, NEW p \in Pools(CB, CX), NEW s,
           NoCb \in CB, 0 \in CX
    PROVE  /\ timer_cancel(p, s) \in Pools(CB, CX)
           /\ \A i \in Slots : i # s => timer_cancel(p, s)[i] = p[i]
           /\ s \in Slots => timer_cancel(p, s)[s].cb = NoCb
  BY DEF timer_cancel, Pools, Inactive

\* timer_check fires an active, expired slot at or after the scan index, and
\* the least such slot; only that slot is freed.
LEMMA TimerFire ==
    ASSUME NEW CB, NEW CX, NEW p \in Pools(CB, CX), NEW from,
           NoCb \in CB, 0 \in CX, Due(p, from) # {}
    PROVE  /\ Firing(p, from) \in Slots
           /\ Firing(p, from) >= from
           /\ p[Firing(p, from)].cb # NoCb
           /\ p[Firing(p, from)].left = 0
           /\ \A i \in Due(p, from) : Firing(p, from) <= i
           /\ Fired(p, from) \in Pools(CB, CX)
           /\ Fired(p, from)[Firing(p, from)].cb = NoCb
           /\ \A i \in Slots : i # Firing(p, from) => Fired(p, from)[i] = p[i]
<1>1. Due(p, from) \subseteq Nat
  BY CapAssumption DEF Due, Slots
<1>2. /\ Firing(p, from) \in Due(p, from)
      /\ \A i \in Due(p, from) : Firing(p, from) <= i
  BY <1>1, MinInSet DEF Firing
<1>3. /\ Firing(p, from) \in Slots /\ Firing(p, from) >= from
      /\ p[Firing(p, from)].cb # NoCb /\ p[Firing(p, from)].left = 0
  BY <1>2 DEF Due
<1>4. /\ Fired(p, from) \in Pools(CB, CX)
      /\ Fired(p, from)[Firing(p, from)].cb = NoCb
      /\ \A i \in Slots : i # Firing(p, from) => Fired(p, from)[i] = p[i]
  BY <1>3, TimerCancel DEF Fired
<1> QED
  BY <1>2, <1>3, <1>4

\* A tick changes no callback and no context, and takes at most one tick off
\* each countdown.
LEMMA TimerElapse ==
    ASSUME NEW CB, NEW CX, NEW p \in Pools(CB, CX)
    PROVE  /\ Elapse(p) \in Pools(CB, CX)
           /\ \A i \in Slots :
                /\ Elapse(p)[i].cb = p[i].cb /\ Elapse(p)[i].ctx = p[i].ctx
                /\ Elapse(p)[i].left
                     = IF p[i].left > 0 THEN p[i].left - 1 ELSE 0
<1>1. \A i \in Slots : p[i] \in [cb : CB, ctx : CX, left : Nat]
  BY DEF Pools
<1>2. \A i \in Slots : /\ Elapse(p)[i] \in [cb : CB, ctx : CX, left : Nat]
                       /\ Elapse(p)[i].cb = p[i].cb
                       /\ Elapse(p)[i].ctx = p[i].ctx
                       /\ Elapse(p)[i].left
                            = IF p[i].left > 0 THEN p[i].left - 1 ELSE 0
  BY <1>1 DEF Elapse
<1> QED
  BY <1>2 DEF Pools, Elapse

-----------------------------------------------------------------------------

Cbs == {NoCb, "reaper", "rtx", "persist", "timewait", "other"}

Ctxs == 0 .. N

TcpPools == Pools(Cbs, Ctxs)

\* The reaper has slot 0, and no other timer is a reaper.
PoolOK(p) ==
    /\ p \in TcpPools
    /\ p[0].cb = "reaper" /\ p[0].ctx = 0
    /\ \A i \in Slots : p[i].cb = "reaper" => i = 0

\* Room for the FIN is left in the states from which tcp_close sends one.
Sending == {"SYN_RCVD", "ESTABLISHED", "CLOSE_WAIT"}

\* What a record says by itself.
RecOK(k) ==
    /\ k \in TCONN
    /\ k.state = "CLOSED" => k.slot = NoSlot
    /\ k.state # "CLOSED" => k.peer \in Peers
    /\ k.state \in Sending => k.flight <= MaxFlight

\* What record k of connection c remembers of pool p: never the reaper's
\* slot and, unless a blind cancel has hit a timer of TCP, only a timer of its
\* own.  The last line is what makes HandleOwned inductive: tcp_retransmit_cb
\* leaves TIMER_SLOT alone when it finds nothing to send again, so a
\* remembered retransmission timer must mean that there is something.
HandleOK(p, c, k) ==
    /\ k.slot # 0
    /\ ~robbed /\ k.slot # NoSlot =>
        /\ p[k.slot].cb \in {"rtx", "timewait"}
        /\ p[k.slot].ctx = c
        /\ p[k.slot].cb = "rtx" => k.flight > 0 \/ k.saved

\* What the rest of the stack may remember.
KeptOK(K) == K \subseteq Slots /\ 0 \notin K

\* The inductive invariant.
IInv ==
    /\ PoolOK(pool)
    /\ scan \in -1 .. Cap /\ busy \in 0 .. MaxBusy
    /\ conn \in [Conns -> TCONN]
    /\ \A c \in Conns : RecOK(conn[c]) /\ HandleOK(pool, c, conn[c])
    /\ UniqueTuple
    /\ KeptOK(kept)
    /\ robbed \in BOOLEAN /\ (robbed => UseDhcp)

\* A step from pool p to pool q on behalf of connection c leaves the reaper
\* where it is, makes no other and, unless handles have become stale, touches
\* no timer of anybody else.
Keeps(p, q, c) ==
    /\ q \in TcpPools
    /\ q[0] = p[0]
    /\ ~robbed => \A i \in Slots : p[i].cb # NoCb /\ p[i].ctx # c => q[i] = p[i]
    /\ \A i \in Slots : q[i].cb = "reaper" => p[i].cb = "reaper"

-----------------------------------------------------------------------------
(* The pool on behalf of a connection. *)

LEMMA SlotZero == 0 \in Slots /\ NoSlot \notin Slots
  BY CapAssumption DEF Slots, NoSlot

LEMMA KeepsPoolOK ==
    ASSUME NEW p, NEW q, NEW c \in Conns, PoolOK(p), Keeps(p, q, c)
    PROVE  PoolOK(q)
  BY DEF Keeps, PoolOK

LEMMA KeepsTrans ==
    ASSUME NEW p, NEW q, NEW r, NEW c, Keeps(p, q, c), Keeps(q, r, c)
    PROVE  Keeps(p, r, c)
  BY DEF Keeps

LEMMA KeepsSame ==
    ASSUME NEW p \in TcpPools, NEW c
    PROVE  Keeps(p, p, c)
  BY DEF Keeps

\* tcp_rtx_arm, tcp_persist_arm and the 2MSL timer.
LEMMA SetKeeps ==
    ASSUME NEW p, PoolOK(p), NEW c \in Conns, NEW left \in Nat,
           NEW cb \in {"rtx", "persist", "timewait"}
    PROVE  LET q == timer_set(p, cb, c, left)
               s == timer_set_slot(p)
           IN  /\ Keeps(p, q, c)
               /\ s \in Slots \cup {NoSlot}
               /\ s # NoSlot => s # 0 /\ q[s].cb = cb /\ q[s].ctx = c
               /\ \A i \in Slots : p[i].cb # NoCb => q[i] = p[i]
<1> DEFINE q == timer_set(p, cb, c, left)
           s == timer_set_slot(p)
<1>1. p \in Pools(Cbs, Ctxs) /\ cb \in Cbs /\ c \in Ctxs
  BY TableAssumption DEF Ctxs, PoolOK, TcpPools, Cbs, Conns
<1>2. /\ q \in Pools(Cbs, Ctxs)
      /\ s \in Slots \cup {NoSlot}
      /\ s # NoSlot => /\ s \in Slots /\ p[s].cb = NoCb
                       /\ q[s] = [cb |-> cb, ctx |-> c, left |-> left]
      /\ \A i \in Slots : i # s => q[i] = p[i]
      /\ \A i \in Slots : p[i].cb # NoCb => q[i] = p[i]
  BY <1>1, TimerSet
<1>3. s # 0 /\ q[0] = p[0]
  BY <1>2, SlotZero DEF PoolOK, NoCb, NoSlot
<1>4. \A i \in Slots : q[i].cb = "reaper" => p[i].cb = "reaper"
  <2> SUFFICES ASSUME NEW i \in Slots, q[i].cb = "reaper"
               PROVE  p[i].cb = "reaper"
    OBVIOUS
  <2>1. CASE i = s
    <3>1. q[i].cb = cb
      BY <1>2, <2>1, SlotZero
    <3> QED
      BY <3>1
  <2>2. CASE i # s
    BY <1>2, <2>2
  <2> QED
    BY <2>1, <2>2
<1> QED
  BY <1>2, <1>3, <1>4 DEF Keeps, TcpPools

\* tcp_rtx_clear.
LEMMA CancelKeeps ==
    ASSUME NEW p, PoolOK(p), NEW c \in Conns, NEW s,
           s # 0,
           ~robbed /\ s # NoSlot => s \in Slots /\ p[s].ctx = c
    PROVE  LET q == timer_cancel(p, s)
           IN  /\ Keeps(p, q, c)
               /\ \A i \in Slots : i # s => q[i] = p[i]
<1> DEFINE q == timer_cancel(p, s)
<1>1. p \in Pools(Cbs, Ctxs) /\ NoCb \in Cbs /\ 0 \in Ctxs
  BY TableAssumption DEF Ctxs, PoolOK, TcpPools, Cbs
<1>2. /\ q \in Pools(Cbs, Ctxs)
      /\ \A i \in Slots : i # s => q[i] = p[i]
      /\ s \in Slots => q[s].cb = NoCb
  BY <1>1, TimerCancel
<1>3. ~robbed => \A i \in Slots : p[i].cb # NoCb /\ p[i].ctx # c => q[i] = p[i]
  BY <1>2, SlotZero
<1>5. q[0] = p[0]
  BY <1>2, SlotZero
<1>4. \A i \in Slots : q[i].cb = "reaper" => p[i].cb = "reaper"
  BY <1>2 DEF NoCb
<1> QED
  BY <1>2, <1>3, <1>4, <1>5 DEF Keeps, TcpPools

\* timer_check, about to call a callback of connection c.
LEMMA FiredKeeps ==
    ASSUME NEW c \in Conns, PoolOK(pool), NEW cb, Fires(cb, c)
    PROVE  LET p == Fired(pool, scan)
               f == Firing(pool, scan)
           IN  /\ Keeps(pool, p, c)
               /\ f \in Slots
               /\ pool[f].cb = cb /\ pool[f].ctx = c
               /\ \A i \in Slots : i # f => p[i] = pool[i]
<1>1. pool \in Pools(Cbs, Ctxs) /\ NoCb \in Cbs /\ 0 \in Ctxs
  BY TableAssumption DEF Ctxs, PoolOK, TcpPools, Cbs
<1>2. Firing(pool, scan) \in Slots
  BY <1>1, TimerFire DEF Fires
<1>3. pool[Firing(pool, scan)].cb = cb /\ pool[Firing(pool, scan)].ctx = c
  BY DEF Fires
<1>4. Firing(pool, scan) # 0
  BY <1>3, TableAssumption DEF PoolOK, Conns
<1> QED
  BY <1>2, <1>3, <1>4, CancelKeeps DEF Fired

-----------------------------------------------------------------------------
(* The record of a connection. *)

LEMMA IdleMaxNat == IdleMax \in Nat
<1>1. \E x \in {IdleSynRcvd, IdleEstab, IdleFinWait, IdleCloseWait} :
        \A y \in {IdleSynRcvd, IdleEstab, IdleFinWait, IdleCloseWait} : x >= y
  BY TableAssumption
<1> QED
  BY <1>1, TableAssumption DEF IdleMax, Max

LEMMA ClosedOK ==
    ASSUME NEW k, k.rto \in 0 .. RtoMod - 1, NEW p, NEW c
    PROVE  RecOK(Closed(k)) /\ HandleOK(p, c, Closed(k))
<1>1. RecOK(Closed(k))
  BY TableAssumption, IdleMaxNat DEF Closed, RecOK, TCONN, States, Sending
<1>2. Closed(k).slot = NoSlot
  BY DEF Closed
<1> QED
  BY <1>1, <1>2 DEF HandleOK, NoSlot

\* tcp_rtx_arm on a record that has something to send again.
LEMMA ArmOK ==
    ASSUME NEW p, PoolOK(p), NEW c \in Conns, NEW k, RecOK(k),
           k.state # "CLOSED", k.flight > 0 \/ k.saved
    PROVE  LET q == timer_set(p, "rtx", c, ArmedRto(k))
               l == Armed(k, timer_set_slot(p))
           IN  /\ Keeps(p, q, c) /\ RecOK(l) /\ HandleOK(q, c, l)
               /\ l.peer = k.peer
<1>1. ArmedRto(k) \in Nat /\ ArmedRto(k) \in 0 .. RtoMod - 1
  BY TableAssumption DEF RecOK, TCONN, ArmedRto
<1> DEFINE q == timer_set(p, "rtx", c, ArmedRto(k))
           s == timer_set_slot(p)
           l == Armed(k, s)
<1>2. /\ Keeps(p, q, c)
      /\ s \in Slots \cup {NoSlot}
      /\ s # NoSlot => s # 0 /\ q[s].cb = "rtx" /\ q[s].ctx = c
  BY <1>1, SetKeeps
<1> HIDE DEF s
<1>3. RecOK(l)
  BY <1>1, <1>2 DEF RecOK, TCONN, Armed
<1>4. /\ l.slot = s /\ l.flight = k.flight /\ l.saved = k.saved
      /\ l.peer = k.peer
  BY DEF RecOK, TCONN, Armed
<1>5. HandleOK(q, c, l)
  BY <1>2, <1>4 DEF HandleOK, NoSlot
<1> QED
  BY <1>2, <1>3, <1>4, <1>5 DEF s

\* The last step of a handler that did not fail.
LEMMA ActiveOK ==
    ASSUME NEW k, RecOK(k)
    PROVE  /\ RecOK(Active(k))
           /\ Active(k).state = k.state /\ Active(k).peer = k.peer
           /\ Active(k).slot = k.slot /\ Active(k).flight = k.flight
           /\ Active(k).saved = k.saved
<1>1. Active(k) \in TCONN
  BY IdleMaxNat DEF RecOK, TCONN, Active
<1>2. /\ Active(k).state = k.state /\ Active(k).peer = k.peer
      /\ Active(k).slot = k.slot /\ Active(k).flight = k.flight
      /\ Active(k).saved = k.saved
  BY DEF RecOK, TCONN, Active
<1> QED
  BY <1>1, <1>2 DEF RecOK

\* tcp_rtx_clear on the record.
LEMMA ClearOK ==
    ASSUME NEW k, RecOK(k)
    PROVE  LET l == rtx_clear_conn(k)
           IN  /\ RecOK(l) /\ l.state = k.state /\ l.peer = k.peer
               /\ l.flight = k.flight /\ l.slot = NoSlot
<1> DEFINE l == rtx_clear_conn(k)
<1> 0 \in 0 .. MaxRtx
  BY TableAssumption
<1>1. l \in TCONN
  BY DEF RecOK, TCONN, rtx_clear_conn
<1>2. /\ l.state = k.state /\ l.peer = k.peer /\ l.flight = k.flight
      /\ l.slot = NoSlot
  BY DEF RecOK, TCONN, rtx_clear_conn
<1> QED
  BY <1>1, <1>2 DEF RecOK

\* A new state, and other bytes in flight, for a record with a peer.
InState(k, s, f) == [k EXCEPT !.state = s, !.flight = f]

LEMMA StateOK ==
    ASSUME NEW k, RecOK(k), k.state # "CLOSED", NEW s \in States \ {"CLOSED"},
           NEW f \in 0 .. MaxFlight + 1, s \in Sending => f <= MaxFlight
    PROVE  LET l == InState(k, s, f)
           IN  /\ RecOK(l) /\ l.state = s /\ l.peer = k.peer
               /\ l.flight = f /\ l.slot = k.slot /\ l.saved = k.saved
<1> DEFINE l == InState(k, s, f)
<1>1. l \in TCONN
  BY DEF RecOK, TCONN, InState
<1>2. /\ l.state = s /\ l.peer = k.peer /\ l.flight = f /\ l.slot = k.slot
      /\ l.saved = k.saved
  BY DEF RecOK, TCONN, InState
<1> QED
  BY <1>1, <1>2 DEF RecOK

\* A record whose handle is untouched, in a pool that kept its timer.
LEMMA HandleStays ==
    ASSUME NEW p, NEW q, NEW c, NEW k, NEW l, k.slot \in Slots \cup {NoSlot},
           HandleOK(p, c, k), l.slot = k.slot,
           k.flight > 0 \/ k.saved => l.flight > 0 \/ l.saved,
           \A i \in Slots : p[i].cb # NoCb => q[i] = p[i]
    PROVE  HandleOK(q, c, l)
<1>1. ~robbed /\ k.slot # NoSlot => q[k.slot] = p[k.slot]
  BY DEF HandleOK, NoCb
<1> QED
  BY <1>1 DEF HandleOK

\* Everything of the invariant that a step on behalf of one connection has
\* to show.
LEMMA StepOK ==
    ASSUME IInv, NEW c \in Conns, NEW k, Keeps(pool, pool', c),
           RecOK(k), HandleOK(pool', c, k),
           \/ k.state = "CLOSED"
           \/ Live(c) /\ k.peer = conn[c].peer
           \/ Matches(k.peer) = {},
           conn' = [conn EXCEPT ![c] = k],
           scan' \in -1 .. Cap, busy' \in 0 .. MaxBusy,
           UNCHANGED <<kept, robbed>>
    PROVE  IInv'
<1>1. PoolOK(pool')
  BY KeepsPoolOK DEF IInv
<1>2. k \in TCONN
  BY DEF RecOK
<1>3. conn' \in [Conns -> TCONN]
  BY <1>2 DEF IInv
<1>4. /\ conn'[c] = k
      /\ \A d \in Conns : d # c => conn'[d] = conn[d]
  BY DEF IInv
<1>5. \A d \in Conns : RecOK(conn'[d]) /\ HandleOK(pool', d, conn'[d])
  <2> SUFFICES ASSUME NEW d \in Conns, d # c
               PROVE  RecOK(conn'[d]) /\ HandleOK(pool', d, conn'[d])
    BY <1>4
  <2>1. conn'[d] = conn[d] /\ RecOK(conn[d]) /\ HandleOK(pool, d, conn[d])
    BY <1>4 DEF IInv
  <2>2. conn[d].slot \in Slots \cup {NoSlot}
    BY <2>1 DEF RecOK, TCONN
  <2>3. ~robbed /\ conn[d].slot # NoSlot =>
            pool'[conn[d].slot] = pool[conn[d].slot]
    BY <2>1, <2>2 DEF HandleOK, Keeps, NoCb
  <2> QED
    BY <2>1, <2>3 DEF HandleOK
<1>6. UniqueTuple'
  <2> SUFFICES ASSUME NEW d \in Conns, NEW e \in Conns, d # e,
                      conn'[d].state # "CLOSED", conn'[e].state # "CLOSED",
                      conn'[d].peer = conn'[e].peer
               PROVE  FALSE
    BY DEF UniqueTuple, Live
  <2>1. \A x \in Conns : x # c /\ conn'[x].state # "CLOSED"
                         /\ conn'[x].peer = k.peer
                         /\ k.state # "CLOSED" => FALSE
    BY <1>4 DEF IInv, UniqueTuple, Live, Matches
  <2> QED
    BY <1>4, <2>1 DEF IInv, UniqueTuple, Live
<1> QED
  BY <1>1, <1>3, <1>5, <1>6 DEF IInv, HandleOK

-----------------------------------------------------------------------------
(* Segments. *)

LEMMA ConnFacts ==
    ASSUME IInv, NEW c \in Conns
    PROVE  /\ conn[c] \in TCONN /\ RecOK(conn[c])
           /\ HandleOK(pool, c, conn[c])
           /\ conn[c].slot \in Slots \cup {NoSlot}
           /\ conn[c].rto \in 0 .. RtoMod - 1
           /\ conn[c].slot # 0
           /\ ~robbed /\ conn[c].slot # NoSlot =>
                conn[c].slot \in Slots /\ pool[conn[c].slot].ctx = c
<1>1. conn[c] \in TCONN /\ RecOK(conn[c]) /\ HandleOK(pool, c, conn[c])
  BY DEF IInv
<1> QED
  BY <1>1 DEF TCONN, HandleOK

\* tcp_rtx_clear and a free entry.
LEMMA CloseConnOK ==
    ASSUME IInv, NEW c \in Conns, CloseConn(c), UNCHANGED <<scan, busy, kept, robbed>>
    PROVE  IInv'
<1> DEFINE k == Closed(conn[c])
<1>1. Keeps(pool, pool', c)
  BY ConnFacts, CancelKeeps DEF CloseConn, rtx_clear_pool, IInv
<1>2. RecOK(k) /\ HandleOK(pool', c, k)
  BY ConnFacts, ClosedOK
<1>3. k.state = "CLOSED"
  BY DEF Closed
<1>4. conn' = [conn EXCEPT ![c] = k]
  BY DEF CloseConn
<1>5. scan' \in -1 .. Cap /\ busy' \in 0 .. MaxBusy
  BY DEF IInv
<1> HIDE DEF k
<1> QED
  BY <1>1, <1>2, <1>3, <1>4, <1>5, StepOK

SynSaved(k, peer, zero) ==
    [SynRcvd(k, peer, zero) EXCEPT !.saved = TRUE, !.rtx = 0]

LEMMA SynRcvdOK ==
    ASSUME NEW k, k.rto \in 0 .. RtoMod - 1, NEW peer \in Peers,
           NEW zero \in BOOLEAN
    PROVE  LET l == SynSaved(k, peer, zero)
           IN  RecOK(l) /\ l.state = "SYN_RCVD" /\ l.peer = peer /\ l.flight = 1
<1> DEFINE j == Closed(k)
           i == SynRcvd(k, peer, zero)
           l == [i EXCEPT !.saved = TRUE, !.rtx = 0]
<1>1. j \in TCONN /\ j.slot = NoSlot
  BY ClosedOK DEF RecOK, Closed
<1>2. i = [j EXCEPT !.state = "SYN_RCVD", !.peer = peer, !.flight = 1,
                    !.wnd0 = zero]
  BY DEF SynRcvd
<1>3. /\ 1 \in 0 .. MaxFlight + 1 /\ 0 \in 0 .. MaxRtx
      /\ "SYN_RCVD" \in States /\ 1 <= MaxFlight
  BY TableAssumption DEF States
<1> HIDE DEF j
<1>4. /\ i \in TCONN
      /\ i.state = "SYN_RCVD" /\ i.peer = peer /\ i.flight = 1
  BY <1>1, <1>2, <1>3 DEF TCONN
<1> HIDE DEF i
<1>5. /\ l \in TCONN
      /\ l.state = "SYN_RCVD" /\ l.peer = peer /\ l.flight = 1
  BY <1>3, <1>4 DEF TCONN
<1>6. RecOK(l)
  BY <1>3, <1>5 DEF RecOK
<1> QED
  BY <1>5, <1>6 DEF i, SynSaved

LEMMA SynSaveOK ==
    ASSUME IInv, NEW c \in Conns, NEW p, Keeps(pool, p, c),
           NEW peer \in Peers, NEW zero \in BOOLEAN, Matches(peer) = {},
           tcp_rtx_save(p, c, SynRcvd(conn[c], peer, zero)),
           UNCHANGED <<scan, busy, kept, robbed>>
    PROVE  IInv'
<1> DEFINE k == SynSaved(conn[c], peer, zero)
           l == Armed(k, timer_set_slot(p))
<1>1. RecOK(k) /\ k.state = "SYN_RCVD" /\ k.peer = peer /\ k.flight = 1
  BY ConnFacts, SynRcvdOK
<1>2. PoolOK(p)
  BY KeepsPoolOK DEF IInv
<1>3. /\ pool' = timer_set(p, "rtx", c, ArmedRto(k))
      /\ conn' = [conn EXCEPT ![c] = l]
  BY DEF tcp_rtx_save, tcp_rtx_arm, SynSaved
<1> HIDE DEF k
<1>4. Keeps(p, pool', c) /\ RecOK(l) /\ HandleOK(pool', c, l) /\ l.peer = k.peer
  BY <1>1, <1>2, <1>3, ArmOK
<1>5. l.peer = peer
  BY <1>1, <1>4
<1>6. Keeps(pool, pool', c)
  BY <1>4, KeepsTrans
<1>7. scan' \in -1 .. Cap /\ busy' \in 0 .. MaxBusy
  BY DEF IInv
<1> HIDE DEF l
<1> QED
  BY <1>3, <1>4, <1>5, <1>6, <1>7, StepOK

LEMMA SynOK ==
    ASSUME IInv, NEW peer \in Peers, NEW zero \in Windows,
           tcp_listen_syn_handler(peer, zero)
    PROVE  IInv'
<1>1. zero \in BOOLEAN /\ Free \subseteq Nat /\ HalfOpen \subseteq Nat
  BY TableAssumption DEF Free, HalfOpen, Conns
<1>2. Matches(peer) = {} /\ UNCHANGED <<scan, busy, kept, robbed>>
  BY DEF tcp_listen_syn_handler
<1>3. CASE /\ Free # {}
           /\ tcp_rtx_save(pool, Min(Free), SynRcvd(conn[Min(Free)], peer, zero))
  <2>1. Min(Free) \in Conns
    BY <1>1, <1>3, MinInSet DEF Free
  <2>2. Keeps(pool, pool, Min(Free))
    BY KeepsSame DEF IInv, PoolOK
  <2> QED
    BY <1>1, <1>2, <1>3, <2>1, <2>2, SynSaveOK
<1>4. CASE /\ HalfOpen # {}
           /\ tcp_rtx_save(rtx_clear_pool(pool, conn[Min(HalfOpen)]),
                           Min(HalfOpen),
                           SynRcvd(conn[Min(HalfOpen)], peer, zero))
  <2> DEFINE c == Min(HalfOpen)
             p == rtx_clear_pool(pool, conn[c])
  <2>1. c \in Conns
    BY <1>1, <1>4, MinInSet DEF HalfOpen
  <2>2. Keeps(pool, p, c)
    BY <2>1, ConnFacts, CancelKeeps DEF rtx_clear_pool, IInv
  <2>3. tcp_rtx_save(p, c, SynRcvd(conn[c], peer, zero))
    BY <1>4
  <2> HIDE DEF c, p
  <2> QED
    BY <1>1, <1>2, <2>1, <2>2, <2>3, SynSaveOK
<1> QED
  BY <1>3, <1>4 DEF tcp_listen_syn_handler

\* A handler that stays with its peer and leaves the connection's handle,
\* and what it has to send, as they were.
LEMMA SameHandleOK ==
    ASSUME IInv, NEW c \in Conns, Live(c), NEW k, RecOK(k),
           Keeps(pool, pool', c),
           \A i \in Slots : pool[i].cb # NoCb => pool'[i] = pool[i],
           k.slot = conn[c].slot, k.peer = conn[c].peer,
           conn[c].flight > 0 \/ conn[c].saved => k.flight > 0 \/ k.saved,
           conn' = [conn EXCEPT ![c] = k], UNCHANGED <<scan, busy, kept, robbed>>
    PROVE  IInv'
<1>1. HandleOK(pool', c, k)
  BY ConnFacts, HandleStays
<1>2. scan' \in -1 .. Cap /\ busy' \in 0 .. MaxBusy
  BY DEF IInv
<1> QED
  BY <1>1, <1>2, StepOK

\* The same, when the pool is not touched at all.
LEMMA SamePoolOK ==
    ASSUME IInv, NEW c \in Conns, Live(c), NEW k, RecOK(k), pool' = pool,
           k.slot = conn[c].slot, k.peer = conn[c].peer,
           k.flight = conn[c].flight, k.saved = conn[c].saved,
           conn' = [conn EXCEPT ![c] = k], UNCHANGED <<scan, busy, kept, robbed>>
    PROVE  IInv'
<1>1. Keeps(pool, pool', c)
  BY KeepsSame DEF IInv, PoolOK
<1> QED
  BY <1>1, SameHandleOK

\* A handler that forgets the handle.
LEMMA ClearedOK ==
    ASSUME IInv, NEW c \in Conns, Live(c), NEW k, RecOK(k), k.slot = NoSlot,
           k.peer = conn[c].peer, Keeps(pool, pool', c),
           conn' = [conn EXCEPT ![c] = k], UNCHANGED <<scan, busy, kept, robbed>>
    PROVE  IInv'
<1>1. HandleOK(pool', c, k)
  BY DEF HandleOK, NoSlot
<1>2. scan' \in -1 .. Cap /\ busy' \in 0 .. MaxBusy
  BY DEF IInv
<1> QED
  BY <1>1, <1>2, StepOK

LEMMA SynRcvdAckOK ==
    ASSUME IInv, NEW c \in Conns, NEW good \in BOOLEAN,
           tcp_synrcvd_ack_handler(c, good)
    PROVE  IInv'
<1>1. /\ conn[c].state = "SYN_RCVD" /\ Live(c) /\ UNCHANGED <<scan, busy, kept, robbed>>
      /\ pool' = IF good THEN rtx_clear_pool(pool, conn[c]) ELSE pool
      /\ conn' = [conn EXCEPT ![c] =
             IF good
             THEN Active([rtx_clear_conn(conn[c]) EXCEPT !.state = "ESTABLISHED",
                                                         !.flight = 0])
             ELSE conn[c]]
  BY DEF tcp_synrcvd_ack_handler, SynRcvdAck, tcp_handle, Live
<1>2. conn[c] \in TCONN /\ RecOK(conn[c])
  BY ConnFacts
<1>3. CASE good
  <2> DEFINE j == rtx_clear_conn(conn[c])
             l == InState(j, "ESTABLISHED", 0)
             k == Active(l)
  <2>a. /\ RecOK(j) /\ j.state = "SYN_RCVD" /\ j.peer = conn[c].peer
        /\ j.slot = NoSlot
    BY <1>1, <1>2, ClearOK
  <2>b. "ESTABLISHED" \in States \ {"CLOSED"} /\ 0 \in 0 .. MaxFlight + 1
        /\ 0 <= MaxFlight
    BY TableAssumption DEF States
  <2> HIDE DEF j
  <2>c. RecOK(l) /\ l.slot = NoSlot /\ l.peer = conn[c].peer
    BY <2>a, <2>b, StateOK DEF Sending
  <2>1. RecOK(k) /\ k.slot = NoSlot /\ k.peer = conn[c].peer
    BY <2>c, ActiveOK
  <2>2. Keeps(pool, pool', c)
    BY <1>1, <1>3, ConnFacts, CancelKeeps DEF rtx_clear_pool, IInv
  <2>3. conn' = [conn EXCEPT ![c] = k]
    BY <1>1, <1>3 DEF j, InState
  <2> HIDE DEF k
  <2> QED
    BY <1>1, <2>1, <2>2, <2>3, ClearedOK
<1>4. CASE ~good
  BY <1>1, <1>2, <1>4, SamePoolOK
<1> QED
  BY <1>3, <1>4

\* A step that ends in tcp_rtx_arm.
LEMMA ArmStepOK ==
    ASSUME IInv, NEW c \in Conns, NEW p, Keeps(pool, p, c),
           NEW k, RecOK(k), k.state # "CLOSED", k.flight > 0 \/ k.saved,
           Live(c), k.peer = conn[c].peer, tcp_rtx_arm(p, c, k),
           scan' \in -1 .. Cap, busy' \in 0 .. MaxBusy,
           UNCHANGED <<kept, robbed>>
    PROVE  IInv'
<1> DEFINE l == Armed(k, timer_set_slot(p))
<1>1. PoolOK(p)
  BY KeepsPoolOK DEF IInv
<1>2. /\ pool' = timer_set(p, "rtx", c, ArmedRto(k))
      /\ conn' = [conn EXCEPT ![c] = l]
  BY DEF tcp_rtx_arm
<1>3. Keeps(p, pool', c) /\ RecOK(l) /\ HandleOK(pool', c, l) /\ l.peer = k.peer
  BY <1>1, <1>2, ArmOK
<1>5. Keeps(pool, pool', c)
  BY <1>3, KeepsTrans
<1> HIDE DEF l
<1> QED
  BY <1>2, <1>3, <1>5, StepOK

\* The window field of an ACK: at most a persist timer more.
LEMMA WindowOK ==
    ASSUME IInv, NEW c \in Conns, NEW zero \in BOOLEAN
    PROVE  LET p == WindowPool(pool, c, zero)
               k == Active(WindowConn(conn[c], zero))
           IN  /\ Keeps(pool, p, c)
               /\ \A i \in Slots : pool[i].cb # NoCb => p[i] = pool[i]
               /\ RecOK(k) /\ k.state = conn[c].state
               /\ k.peer = conn[c].peer /\ k.slot = conn[c].slot
               /\ k.flight = conn[c].flight /\ k.saved = conn[c].saved
<1> DEFINE p == WindowPool(pool, c, zero)
           k == WindowConn(conn[c], zero)
<1>1. PoolOK(pool) /\ pool \in TcpPools
  BY DEF IInv, PoolOK
<1>2. PersistDelay(1) \in Nat
  <2>1. 1 \in 1 .. ShiftCap
    BY TableAssumption
  <2>2. PersistInitial * 2^(1 - 1) \in Nat /\ PersistMax \in Nat
    BY <2>1, PersistAssumption, TableAssumption
  <2> QED
    BY <2>2 DEF PersistDelay
<1>3. /\ Keeps(pool, p, c)
      /\ \A i \in Slots : pool[i].cb # NoCb => p[i] = pool[i]
  BY <1>1, <1>2, SetKeeps, KeepsSame DEF WindowPool, tcp_persist_arm
<1>4. RecOK(conn[c])
  BY ConnFacts
<1>5. 0 \in 0 .. ShiftCap /\ 1 \in 0 .. ShiftCap
  BY TableAssumption
<1>6. k \in TCONN
  BY <1>4, <1>5 DEF RecOK, TCONN, WindowConn
<1>7. /\ k.state = conn[c].state /\ k.peer = conn[c].peer
      /\ k.slot = conn[c].slot /\ k.flight = conn[c].flight
      /\ k.saved = conn[c].saved
  BY <1>4 DEF RecOK, TCONN, WindowConn
<1>8. RecOK(k)
  BY <1>4, <1>6, <1>7 DEF RecOK
<1> HIDE DEF k, p
<1>9. /\ RecOK(Active(k)) /\ Active(k).state = k.state
      /\ Active(k).peer = k.peer /\ Active(k).slot = k.slot
      /\ Active(k).flight = k.flight /\ Active(k).saved = k.saved
  BY <1>8, ActiveOK
<1> QED
  BY <1>3, <1>7, <1>9 DEF k, p

\* .Leak_pure_ack and tcp_fast_retransmit.
LEMMA DupRecordOK ==
    ASSUME NEW k, RecOK(k), NEW n \in 0 .. DupThresh + 1
    PROVE  LET l == [k EXCEPT !.dup = n]
           IN  /\ RecOK(l) /\ l.state = k.state /\ l.peer = k.peer
               /\ l.slot = k.slot /\ l.flight = k.flight /\ l.saved = k.saved
  BY DEF RecOK, TCONN

LEMMA FastRecordOK ==
    ASSUME NEW k, RecOK(k)
    PROVE  LET l == [k EXCEPT !.rtx = 0]
           IN  /\ RecOK(l) /\ l.state = k.state /\ l.peer = k.peer
               /\ l.flight = k.flight
<1>1. 0 \in 0 .. MaxRtx
  BY TableAssumption
<1> QED
  BY <1>1 DEF RecOK, TCONN

LEMMA CountDupOK ==
    ASSUME IInv, NEW c \in Conns, Live(c), NEW p, Keeps(pool, p, c),
           \A i \in Slots : pool[i].cb # NoCb => p[i] = pool[i],
           NEW k, RecOK(k), k.state # "CLOSED", k.flight > 0,
           k.slot = conn[c].slot, k.peer = conn[c].peer,
           CountDup(p, c, k), UNCHANGED <<scan, busy, kept, robbed>>
    PROVE  IInv'
<1>1. PICK n \in NextDup(k.dup) :
          LET l == [k EXCEPT !.dup = n]
          IN  \/ n = DupThresh /\ tcp_fast_retransmit(p, c, l)
              \/ n # DupThresh /\ pool' = p /\ conn' = [conn EXCEPT ![c] = l]
  BY DEF CountDup
<1> DEFINE l == [k EXCEPT !.dup = n]
<1>2. n \in 0 .. DupThresh + 1
  <2>1. k.dup \in 0 .. DupThresh + 1
    BY DEF RecOK, TCONN
  <2> QED
    BY <2>1, TableAssumption DEF NextDup
<1>3. scan' \in -1 .. Cap /\ busy' \in 0 .. MaxBusy
  BY DEF IInv
<1>4. /\ RecOK(l) /\ l.state = k.state /\ l.peer = k.peer
      /\ l.slot = k.slot /\ l.flight = k.flight /\ l.saved = k.saved
  BY <1>2, DupRecordOK
<1> HIDE DEF l
<1>5. CASE tcp_rtx_arm(p, c, [l EXCEPT !.rtx = 0])
  BY <1>3, <1>4, <1>5, FastRecordOK, ArmStepOK
<1>6. CASE pool' = p /\ conn' = [conn EXCEPT ![c] = l]
  BY <1>4, <1>6, SameHandleOK
<1> QED
  BY <1>1, <1>5, <1>6 DEF l, tcp_fast_retransmit

LEMMA NewAckOK ==
    ASSUME NEW k, RecOK(k), NEW acked \in Nat, acked <= k.flight,
           NEW rto \in NewRto(k)
    PROVE  LET l == NewAck(k, acked, rto)
           IN  /\ RecOK(l) /\ l.state = k.state /\ l.peer = k.peer
               /\ l.slot = k.slot /\ l.flight = k.flight - acked
               /\ l.saved = k.saved
<1> DEFINE l == NewAck(k, acked, rto)
<1>1. rto \in 0 .. RtoMod - 1
  BY TableAssumption DEF NewRto, RecOK, TCONN
<1>2. k.flight \in 0 .. MaxFlight + 1 /\ MaxFlight \in Nat
  BY TableAssumption DEF RecOK, TCONN
<1>3. /\ k.flight - acked \in 0 .. MaxFlight + 1
      /\ k.flight - acked <= k.flight
      /\ k.flight <= MaxFlight => k.flight - acked <= MaxFlight
  BY <1>2
<1>4. 0 \in 0 .. DupThresh + 1
  BY TableAssumption
<1>5. l \in TCONN
  BY <1>1, <1>3, <1>4 DEF RecOK, TCONN, NewAck
<1>6. /\ l.state = k.state /\ l.peer = k.peer /\ l.slot = k.slot
      /\ l.flight = k.flight - acked /\ l.saved = k.saved
  BY DEF RecOK, TCONN, NewAck
<1> QED
  BY <1>3, <1>5, <1>6 DEF RecOK

LEMMA EstabAckOK ==
    ASSUME IInv, NEW c \in Conns, NEW acked \in 0 .. MaxFlight,
           NEW inSync \in BOOLEAN, NEW pure \in BOOLEAN, NEW zero \in Windows,
           tcp_estab_ack_handler(c, acked, inSync, pure, zero)
    PROVE  IInv'
<1> DEFINE p == WindowPool(pool, c, zero)
           k == Active(WindowConn(conn[c], zero))
<1>1. /\ conn[c].state = "ESTABLISHED" /\ Live(c) /\ UNCHANGED <<scan, busy, kept, robbed>>
  BY DEF tcp_estab_ack_handler, tcp_handle, Live
<1>2. /\ Keeps(pool, p, c)
      /\ \A i \in Slots : pool[i].cb # NoCb => p[i] = pool[i]
      /\ RecOK(k) /\ k.state = conn[c].state
      /\ k.peer = conn[c].peer /\ k.slot = conn[c].slot
      /\ k.flight = conn[c].flight /\ k.saved = conn[c].saved
  BY WindowOK, TableAssumption
<1>3. \/ /\ acked = 0 /\ pure /\ inSync /\ k.flight > 0
         /\ CountDup(p, c, k)
      \/ /\ pool' = p
         /\ conn' = [conn EXCEPT ![c] = k]
      \/ /\ acked > 0 /\ acked = k.flight
         /\ pool' = rtx_clear_pool(p, k)
         /\ \E rto \in NewRto(k) :
               conn' = [conn EXCEPT ![c] =
                          rtx_clear_conn(NewAck(k, acked, rto))]
      \/ /\ acked > 0 /\ acked < k.flight
         /\ \E rto \in NewRto(k) :
               IF pure
               THEN CountDup(p, c, NewAck(k, acked, rto))
               ELSE /\ pool' = p
                    /\ conn' = [conn EXCEPT ![c] = NewAck(k, acked, rto)]
  BY DEF tcp_estab_ack_handler
<1>4. acked \in Nat /\ k.flight \in Nat
  BY <1>2, TableAssumption DEF RecOK, TCONN
<1> HIDE DEF p, k
<1>5. CASE acked = 0 /\ pure /\ inSync /\ k.flight > 0 /\ CountDup(p, c, k)
  BY <1>1, <1>2, <1>5, CountDupOK
<1>6. CASE pool' = p /\ conn' = [conn EXCEPT ![c] = k]
  BY <1>1, <1>2, <1>6, SameHandleOK
<1>7. CASE /\ acked > 0 /\ acked = k.flight
           /\ pool' = rtx_clear_pool(p, k)
           /\ \E rto \in NewRto(k) :
                 conn' = [conn EXCEPT ![c] =
                            rtx_clear_conn(NewAck(k, acked, rto))]
  <2>1. PICK rto \in NewRto(k) :
            conn' = [conn EXCEPT ![c] = rtx_clear_conn(NewAck(k, acked, rto))]
    BY <1>7
  <2> DEFINE l == rtx_clear_conn(NewAck(k, acked, rto))
  <2>2. RecOK(l) /\ l.slot = NoSlot /\ l.peer = conn[c].peer
    BY <1>2, <1>4, <1>7, NewAckOK, ClearOK
  <2>3. PoolOK(p)
    BY <1>2, KeepsPoolOK DEF IInv
  <2>4. /\ k.slot # 0
        /\ ~robbed /\ k.slot # NoSlot => k.slot \in Slots /\ p[k.slot].ctx = c
    BY <1>2, ConnFacts DEF HandleOK, NoCb
  <2>5. Keeps(p, pool', c)
    BY <1>7, <2>3, <2>4, CancelKeeps DEF rtx_clear_pool
  <2>6. Keeps(pool, pool', c)
    BY <1>2, <2>5, KeepsTrans
  <2> HIDE DEF l
  <2> QED
    BY <1>1, <2>1, <2>2, <2>6, ClearedOK DEF l
<1>8. CASE /\ acked > 0 /\ acked < k.flight
           /\ \E rto \in NewRto(k) :
                 IF pure
                 THEN CountDup(p, c, NewAck(k, acked, rto))
                 ELSE /\ pool' = p
                      /\ conn' = [conn EXCEPT ![c] = NewAck(k, acked, rto)]
  <2>1. PICK rto \in NewRto(k) :
            IF pure
            THEN CountDup(p, c, NewAck(k, acked, rto))
            ELSE /\ pool' = p
                 /\ conn' = [conn EXCEPT ![c] = NewAck(k, acked, rto)]
    BY <1>8
  <2> DEFINE l == NewAck(k, acked, rto)
  <2>2. /\ RecOK(l) /\ l.state = k.state /\ l.peer = k.peer
        /\ l.slot = k.slot /\ l.flight = k.flight - acked
    BY <1>2, <1>4, <1>8, NewAckOK
  <2>3. l.flight > 0
    BY <1>4, <1>8, <2>2
  <2>4. \/ CountDup(p, c, l)
        \/ pool' = p /\ conn' = [conn EXCEPT ![c] = l]
    BY <2>1
  <2> HIDE DEF l
  <2>5. CASE CountDup(p, c, l)
    BY <1>1, <1>2, <2>2, <2>3, <2>5, CountDupOK
  <2>6. CASE pool' = p /\ conn' = [conn EXCEPT ![c] = l]
    BY <1>1, <1>2, <2>2, <2>3, <2>6, SameHandleOK
  <2> QED
    BY <2>4, <2>5, <2>6
<1> QED
  BY <1>3, <1>5, <1>6, <1>7, <1>8

\* A handler that changes the state and nothing else.
LEMMA MoveOK ==
    ASSUME IInv, NEW c \in Conns, Live(c), NEW s \in States \ {"CLOSED"},
           s \in Sending => conn[c].state \in Sending
    PROVE  LET k == Active([conn[c] EXCEPT !.state = s])
           IN  /\ RecOK(k) /\ k.peer = conn[c].peer /\ k.slot = conn[c].slot
               /\ k.flight = conn[c].flight /\ k.saved = conn[c].saved
<1> DEFINE l == [conn[c] EXCEPT !.state = s]
<1>1. RecOK(conn[c])
  BY ConnFacts
<1>2. l \in TCONN
  BY <1>1 DEF RecOK, TCONN
<1>3. /\ l.state = s /\ l.peer = conn[c].peer /\ l.slot = conn[c].slot
      /\ l.flight = conn[c].flight /\ l.saved = conn[c].saved
  BY <1>1 DEF RecOK, TCONN
<1>4. RecOK(l)
  BY <1>1, <1>2, <1>3 DEF RecOK, Live
<1> QED
  BY <1>3, <1>4, ActiveOK

LEMMA EstabFinOK ==
    ASSUME IInv, NEW c \in Conns, NEW accepted \in BOOLEAN,
           tcp_estab_fin_handler(c, accepted)
    PROVE  IInv'
<1> DEFINE s == IF accepted THEN "CLOSE_WAIT" ELSE "ESTABLISHED"
           k == Active([conn[c] EXCEPT !.state = s])
<1>1. /\ conn[c].state = "ESTABLISHED" /\ Live(c) /\ UNCHANGED <<scan, busy, kept, robbed>>
      /\ pool' = pool /\ conn' = [conn EXCEPT ![c] = k]
  BY DEF tcp_estab_fin_handler, tcp_handle, Live
<1>2. s \in States \ {"CLOSED"} /\ conn[c].state \in Sending
  BY <1>1 DEF States, Sending
<1> HIDE DEF s
<1>3. /\ RecOK(k) /\ k.peer = conn[c].peer /\ k.slot = conn[c].slot
      /\ k.flight = conn[c].flight /\ k.saved = conn[c].saved
  BY <1>1, <1>2, MoveOK
<1> HIDE DEF k
<1> QED
  BY <1>1, <1>3, SamePoolOK

\* tcp_drop_handler and PartialAck.
LEMMA TouchOK ==
    ASSUME IInv, NEW c \in Conns, Live(c), pool' = pool,
           conn' = [conn EXCEPT ![c] = Active(conn[c])],
           UNCHANGED <<scan, busy, kept, robbed>>
    PROVE  IInv'
  BY ConnFacts, ActiveOK, SamePoolOK

LEMMA FinWait1AckOK ==
    ASSUME IInv, NEW c \in Conns, tcp_finwait1_ack_handler(c)
    PROVE  IInv'
<1> DEFINE j == rtx_clear_conn(conn[c])
           l == [j EXCEPT !.state = "FIN_WAIT_2"]
           k == Active(l)
<1>1. /\ conn[c].state = "FIN_WAIT_1" /\ Live(c) /\ UNCHANGED <<scan, busy, kept, robbed>>
      /\ pool' = rtx_clear_pool(pool, conn[c])
      /\ conn' = [conn EXCEPT ![c] = k]
  BY DEF tcp_finwait1_ack_handler, tcp_handle, Live
<1>2. /\ RecOK(j) /\ j.state = "FIN_WAIT_1" /\ j.peer = conn[c].peer
      /\ j.slot = NoSlot
  BY <1>1, ConnFacts, ClearOK
<1> HIDE DEF j
<1>3. l \in TCONN
  BY <1>2 DEF RecOK, TCONN, States
<1>4. /\ l.state = "FIN_WAIT_2" /\ l.peer = conn[c].peer /\ l.slot = NoSlot
  BY <1>2 DEF RecOK, TCONN
<1>5. RecOK(l)
  BY <1>2, <1>3, <1>4 DEF RecOK, Sending
<1> HIDE DEF l
<1>6. RecOK(k) /\ k.slot = NoSlot /\ k.peer = conn[c].peer
  BY <1>4, <1>5, ActiveOK
<1>7. Keeps(pool, pool', c)
  BY <1>1, ConnFacts, CancelKeeps DEF rtx_clear_pool, IInv
<1> HIDE DEF k
<1> QED
  BY <1>1, <1>6, <1>7, ClearedOK

LEMMA FinWait1FinOK ==
    ASSUME IInv, NEW c \in Conns, NEW acksFin \in BOOLEAN,
           tcp_finwait1_fin_handler(c, acksFin)
    PROVE  IInv'
<1> DEFINE s == IF acksFin THEN "TIME_WAIT" ELSE "CLOSING"
           k == Active([conn[c] EXCEPT !.state = s])
<1>1. /\ conn[c].state = "FIN_WAIT_1" /\ Live(c) /\ UNCHANGED <<scan, busy, kept, robbed>>
      /\ pool' = IF acksFin THEN timer_set(pool, "timewait", c, Msl2) ELSE pool
      /\ conn' = [conn EXCEPT ![c] = k]
  BY DEF tcp_finwait1_fin_handler, tcp_handle, Live
<1>2. s \in States \ {"CLOSED"} /\ s \notin Sending
  BY DEF States, Sending
<1> HIDE DEF s
<1>3. /\ RecOK(k) /\ k.peer = conn[c].peer /\ k.slot = conn[c].slot
      /\ k.flight = conn[c].flight /\ k.saved = conn[c].saved
  BY <1>1, <1>2, MoveOK
<1>4. Msl2 \in Nat /\ PoolOK(pool) /\ pool \in TcpPools
  BY TableAssumption DEF IInv, PoolOK
<1>5. /\ Keeps(pool, pool', c)
      /\ \A i \in Slots : pool[i].cb # NoCb => pool'[i] = pool[i]
  BY <1>1, <1>4, SetKeeps, KeepsSame
<1> HIDE DEF k
<1> QED
  BY <1>1, <1>3, <1>5, SameHandleOK

\* The 2MSL timer and its handle.
LEMMA TimeWaitOK ==
    ASSUME IInv, NEW c \in Conns, Live(c), NEW p, Keeps(pool, p, c),
           EnterTimeWait(p, c), UNCHANGED <<scan, busy, kept, robbed>>
    PROVE  IInv'
<1> DEFINE s == timer_set_slot(p)
           l == [conn[c] EXCEPT !.state = "TIME_WAIT", !.slot = s]
           k == Active(l)
<1>1. /\ pool' = timer_set(p, "timewait", c, Msl2)
      /\ conn' = [conn EXCEPT ![c] = k]
  BY DEF EnterTimeWait
<1>2. PoolOK(p) /\ Msl2 \in Nat
  BY KeepsPoolOK, TableAssumption DEF IInv
<1>3. /\ Keeps(p, pool', c)
      /\ s \in Slots \cup {NoSlot}
      /\ s # NoSlot => s # 0 /\ pool'[s].cb = "timewait" /\ pool'[s].ctx = c
  BY <1>1, <1>2, SetKeeps
<1>4. RecOK(conn[c])
  BY ConnFacts
<1> HIDE DEF s
<1>5. l \in TCONN
  BY <1>3, <1>4 DEF RecOK, TCONN, States
<1>6. l.state = "TIME_WAIT" /\ l.peer = conn[c].peer /\ l.slot = s
  BY <1>4 DEF RecOK, TCONN
<1>7. RecOK(l)
  BY <1>4, <1>5, <1>6 DEF RecOK, Sending, Live
<1> HIDE DEF l
<1>8. RecOK(k) /\ k.peer = conn[c].peer /\ k.slot = s
  BY <1>6, <1>7, ActiveOK
<1>9. HandleOK(pool', c, k)
  BY <1>3, <1>8 DEF HandleOK, NoSlot
<1>10. Keeps(pool, pool', c)
  BY <1>3, KeepsTrans
<1>11. scan' \in -1 .. Cap /\ busy' \in 0 .. MaxBusy
  BY DEF IInv
<1> HIDE DEF k
<1> QED
  BY <1>1, <1>8, <1>9, <1>10, <1>11, StepOK

LEMMA SegmentOK ==
    ASSUME IInv, NEW c \in Conns, Segment(c)
    PROVE  IInv'
<1> USE DEF tcp_handle
<1>0. Keeps(pool, pool, c)
  BY KeepsSame DEF IInv, PoolOK
<1>1. CASE tcp_conn_close_handler(c)
  BY <1>1, CloseConnOK DEF tcp_conn_close_handler
<1>2. CASE \E hard \in BOOLEAN : tcp_icmp_err(c, hard)
  BY <1>2, CloseConnOK DEF tcp_icmp_err
<1>3. CASE \E good \in BOOLEAN : tcp_synrcvd_ack_handler(c, good)
  BY <1>3, SynRcvdAckOK
<1>4. CASE \E acked \in 0 .. MaxFlight, inSync, pure \in BOOLEAN,
              zero \in Windows :
              tcp_estab_ack_handler(c, acked, inSync, pure, zero)
  BY <1>4, EstabAckOK
<1>5. CASE \E accepted \in BOOLEAN : tcp_estab_fin_handler(c, accepted)
  BY <1>5, EstabFinOK
<1>6. CASE tcp_drop_handler(c)
  BY <1>6, TouchOK DEF tcp_drop_handler, Live
<1>7. CASE PartialAck(c)
  BY <1>7, TouchOK DEF PartialAck, Live
<1>8. CASE tcp_lastack_ack_handler(c)
  BY <1>8, CloseConnOK DEF tcp_lastack_ack_handler
<1>9. CASE tcp_finwait1_ack_handler(c)
  BY <1>9, FinWait1AckOK
<1>10. CASE \E acksFin \in BOOLEAN : tcp_finwait1_fin_handler(c, acksFin)
  BY <1>10, FinWait1FinOK
<1>11. CASE tcp_finwait2_fin_handler(c)
  BY <1>0, <1>11, TimeWaitOK DEF tcp_finwait2_fin_handler, Live
<1>12. CASE tcp_closing_ack_handler(c)
  BY <1>0, <1>12, TimeWaitOK DEF tcp_closing_ack_handler, Live
<1>13. CASE tcp_timewait_fin_handler(c)
  <2>1. Keeps(pool, timer_cancel(pool, conn[c].slot), c)
    BY ConnFacts, CancelKeeps DEF IInv
  <2> QED
    BY <1>13, <2>1, TimeWaitOK DEF tcp_timewait_fin_handler, Live
<1> QED
  BY <1>1, <1>2, <1>3, <1>4, <1>5, <1>6, <1>7, <1>8, <1>9, <1>10, <1>11,
     <1>12, <1>13 DEF Segment

-----------------------------------------------------------------------------
(* Calls of the HTTP server. *)

LEMMA SendOK ==
    ASSUME IInv, NEW c \in Conns, NEW zero \in Windows, tcp_send(c, zero)
    PROVE  IInv'
<1> DEFINE k == [conn[c] EXCEPT !.flight = @ + 1, !.wnd0 = zero]
<1>1. /\ conn[c].state = "ESTABLISHED" /\ Live(c) /\ UNCHANGED <<scan, busy, kept, robbed>>
      /\ conn[c].flight < MaxFlight /\ tcp_rtx_arm(pool, c, k)
  BY DEF tcp_send, Live
<1>2. RecOK(conn[c]) /\ zero \in BOOLEAN
  BY ConnFacts, TableAssumption
<1>3. /\ conn[c].flight + 1 \in 0 .. MaxFlight + 1
      /\ conn[c].flight + 1 <= MaxFlight /\ conn[c].flight + 1 > 0
  BY <1>1, <1>2, TableAssumption DEF RecOK, TCONN
<1>4. k \in TCONN
  BY <1>2, <1>3 DEF RecOK, TCONN
<1>5. /\ k.state = "ESTABLISHED" /\ k.peer = conn[c].peer
      /\ k.flight = conn[c].flight + 1
  BY <1>1, <1>2 DEF RecOK, TCONN
<1>6. RecOK(k)
  BY <1>2, <1>3, <1>4, <1>5 DEF RecOK
<1>7. Keeps(pool, pool, c) /\ scan' \in -1 .. Cap /\ busy' \in 0 .. MaxBusy
  BY <1>1, KeepsSame DEF IInv, PoolOK
<1> HIDE DEF k
<1> QED
  BY <1>1, <1>3, <1>5, <1>6, <1>7, ArmStepOK

LEMMA CloseOK ==
    ASSUME IInv, NEW c \in Conns, tcp_close(c)
    PROVE  IInv'
<1> DEFINE s == IF conn[c].state = "ESTABLISHED" THEN "FIN_WAIT_1"
                                                 ELSE "LAST_ACK"
           l == [conn[c] EXCEPT !.state = s, !.flight = @ + 1]
           k == [l EXCEPT !.saved = TRUE, !.rtx = 0]
<1>1. /\ conn[c].state \in Sending /\ Live(c) /\ UNCHANGED <<scan, busy, kept, robbed>>
      /\ tcp_rtx_arm(pool, c, k)
  BY DEF tcp_close, Live, tcp_rtx_save, Sending
<1>2. s \in States /\ s # "CLOSED" /\ s \notin Sending
  BY DEF States, Sending
<1> HIDE DEF s
<1>3. RecOK(conn[c])
  BY ConnFacts
<1>4. /\ conn[c].flight + 1 \in 0 .. MaxFlight + 1 /\ 0 \in 0 .. MaxRtx
      /\ conn[c].flight + 1 > 0
  BY <1>1, <1>3, TableAssumption DEF RecOK, TCONN
<1>5. /\ l \in TCONN /\ l.state = s /\ l.peer = conn[c].peer
      /\ l.flight = conn[c].flight + 1
  BY <1>2, <1>3, <1>4 DEF RecOK, TCONN
<1> HIDE DEF l
<1>6. /\ k \in TCONN /\ k.state = s /\ k.peer = conn[c].peer
      /\ k.flight = conn[c].flight + 1
  BY <1>4, <1>5 DEF TCONN
<1>7. RecOK(k)
  BY <1>1, <1>2, <1>3, <1>6 DEF RecOK, Live
<1>8. Keeps(pool, pool, c) /\ scan' \in -1 .. Cap /\ busy' \in 0 .. MaxBusy
  BY <1>1, KeepsSame DEF IInv, PoolOK
<1> HIDE DEF k
<1> QED
  BY <1>1, <1>2, <1>4, <1>6, <1>7, <1>8, ArmStepOK

-----------------------------------------------------------------------------
(* Timer callbacks. *)

\* What a callback of connection c starts from: the pool without its timer,
\* and timer_check's next index.
LEMMA CallbackFacts ==
    ASSUME IInv, NEW c \in Conns, NEW cb, Fires(cb, c)
    PROVE  LET p == Fired(pool, scan)
               f == Firing(pool, scan)
           IN  /\ Keeps(pool, p, c) /\ PoolOK(p)
               /\ f \in Slots /\ pool[f].cb = cb /\ pool[f].ctx = c
               /\ \A i \in Slots : i # f => p[i] = pool[i]
               /\ scan' \in -1 .. Cap /\ busy' \in 0 .. MaxBusy
<1> DEFINE p == Fired(pool, scan)
           f == Firing(pool, scan)
<1>1. /\ Keeps(pool, p, c) /\ f \in Slots /\ pool[f].cb = cb
      /\ pool[f].ctx = c /\ \A i \in Slots : i # f => p[i] = pool[i]
  BY FiredKeeps DEF IInv
<1>2. PoolOK(p)
  BY <1>1, KeepsPoolOK DEF IInv
<1>3. scan' = f + 1 /\ busy' = busy
  BY DEF Fires
<1>4. scan' \in -1 .. Cap /\ busy' \in 0 .. MaxBusy
  BY <1>1, <1>3, CapAssumption DEF Slots, IInv
<1> QED
  BY <1>1, <1>2, <1>4

\* A callback that leaves the handle alone must not have been the handle's.
LEMMA ForeignTimerOK ==
    ASSUME IInv, NEW c \in Conns, NEW cb, Fires(cb, c),
           NEW q, Keeps(Fired(pool, scan), q, c),
           \A i \in Slots : Fired(pool, scan)[i].cb # NoCb
                              => q[i] = Fired(pool, scan)[i],
           NEW k, k.slot = conn[c].slot, k.flight = conn[c].flight,
           k.saved = conn[c].saved,
           ~robbed => conn[c].slot # Firing(pool, scan)
    PROVE  HandleOK(q, c, k)
<1>1. \A i \in Slots : i # Firing(pool, scan)
                         => Fired(pool, scan)[i] = pool[i]
  BY CallbackFacts
<1>2. HandleOK(pool, c, conn[c]) /\ conn[c].slot \in Slots \cup {NoSlot}
  BY ConnFacts
<1>3. ~robbed /\ conn[c].slot # NoSlot =>
          q[conn[c].slot] = pool[conn[c].slot]
  BY <1>1, <1>2 DEF HandleOK, NoCb
<1> QED
  BY <1>2, <1>3 DEF HandleOK

\* A callback that leaves the table as it is.
LEMMA NoticeOK ==
    ASSUME IInv, NEW c \in Conns, NEW cb, Fires(cb, c),
           pool' = Fired(pool, scan), UNCHANGED <<conn, kept, robbed>>,
           ~robbed => conn[c].slot # Firing(pool, scan)
    PROVE  IInv'
<1> DEFINE p == Fired(pool, scan)
           k == conn[c]
<1>1. /\ Keeps(pool, p, c) /\ PoolOK(p)
      /\ scan' \in -1 .. Cap /\ busy' \in 0 .. MaxBusy
  BY CallbackFacts
<1>2. Keeps(p, p, c)
  BY <1>1, KeepsSame DEF PoolOK
<1>3. HandleOK(p, c, k)
  BY <1>2, ForeignTimerOK
<1>4. conn' = [conn EXCEPT ![c] = k]
  BY DEF IInv
<1>5. RecOK(k)
  BY ConnFacts
<1> HIDE DEF p
<1> QED
  BY <1>1, <1>3, <1>4, <1>5, StepOK DEF p, Live

RtoDoubled(k) == [k EXCEPT !.dup = 0, !.rto = DoubledRto(@)]

LEMMA RtoDoubledOK ==
    ASSUME NEW k, RecOK(k)
    PROVE  LET l == RtoDoubled(k)
           IN  /\ RecOK(l) /\ l.state = k.state /\ l.peer = k.peer
               /\ l.slot = k.slot /\ l.flight = k.flight /\ l.saved = k.saved
               /\ l.rtx = k.rtx
<1>1. k.rto \in 0 .. RtoMod - 1
  BY DEF RecOK, TCONN
<1>2. DoubledRto(k.rto) \in 0 .. RtoMod - 1 /\ 0 \in 0 .. DupThresh + 1
  <2>1. 2 * k.rto \in Nat /\ RtoMod \in Nat \ {0}
    BY <1>1, TableAssumption
  <2>2. (2 * k.rto) % RtoMod \in 0 .. RtoMod - 1
    BY <2>1
  <2> QED
    BY <2>2, TableAssumption DEF DoubledRto, Saturate
<1>3. RtoDoubled(k) \in TCONN
  BY <1>2 DEF RecOK, TCONN, RtoDoubled
<1>4. LET l == RtoDoubled(k)
      IN  /\ l.state = k.state /\ l.peer = k.peer /\ l.slot = k.slot
          /\ l.flight = k.flight /\ l.saved = k.saved /\ l.rtx = k.rtx
  BY DEF RecOK, TCONN, RtoDoubled
<1> QED
  BY <1>3, <1>4 DEF RecOK

\* A callback that closes its connection.
LEMMA ExpireOK ==
    ASSUME IInv, NEW c \in Conns, NEW cb, Fires(cb, c),
           pool' = Fired(pool, scan), UNCHANGED <<kept, robbed>>,
           conn' = [conn EXCEPT ![c] = Closed(conn[c])]
    PROVE  IInv'
<1> DEFINE k == Closed(conn[c])
<1>1. /\ Keeps(pool, pool', c)
      /\ scan' \in -1 .. Cap /\ busy' \in 0 .. MaxBusy
  BY CallbackFacts
<1>2. RecOK(k) /\ HandleOK(pool', c, k)
  BY ConnFacts, ClosedOK
<1>3. k.state = "CLOSED"
  BY DEF Closed
<1> HIDE DEF k
<1> QED
  BY <1>1, <1>2, <1>3, StepOK DEF k

LEMMA RetransmitOK ==
    ASSUME IInv, NEW c \in Conns, tcp_retransmit_cb(c)
    PROVE  IInv'
<1> DEFINE p == Fired(pool, scan)
           f == Firing(pool, scan)
           k == RtoDoubled(conn[c])
<1>1. /\ Fires("rtx", c) /\ UNCHANGED <<kept, robbed>>
      /\ \/ /\ ~Live(c)
            /\ pool' = p /\ UNCHANGED conn
         \/ /\ pool' = p
            /\ conn' = [conn EXCEPT ![c] = Closed(conn[c])]
         \/ /\ Live(c) /\ k.flight = 0 /\ ~k.saved
            /\ pool' = p
            /\ conn' = [conn EXCEPT ![c] = k]
         \/ /\ Live(c) /\ k.rtx < MaxRtx /\ (k.flight > 0 \/ k.saved)
            /\ tcp_rtx_arm(p, c, [k EXCEPT !.rtx = @ + 1])
  BY DEF tcp_retransmit_cb, Retransmit, RtoDoubled, Fires
<1>2. /\ Keeps(pool, p, c) /\ PoolOK(p)
      /\ f \in Slots /\ pool[f].cb = "rtx" /\ pool[f].ctx = c
      /\ scan' \in -1 .. Cap /\ busy' \in 0 .. MaxBusy
  BY <1>1, CallbackFacts
<1>3. RecOK(conn[c]) /\ HandleOK(pool, c, conn[c])
  BY ConnFacts
<1>4. /\ RecOK(k) /\ k.state = conn[c].state /\ k.peer = conn[c].peer
      /\ k.slot = conn[c].slot /\ k.flight = conn[c].flight
      /\ k.saved = conn[c].saved
  BY <1>3, RtoDoubledOK
<1> HIDE DEF k
<1>5. CASE ~Live(c) /\ pool' = p /\ UNCHANGED conn
  <2>1. conn[c].slot # f
    BY <1>2, <1>3, <1>5, SlotZero DEF Live, RecOK
  <2> QED
    BY <1>1, <1>5, <2>1, NoticeOK
<1>6. CASE pool' = p /\ conn' = [conn EXCEPT ![c] = Closed(conn[c])]
  BY <1>1, <1>6, ExpireOK
<1>7. CASE /\ Live(c) /\ k.flight = 0 /\ ~k.saved
           /\ pool' = p /\ conn' = [conn EXCEPT ![c] = k]
  <2>1. ~robbed => conn[c].slot # f
    BY <1>2, <1>3, <1>4, <1>7, SlotZero DEF HandleOK
  <2>2. Keeps(p, p, c)
    BY <1>2, KeepsSame DEF PoolOK
  <2>3. HandleOK(p, c, k)
    BY <1>1, <1>4, <2>1, <2>2, ForeignTimerOK
  <2> HIDE DEF p
  <2> QED
    BY <1>1, <1>2, <1>4, <1>7, <2>3, StepOK
<1>8. CASE /\ Live(c) /\ k.rtx < MaxRtx /\ (k.flight > 0 \/ k.saved)
           /\ tcp_rtx_arm(p, c, [k EXCEPT !.rtx = @ + 1])
  <2> DEFINE l == [k EXCEPT !.rtx = @ + 1]
  <2>1. k.rtx + 1 \in 0 .. MaxRtx
    BY <1>4, <1>8, TableAssumption DEF RecOK, TCONN
  <2>2. /\ l \in TCONN /\ l.state = k.state /\ l.peer = k.peer
        /\ l.slot = k.slot /\ l.flight = k.flight /\ l.saved = k.saved
    BY <1>4, <2>1 DEF RecOK, TCONN
  <2>3. RecOK(l)
    BY <1>4, <2>2 DEF RecOK
  <2> HIDE DEF l, p
  <2> QED
    BY <1>1, <1>2, <1>4, <1>8, <2>2, <2>3, ArmStepOK DEF l, Live
<1> QED
  BY <1>1, <1>5, <1>6, <1>7, <1>8

LEMMA PersistOK ==
    ASSUME IInv, NEW c \in Conns, tcp_persist_cb(c)
    PROVE  IInv'
<1> DEFINE p == Fired(pool, scan)
           f == Firing(pool, scan)
           shift == Saturate(conn[c].persist + 1, ShiftCap)
           k == [conn[c] EXCEPT !.persist = shift]
<1>1. /\ Fires("persist", c) /\ UNCHANGED <<kept, robbed>>
      /\ \/ pool' = p /\ UNCHANGED conn
         \/ /\ conn[c].state = "ESTABLISHED"
            /\ pool' = tcp_persist_arm(p, c, shift)
            /\ conn' = [conn EXCEPT ![c].persist = shift]
  BY DEF tcp_persist_cb, Fires
<1>2. /\ Keeps(pool, p, c) /\ PoolOK(p)
      /\ f \in Slots /\ pool[f].cb = "persist" /\ pool[f].ctx = c
      /\ scan' \in -1 .. Cap /\ busy' \in 0 .. MaxBusy
  BY <1>1, CallbackFacts
<1>3. RecOK(conn[c]) /\ HandleOK(pool, c, conn[c])
  BY ConnFacts
<1>4. ~robbed => conn[c].slot # f
  BY <1>2, <1>3, SlotZero DEF HandleOK
<1>5. CASE pool' = p /\ UNCHANGED conn
  BY <1>1, <1>4, <1>5, NoticeOK
<1>6. CASE /\ conn[c].state = "ESTABLISHED"
           /\ pool' = tcp_persist_arm(p, c, shift)
           /\ conn' = [conn EXCEPT ![c].persist = shift]
  <2>1. shift \in 1 .. ShiftCap /\ shift \in 0 .. ShiftCap
    BY <1>3, TableAssumption DEF RecOK, TCONN, Saturate
  <2>2. conn' = [conn EXCEPT ![c] = k]
    BY <1>6
  <2> HIDE DEF shift
  <2>3. PersistDelay(shift) \in Nat
    <3>1. PersistInitial * 2^(shift - 1) \in Nat /\ PersistMax \in Nat
      BY <2>1, PersistAssumption, TableAssumption
    <3> QED
      BY <3>1 DEF PersistDelay
  <2>4. /\ Keeps(p, pool', c)
        /\ \A i \in Slots : p[i].cb # NoCb => pool'[i] = p[i]
    BY <1>2, <1>6, <2>3, SetKeeps DEF tcp_persist_arm
  <2>5. /\ k \in TCONN /\ k.state = conn[c].state /\ k.peer = conn[c].peer
        /\ k.slot = conn[c].slot /\ k.flight = conn[c].flight
        /\ k.saved = conn[c].saved
    BY <1>3, <2>1 DEF RecOK, TCONN
  <2>6. RecOK(k)
    BY <1>3, <2>5 DEF RecOK
  <2> HIDE DEF k
  <2>7. HandleOK(pool', c, k)
    BY <1>1, <1>4, <2>4, <2>5, ForeignTimerOK
  <2>8. Keeps(pool, pool', c)
    BY <1>2, <2>4, KeepsTrans
  <2>9. Live(c)
    BY <1>6 DEF Live
  <2> HIDE DEF p
  <2> QED
    BY <1>1, <1>2, <2>2, <2>5, <2>6, <2>7, <2>8, <2>9, StepOK
<1> QED
  BY <1>1, <1>5, <1>6

\* The reaper frees slot 0 by firing and finds it free again when it rearms:
\* the connections it closes own other slots, and timer_set takes the first.
LEMMA ReaperPool ==
    ASSUME IInv, Fires("reaper", 0)
    PROVE  LET p == ReapedPool(Fired(pool, scan))
               q == timer_set(p, "reaper", 0, ReaperInterval)
           IN  /\ PoolOK(q)
               /\ \A i \in Slots : /\ i # 0
                                   /\ ~\E c \in Reaped : conn[c].slot = i
                                   => q[i] = pool[i]
<1> DEFINE f == Firing(pool, scan)
           p == ReapedPool(Fired(pool, scan))
           s == timer_set_slot(p)
           q == timer_set(p, "reaper", 0, ReaperInterval)
<1>1. pool \in Pools(Cbs, Ctxs) /\ NoCb \in Cbs /\ 0 \in Ctxs
  BY TableAssumption DEF Ctxs, PoolOK, TcpPools, Cbs, IInv
<1>2. Due(pool, scan) # {} /\ pool[f].cb = "reaper"
  BY DEF Fires
<1>3. /\ f \in Slots /\ Fired(pool, scan) \in Pools(Cbs, Ctxs)
      /\ Fired(pool, scan)[f].cb = NoCb
      /\ \A i \in Slots : i # f => Fired(pool, scan)[i] = pool[i]
  BY <1>1, <1>2, TimerFire
<1>4. f = 0
  BY <1>2, <1>3 DEF IInv, PoolOK
<1>5. Inactive \in [cb : Cbs, ctx : Ctxs, left : Nat]
  BY <1>1 DEF Inactive
<1>6. p \in Pools(Cbs, Ctxs)
  BY <1>3, <1>5 DEF Pools, ReapedPool
<1>7. p[0].cb = NoCb
  BY <1>3, <1>4, SlotZero DEF ReapedPool, Inactive
<1>8. \A i \in Slots : /\ i # 0 /\ ~\E c \in Reaped : conn[c].slot = i
                       => p[i] = pool[i]
  BY <1>3, <1>4 DEF ReapedPool
<1>9. \A i \in Slots : i # 0 => p[i].cb # "reaper"
  BY <1>3, <1>4 DEF ReapedPool, Inactive, NoCb, IInv, PoolOK
<1>10. FreeSlots(p) # {}
  BY <1>7, SlotZero DEF FreeSlots
<1> HIDE DEF p
<1>11. "reaper" \in Cbs /\ ReaperInterval \in Nat
  BY TableAssumption DEF Cbs
<1>12. s # NoSlot
  <2>1. FreeSlots(p) \subseteq Nat
    BY CapAssumption DEF FreeSlots, Slots
  <2>2. Min(FreeSlots(p)) \in Nat
    BY <1>10, <2>1, MinInSet
  <2> QED
    BY <1>10, <2>2 DEF timer_set_slot, NoSlot
<1>13. /\ q \in Pools(Cbs, Ctxs) /\ s \in Slots
       /\ \A i \in Slots : p[i].cb = NoCb => s <= i
       /\ q[s] = [cb |-> "reaper", ctx |-> 0, left |-> ReaperInterval]
       /\ \A i \in Slots : i # s => q[i] = p[i]
  BY <1>1, <1>6, <1>11, <1>12, TimerSet
<1>14. s = 0
  <2>1. s <= 0
    BY <1>7, <1>13, SlotZero
  <2> QED
    BY <1>13, <2>1, CapAssumption DEF Slots
<1>15. PoolOK(q)
  BY <1>9, <1>13, <1>14 DEF PoolOK, TcpPools
<1> QED
  BY <1>8, <1>13, <1>14, <1>15 DEF p

LEMMA ReaperOK ==
    ASSUME IInv, tcp_idle_reaper_cb
    PROVE  IInv'
<1>1. Fires("reaper", 0) /\ conn' = ReapedTable /\ UNCHANGED <<kept, robbed>>
  BY DEF tcp_idle_reaper_cb, Fires
<1>2. /\ PoolOK(pool')
      /\ \A i \in Slots : i # 0 /\ ~(\E c \in Reaped : conn[c].slot = i)
                          => pool'[i] = pool[i]
  BY <1>1, ReaperPool DEF tcp_idle_reaper_cb
<1>3. scan' \in -1 .. Cap /\ busy' \in 0 .. MaxBusy
  <2>1. pool \in Pools(Cbs, Ctxs) /\ NoCb \in Cbs /\ 0 \in Ctxs
    BY TableAssumption DEF Ctxs, PoolOK, TcpPools, Cbs, IInv
  <2>2. Firing(pool, scan) \in Slots
    BY <1>1, <2>1, TimerFire DEF Fires
  <2> QED
    BY <1>1, <2>2, CapAssumption DEF Fires, Slots, IInv
<1>4. \A c \in Conns : \/ c \in Reaped /\ conn'[c] = Closed(conn[c])
                       \/ c \notin Reaped /\ conn'[c] = conn[c]
  BY <1>1 DEF ReapedTable
<1>5. \A c \in Conns : RecOK(conn'[c]) /\ HandleOK(pool', c, conn'[c])
  <2> SUFFICES ASSUME NEW c \in Conns
               PROVE  RecOK(conn'[c]) /\ HandleOK(pool', c, conn'[c])
    OBVIOUS
  <2>1. CASE c \in Reaped /\ conn'[c] = Closed(conn[c])
    BY <2>1, ConnFacts, ClosedOK
  <2>2. CASE c \notin Reaped /\ conn'[c] = conn[c]
    <3>1. RecOK(conn[c]) /\ HandleOK(pool, c, conn[c])
      BY ConnFacts
    <3>2. ~robbed /\ conn[c].slot # NoSlot =>
             /\ conn[c].slot \in Slots /\ conn[c].slot # 0
             /\ pool[conn[c].slot].ctx = c
      BY <3>1 DEF HandleOK, RecOK, TCONN, IInv, PoolOK
    <3>3. ~robbed /\ conn[c].slot # NoSlot =>
            ~\E d \in Reaped : conn[d].slot = conn[c].slot
      <4> SUFFICES ASSUME ~robbed, conn[c].slot # NoSlot, NEW d \in Reaped,
                          conn[d].slot = conn[c].slot
                   PROVE  FALSE
        OBVIOUS
      <4>1. d \in Conns
        BY DEF Reaped
      <4>2. pool[conn[d].slot].ctx = d
        BY <4>1, ConnFacts
      <4> QED
        BY <2>2, <3>2, <4>2
    <3>4. ~robbed /\ conn[c].slot # NoSlot =>
            pool'[conn[c].slot] = pool[conn[c].slot]
      BY <1>2, <3>2, <3>3
    <3> QED
      BY <2>2, <3>1, <3>4 DEF HandleOK
  <2> QED
    BY <1>4, <2>1, <2>2
<1>6. conn' \in [Conns -> TCONN]
  <2>1. \A c \in Conns : conn'[c] \in TCONN
    BY <1>5 DEF RecOK
  <2>2. conn' = [c \in Conns |-> conn'[c]]
    BY <1>1 DEF ReapedTable
  <2> QED
    BY <2>1, <2>2
<1>7. UniqueTuple'
  <2>0. \A k : Closed(k).state = "CLOSED"
    BY DEF Closed
  <2>1. \A c \in Conns : conn'[c].state # "CLOSED"
                         => Live(c) /\ conn'[c] = conn[c]
    BY <1>4, <2>0 DEF Live
  <2> QED
    BY <2>1 DEF IInv, UniqueTuple, Live
<1> QED
  BY <1>1, <1>2, <1>3, <1>5, <1>6, <1>7 DEF IInv, HandleOK

LEMMA TickOK ==
    ASSUME IInv, Tick
    PROVE  IInv'
<1>1. /\ UNCHANGED <<kept, robbed>>
      /\ scan' = scan /\ busy < MaxBusy /\ busy' = busy + 1
      /\ pool' = Elapse(pool)
      /\ conn' = [c \in Conns |->
                    IF Live(c) /\ conn[c].idle < IdleMax
                    THEN [conn[c] EXCEPT !.idle = @ + 1] ELSE conn[c]]
  BY DEF Tick
<1>2. pool \in Pools(Cbs, Ctxs)
  BY DEF IInv, PoolOK, TcpPools
<1>3. /\ pool' \in Pools(Cbs, Ctxs)
      /\ \A i \in Slots : pool'[i].cb = pool[i].cb /\ pool'[i].ctx = pool[i].ctx
  BY <1>1, <1>2, TimerElapse
<1>4. PoolOK(pool')
  BY <1>3, SlotZero DEF IInv, PoolOK, TcpPools
<1>5. scan' \in -1 .. Cap /\ busy' \in 0 .. MaxBusy
  BY <1>1, TableAssumption DEF IInv
<1>6. \A c \in Conns :
        /\ conn'[c] \in TCONN
        /\ conn'[c].state = conn[c].state /\ conn'[c].peer = conn[c].peer
        /\ conn'[c].slot = conn[c].slot /\ conn'[c].flight = conn[c].flight
        /\ conn'[c].saved = conn[c].saved
  <2> SUFFICES ASSUME NEW c \in Conns
               PROVE  /\ conn'[c] \in TCONN
                      /\ conn'[c].state = conn[c].state
                      /\ conn'[c].peer = conn[c].peer
                      /\ conn'[c].slot = conn[c].slot
                      /\ conn'[c].flight = conn[c].flight
                      /\ conn'[c].saved = conn[c].saved
    OBVIOUS
  <2>1. conn[c] \in TCONN
    BY ConnFacts
  <2>2. CASE Live(c) /\ conn[c].idle < IdleMax
    <3>1. conn'[c] = [conn[c] EXCEPT !.idle = @ + 1]
      BY <1>1, <2>2
    <3>2. conn[c].idle + 1 \in 0 .. IdleMax
      BY <2>1, <2>2, IdleMaxNat DEF TCONN
    <3> QED
      BY <2>1, <3>1, <3>2 DEF TCONN
  <2>3. CASE ~(Live(c) /\ conn[c].idle < IdleMax)
    BY <1>1, <2>1, <2>3
  <2> QED
    BY <2>2, <2>3
<1>7. conn' \in [Conns -> TCONN]
  <2>1. conn' = [c \in Conns |-> conn'[c]]
    BY <1>1
  <2> QED
    BY <1>6, <2>1
<1>8. \A c \in Conns : RecOK(conn'[c]) /\ HandleOK(pool', c, conn'[c])
  <2> SUFFICES ASSUME NEW c \in Conns
               PROVE  RecOK(conn'[c]) /\ HandleOK(pool', c, conn'[c])
    OBVIOUS
  <2>1. /\ RecOK(conn[c]) /\ HandleOK(pool, c, conn[c])
        /\ conn[c].slot \in Slots \cup {NoSlot}
    BY ConnFacts
  <2>2. RecOK(conn'[c])
    BY <1>6, <2>1 DEF RecOK
  <2>3. HandleOK(pool', c, conn'[c])
    BY <1>3, <1>6, <2>1 DEF HandleOK
  <2> QED
    BY <2>2, <2>3
<1>9. UniqueTuple'
  BY <1>6 DEF IInv, UniqueTuple, Live
<1> QED
  BY <1>1, <1>4, <1>5, <1>7, <1>8, <1>9 DEF IInv, HandleOK

-----------------------------------------------------------------------------
(* The rest of the stack. *)

\* A step of another user of the pool keeps the invariant when it leaves the
\* reaper and, unless it robs, every timer a connection can remember alone.
LEMMA OtherStepOK ==
    ASSUME IInv, PoolOK(pool'), scan' \in -1 .. Cap, busy' = busy, conn' = conn,
           KeptOK(kept'), robbed' \in BOOLEAN, robbed' => UseDhcp,
           ~robbed' =>
               /\ ~robbed
               /\ \A i \in Slots : pool[i].cb \in {"rtx", "timewait"} =>
                                       pool'[i] = pool[i]
    PROVE  IInv'
<1>1. \A c \in Conns : RecOK(conn'[c])
  BY DEF IInv
<1>2. \A c \in Conns : HandleOK(pool, c, conn[c])'
  <2> SUFFICES ASSUME NEW c \in Conns PROVE HandleOK(pool, c, conn[c])'
    OBVIOUS
  <2>1. HandleOK(pool, c, conn[c]) /\ conn[c].slot \in Slots \cup {NoSlot}
    BY ConnFacts
  <2> QED
    BY <2>1 DEF HandleOK
<1>3. UniqueTuple'
  BY DEF IInv, UniqueTuple, Live
<1> QED
  BY <1>1, <1>2, <1>3 DEF IInv

\* timer_set for it, in a pool that holds the timers of this one.
LEMMA OtherArmOK ==
    ASSUME NEW p, PoolOK(p), KeptOK(kept), OtherArm(p)
    PROVE  /\ PoolOK(pool') /\ KeptOK(kept')
           /\ \A i \in Slots : p[i].cb # NoCb => pool'[i] = p[i]
<1> DEFINE s == timer_set_slot(p)
<1>1. p \in Pools(Cbs, Ctxs) /\ "other" \in Cbs /\ 0 \in Ctxs
      /\ OtherDelay \in Nat
  BY TableAssumption DEF Ctxs, PoolOK, TcpPools, Cbs
<1>2. pool' = timer_set(p, "other", 0, OtherDelay)
  BY DEF OtherArm
<1>3. /\ pool' \in Pools(Cbs, Ctxs)
      /\ s # NoSlot => /\ s \in Slots /\ p[s].cb = NoCb
                       /\ pool'[s] = [cb |-> "other", ctx |-> 0,
                                      left |-> OtherDelay]
      /\ \A i \in Slots : i # s => pool'[i] = p[i]
      /\ \A i \in Slots : p[i].cb # NoCb => pool'[i] = p[i]
  BY <1>1, <1>2, TimerSet
<1>4. s # 0
  BY <1>3, SlotZero DEF PoolOK, NoCb, NoSlot
<1>5. pool'[0] = p[0]
  BY <1>3, <1>4, SlotZero
<1>6. \A i \in Slots : pool'[i].cb = "reaper" => i = 0
  <2> SUFFICES ASSUME NEW i \in Slots, pool'[i].cb = "reaper" PROVE i = 0
    OBVIOUS
  <2>1. i # s
    BY <1>3, SlotZero
  <2> QED
    BY <1>3, <2>1 DEF PoolOK
<1>7. KeptOK(kept')
  BY <1>4 DEF KeptOK, OtherArm
<1> QED
  BY <1>3, <1>5, <1>6, <1>7 DEF PoolOK, TcpPools

LEMMA OtherSetOK ==
    ASSUME IInv, OtherSet
    PROVE  IInv'
<1>1. PoolOK(pool) /\ KeptOK(kept) /\ OtherArm(pool)
  BY DEF IInv, OtherSet
<1>2. /\ PoolOK(pool') /\ KeptOK(kept')
      /\ \A i \in Slots : pool[i].cb # NoCb => pool'[i] = pool[i]
  BY <1>1, OtherArmOK
<1>3. \A i \in Slots : pool[i].cb \in {"rtx", "timewait"} => pool'[i] = pool[i]
  BY <1>2 DEF NoCb
<1>4. /\ scan' \in -1 .. Cap /\ busy' = busy /\ conn' = conn
      /\ robbed' = robbed /\ robbed \in BOOLEAN /\ (robbed => UseDhcp)
  BY DEF IInv, OtherSet
<1> QED
  BY <1>2, <1>3, <1>4, OtherStepOK

\* timer_cancel for it, and timer_check about to call it.
LEMMA OtherFreeOK ==
    ASSUME IInv, NEW i \in Slots, i # 0
    PROVE  /\ PoolOK(timer_cancel(pool, i))
           /\ \A j \in Slots : j # i => timer_cancel(pool, i)[j] = pool[j]
<1>1. pool \in Pools(Cbs, Ctxs) /\ NoCb \in Cbs /\ 0 \in Ctxs
  BY TableAssumption DEF Ctxs, IInv, PoolOK, TcpPools, Cbs
<1>2. /\ timer_cancel(pool, i) \in Pools(Cbs, Ctxs)
      /\ \A j \in Slots : j # i => timer_cancel(pool, i)[j] = pool[j]
      /\ timer_cancel(pool, i)[i].cb = NoCb
  BY <1>1, TimerCancel
<1> QED
  BY <1>2, SlotZero DEF IInv, PoolOK, TcpPools, NoCb

LEMMA OtherFiresOK ==
    ASSUME IInv, NEW rearms \in BOOLEAN, OtherFires(rearms)
    PROVE  IInv'
<1> DEFINE f == Firing(pool, scan)
           q == Fired(pool, scan)
<1>1. pool \in Pools(Cbs, Ctxs) /\ NoCb \in Cbs /\ 0 \in Ctxs
  BY TableAssumption DEF Ctxs, IInv, PoolOK, TcpPools, Cbs
<1>2. /\ Due(pool, scan) # {} /\ pool[f].cb = "other"
      /\ scan' = f + 1 /\ busy' = busy /\ robbed' = robbed /\ conn' = conn
  BY DEF OtherFires, Fires
<1>3. f \in Slots
  BY <1>1, <1>2, TimerFire
<1>4. f # 0
  BY <1>2 DEF IInv, PoolOK
<1>5. q = timer_cancel(pool, f)
  BY DEF Fired
<1>6. PoolOK(q) /\ \A j \in Slots : j # f => q[j] = pool[j]
  BY <1>3, <1>4, <1>5, OtherFreeOK
<1>7. \A j \in Slots : pool[j].cb \in {"rtx", "timewait"} => q[j] = pool[j]
  BY <1>2, <1>6
<1>8. KeptOK(kept)
  BY DEF IInv
<1>9. /\ PoolOK(pool') /\ KeptOK(kept')
      /\ \A j \in Slots : pool[j].cb \in {"rtx", "timewait"} =>
                               pool'[j] = pool[j]
  <2>1. CASE pool' = q /\ kept' = kept
    BY <1>6, <1>7, <1>8, <2>1
  <2>2. CASE OtherArm(q)
    <3> HIDE DEF q
    <3>1. /\ PoolOK(pool') /\ KeptOK(kept')
          /\ \A j \in Slots : q[j].cb # NoCb => pool'[j] = q[j]
      BY <1>6, <1>8, <2>2, OtherArmOK
    <3> QED
      BY <1>7, <3>1 DEF NoCb
  <2> QED
    BY <2>1, <2>2 DEF OtherFires
<1>10. /\ scan' \in -1 .. Cap
       /\ robbed' = robbed /\ robbed \in BOOLEAN /\ (robbed => UseDhcp)
  BY <1>2, <1>3, CapAssumption DEF Slots, IInv
<1> QED
  BY <1>2, <1>9, <1>10, OtherStepOK

\* The only step that robs.
LEMMA OtherCancelOK ==
    ASSUME IInv, NEW i \in Slots, OtherCancel(i)
    PROVE  IInv'
<1>1. /\ i \in kept /\ (UseDhcp \/ pool[i].cb = "other")
      /\ pool' = timer_cancel(pool, i) /\ kept' = kept \ {i}
      /\ robbed' = (robbed \/ pool[i].cb \notin {NoCb, "other"})
      /\ scan' = scan /\ busy' = busy /\ conn' = conn
  BY DEF OtherCancel
<1>2. i # 0 /\ KeptOK(kept')
  BY <1>1 DEF IInv, KeptOK
<1>3. PoolOK(pool') /\ \A j \in Slots : j # i => pool'[j] = pool[j]
  BY <1>1, <1>2, OtherFreeOK
<1>4. ~robbed' => ~robbed /\ pool[i].cb \in {NoCb, "other"}
  BY <1>1
<1>5. ~robbed' => \A j \in Slots : pool[j].cb \in {"rtx", "timewait"} =>
                                        pool'[j] = pool[j]
  BY <1>3, <1>4 DEF NoCb
<1>6. /\ scan' \in -1 .. Cap /\ robbed' \in BOOLEAN
      /\ robbed \in BOOLEAN /\ (robbed => UseDhcp)
  BY <1>1 DEF IInv
<1>7. robbed' => UseDhcp
  BY <1>1, <1>6
<1> QED
  BY <1>1, <1>2, <1>3, <1>4, <1>5, <1>6, <1>7, OtherStepOK

-----------------------------------------------------------------------------
(* The specification. *)

LEMMA InitOK == Init => IInv
<1> SUFFICES ASSUME Init PROVE IInv
  OBVIOUS
<1>1. timer_pool_init \in Pools(Cbs, Ctxs) /\ "reaper" \in Cbs /\ 0 \in Ctxs
  BY TableAssumption DEF Cbs, Ctxs, Pools, timer_pool_init, Inactive
<1> DEFINE s == timer_set_slot(timer_pool_init)
<1>2. 0 \in FreeSlots(timer_pool_init) /\ FreeSlots(timer_pool_init) \subseteq Nat
  BY SlotZero, CapAssumption DEF FreeSlots, timer_pool_init, Inactive, Slots
<1>3. s = Min(FreeSlots(timer_pool_init))
  BY <1>2 DEF timer_set_slot
<1>4. s = 0
  BY <1>2, <1>3, MinInSet
<1>5. ReaperInterval \in Nat /\ s # NoSlot
  BY <1>4, TableAssumption DEF NoSlot
<1>6. /\ pool \in Pools(Cbs, Ctxs)
      /\ pool[0] = [cb |-> "reaper", ctx |-> 0, left |-> ReaperInterval]
      /\ \A i \in Slots : i # 0 => pool[i] = timer_pool_init[i]
  BY <1>1, <1>4, <1>5, TimerSet DEF Init
<1>7. \A i \in Slots : timer_pool_init[i].cb # "reaper"
  BY DEF timer_pool_init, Inactive, NoCb
<1>8. PoolOK(pool)
  BY <1>6, <1>7 DEF PoolOK, TcpPools
<1>9. scan \in -1 .. Cap /\ busy \in 0 .. MaxBusy
  BY CapAssumption, TableAssumption DEF Init, Dispatching
<1> DEFINE z == [rto |-> 0]
<1>10. z.rto \in 0 .. RtoMod - 1
  BY TableAssumption
<1>11. conn = [c \in Conns |-> Closed(z)]
  BY DEF Init
<1>12. \A c \in Conns : RecOK(conn[c]) /\ HandleOK(pool, c, conn[c])
  BY <1>10, <1>11, ClosedOK
<1>13. conn \in [Conns -> TCONN]
  BY <1>11, <1>12 DEF RecOK
<1>14. UniqueTuple
  BY <1>11 DEF UniqueTuple, Live, Closed
<1> QED
  BY <1>8, <1>9, <1>12, <1>13, <1>14 DEF IInv, Init, KeptOK

LEMMA NextOK == IInv /\ [Next]_vars => IInv'
<1> SUFFICES ASSUME IInv, [Next]_vars PROVE IInv'
  OBVIOUS
<1>1. CASE UNCHANGED vars
  BY <1>1 DEF vars, IInv, UniqueTuple, Live, HandleOK
<1>2. CASE TimerCheck
  <2>1. scan' \in -1 .. Cap
    BY <1>2, CapAssumption DEF TimerCheck
  <2> QED
    BY <1>2, <2>1 DEF TimerCheck, IInv, UniqueTuple, Live, HandleOK
<1>3. CASE TimerCheckReturn
  <2>1. scan' \in -1 .. Cap /\ busy' \in 0 .. MaxBusy
    BY <1>3, CapAssumption, TableAssumption DEF TimerCheckReturn, Dispatching
  <2> QED
    BY <1>3, <2>1 DEF TimerCheckReturn, IInv, UniqueTuple, Live, HandleOK
<1>4. CASE tcp_idle_reaper_cb
  BY <1>4, ReaperOK
<1>5. ASSUME NEW c \in Conns, Callback(c) PROVE IInv'
  <2>1. CASE tcp_timewait_cb(c)
    BY <2>1, ExpireOK DEF tcp_timewait_cb, Fires
  <2> QED
    BY <1>5, <2>1, RetransmitOK, PersistOK DEF Callback
<1>6. CASE Tick
  BY <1>6, TickOK
<1>7. ASSUME NEW peer \in Peers, NEW zero \in Windows,
             tcp_listen_syn_handler(peer, zero)
      PROVE  IInv'
  BY <1>7, SynOK
<1>8. ASSUME NEW c \in Conns, Segment(c) PROVE IInv'
  BY <1>8, SegmentOK
<1>9. ASSUME NEW c \in Conns, NEW zero \in Windows, tcp_send(c, zero)
      PROVE  IInv'
  BY <1>9, SendOK
<1>10. ASSUME NEW c \in Conns, tcp_close(c) PROVE IInv'
  BY <1>10, CloseOK
<1>11. CASE OtherSet
  BY <1>11, OtherSetOK
<1>12. ASSUME NEW rearms \in BOOLEAN, OtherFires(rearms) PROVE IInv'
  BY <1>12, OtherFiresOK
<1>13. ASSUME NEW i \in Slots, OtherCancel(i) PROVE IInv'
  BY <1>13, OtherCancelOK
<1> QED
  BY <1>1, <1>2, <1>3, <1>4, <1>5, <1>6, <1>7, <1>8, <1>9, <1>10, <1>11,
     <1>12, <1>13
  DEF Next, TimerStep

\* IInv holds in every reachable state of the connection table: the pool's
\* slots, the records' ranges, every remembered timer slot and the pinned
\* reaper.
THEOREM Invariance == Spec => []IInv
  BY InitOK, NextOK, PTL DEF Spec

\* Whatever the peers, the network, the HTTP server and the other users of the
\* pool do, the records of tcp_conn_table keep their ranges (the RTO: a u32)
\* and no peer has two entries, so that the lookup of tcp_handle has at most
\* one candidate.
THEOREM TableSafe == Spec => []TableInv
<1>1. IInv => TableInv
  BY DEF IInv, TableInv, TypeOK, PoolOK, TcpPools, Pools, Cbs, Ctxs,
         KeptOK
<1> QED
  BY <1>1, Invariance, PTL

\* Until a blind cancel of DHCP's commit has hit a timer of TCP, so always with
\* a static address, TCONN_TIMER_SLOT is -1 or a timer of this very connection:
\* tcp_rtx_clear never cancels anybody else's, whatever slots are reused.
THEOREM HandleSafe == Spec => []HandleOwned
<1>1. IInv => HandleOwned
  BY DEF IInv, HandleOwned, HandleOK
<1> QED
  BY <1>1, Invariance, PTL

\* Nothing displaces or cancels the idle reaper: neither TCP, through handles
\* that may have become stale, nor the blind cancels of DHCP.
THEOREM ReaperSafe == Spec => []ReaperPinned
<1>1. IInv => ReaperPinned
  BY DEF IInv, ReaperPinned, HandleOK, PoolOK, KeptOK
<1> QED
  BY <1>1, Invariance, PTL
=============================================================================
