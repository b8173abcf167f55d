------------------------------ MODULE IpReasm ------------------------------
(***************************************************************************)
(* lib/ip_reasm.S: the IP fragment reassembly slots and their timeouts in  *)
(* the shared timer pool.                                                  *)
(*                                                                         *)
(* A fragment's offset is a number of Unit bytes, its length a number of   *)
(* bytes; the bitmap has a bit per unit.  A datagram is known by its key   *)
(* (source, destination, id and protocol).  The payload bytes are left     *)
(* out: fresh records, for the properties, which units have been copied    *)
(* since the slot was taken.  A fragment that is dropped changes nothing.  *)
(*                                                                         *)
(* The other users of the pool are one, "other", as in TcpTable: it takes  *)
(* timers at any time, remembers their slots (kept), lets them expire,     *)
(* re-arms them from their callbacks and may cancel what it remembers.  In *)
(* a DHCP build it does so blindly: the commit itself (dhcp_fsa.S:585-593) *)
(* and the connections whose handles the commit has made stale (tcp.S:802) *)
(* cancel slots that have new owners.  robbed is a history variable: such  *)
(* a cancel has hit a timer of a reassembly slot.                          *)
(***************************************************************************)
EXTENDS TimerPool

CONSTANTS
    R,          \* REASM_MAX_SLOTS
    Keys, NoKey,
    Unit,       \* bytes a bitmap bit stands for (8)
    Units,      \* REASM_BUF_SIZE / Unit
    FrameBytes, \* what fits ETH_FRAME_MAX behind the two headers
    Timeout,    \* REASM_TIMEOUT_SECS, in ticks
    MaxBusy,    \* bound: ticks between two runs of timer_check
    UseDhcp,    \* net_dhcp, from network.conf
    Others      \* bound: timers the rest of the stack holds at a time

ASSUME ReasmAssumption ==
    /\ R \in Nat /\ NoKey \notin Keys /\ Units \in Nat \ {0}
    /\ Unit \in Nat \ {0} /\ FrameBytes \in 0 .. Unit * Units
    /\ Timeout \in Nat \ {0} /\ MaxBusy \in Nat
    /\ UseDhcp \in BOOLEAN /\ Others \in Nat

ReasmSlots == 1 .. R
Bits == 0 .. Units - 1

Dispatching == -1

VARIABLES
    pool,       \* the timer pool
    scan,       \* where timer_check is, or Dispatching
    busy,       \* ticks since timer_check last returned
    reasm,      \* reasm_slots
    whole,      \* history: every datagram delivered was whole
    kept,       \* the slots the rest of the stack remembers, stale or not
    robbed      \* history: a cancel through one of them hit our timer

vars == <<pool, scan, busy, reasm, whole, kept, robbed>>

SlotRecord ==
    [active : BOOLEAN,
     key    : Keys \cup {NoKey},        \* REASM_SRC_IP .. REASM_PROTO
     last   : BOOLEAN,                  \* have_last
     total  : 0 .. Unit * Units,        \* REASM_TOTAL_LEN
     timer  : Slots \cup {NoSlot},      \* REASM_TIMER_SLOT (0xFF: NoSlot)
     bits   : SUBSET Bits,              \* REASM_BITMAP
     fresh  : SUBSET Bits]              \* history

\* What the state space of the slots and of the loop is.
TypeOK ==
    /\ pool \in [Slots -> [cb : {NoCb, "reasm", "other"}, ctx : 0 .. R,
                           left : Nat]]
    /\ scan \in -1 .. Cap
    /\ busy \in 0 .. MaxBusy
    /\ reasm \in [ReasmSlots -> SlotRecord]
    /\ whole \in BOOLEAN
    /\ kept \subseteq Slots
    /\ robbed \in BOOLEAN

\* A slot that is not active; its bitmap keeps what it held.
Freed(k) ==
    [k EXCEPT !.active = FALSE, !.key = NoKey, !.last = FALSE, !.total = 0,
              !.timer = NoSlot, !.fresh = {}]

ip_reasm_init ==
    [r \in ReasmSlots |->
        [active |-> FALSE, key |-> NoKey, last |-> FALSE, total |-> 0,
         timer |-> NoSlot, bits |-> {}, fresh |-> {}]]

Init ==
    /\ pool = timer_pool_init
    /\ scan = Dispatching
    /\ busy = 0
    /\ reasm = ip_reasm_init
    /\ whole = TRUE
    /\ kept = {}
    /\ robbed = FALSE

-----------------------------------------------------------------------------
(* net_loop *)

Receiving == scan = Dispatching

TimerCheck ==
    /\ Receiving
    /\ scan' = 0
    /\ UNCHANGED <<pool, busy, reasm, whole, kept, robbed>>

TimerCheckReturn ==
    /\ scan # Dispatching
    /\ Due(pool, scan) = {}
    /\ scan' = Dispatching
    /\ busy' = 0
    /\ UNCHANGED <<pool, reasm, whole, kept, robbed>>

Fires(cb) ==
    /\ scan # Dispatching
    /\ Due(pool, scan) # {}
    /\ pool[Firing(pool, scan)].cb = cb
    /\ scan' = Firing(pool, scan) + 1
    /\ UNCHANGED <<busy, whole, robbed>>

Tick ==
    /\ Receiving
    /\ busy < MaxBusy
    /\ busy' = busy + 1
    /\ pool' = Elapse(pool)
    /\ UNCHANGED <<scan, reasm, whole, kept, robbed>>

-----------------------------------------------------------------------------
(* The rest of the stack on the shared pool *)

OtherTimers == {i \in Slots : pool[i].cb = "other"}

\* It arms a timer in pool p and remembers the slot.
OtherArm(p) ==
    /\ pool' = timer_set(p, "other", 0, Timeout)
    /\ kept' = kept \cup ({timer_set_slot(p)} \cap Slots)

OtherSet ==
    /\ Receiving
    /\ Cardinality(OtherTimers) < Others
    /\ OtherArm(pool)
    /\ UNCHANGED <<scan, busy, reasm, whole, robbed>>

\* A callback of its own; the slot is still remembered afterwards.
OtherFires(rearms) ==
    /\ Fires("other")
    /\ \/ ~rearms /\ pool' = Fired(pool, scan) /\ UNCHANGED kept
       \/ rearms /\ OtherArm(Fired(pool, scan))
    /\ UNCHANGED reasm

\* It cancels through a slot it remembers.
OtherCancel(i) ==
    /\ Receiving
    /\ i \in kept
    /\ UseDhcp \/ pool[i].cb = "other"
    /\ pool' = timer_cancel(pool, i)
    /\ kept' = kept \ {i}
    /\ robbed' = (robbed \/ pool[i].cb = "reasm")
    /\ UNCHANGED <<scan, busy, reasm, whole>>

-----------------------------------------------------------------------------
(* ip_reasm_input *)

Holding(key) == {r \in ReasmSlots : reasm[r].active /\ reasm[r].key = key}
Unused == {r \in ReasmSlots : ~reasm[r].active}

\* A free slot is initialised; its timer may find the pool full.
\* Mutants: what timer_set returned is not stored; the bitmap is left as the
\* last datagram had it.
Taken_zero(k, key) ==
    [Freed(k) EXCEPT !.active = TRUE, !.key = key, !.bits = {}, !.timer = 0]
Taken_dirty(k, key) ==
    [Freed(k) EXCEPT !.active = TRUE, !.key = key,
                     !.timer = timer_set_slot(pool)]
Taken(k, key) ==
    [Freed(k) EXCEPT !.active = TRUE, !.key = key, !.bits = {},
                     !.timer = timer_set_slot(pool)]

\* The bits of the fragment, from its first to its last unit.
Covered(off, len) == off .. off + (len - 1) \div Unit

\* The slot with the fragment's units marked; a last fragment fixes the
\* total, again if it is not the first one.
Added(k, off, len, mf) ==
    LET marked == [k EXCEPT !.bits = @ \cup Covered(off, len),
                            !.fresh = @ \cup Covered(off, len)]
    IN  IF mf THEN marked
        ELSE [marked EXCEPT !.last = TRUE, !.total = off * Unit + len]

\* The units of a datagram of k's total length.
WholeUnits(k) == 0 .. (k.total + Unit - 1) \div Unit - 1

\* Mutant: only the end of the bitmap is looked at.
Complete_tail(k) == k.last /\ (k.total - 1) \div Unit \in k.bits
Complete(k) == k.last /\ WholeUnits(k) \subseteq k.bits

\* The fragment enters slot r, whose record is k and pool p: it completes
\* the datagram, completes one that is too large, or has to wait.  The too
\* large one is freed without cancelling its timer.
AddFragment(p, r, k) ==
    \/ /\ Complete(k) /\ k.total <= FrameBytes
       /\ pool' = timer_cancel(p, k.timer)
       /\ reasm' = [reasm EXCEPT ![r] = Freed(k)]
       /\ whole' = (whole /\ WholeUnits(k) \subseteq k.fresh)
    \/ /\ Complete(k) /\ k.total > FrameBytes
       /\ pool' = p
       /\ reasm' = [reasm EXCEPT ![r] = Freed(k)]
       /\ UNCHANGED whole
    \/ /\ ~Complete(k)
       /\ pool' = p
       /\ reasm' = [reasm EXCEPT ![r] = k]
       /\ UNCHANGED whole

\* A fragment lies in the buffer, and only a last one may end inside a unit.
Valid(off, len, mf) ==
    /\ len > 0
    /\ off * Unit + len <= Unit * Units
    /\ mf => len % Unit = 0

\* The slot a fragment goes to, when there is one: its key's, provided the
\* fragment overlaps nothing that slot holds, or else the first free one.
\* Mutant: only the fragment's first unit is looked up in the bitmap.
Target_first(key, off, len) ==
    IF Holding(key) # {}
    THEN {r \in {Min(Holding(key))} : off \notin reasm[r].bits}
    ELSE IF Unused # {} THEN {Min(Unused)} ELSE {}
Target(key, off, len) ==
    IF Holding(key) # {}
    THEN {r \in {Min(Holding(key))} : reasm[r].bits \cap Covered(off, len) = {}}
    ELSE IF Unused # {} THEN {Min(Unused)} ELSE {}

\* Slot r's record once the fragment is in it.
Slotted(r, key, off, len, mf) ==
    Added(IF reasm[r].active THEN reasm[r] ELSE Taken(reasm[r], key),
          off, len, mf)

ip_reasm_input(key, off, len, mf) ==
    /\ Receiving
    /\ Valid(off, len, mf)
    /\ \E r \in Target(key, off, len) :
          AddFragment(IF reasm[r].active THEN pool
                      ELSE timer_set(pool, "reasm", r, Timeout),
                      r, Slotted(r, key, off, len, mf))
    /\ UNCHANGED <<scan, busy, kept, robbed>>

\* The slot is freed, whichever datagram it holds by now.
\* Mutant: without fragment zero the callback returns before that.
ip_reasm_timeout_cb_returns ==
    /\ Fires("reasm")
    /\ pool' = Fired(pool, scan)
    /\ reasm' = [reasm EXCEPT ![pool[Firing(pool, scan)].ctx] =
                   IF 0 \in @.bits THEN Freed(@) ELSE @]
    /\ UNCHANGED kept
ip_reasm_timeout_cb ==
    /\ Fires("reasm")
    /\ pool' = Fired(pool, scan)
    /\ reasm' = [reasm EXCEPT ![pool[Firing(pool, scan)].ctx] = Freed(@)]
    /\ UNCHANGED kept

-----------------------------------------------------------------------------
TimerStep ==
    \/ ip_reasm_timeout_cb \/ TimerCheckReturn
    \/ \E rearms \in BOOLEAN : OtherFires(rearms)

Next ==
    \/ TimerCheck \/ TimerStep \/ Tick
    \/ OtherSet \/ \E i \in Slots : OtherCancel(i)
    \/ \E key \in Keys, off \in Bits, len \in 1 .. Unit * Units,
          mf \in BOOLEAN :
          ip_reasm_input(key, off, len, mf)

Spec == Init /\ [][Next]_vars

\* As in NetServices: time passes and timer_check keeps being run to its end.
Fairness == SF_vars(Tick) /\ WF_vars(TimerCheck) /\ WF_vars(TimerStep)

FairSpec == Spec /\ Fairness

-----------------------------------------------------------------------------
(* Properties *)

\* Fragments of a datagram are never spread over two slots: an active slot's
\* key is its own.
OneSlotPerKey ==
    \A r, s \in ReasmSlots :
        reasm[r].active /\ reasm[s].active /\ reasm[r].key = reasm[s].key
            => r = s

\* The bitmap of a slot only vouches for bytes of the datagram it now holds:
\* a reused slot cannot deliver, or quote in a Time Exceeded, what an earlier
\* datagram left in the buffer.
BitmapFresh ==
    \A r \in ReasmSlots : reasm[r].active => reasm[r].bits \subseteq reasm[r].fresh

\* The slots are well formed: one for each key, none vouching for bytes it
\* has not got.
SlotInv == TypeOK /\ OneSlotPerKey /\ BitmapFresh

\* Slot r remembers a timer, and it is its own.
OwnTimer(r) ==
    /\ reasm[r].timer # NoSlot
    /\ pool[reasm[r].timer].cb = "reasm"
    /\ pool[reasm[r].timer].ctx = r

\* Reassembly makes no handle stale by itself: as long as no blind cancel in
\* a DHCP build has hit one of its timers (with a static address: always),
\* REASM_TIMER_SLOT of an active slot is -1 or the slot of its own timer, so
\* completing a datagram cancels that timer and nobody else's.
ReasmHandleOwned ==
    \/ robbed /\ UseDhcp
    \/ ~robbed /\ \A r \in ReasmSlots :
          reasm[r].active /\ reasm[r].timer # NoSlot => OwnTimer(r)

\* ip_reasm_input hands on a datagram only when a fragment has come in for
\* every 8-byte unit of it since its slot was taken.  (That a unit was filled
\* to its end is not said: a first "last" fragment may leave one partial that
\* a second one then puts in the middle.)
DeliversWhole == whole

Oracle == INSTANCE ReasmOracle WITH BufSize <- Unit * Units

\* reasm_oracle.py and ip_reasm_input give every fragment, in every state
\* the slots can reach, the same verdict and leave the same slot behind: the
\* vectors, which start from four bitmaps and never reach the two size
\* limits, are no special case.
OracleAgrees ==
    Receiving => \A key \in Keys, off \in Bits, len \in 0 .. Unit * Units + 1,
       mf \in BOOLEAN :
        LET held == Holding(key)
            pre  == IF held # {} THEN reasm[Min(held)]
                    ELSE [active |-> FALSE, last |-> FALSE, total |-> 0,
                          bits |-> {}]
            said == Oracle!oracle(pre, off * Unit, len, mf, Unused # {})
            dest == IF Valid(off, len, mf) THEN Target(key, off, len) ELSE {}
        IN  \/ /\ dest = {}
               /\ said.reason \in {"drop_bounds", "drop_nonaligned",
                                   "drop_no_slot", "drop_overlap"}
            \/ \E r \in dest :
                  LET k == Slotted(r, key, off, len, mf)
                  IN  \/ /\ Complete(k)
                         /\ ~said.active
                         /\ said.reason = IF k.total <= FrameBytes
                                          THEN "ok_complete"
                                          ELSE "drop_oversized"
                      \/ /\ ~Complete(k)
                         /\ said.reason = "ok_incomplete"
                         /\ said.last = k.last
                         /\ said.total = k.total
                         /\ said.bits = k.bits

\* A slot that has its timer is given back, however its fragments stop,
\* unless a blind cancel in a DHCP build takes that timer away.
SlotReclaimed ==
    \A r \in ReasmSlots :
        reasm[r].active /\ OwnTimer(r)
            ~> \/ ~reasm[r].active
               \/ robbed /\ ~OwnTimer(r)

\* A slot whose timer was armed is given back.  Does not hold in a DHCP build:
\* see the README, Known disagreements.
AlwaysReclaimed ==
    \A r \in ReasmSlots :
        reasm[r].active /\ reasm[r].timer # NoSlot ~> ~reasm[r].active
=============================================================================
