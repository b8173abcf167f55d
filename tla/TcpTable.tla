------------------------------ MODULE TcpTable ------------------------------
(***************************************************************************)
(* lib/tcp.S: the life of the connections in tcp_conn_table, and of the    *)
(* timers they own in the shared pool: handshake, data, the two closes,    *)
(* TIME_WAIT, retransmission, fast retransmit, zero-window probes, ICMP    *)
(* errors, SYN eviction and the idle reaper.                               *)
(*                                                                         *)
(* The LISTEN entry is never freed nor given a timer, so the table is the  *)
(* other N entries.  A timer's context is its connection (0: the reaper).  *)
(*                                                                         *)
(* Sequence numbers are abstracted to flight = SND_NXT - SND_UNA, counted  *)
(* in units: SYN, FIN and each tcp_send are one.  An acknowledgment of k   *)
(* units is any seg_ack in (SND_UNA, SND_NXT].  Payload, congestion window *)
(* and receive buffer are left out: they only decide whether tcp_send and  *)
(* a FIN find room, which is nondeterministic here.                        *)
(*                                                                         *)
(* The peers and the network are arbitrary: any segment of any peer at any *)
(* time, again, or never.  The calls of http_poll (tcp_send, tcp_close)    *)
(* are arbitrary too.  A segment that only draws an RST, and one that is   *)
(* dropped, change nothing and are stutters.                               *)
(*                                                                         *)
(* The rest of the stack shares the pool and is one user of it, "other":   *)
(* it takes timers at any time, remembers their slots (kept), lets them    *)
(* expire, re-arms them from their callbacks and may cancel what it        *)
(* remembers.  mDNS does that only while the slot is still its own; DHCP's *)
(* commit (dhcp_fsa.S:585-593) does it blindly, slot by slot, after the    *)
(* timers have fired and the slots have new owners.  robbed is a history   *)
(* variable: such a cancel has hit a timer of TCP.                         *)
(***************************************************************************)
EXTENDS TimerPool

CONSTANTS
    N,              \* TCP_MAX_CONNS less the LISTEN entry
    Peers,          \* remote (address, port) pairs
    NoPeer,
    MaxFlight,      \* bound: units in flight
    Windows,        \* bound: the windows a peer may advertise (TRUE: zero)
    MaxBusy,        \* bound: ticks between two runs of timer_check
    Rto, RtoMax,    \* the initial RTO (1 s) and its cap (60 s), in ticks
    RtoMod,         \* 2^32: TCONN_RTO is a u32
    MaxRtx,         \* TCP_MAX_RETRIES
    DupThresh,      \* TCP_DUPACK_THRESH
    Msl2,           \* 2 MSL (60 s), in ticks
    PersistInitial, PersistMax, ShiftCap,   \* the zero-window probes
    IdleSynRcvd, IdleEstab, IdleFinWait, IdleCloseWait, \* TCP_IDLE_*
    ReaperInterval, \* TCP_REAPER_INTERVAL
    UseDhcp,        \* net_dhcp, from network.conf
    Others,         \* bound: timers the rest of the stack holds at a time
    OtherDelay      \* the delay of those timers, in ticks

ASSUME TableAssumption ==
    /\ N \in Nat /\ NoPeer \notin Peers /\ MaxFlight \in Nat \ {0}
    /\ MaxBusy \in Nat /\ Windows \subseteq BOOLEAN
    /\ Rto \in Nat \ {0} /\ RtoMax \in Nat /\ Rto <= RtoMax
    /\ RtoMod \in Nat /\ RtoMax < RtoMod
    /\ MaxRtx \in Nat /\ DupThresh \in Nat \ {0} /\ Msl2 \in Nat
    /\ PersistInitial \in Nat /\ PersistMax \in Nat /\ ShiftCap \in Nat \ {0}
    /\ IdleSynRcvd \in Nat /\ IdleEstab \in Nat /\ IdleFinWait \in Nat
    /\ IdleCloseWait \in Nat /\ ReaperInterval \in Nat
    /\ UseDhcp \in BOOLEAN /\ Others \in Nat /\ OtherDelay \in Nat

\* What the provers do not know of powers.
ASSUME PersistAssumption ==
    \A s \in 1 .. ShiftCap : PersistInitial * 2^(s - 1) \in Nat

Conns == 1 .. N

Dispatching == -1

States == {"CLOSED", "SYN_RCVD", "ESTABLISHED", "CLOSE_WAIT", "LAST_ACK",
           "FIN_WAIT_1", "FIN_WAIT_2", "TIME_WAIT", "CLOSING"}

VARIABLES
    pool,       \* the timer pool
    scan,       \* where timer_check is, or Dispatching
    busy,       \* ticks since timer_check last returned
    conn,       \* tcp_conn_table
    kept,       \* the slots the rest of the stack remembers, stale or not
    robbed      \* history: a cancel through one of them hit a TCP timer

vars == <<pool, scan, busy, conn, kept, robbed>>

\* The threshold the reaper compares with in each state.
IdleLimit(s) ==
    CASE s = "ESTABLISHED"                    -> IdleEstab
      [] s = "SYN_RCVD"                       -> IdleSynRcvd
      [] s \in {"FIN_WAIT_1", "FIN_WAIT_2"}   -> IdleFinWait
      [] OTHER                                -> IdleCloseWait

IdleMax == Max({IdleSynRcvd, IdleEstab, IdleFinWait, IdleCloseWait})

TCONN ==
    [state   : States,
     peer    : Peers \cup {NoPeer},     \* TCONN_RIP and TCONN_RPORT
     slot    : Slots \cup {NoSlot},     \* TCONN_TIMER_SLOT
     rtx     : 0 .. MaxRtx,             \* TCONN_RTXCOUNT
     saved   : BOOLEAN,                 \* TCONN_RTXLEN # 0
     flight  : 0 .. MaxFlight + 1,      \* SND_NXT - SND_UNA, the FIN included
     wnd0    : BOOLEAN,                 \* TCONN_SND_WND = 0
     persist : 0 .. ShiftCap,           \* TCONN_PERSIST_SHIFT
     dup     : 0 .. DupThresh + 1,      \* TCONN_DUP_ACK_CNT; above: any more
     rto     : 0 .. RtoMod - 1,         \* TCONN_RTO
     idle    : 0 .. IdleMax]            \* now - TCONN_LAST_ACTIVE, saturating

Live(c) == conn[c].state # "CLOSED"

\* What the state space of the table and of the loop is.
TypeOK ==
    /\ pool \in [Slots -> [cb : {NoCb, "reaper", "rtx", "persist", "timewait",
                                 "other"},
                           ctx : 0 .. N, left : Nat]]
    /\ scan \in -1 .. Cap
    /\ busy \in 0 .. MaxBusy
    /\ conn \in [Conns -> TCONN]
    /\ kept \subseteq Slots
    /\ robbed \in BOOLEAN

-----------------------------------------------------------------------------
(* Connection records *)

\* A CLOSED entry.  Nothing of it is read again before the next SYN fills it
\* in, except the RTO, which that SYN does not reset.
Closed(k) ==
    [state |-> "CLOSED", peer |-> NoPeer, slot |-> NoSlot, rtx |-> 0,
     saved |-> FALSE, flight |-> 0, wnd0 |-> FALSE, persist |-> 0,
     dup |-> 0, rto |-> k.rto, idle |-> 0]

\* The record that tcp_listen_syn_handler fills in, SYN-ACK sent.
SynRcvd(k, peer, zero) ==
    [Closed(k) EXCEPT !.state = "SYN_RCVD", !.peer = peer, !.flight = 1,
                      !.wnd0 = zero]

\* tcp_rtx_clear on the pool and on the record.
rtx_clear_pool(p, k) == timer_cancel(p, k.slot)
\* Mutants: TIMER_SLOT keeps its value; it is zeroed like its neighbours.
rtx_clear_conn_keeps(k) == [k EXCEPT !.saved = FALSE, !.rtx = 0]
rtx_clear_conn_zeroes(k) == [k EXCEPT !.saved = FALSE, !.rtx = 0, !.slot = 0]
rtx_clear_conn(k) == [k EXCEPT !.saved = FALSE, !.rtx = 0, !.slot = NoSlot]

\* tcp_handle after a handler that did not fail: LAST_ACTIVE = now.
Active(k) == [k EXCEPT !.idle = 0]

\* An RTO of 0 (never set, or wrapped) becomes the initial one when used.
ArmedRto(k) == IF k.rto = 0 THEN Rto ELSE k.rto

\* tcp_rtx_arm: arms a timer and remembers its slot.  It cancels nothing: a
\* timer armed before stays in the pool without an owner.
Armed(k, slot) == [k EXCEPT !.slot = slot, !.rto = ArmedRto(k)]
tcp_rtx_arm(p, c, k) ==
    /\ pool' = timer_set(p, "rtx", c, ArmedRto(k))
    /\ conn' = [conn EXCEPT ![c] = Armed(k, timer_set_slot(p))]

\* tcp_rtx_save: keeps the SYN-ACK or FIN frame and arms the timer.
tcp_rtx_save(p, c, k) ==
    tcp_rtx_arm(p, c, [k EXCEPT !.saved = TRUE, !.rtx = 0])

PersistDelay(shift) ==
    LET d == PersistInitial * 2^(shift - 1)
    IN  IF d < PersistMax THEN d ELSE PersistMax

\* tcp_persist_arm does not keep the slot.
tcp_persist_arm(p, c, shift) == timer_set(p, "persist", c, PersistDelay(shift))

-----------------------------------------------------------------------------
Init ==
    /\ pool = timer_set(timer_pool_init, "reaper", 0, ReaperInterval)
    /\ scan = Dispatching
    /\ busy = 0
    /\ conn = [c \in Conns |-> Closed([rto |-> 0])]
    /\ kept = {}
    /\ robbed = FALSE

Receiving == scan = Dispatching

TimerCheck ==
    /\ Receiving
    /\ scan' = 0
    /\ UNCHANGED <<pool, busy, conn, kept, robbed>>

TimerCheckReturn ==
    /\ scan # Dispatching
    /\ Due(pool, scan) = {}
    /\ scan' = Dispatching
    /\ busy' = 0
    /\ UNCHANGED <<pool, conn, kept, robbed>>

\* The next slot timer_check fires holds callback cb for connection c.
Fires(cb, c) ==
    /\ scan # Dispatching
    /\ Due(pool, scan) # {}
    /\ pool[Firing(pool, scan)].cb = cb
    /\ pool[Firing(pool, scan)].ctx = c
    /\ scan' = Firing(pool, scan) + 1
    /\ UNCHANGED <<busy, robbed>>

Tick ==
    /\ Receiving
    /\ busy < MaxBusy
    /\ busy' = busy + 1
    /\ pool' = Elapse(pool)
    /\ conn' = [c \in Conns |->
                  IF Live(c) /\ conn[c].idle < IdleMax
                  THEN [conn[c] EXCEPT !.idle = @ + 1] ELSE conn[c]]
    /\ UNCHANGED <<scan, kept, robbed>>

-----------------------------------------------------------------------------
(* The rest of the stack on the shared pool *)

OtherTimers == {i \in Slots : pool[i].cb = "other"}

\* It arms a timer in pool p and remembers the slot.
OtherArm(p) ==
    /\ pool' = timer_set(p, "other", 0, OtherDelay)
    /\ kept' = kept \cup ({timer_set_slot(p)} \cap Slots)

OtherSet ==
    /\ Receiving
    /\ Cardinality(OtherTimers) < Others
    /\ OtherArm(pool)
    /\ UNCHANGED <<scan, busy, conn, robbed>>

\* A callback of its own; the slot is still remembered afterwards.
OtherFires(rearms) ==
    /\ Fires("other", 0)
    /\ \/ ~rearms /\ pool' = Fired(pool, scan) /\ UNCHANGED kept
       \/ rearms /\ OtherArm(Fired(pool, scan))
    /\ UNCHANGED conn

\* It cancels through a slot it remembers.
OtherCancel(i) ==
    /\ Receiving
    /\ i \in kept
    /\ UseDhcp \/ pool[i].cb = "other"
    /\ pool' = timer_cancel(pool, i)
    /\ kept' = kept \ {i}
    /\ robbed' = (robbed \/ pool[i].cb \notin {NoCb, "other"})
    /\ UNCHANGED <<scan, busy, conn>>

-----------------------------------------------------------------------------
(* Segments: tcp_handle and the handlers of tcp_fsa_table *)

\* tcp_handle's lookup: an exact match is preferred to LISTEN.
\* Mutant: half-open entries are not looked at.
Matches_open(peer) ==
    {c \in Conns : conn[c].state \notin {"CLOSED", "SYN_RCVD"}
                     /\ conn[c].peer = peer}
Matches(peer) == {c \in Conns : Live(c) /\ conn[c].peer = peer}

\* A segment of peer reaches the handler of connection c in state s.
tcp_handle(c, s) ==
    /\ Receiving
    /\ conn[c].state = s
    /\ c \in Matches(conn[c].peer)
    /\ \A d \in Matches(conn[c].peer) : c <= d
    /\ UNCHANGED <<scan, busy, kept, robbed>>

Free == {c \in Conns : conn[c].state = "CLOSED"}
HalfOpen == {c \in Conns : conn[c].state = "SYN_RCVD"}

\* LISTEN + SYN: the first free entry, or the first half-open one.
tcp_listen_syn_handler(peer, zero) ==
    /\ Receiving
    /\ Matches(peer) = {}
    /\ \/ /\ Free # {}
          /\ LET c == Min(Free)
             IN  tcp_rtx_save(pool, c, SynRcvd(conn[c], peer, zero))
       \/ /\ Free = {} /\ HalfOpen # {}
          /\ LET c == Min(HalfOpen)
             IN  tcp_rtx_save(rtx_clear_pool(pool, conn[c]), c,
                              SynRcvd(conn[c], peer, zero))
    /\ UNCHANGED <<scan, busy, kept, robbed>>

\* The connection ends: its handle is cancelled and the entry is free.
CloseConn(c) ==
    /\ pool' = rtx_clear_pool(pool, conn[c])
    /\ conn' = [conn EXCEPT ![c] = Closed(@)]

\* An acceptable RST in any live state.
tcp_conn_close_handler(c) ==
    /\ tcp_handle(c, conn[c].state)
    /\ CloseConn(c)

\* An ICMP error about c: fatal when it is hard (protocol or port
\* unreachable), and in SYN_RCVD.  The lookup is that of tcp_handle.
tcp_icmp_err(c, hard) ==
    /\ tcp_handle(c, conn[c].state)
    /\ hard \/ conn[c].state = "SYN_RCVD"
    /\ CloseConn(c)

\* SYN_RCVD + ACK.  good: SEG.ACK = SND_NXT.  Any other draws an RST and
\* leaves the entry, its LAST_ACTIVE included, as it was.
SynRcvdAck(c, good, onBad) ==
    /\ tcp_handle(c, "SYN_RCVD")
    /\ pool' = IF good THEN rtx_clear_pool(pool, conn[c]) ELSE pool
    /\ conn' = [conn EXCEPT ![c] =
                  IF good
                  THEN Active([rtx_clear_conn(@) EXCEPT !.state = "ESTABLISHED",
                                                        !.flight = 0])
                  ELSE onBad]
\* Mutant: a refused ACK counts as activity.
tcp_synrcvd_ack_touches(c, good) == SynRcvdAck(c, good, Active(conn[c]))
tcp_synrcvd_ack_handler(c, good) == SynRcvdAck(c, good, conn[c])

\* The window field of an ACK: SND_WND and the persist state.
WindowPool(p, c, zero) ==
    IF zero /\ conn[c].persist = 0 THEN tcp_persist_arm(p, c, 1) ELSE p
WindowConn(k, zero) ==
    [k EXCEPT !.wnd0 = zero,
              !.persist = IF ~zero THEN 0 ELSE IF @ = 0 THEN 1 ELSE @]

Saturate(n, cap) == IF n < cap THEN n ELSE cap

\* ESTABLISHED + ACK that advances SND_UNA by acked > 0 units.  A first
\* transmission gives an RTT sample, so any RTO: tcp_rtt_update clamps it
\* from below only.  The duplicate count restarts; when nothing is left in
\* flight the retransmission state is cleared.
NewAck(k, acked, rto) ==
    [k EXCEPT !.flight = @ - acked, !.dup = 0, !.rto = rto]
NewRto(k) == IF k.rtx = 0 THEN Rto .. RtoMod - 1 ELSE {k.rto}

\* The count is a byte: above the threshold it stays there for a while and
\* then wraps to 0.
NextDup(n) == IF n <= DupThresh THEN {n + 1} ELSE {n, 0}

\* Data in flight is sent again from its first hole: a new count of retries
\* and a timer more.  When no frame can be built there, nothing is armed.
tcp_fast_retransmit(p, c, k) ==
    \/ tcp_rtx_arm(p, c, [k EXCEPT !.rtx = 0])
    \/ pool' = p /\ conn' = [conn EXCEPT ![c] = k]

\* .Leak_pure_ack: SEG.ACK = SND_UNA with data in flight counts as a
\* duplicate, also when this very ACK has just moved SND_UNA there.
CountDup(p, c, k) ==
    \E n \in NextDup(k.dup) :
        LET l == [k EXCEPT !.dup = n]
        IN  \/ n = DupThresh /\ tcp_fast_retransmit(p, c, l)
            \/ n # DupThresh /\ pool' = p /\ conn' = [conn EXCEPT ![c] = l]

\* ESTABLISHED + ACK.  acked: units newly acknowledged; inSync: SEG.ACK is
\* SND_UNA afterwards (FALSE: older than SND_UNA or beyond SND_NXT); pure: no
\* data, PAWS passed; zero: the window it advertises.
tcp_estab_ack_handler(c, acked, inSync, pure, zero) ==
    /\ tcp_handle(c, "ESTABLISHED")
    /\ acked <= conn[c].flight
    /\ acked > 0 => inSync
    /\ LET p == WindowPool(pool, c, zero)
           k == Active(WindowConn(conn[c], zero))
       IN  \/ /\ acked = 0 /\ pure /\ inSync /\ k.flight > 0
              /\ CountDup(p, c, k)
           \/ /\ acked = 0 /\ ~(pure /\ inSync /\ k.flight > 0)
              /\ pool' = p
              /\ conn' = [conn EXCEPT ![c] = k]
           \/ /\ acked > 0 /\ acked = k.flight
              /\ pool' = rtx_clear_pool(p, k)
              /\ \E rto \in NewRto(k) :
                    conn' = [conn EXCEPT ![c] =
                               rtx_clear_conn(NewAck(k, acked, rto))]
           \/ /\ acked > 0 /\ acked < k.flight
              /\ \E rto \in NewRto(k) :
                    IF pure
                    THEN CountDup(p, c, NewAck(k, acked, rto))
                    ELSE /\ pool' = p
                         /\ conn' = [conn EXCEPT ![c] = NewAck(k, acked, rto)]

\* ESTABLISHED + FIN; refused (its data was out of order or did not fit) it
\* is only answered.  The ACK field of the segment is not looked at.
tcp_estab_fin_handler(c, accepted) ==
    /\ tcp_handle(c, "ESTABLISHED")
    /\ pool' = pool
    /\ conn' = [conn EXCEPT ![c] =
                  Active([@ EXCEPT !.state = IF accepted THEN "CLOSE_WAIT"
                                                         ELSE "ESTABLISHED"])]

\* ACK in a state that absorbs it.
tcp_drop_handler(c) ==
    /\ \E s \in {"CLOSE_WAIT", "FIN_WAIT_2", "TIME_WAIT"} : tcp_handle(c, s)
    /\ pool' = pool
    /\ conn' = [conn EXCEPT ![c] = Active(@)]

\* FIN_WAIT_1, LAST_ACK and CLOSING + an ACK that does not cover the FIN:
\* SND_UNA is not advanced.
PartialAck(c) ==
    /\ \E s \in {"FIN_WAIT_1", "LAST_ACK", "CLOSING"} : tcp_handle(c, s)
    /\ pool' = pool
    /\ conn' = [conn EXCEPT ![c] = Active(@)]

tcp_lastack_ack_handler(c) ==
    /\ tcp_handle(c, "LAST_ACK")
    /\ CloseConn(c)

\* SND_UNA is left where it is, so data stays in flight in FIN_WAIT_2.
tcp_finwait1_ack_handler(c) ==
    /\ tcp_handle(c, "FIN_WAIT_1")
    /\ pool' = rtx_clear_pool(pool, conn[c])
    /\ conn' = [conn EXCEPT ![c] =
                  Active([rtx_clear_conn(@) EXCEPT !.state = "FIN_WAIT_2"])]

\* FIN_WAIT_1 + FIN.  When it also acknowledges our FIN the 2MSL timer is
\* armed, but its slot is not stored and the FIN's timer goes on.
tcp_finwait1_fin_handler(c, acksFin) ==
    /\ tcp_handle(c, "FIN_WAIT_1")
    /\ pool' = IF acksFin THEN timer_set(pool, "timewait", c, Msl2) ELSE pool
    /\ conn' = [conn EXCEPT ![c] =
                  Active([@ EXCEPT !.state = IF acksFin THEN "TIME_WAIT"
                                                        ELSE "CLOSING"])]

\* Enter TIME_WAIT: the 2MSL timer's slot replaces what TIMER_SLOT held.
EnterTimeWait(p, c) ==
    /\ pool' = timer_set(p, "timewait", c, Msl2)
    /\ conn' = [conn EXCEPT ![c] =
                  Active([@ EXCEPT !.state = "TIME_WAIT",
                                   !.slot = timer_set_slot(p)])]

tcp_finwait2_fin_handler(c) ==
    tcp_handle(c, "FIN_WAIT_2") /\ EnterTimeWait(pool, c)

tcp_closing_ack_handler(c) ==
    tcp_handle(c, "CLOSING") /\ EnterTimeWait(pool, c)

\* A retransmitted FIN restarts the 2MSL wait.
tcp_timewait_fin_handler(c) ==
    /\ tcp_handle(c, "TIME_WAIT")
    /\ EnterTimeWait(timer_cancel(pool, conn[c].slot), c)

-----------------------------------------------------------------------------
(* Calls of the HTTP server *)

\* Room in the window and in the congestion window; the send uses up the
\* whole window only when nothing else is in flight.
tcp_send(c, zero) ==
    /\ Receiving
    /\ conn[c].state = "ESTABLISHED" /\ ~conn[c].wnd0
    /\ conn[c].flight < MaxFlight
    /\ zero => conn[c].flight = 0
    /\ tcp_rtx_arm(pool, c, [conn[c] EXCEPT !.flight = @ + 1, !.wnd0 = zero])
    /\ UNCHANGED <<scan, busy, kept, robbed>>

tcp_close(c) ==
    /\ Receiving
    /\ conn[c].state \in {"ESTABLISHED", "CLOSE_WAIT"}
    /\ LET next == IF conn[c].state = "ESTABLISHED" THEN "FIN_WAIT_1"
                                                    ELSE "LAST_ACK"
       IN  tcp_rtx_save(pool, c, [conn[c] EXCEPT !.state = next,
                                                 !.flight = @ + 1])
    /\ UNCHANGED <<scan, busy, kept, robbed>>

-----------------------------------------------------------------------------
(* Timer callbacks *)

\* The RTO doubles in 32 bits, and only the result is compared with the cap.
DoubledRto(rto) == Saturate((2 * rto) % RtoMod, RtoMax)

\* After limit retries the connection is closed without an RST.  A timer
\* that finds nothing to send again just ends.
Retransmit(c, limit) ==
    /\ Fires("rtx", c)
    /\ LET p == Fired(pool, scan)
           k == [conn[c] EXCEPT !.dup = 0, !.rto = DoubledRto(@)]
       IN  \/ /\ ~Live(c)
              /\ pool' = p /\ UNCHANGED conn
           \/ /\ Live(c) /\ k.rtx >= limit
              /\ pool' = p
              /\ conn' = [conn EXCEPT ![c] = Closed(@)]
           \/ /\ Live(c) /\ k.rtx < limit /\ k.flight = 0 /\ ~k.saved
              /\ pool' = p
              /\ conn' = [conn EXCEPT ![c] = k]
           \/ /\ Live(c) /\ k.rtx < limit /\ (k.flight > 0 \/ k.saved)
              /\ tcp_rtx_arm(p, c, [k EXCEPT !.rtx = @ + 1])
    /\ UNCHANGED kept

tcp_retransmit_cb(c) == Retransmit(c, MaxRtx)

\* No look at the state the connection is in.
tcp_timewait_cb(c) ==
    /\ Fires("timewait", c)
    /\ pool' = Fired(pool, scan)
    /\ conn' = [conn EXCEPT ![c] = Closed(@)]
    /\ UNCHANGED kept

tcp_persist_cb(c) ==
    /\ Fires("persist", c)
    /\ LET probes == conn[c].state = "ESTABLISHED" /\ conn[c].wnd0
           shift  == Saturate(conn[c].persist + 1, ShiftCap)
       IN  \/ /\ ~probes
              /\ pool' = Fired(pool, scan) /\ UNCHANGED conn
           \/ /\ probes
              /\ pool' = tcp_persist_arm(Fired(pool, scan), c, shift)
              /\ conn' = [conn EXCEPT ![c].persist = shift]
    /\ UNCHANGED kept

\* The reaper's pass over the table; TIME_WAIT is left to its own timer.
Reaped == {c \in Conns : /\ conn[c].state \notin {"CLOSED", "TIME_WAIT"}
                         /\ conn[c].idle >= IdleLimit(conn[c].state)}
ReapedPool(p) ==
    [i \in Slots |-> IF \E c \in Reaped : conn[c].slot = i THEN Inactive
                     ELSE p[i]]
ReapedTable ==
    [c \in Conns |-> IF c \in Reaped THEN Closed(conn[c]) ELSE conn[c]]

\* Mutant: the reaper runs once.
tcp_idle_reaper_cb_once ==
    /\ Fires("reaper", 0)
    /\ pool' = ReapedPool(Fired(pool, scan))
    /\ conn' = ReapedTable
    /\ UNCHANGED kept

tcp_idle_reaper_cb ==
    /\ Fires("reaper", 0)
    /\ pool' = timer_set(ReapedPool(Fired(pool, scan)), "reaper", 0,
                         ReaperInterval)
    /\ conn' = ReapedTable
    /\ UNCHANGED kept

-----------------------------------------------------------------------------
Segment(c) ==
    \/ tcp_conn_close_handler(c)
    \/ \E hard \in BOOLEAN : tcp_icmp_err(c, hard)
    \/ \E good \in BOOLEAN : tcp_synrcvd_ack_handler(c, good)
    \/ \E acked \in 0 .. MaxFlight, inSync, pure \in BOOLEAN,
          zero \in Windows :
          tcp_estab_ack_handler(c, acked, inSync, pure, zero)
    \/ \E accepted \in BOOLEAN : tcp_estab_fin_handler(c, accepted)
    \/ tcp_drop_handler(c) \/ PartialAck(c) \/ tcp_lastack_ack_handler(c)
    \/ tcp_finwait1_ack_handler(c)
    \/ \E acksFin \in BOOLEAN : tcp_finwait1_fin_handler(c, acksFin)
    \/ tcp_finwait2_fin_handler(c) \/ tcp_closing_ack_handler(c)
    \/ tcp_timewait_fin_handler(c)

Callback(c) ==
    tcp_retransmit_cb(c) \/ tcp_timewait_cb(c) \/ tcp_persist_cb(c)

TimerStep ==
    \/ \E c \in Conns : Callback(c)
    \/ tcp_idle_reaper_cb \/ TimerCheckReturn
    \/ \E rearms \in BOOLEAN : OtherFires(rearms)

Next ==
    \/ TimerCheck \/ TimerStep \/ Tick
    \/ OtherSet \/ \E i \in Slots : OtherCancel(i)
    \/ \E peer \in Peers, zero \in Windows : tcp_listen_syn_handler(peer, zero)
    \/ \E c \in Conns :
          \/ Segment(c)
          \/ \E zero \in Windows : tcp_send(c, zero)
          \/ tcp_close(c)

Spec == Init /\ [][Next]_vars

\* As in NetServices: time passes, the ring is found empty again and again,
\* and timer_check runs to its end.  Nothing is assumed of peers or of HTTP.
Fairness == SF_vars(Tick) /\ WF_vars(TimerCheck) /\ WF_vars(TimerStep)

FairSpec == Spec /\ Fairness

-----------------------------------------------------------------------------
(* Properties *)

\* A peer has at most one connection in the table: tcp_handle's lookup has
\* never two candidates, whatever is evicted, reaped or reused.
UniqueTuple ==
    \A c, d \in Conns : Live(c) /\ Live(d) /\ conn[c].peer = conn[d].peer
                            => c = d

\* The table is well-formed: its fields keep their ranges (no timer drives a
\* counter of tcp_retransmit_cb or tcp_persist_cb past its limit) and no peer
\* has two entries.  Of the RTO it says only that it is a u32: it may exceed
\* its cap (tcp_rtt_update) and wrap when doubled.
TableInv == TypeOK /\ UniqueTuple

\* TCP makes no handle stale by itself: as long as no blind cancel of DHCP
\* has hit one of its timers (with a static address: always), TIMER_SLOT is -1
\* or the slot of a timer of this very connection, so that the timer_cancel of
\* tcp_rtx_clear and of tcp_timewait_fin_handler cannot cancel anybody else's.
HandleOwned ==
    \/ robbed /\ UseDhcp
    \/ ~robbed /\ \A c \in Conns : conn[c].slot # NoSlot =>
          /\ pool[conn[c].slot].cb \in {"rtx", "timewait"}
          /\ pool[conn[c].slot].ctx = c

\* A live timer that a connection remembers is only cancelled by TCP.  Does
\* not hold in a DHCP build: see the README, Known disagreements.
NeverRobbed == ~robbed

\* The reaper, armed first, stays in its slot, which no connection holds and
\* the rest of the stack does not remember: nothing the peers do can stop it,
\* not even through the handles a blind cancel has made stale.
ReaperPinned ==
    /\ pool[0].cb = "reaper"
    /\ \A c \in Conns : conn[c].slot # 0
    /\ 0 \notin kept

\* A half-open connection does not hold its entry for ever, whatever the
\* peer sends: only an acceptable ACK counts as activity in SYN_RCVD.
SynRcvdReclaimed ==
    \A c \in Conns, peer \in Peers :
        conn[c].state = "SYN_RCVD" /\ conn[c].peer = peer
            ~> ~(conn[c].state = "SYN_RCVD" /\ conn[c].peer = peer)

\* A connection whose peer stays silent past every limit is given up.
SilentReclaimed ==
    \A c \in Conns :
        conn[c].state \notin {"CLOSED", "TIME_WAIT"} /\ conn[c].idle = IdleMax
            ~> conn[c].state \in {"CLOSED", "TIME_WAIT"}
               \/ conn[c].idle < IdleMax

\* "tcp_timewait_cb - Timer callback for TIME_WAIT expiry": the connection
\* it is about to close is in TIME_WAIT (or already closed).  Does not hold:
\* see the README, Known disagreements.
TimewaitOnlyInTimeWait ==
    LET i == Firing(pool, scan)
    IN  scan # Dispatching /\ Due(pool, scan) # {} /\ pool[i].cb = "timewait"
            => conn[pool[i].ctx].state \in {"TIME_WAIT", "CLOSED"}

\* README: "TIME_WAIT with 2MSL timer".  A connection in TIME_WAIT whose peer
\* stays silent leaves it.  Does not hold when the timer pool was full: see
\* the README, Known disagreements.
TimeWaitExpires ==
    \A c \in Conns :
        conn[c].state = "TIME_WAIT" /\ conn[c].idle = IdleMax
            ~> conn[c].state # "TIME_WAIT" \/ conn[c].idle < IdleMax
=============================================================================
