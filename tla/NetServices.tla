---------------------------- MODULE NetServices ----------------------------
(***************************************************************************)
(* The services main() starts on the shared timer pool, and the event loop *)
(* that runs them: the PM watchdog's periodic pet (sys_watchdog.S), the    *)
(* TCP reaper's periodic re-arm (tcp.S; what it reaps is TcpTable's        *)
(* subject), the ARP refresh (arp.S), the NTP poll (ntp.S), the DHCP       *)
(* client (dhcp_fsa.S, dhcp.S) and the mDNS responder (mdns.S).            *)
(*                                                                         *)
(* net_loop is one thread.  While frames arrive it only dispatches them;   *)
(* timer_check runs when the receive ring is empty.  scan = Dispatching    *)
(* while the loop receives, and is the next slot index to visit while      *)
(* timer_check runs.  A callback is one step: nothing can interrupt it,    *)
(* but timer_check's later slots see what it did to the pool.              *)
(*                                                                         *)
(* The network is hostile: any valid DHCP reply to the current xid may     *)
(* arrive at any time, more than once or never.  (A reply to an older xid  *)
(* is dropped by dhcp_parse_inbound, so it is a stutter here.)  hostname   *)
(* is taken to be configured: without one mDNS never arms a timer.         *)
(*                                                                         *)
(* TCP's connections and the reassembly slots share the pool and are one   *)
(* user of it here.  held are the slots they remember.  What TcpTable and  *)
(* IpReasm promise of them is what this module relies on: a callback drops *)
(* the slot it fired from, and no other is dropped or forgotten, until the *)
(* commit has cancelled one of their timers.  Then a slot in held may be   *)
(* stale, and they cancel through it all the same.                         *)
(***************************************************************************)
EXTENDS TimerPool

CONSTANTS
    PetPeriod,      \* SWD_PET_PERIOD, ticks between two pets
    WdogTimeout,    \* SWD_TIMEOUT_UNITS, ticks until the SoC resets
    MaxBusy,        \* bound: ticks between two runs of timer_check
    ReaperInterval, ArpRefresh, NtpPoll,    \* the periods, in ticks
    ShiftCap,       \* NTP_POLL_SHIFT_CAP
    Retrans,        \* the DHCP retransmit delay ("4 s"), in ticks
    MaxRetries,     \* DHCP_MAX_RETRIES
    Leases,         \* lease times a server may grant, in ticks
    IPs,            \* addresses a server may assign
    ProbeGap, AnnounceGap,  \* mDNS: 250 ms and 1 s, in ticks
    UseDhcp,        \* net_dhcp, from network.conf
    Users,          \* bound: timers of TCP and reassembly, and their slots
                    \* that they remember, at a time
    UserDelay       \* their delay, in ticks

ASSUME ServicesAssumption ==
    /\ PetPeriod \in Nat \ {0} /\ WdogTimeout \in Nat /\ MaxBusy \in Nat
    /\ ReaperInterval \in Nat /\ ArpRefresh \in Nat /\ NtpPoll \in Nat
    /\ ShiftCap \in Nat /\ Retrans \in Nat /\ MaxRetries \in Nat
    /\ Leases \subseteq Nat /\ IPs \subseteq Nat \ {0}
    /\ ProbeGap \in Nat /\ AnnounceGap \in Nat /\ UseDhcp \in BOOLEAN
    /\ Users \in Nat /\ UserDelay \in Nat

\* Every poll interval is a number of ticks.
ASSUME PollAssumption == \A s \in 0 .. ShiftCap : NtpPoll * 2^s \in Nat

\* What the watchdog's "10 s is ~2x margin" rests on: a pet that is due is
\* reached, traffic permitting, before the countdown runs out.
ASSUME TrafficAssumption == WdogTimeout > PetPeriod + MaxBusy

NoIp == 0
StaticIp == 1       \* the ip= of network.conf when UseDhcp is FALSE

Dispatching == -1

DhcpStates == {"S_INIT", "S_SELECTING", "S_REQUESTING", "S_BOUND",
               "S_RENEWING", "S_REBINDING"}

\* MDNS_STATE_IDLE = 0, PROBE_1..3 = 1..3, ANNOUNCE_1..2 = 4..5, LIVE = 6.
IDLE == 0
PROBE_1 == 1
PROBE_3 == 3
ANNOUNCE_2 == 5
LIVE == 6

LeaseTimers == {"t1", "t2", "lease"}

VARIABLES
    pool,           \* the timer pool
    scan,           \* where timer_check is, or Dispatching
    busy,           \* ticks since timer_check last returned
    wdog,           \* the PM_WDOG countdown
    pollShift,      \* NTPS_POLL_SHIFT (saturated at the cap)
    dhcp,           \* dhcp_fsa_state
    retries,        \* DHCPC_RETRIES
    slot,           \* DHCPC_T1_SLOT, _T2_SLOT and _LEASE_SLOT
    ourIp,          \* net_our_ip
    mdns,           \* MDNSC_STATE
    mdnsSlot,       \* MDNSC_TIMER_SLOT
    announced,      \* MDNSC_ANNOUNCED_IP
    prior,          \* MDNSC_PRIOR_ANNOUNCED_IP
    halted,         \* "run", or the panic pattern that is blinking
    held,           \* the TCONN_TIMER_SLOTs and REASM_TIMER_SLOTs in use
    robbed,         \* history: a commit has cancelled a timer of theirs
    struck          \* history: the lease timers that they have cancelled

loopVars == <<pool, scan, busy>>
dhcpVars == <<dhcp, retries, slot, ourIp>>
mdnsVars == <<mdns, mdnsSlot, announced, prior>>
userVars == <<held, robbed, struck>>
vars == <<loopVars, wdog, pollShift, dhcpVars, mdnsVars, halted, userVars>>

Callbacks == {NoCb, "pet", "reaper", "arp", "ntp", "retrans", "mdns", "user"}
             \cup LeaseTimers

SlotOrNone == Slots \cup {NoSlot}

\* The state space of every variable.
TypeOK ==
    /\ pool \in [Slots -> [cb : Callbacks, ctx : {0}, left : Nat]]
    /\ scan \in -1 .. Cap
    /\ busy \in 0 .. MaxBusy
    /\ wdog \in 0 .. WdogTimeout
    /\ pollShift \in 0 .. ShiftCap
    /\ dhcp \in DhcpStates
    /\ retries \in 0 .. MaxRetries
    /\ slot \in [LeaseTimers -> SlotOrNone]
    /\ ourIp \in IPs \cup {NoIp, StaticIp}
    /\ mdns \in IDLE .. LIVE
    /\ mdnsSlot \in SlotOrNone
    /\ announced \in IPs \cup {NoIp, StaticIp}
    /\ prior \in IPs \cup {NoIp, StaticIp}
    /\ halted \in {"run", "panic_d", "panic_n"}
    /\ held \subseteq Slots
    /\ robbed \in BOOLEAN
    /\ struck \subseteq LeaseTimers

-----------------------------------------------------------------------------
(* Boot: main() arms the services in this order. *)

BootStep(armed, p, cb, left) == IF armed THEN timer_set(p, cb, 0, left) ELSE p

\* petLeft: what is left of the first pet's period once boot has finished.
BootPool(petLeft) ==
    LET pet    == timer_set(timer_pool_init, "pet", 0, petLeft)
        reaper == timer_set(pet, "reaper", 0, ReaperInterval)
        arp    == timer_set(reaper, "arp", 0, 0)
        dhcpc  == BootStep(UseDhcp, arp, "retrans", Retrans)
        ntp    == timer_set(dhcpc, "ntp", 0, 0)
    IN  BootStep(~UseDhcp, ntp, "mdns", 0)

BootMdnsSlot(p) ==
    LET S == {i \in Slots : p[i].cb = "mdns"}
    IN  IF S = {} THEN NoSlot ELSE Min(S)

\* dhcp_start marks T1, T2 and LEASE as unarmed.
\* Mutant: the context is left as .bss gives it.
zeroed_slots == [t \in LeaseTimers |-> 0]
unarmed_slots == [t \in LeaseTimers |-> NoSlot]

Init ==
    /\ \E petLeft \in 0 .. PetPeriod : pool = BootPool(petLeft)
    /\ scan = Dispatching /\ busy = 0 /\ wdog = WdogTimeout
    /\ pollShift = 0
    /\ dhcp = IF UseDhcp THEN "S_SELECTING" ELSE "S_INIT"
    /\ retries = MaxRetries
    /\ slot = unarmed_slots
    /\ ourIp = IF UseDhcp THEN NoIp ELSE StaticIp
    /\ mdns = IF UseDhcp THEN IDLE ELSE PROBE_1
    /\ mdnsSlot = BootMdnsSlot(pool)
    /\ announced = ourIp
    /\ prior = NoIp
    /\ halted = "run"
    /\ held = {} /\ robbed = FALSE /\ struck = {}

-----------------------------------------------------------------------------
(* net_loop *)

\* The loop is between frames: a frame may be dispatched.
Receiving == halted = "run" /\ scan = Dispatching

\* Ring empty: .Lnet_idle calls timer_check.
TimerCheck ==
    /\ Receiving
    /\ scan' = 0
    /\ UNCHANGED <<pool, busy, wdog, pollShift, dhcpVars, mdnsVars, halted,
                   userVars>>

\* The next slot timer_check fires holds callback cb; scan moves past it.
Fires(cb) ==
    /\ halted = "run" /\ scan # Dispatching
    /\ Due(pool, scan) # {}
    /\ pool[Firing(pool, scan)].cb = cb
    /\ scan' = Firing(pool, scan) + 1
    /\ UNCHANGED busy

\* timer_check returns; http_update_date and http_poll follow, then recv.
TimerCheckReturn ==
    /\ halted = "run" /\ scan # Dispatching
    /\ Due(pool, scan) = {}
    /\ scan' = Dispatching /\ busy' = 0
    /\ UNCHANGED <<pool, wdog, pollShift, dhcpVars, mdnsVars, halted,
                   userVars>>

\* Time passes while the loop receives: at most MaxBusy ticks of traffic
\* without an empty ring.
Tick ==
    /\ Receiving /\ busy < MaxBusy /\ wdog > 0
    /\ busy' = busy + 1
    /\ wdog' = wdog - 1
    /\ pool' = Elapse(pool)
    /\ UNCHANGED <<scan, pollShift, dhcp, retries, slot, ourIp, mdnsVars,
                   halted, userVars>>

\* panic.S: the blink loop never returns and pets the watchdog every cycle.
PanicBlink ==
    /\ halted # "run"
    /\ wdog' = WdogTimeout
    /\ UNCHANGED <<loopVars, pollShift, dhcpVars, mdnsVars, halted,
                   userVars>>

-----------------------------------------------------------------------------
(* The periodic services.  Each callback re-arms itself. *)

sys_watchdog_pet_cb ==
    /\ Fires("pet")
    /\ wdog' = WdogTimeout
    /\ pool' = timer_set(Fired(pool, scan), "pet", 0, PetPeriod)
    /\ UNCHANGED <<pollShift, dhcpVars, mdnsVars, halted,
                   userVars>>

\* timer_cancel of every slot of S, on behalf of TCP or of reassembly.
CancelAll(p, S) == [i \in Slots |-> IF i \in S THEN Inactive ELSE p[i]]
Strikes(S) ==
    /\ held' = held \ S
    /\ struck' = struck \cup {t \in LeaseTimers : \E i \in S : pool[i].cb = t}
    /\ UNCHANGED robbed

\* The reaper closes connections, any, through the slots they remember.
tcp_idle_reaper_rearm(S) ==
    /\ Fires("reaper")
    /\ S \subseteq held
    /\ pool' = timer_set(CancelAll(Fired(pool, scan), S), "reaper", 0,
                         ReaperInterval)
    /\ Strikes(S)
    /\ UNCHANGED <<wdog, pollShift, dhcpVars, mdnsVars, halted>>

arp_timer_cb ==
    /\ Fires("arp")
    /\ pool' = timer_set(Fired(pool, scan), "arp", 0, ArpRefresh)
    /\ UNCHANGED <<wdog, pollShift, dhcpVars, mdnsVars, halted,
                   userVars>>

\* Mutant: polling gives up once the interval is at its cap.
ntp_timer_cb_gives_up ==
    /\ Fires("ntp")
    /\ pool' = IF pollShift = ShiftCap THEN Fired(pool, scan)
               ELSE timer_set(Fired(pool, scan), "ntp", 0, NtpPoll * 2^pollShift)
    /\ pollShift' = IF pollShift < ShiftCap THEN pollShift + 1 ELSE pollShift
    /\ UNCHANGED <<wdog, dhcpVars, mdnsVars, halted,
                   userVars>>

\* The poll interval doubles until a valid answer resets the shift.
ntp_timer_cb ==
    /\ Fires("ntp")
    /\ pool' = timer_set(Fired(pool, scan), "ntp", 0, NtpPoll * 2^pollShift)
    /\ pollShift' = IF pollShift < ShiftCap THEN pollShift + 1 ELSE pollShift
    /\ UNCHANGED <<wdog, dhcpVars, mdnsVars, halted,
                   userVars>>

ntp_handle ==
    /\ Receiving
    /\ pollShift # 0
    /\ pollShift' = 0
    /\ UNCHANGED <<loopVars, wdog, dhcpVars, mdnsVars, halted,
                   userVars>>

-----------------------------------------------------------------------------
(* TCP and reassembly *)

UserTimers == {i \in Slots : pool[i].cb = "user"}

\* tcp_rtx_arm, the 2MSL timer and the reassembly timeout remember the slot,
\* tcp_persist_arm and one of the 2MSL timers do not.
UserArm(p, h) ==
    /\ pool' = timer_set(p, "user", 0, UserDelay)
    /\ held' \in {h, h \cup ({timer_set_slot(p)} \cap Slots)}
    /\ Cardinality(held') <= Users

UserSet ==
    /\ Receiving
    /\ Cardinality(UserTimers) < Users
    /\ UserArm(pool, held)
    /\ UNCHANGED <<scan, busy, wdog, pollShift, dhcpVars, mdnsVars, halted,
                   robbed, struck>>

\* A callback of theirs.  It drops the slot it fired from, which in a state
\* that was robbed may not be the one its owner remembers.
UserFires(rearms) ==
    /\ Fires("user")
    /\ \E h \in {held \ {Firing(pool, scan)}, held} :
          /\ h = held => robbed \/ Firing(pool, scan) \notin held
          /\ \/ ~rearms /\ pool' = Fired(pool, scan) /\ held' = h
             \/ rearms /\ UserArm(Fired(pool, scan), h)
    /\ UNCHANGED <<wdog, pollShift, dhcpVars, mdnsVars, halted, robbed, struck>>

\* tcp_rtx_clear and the end of a reassembly cancel through the slot they
\* remember, without a look at who owns it by now.
UserCancel(i) ==
    /\ Receiving
    /\ i \in held
    /\ pool' = CancelAll(pool, {i})
    /\ Strikes({i})
    /\ UNCHANGED <<scan, busy, wdog, pollShift, dhcpVars, mdnsVars, halted>>

\* A closed entry and an oversized datagram forget the slot without that.
UserForget(i) ==
    /\ Receiving
    /\ i \in held
    /\ held' = held \ {i}
    /\ UNCHANGED <<loopVars, wdog, pollShift, dhcpVars, mdnsVars, halted,
                   robbed, struck>>

-----------------------------------------------------------------------------
(* mDNS *)

\* _mdns_try_arm cancels its previous slot only while mdns_timer_cb still
\* owns it ...
MdnsDropOld(p) ==
    IF mdnsSlot \in Slots /\ p[mdnsSlot].cb = "mdns"
    THEN timer_cancel(p, mdnsSlot) ELSE p

\* ... and then arms a timer that is due at once.
MdnsArm(p) == timer_set(MdnsDropOld(p), "mdns", 0, 0)
MdnsArmSlot(p) == timer_set_slot(MdnsDropOld(p))

\* mdns_kick starts a cycle when none has run or the address has changed.
MdnsKicks(ip) == mdns = IDLE \/ announced # ip

\* One step of the probe/announce cycle; a timer found in IDLE or LIVE is
\* ignored.  Reaching LIVE ends the cycle: no re-arm, prior forgotten.
MdnsTimer(advancing, rearming) ==
    /\ Fires("mdns")
    /\ LET fired == Fired(pool, scan)
           gap   == IF mdns + 1 = ANNOUNCE_2 THEN AnnounceGap ELSE ProbeGap
       IN  /\ mdns' = IF mdns \in advancing THEN mdns + 1 ELSE mdns
           /\ prior' = IF mdns = ANNOUNCE_2 THEN NoIp ELSE prior
           /\ pool' = IF mdns \in rearming
                      THEN timer_set(fired, "mdns", 0, gap) ELSE fired
           /\ mdnsSlot' = IF mdns \in rearming
                          THEN timer_set_slot(fired) ELSE mdnsSlot
    /\ UNCHANGED <<wdog, pollShift, dhcpVars, announced, halted, userVars>>

\* Mutants: the hop from probing to announcing forgets to re-arm; the second
\* announcement is repeated for ever.
mdns_timer_cb_drops == MdnsTimer(PROBE_1 .. ANNOUNCE_2, PROBE_1 .. PROBE_3 - 1)
mdns_timer_cb_loops == MdnsTimer(PROBE_1 .. ANNOUNCE_2 - 1, PROBE_1 .. ANNOUNCE_2)
mdns_timer_cb == MdnsTimer(PROBE_1 .. ANNOUNCE_2, PROBE_1 .. ANNOUNCE_2 - 1)

\* A response that claims our name with address ip is a conflict unless it
\* echoes what we announced before.
mdns_check_conflict(ip) == ~(prior # NoIp /\ ip = prior)

\* mdns_dispatch in the probe window; elsewhere it changes no state.
mdns_dispatch(ip) ==
    /\ Receiving
    /\ mdns \in PROBE_1 .. PROBE_3
    /\ mdns_check_conflict(ip)
    /\ halted' = "panic_n"
    /\ UNCHANGED <<loopVars, wdog, pollShift, dhcpVars, mdnsVars, userVars>>
-----------------------------------------------------------------------------
(* DHCP *)

\* dhcp_fsa_trans_table: the cells that do something, as <<next, handler>>.
dhcp_fsa_trans_table(s, e) ==
    CASE s = "S_SELECTING" /\ e = "E_TIMER_RETRANS_RETRY"  -> <<s, "resend">>
      [] s = "S_REQUESTING" /\ e = "E_TIMER_RETRANS_RETRY" -> <<s, "resend">>
      [] s = "S_RENEWING" /\ e = "E_TIMER_RETRANS_RETRY"   -> <<s, "resend">>
      [] s = "S_REBINDING" /\ e = "E_TIMER_RETRANS_RETRY"  -> <<s, "resend">>
      [] s = "S_SELECTING" /\ e = "E_TIMER_RETRANS_GIVEUP" -> <<s, "panic_d">>
      [] s = "S_REQUESTING" /\ e = "E_TIMER_RETRANS_GIVEUP" -> <<s, "panic_d">>
      [] s = "S_SELECTING" /\ e = "E_RX_OFFER_VALID" -> <<"S_REQUESTING", "send">>
      [] s = "S_REQUESTING" /\ e = "E_RX_ACK_VALID"  -> <<"S_BOUND", "commit">>
      [] s = "S_REQUESTING" /\ e = "E_RX_NAK_VALID"  -> <<"S_SELECTING", "send">>
      [] s = "S_BOUND" /\ e = "E_TIMER_T1"           -> <<"S_RENEWING", "send">>
      [] s = "S_BOUND" /\ e = "E_TIMER_T2"           -> <<"S_REBINDING", "send">>
      [] s = "S_BOUND" /\ e = "E_TIMER_LEASE"        -> <<"S_SELECTING", "send">>
      [] s = "S_RENEWING" /\ e = "E_TIMER_T2"        -> <<"S_REBINDING", "send">>
      [] s = "S_RENEWING" /\ e = "E_TIMER_LEASE"     -> <<"S_SELECTING", "send">>
      [] s = "S_RENEWING" /\ e = "E_RX_ACK_VALID"    -> <<"S_BOUND", "commit">>
      [] s = "S_RENEWING" /\ e = "E_RX_NAK_VALID"    -> <<"S_SELECTING", "send">>
      [] s = "S_REBINDING" /\ e = "E_TIMER_LEASE"    -> <<"S_SELECTING", "send">>
      [] s = "S_REBINDING" /\ e = "E_RX_ACK_VALID"   -> <<"S_BOUND", "commit">>
      [] s = "S_REBINDING" /\ e = "E_RX_NAK_VALID"   -> <<"S_SELECTING", "send">>
      [] OTHER                                       -> <<s, "none">>

\* Every handler that sends broadcasts its frame and arms a new retransmit
\* timer.  Its slot is not kept anywhere: no handler can cancel it.
SendArm(p) ==
    /\ pool' = timer_set(p, "retrans", 0, Retrans)

\* h_send_discover, h_record_offer_send_request, h_send_request_renew and
\* h_send_request_rebind: a new phase starts with a full retry budget.
h_send(p) ==
    /\ SendArm(p)
    /\ retries' = MaxRetries
    /\ UNCHANGED <<slot, ourIp, mdnsVars, halted, userVars>>

\* The four h_resend_* handlers: the same frame again; left is what
\* dhcp_retrans_cb left of the budget.
h_resend(p, left) ==
    /\ SendArm(p)
    /\ retries' = left
    /\ UNCHANGED <<slot, ourIp, mdnsVars, halted, userVars>>

h_none(p, left) ==
    /\ pool' = p
    /\ retries' = left
    /\ UNCHANGED <<slot, ourIp, mdnsVars, halted, userVars>>

h_panic_d(p) ==
    /\ pool' = p
    /\ halted' = "panic_d"
    /\ UNCHANGED <<retries, slot, ourIp, mdnsVars, userVars>>

\* The slots it captures, from the pools T1, T2 and the expiry are armed in.
\* Mutant: T1's answer is stored twice.
captured_slots_copied(p1, p2, p3) ==
    [t \in LeaseTimers |-> CASE t = "t1"    -> timer_set_slot(p1)
                             [] t = "t2"    -> timer_set_slot(p1)
                             [] t = "lease" -> timer_set_slot(p3)]
captured_slots(p1, p2, p3) ==
    [t \in LeaseTimers |-> CASE t = "t1"    -> timer_set_slot(p1)
                             [] t = "t2"    -> timer_set_slot(p2)
                             [] t = "lease" -> timer_set_slot(p3)]

\* h_commit_lease_arm_timers: take the address, kick mDNS, cancel the three
\* slots remembered from the last lease, whoever has them by now, and arm T1,
\* T2 and the expiry.
h_commit_lease_arm_timers(p, ip, lease) ==
    LET kicked   == IF MdnsKicks(ip) THEN MdnsArm(p) ELSE p
        cleared  == timer_cancel(timer_cancel(timer_cancel(kicked,
                        slot["t1"]), slot["t2"]), slot["lease"])
        armedT1  == timer_set(cleared, "t1", 0, lease \div 2)
        armedT2  == timer_set(armedT1, "t2", 0, (lease * 7) \div 8)
    IN  /\ pool' = timer_set(armedT2, "lease", 0, lease)
        /\ slot' = captured_slots(cleared, armedT1, armedT2)
        /\ ourIp' = ip
        /\ mdns' = IF MdnsKicks(ip) THEN PROBE_1 ELSE mdns
        /\ mdnsSlot' = IF MdnsKicks(ip) THEN MdnsArmSlot(p) ELSE mdnsSlot
        /\ announced' = ip
        /\ prior' = IF mdns # IDLE /\ announced # ip THEN announced ELSE prior
        /\ robbed' = (robbed \/ \E t \in LeaseTimers :
                          slot[t] \in Slots /\ kicked[slot[t]].cb = "user")
        /\ struck' = {}
        /\ UNCHANGED <<retries, halted, held>>

\* dhcp_fsa_step, for the events that carry no data: the handler of the
\* cell runs on pool p, then the state advances.
dhcp_fsa_step(e, p, left) ==
    LET cell == dhcp_fsa_trans_table(dhcp, e)
    IN  /\ dhcp' = cell[1]
        /\ \/ cell[2] = "send" /\ h_send(p)
           \/ cell[2] = "resend" /\ h_resend(p, left)
           \/ cell[2] = "panic_d" /\ h_panic_d(p)
           \/ cell[2] = "none" /\ h_none(p, left)

\* Mutant: the budget is decremented without the test for zero.
dhcp_retrans_cb_wraps ==
    /\ Fires("retrans")
    /\ dhcp_fsa_step("E_TIMER_RETRANS_RETRY", Fired(pool, scan), retries - 1)
    /\ UNCHANGED <<wdog, pollShift>>

dhcp_retrans_cb ==
    /\ Fires("retrans")
    /\ IF retries = 0
       THEN dhcp_fsa_step("E_TIMER_RETRANS_GIVEUP", Fired(pool, scan), 0)
       ELSE dhcp_fsa_step("E_TIMER_RETRANS_RETRY", Fired(pool, scan),
                          retries - 1)
    /\ UNCHANGED <<wdog, pollShift>>

dhcp_t1_cb ==
    /\ Fires("t1")
    /\ dhcp_fsa_step("E_TIMER_T1", Fired(pool, scan), retries)
    /\ UNCHANGED <<wdog, pollShift>>

dhcp_t2_cb ==
    /\ Fires("t2")
    /\ dhcp_fsa_step("E_TIMER_T2", Fired(pool, scan), retries)
    /\ UNCHANGED <<wdog, pollShift>>

\* Mutant: the expiry raises T2's event.
dhcp_lease_cb_copied ==
    /\ Fires("lease")
    /\ dhcp_fsa_step("E_TIMER_T2", Fired(pool, scan), retries)
    /\ UNCHANGED <<wdog, pollShift>>

dhcp_lease_cb ==
    /\ Fires("lease")
    /\ dhcp_fsa_step("E_TIMER_LEASE", Fired(pool, scan), retries)
    /\ UNCHANGED <<wdog, pollShift>>

\* dhcp_dispatch for a valid reply to the current xid.  A reply the table
\* ignores leaves everything as it is.
dhcp_dispatch(e) ==
    /\ Receiving
    /\ dhcp_fsa_trans_table(dhcp, e)[2] = "send"
    /\ dhcp_fsa_step(e, pool, retries)
    /\ UNCHANGED <<scan, busy, wdog, pollShift>>

dhcp_dispatch_ack(ip, lease) ==
    /\ Receiving
    /\ dhcp_fsa_trans_table(dhcp, "E_RX_ACK_VALID")[2] = "commit"
    /\ dhcp' = dhcp_fsa_trans_table(dhcp, "E_RX_ACK_VALID")[1]
    /\ h_commit_lease_arm_timers(pool, ip, lease)
    /\ UNCHANGED <<scan, busy, wdog, pollShift>>

-----------------------------------------------------------------------------
TimerStep ==
    \/ sys_watchdog_pet_cb \/ arp_timer_cb
    \/ \E S \in SUBSET held : tcp_idle_reaper_rearm(S)
    \/ \E rearms \in BOOLEAN : UserFires(rearms)
    \/ ntp_timer_cb \/ mdns_timer_cb
    \/ dhcp_retrans_cb \/ dhcp_t1_cb \/ dhcp_t2_cb \/ dhcp_lease_cb
    \/ TimerCheckReturn

Next ==
    \/ TimerCheck \/ TimerStep \/ Tick \/ PanicBlink
    \/ ntp_handle
    \/ UserSet \/ \E i \in Slots : UserCancel(i) \/ UserForget(i)
    \/ \E ip \in IPs : mdns_dispatch(ip)
    \/ dhcp_dispatch("E_RX_OFFER_VALID") \/ dhcp_dispatch("E_RX_NAK_VALID")
    \/ \E ip \in IPs, lease \in Leases : dhcp_dispatch_ack(ip, lease)

Spec == Init /\ [][Next]_vars

\* The counter advances whatever the CPU does (SF: timer_check keeps
\* disabling Tick for a moment), net_loop keeps finding the ring empty, and
\* timer_check, once called, runs to its end.  Nothing is assumed of the
\* network.
Fairness == SF_vars(Tick) /\ WF_vars(TimerCheck) /\ WF_vars(TimerStep)

FairSpec == Spec /\ Fairness

-----------------------------------------------------------------------------
(* Properties *)

\* The SoC is never reset by its own watchdog while net_loop makes progress
\* (TrafficAssumption): sys_watchdog_pet_cb always runs in time.
NoBite == wdog > 0

\* Why NoBite holds: the countdown is what is left of the pet's own period,
\* plus the margin, less the ticks a due pet has been kept waiting; and a
\* scan that has passed slot 0 has petted.
PetClock ==
    /\ pool[0].left <= PetPeriod
    /\ pool[0].left > 0 => wdog >= WdogTimeout - PetPeriod + pool[0].left
    /\ pool[0].left = 0 => wdog >= WdogTimeout - PetPeriod - busy
    /\ scan > 0 => pool[0].left > 0

\* The watchdog, the reaper and the ARP refresh, armed first at boot, never
\* leave slots 0, 1 and 2: their re-arm finds the slot timer_check has just
\* freed.  So no slot number that another service, a connection or a
\* reassembly slot remembers, however stale, can make it cancel one of them.
PinnedCb == <<"pet", "reaper", "arp">>
Pinned ==
    \A k \in 1 .. 3 : k <= Cap =>
        /\ pool[k - 1].cb = PinnedCb[k]
        /\ mdnsSlot # k - 1
        /\ \A t \in LeaseTimers : slot[t] # k - 1
        /\ k - 1 \notin held

\* The lease timers that the current state waits for are in the slots that
\* DHCPC_*_SLOT remember, unless the pool was full when they were armed or a
\* connection or reassembly slot has cancelled them: no retransmission, mDNS
\* cycle or slot reuse can lose them.  And nobody cancels them before a commit
\* has itself cancelled a timer of TCP or reassembly.
Awaited(s) ==
    CASE s = "S_BOUND"     -> {"t1", "t2", "lease"}
      [] s = "S_RENEWING"  -> {"t2", "lease"}
      [] s = "S_REBINDING" -> {"lease"}
      [] OTHER             -> {}
LeaseTimersKept ==
    /\ \A t \in Awaited(dhcp) \ struck :
          slot[t] # NoSlot => pool[slot[t]].cb = t
    /\ struck # {} => robbed

\* No lease state is a dead end: T1, T2 or the expiry (or a server) always
\* moves the client on, provided the expiry timer found a slot and no stale
\* handle of TCP or reassembly has cancelled it.  A client that stays in the
\* lease states for ever goes round them for ever.
Leased ==
    /\ dhcp \in {"S_BOUND", "S_RENEWING", "S_REBINDING"} /\ halted = "run"
    /\ slot["lease"] # NoSlot /\ "lease" \notin struck
LeaseProgress == <>[]Leased => []<><<dhcp' # dhcp>>_vars

\* The lease timers are DHCP's own: nobody else ever cancels one.  Does not
\* hold: see the README, Known disagreements.
NeverStruck == struck = {}

\* mdns_kick: "arms a fresh cycle with the new IP".  A probe or announce
\* cycle that has not reached LIVE keeps the timer that continues it (unless
\* the pool was full).
MdnsCycleArmed ==
    mdns \in PROBE_1 .. ANNOUNCE_2 /\ mdnsSlot # NoSlot
        => pool[mdnsSlot].cb = "mdns"

\* With a static address the responder ends its probe and announce cycle and
\* answers queries, unless a conflict halts the machine.
MdnsReachesLive == <>(mdns = LIVE \/ halted = "panic_n")

\* NTP polls for ever: each poll re-arms the next, at an interval that backs
\* off to NtpPoll * 2^ShiftCap and no further.
NtpKeepsPolling == []<><<ntp_timer_cb>>_vars \/ <>(halted # "run")
=============================================================================
