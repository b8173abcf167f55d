# TLA+ models of the ws_pi5 web server

The repository is a bare-metal AArch64 web server: its own network stack, DHCP,
mDNS and NTP clients, drivers and boot code, in assembly, run by one cooperative
event loop. There are no threads. What makes it hard is that everything that has
to happen later lives in one small timer pool (16 slots) that all parts share,
whose slot numbers its users remember, and that the network decides in which
order everything happens.

Around it stand Python tools: they flash the kernel over a serial line, package a
web site into it, check its tables and its configuration before a card is written,
generate the vectors its unit tests run, and drive the hardware tests from a laptop.
There the processes, the wire and the Pi do run concurrently, and every step of a
tool can fail.

`PROJECT.json` lists the components, the runs, the definitions with the source
lines they model, the hazards, the findings and the theorems.

## Inventory

| part (source) | state | operations | what makes it correct |
|---|---|---|---|
| timer pool (`lib/timer_pool.S`) | slots: callback, context, expiry | `timer_set`, `timer_cancel`, `timer_check` | a slot is only given away when free; callbacks may set and cancel while the scan goes on |
| event loop (`platform/pi/main.S`) | none of its own | boot order, receive and dispatch, `timer_check` on an empty ring, `http_poll` | background work is not starved |
| watchdog (`drivers/sys_watchdog.S`, `lib/panic.S`) | PM countdown, pet period | arm, tighten, pet; the panic loops pet too | never bites while the loop makes progress |
| DHCP (`lib/dhcp_fsa.S`, `lib/dhcp.S`) | state, retries, three remembered slots, lease | table-driven step on replies and timers | a lease is renewed or given up; the retry budget is what D017 says |
| mDNS (`lib/mdns.S`) | cycle state, remembered slot, announced and prior address | kick, timer, dispatch | the cycle ends in LIVE with the address now held |
| NTP (`lib/ntp.S`), ARP (`lib/arp.S`) | poll shift; cache | poll and refresh timers, replies | they go on for ever |
| TCP (`lib/tcp.S`) | 128 connection records, buffers, timers | 5 events x 10 states, send, close, retransmit, persist, 2MSL, reaper, ICMP errors | one record per peer, handles never stale, every record is given back, data in order |
| IP reassembly (`lib/ip_reasm.S`) | 4 slots with bitmap, total, timer | fragment in, timeout | only whole datagrams, only their own bytes, slots are given back |
| HTTP (`lib/http*.S`, `lib/vmio_*.S`, `lib/store.S`) | per-way output state, two event queues, pending bits | poll, post, step, handlers | no response is lost or duplicated, ways do not get stuck |
| token buckets (`lib/icmp.S`, `lib/tcp.S`) | tokens, last refill | allow | the rate is bounded |
| configuration (`scripts/lint_network_conf.py`, `lib/config_parser.S`) | what each reader has taken of the file | each reads the file in one pass, the boot parser out of 4096 bytes of RAM | what the linter lets on the card boots with the values it saw |
| GENET (`drivers/genet.S`) | RX/TX ring indices, link | receive, send, error recovery, PHY poll | indices agree with the hardware's |
| serial flasher and chainloader (`scripts/hw_send.py`, `scripts/intel_hex.py`, `chainload/`) | processes and port; load address, records, answers, memory | sweep of stale flashers, DTR reset, READY, records with a two-byte answer, BOOT, console | what is started is what was sent; the host never hangs, whatever the Pi does |
| TCP vector suite (`scripts/tcp_oracle.py`, `tests/test_tcp_func.S`) | the table under test | generate, run, compare | an edit of `tcp_fsa_table` turns the suite red |
| reassembly oracle (`scripts/reasm_oracle.py`) | none | predict one fragment | agrees with `ip_reasm_input` in every state the code reaches |
| table verifiers (`scripts/verify_dhcp_fsa_table.py`, `verify_fsa_table.py`, `lint_dhcp_fsa_vectors.py`) | rows and cells | lint, verify | a table they accept is the one specified |
| appliance packager (`scripts/mk_appliance.py`, `http_appliance_init`) | slab: routes and content | collect, lay out, patch; relocate at boot; match | a packaged file is served with its own bytes |
| link control (`hw_test/link.py`) | what the interface advertises, whether it is up, what was saved | temporary speed, temporary down, waits, restore | the laptop's interface is left as it was found |
| wire capture (`hw_test/wire.py`) | tcpdump, its file, an ephemeral directory | enter, poll, exit | nothing of it outlives the block; frames come in wire order |
| raw TCP session (`hw_test/tcp_helpers.py`) | seq, ack | connect, send, fin, raw segments | it does not acknowledge or number what never was |

Interaction is by call, from the loop: a frame goes to the handler of its
protocol; a due timer goes to its callback; `http_poll` calls `tcp_send` and
`tcp_close`. The shared state is the timer pool, the connection table and
`net_our_ip`. The tools meet the Pi only through the line, the wire and the files they
write. The hard behaviours of the firmware are therefore (a) a remembered slot number
that outlives its timer, (b) a full pool, (c) callbacks that change the pool
that `timer_check` is scanning, (d) timers of a finished phase or connection
that fire in the next, and (e) traffic that delays `timer_check`. Those of the tools
are (f) a fault of the line that is taken for an answer, (g) a command that fails, or
succeeds but is reported as failed, between a change and its undoing, (h) state that
is read while another process changes it, and (i) one thing written down twice (a
table, a layout, a file format) whose two readings drift apart.

## Modules

* `TimerPool` - the pool as operators on a value `p`. A slot holds the ticks left
  instead of the absolute expiry, so that states are finite. `timer_check` is not
  one step: `Due`, `Firing` and `Fired` let each module take one step per callback,
  in index order, on the pool as the callbacks before have left it.
* `NetServices` - the boot sequence, the loop, watchdog, NTP, ARP, the re-arming of
  the reaper, the DHCP state machine (`dhcp_fsa_trans_table` cell by cell) and the
  mDNS cycle. TCP and reassembly are in the pool as one user: the slots it remembers
  (`held`) fire, are cancelled and are taken again at any time.
* `TcpTable` - the connection table and the connections' timers. One action per
  handler, callback and API call. `flight` counts `SND_NXT - SND_UNA` in units
  (SYN, FIN and each `tcp_send` are one), `idle` is the age of `LAST_ACTIVE`.
* `IpReasm` - the reassembly slots; offsets in the bitmap's 8-byte
  units (`Unit` bytes), lengths and totals in bytes, so that a last fragment may end inside
  a unit. `fresh` and `whole` are history. `ReasmOracle` (`reasm_oracle.py` as operators)
  is instantiated in it: `OracleAgrees` compares the two on every fragment of every
  reachable state.
* `HttpServer` - `http_poll`: the scan of the connections (first-byte guard, parser,
  dispatch, body, half-close, slow clients), `http_fsa_poll_tcp_events`, and the
  output machine (`http_fsa_trans_table` cell by cell, one action per handler) with
  its two ring queues and the pending bits, one step per way and per event. TCP is
  the environment: between two polls connections are established, fed, acknowledged,
  half-closed and dropped in any number. A request is a sequence of tokens ("part of
  a header", four kinds of complete header, "bad"), a response its length. What the
  source leaves in `HCONN` is left in `hc`: parser state, offset, `REQ_LEN` and
  `CLOSE_FOUND` survive the end of a connection as they do in the code.
* `IntelHex`, `HexLoad` - the flasher, the chainloader and the line. `IntelHex` has the
  records, their chunks and checksums as numbers. In `HexLoad` host and Pi are two
  sequential processes; a line is its record and what the wire did to it (a character
  missing, the start code or another character garbled, a newline too many or
  missing). A line with a bad character is refused (`PiNak`) or, because `cl_hex_nibble`
  takes any character, read as some other record whose sum is zero (`PiSlip`: another page,
  another count; history `slipped`). `Flash` is what flashing promises: "booted" is said only when every
  cell of the payloads holds its byte, and then no cell changes. `KeepsPromise` states
  that `HexLoad` implements it (`INSTANCE Flash WITH right <- Seen`, the cells of the
  Pi's memory that hold the right byte, or all of them in an attempt with a slip).
* `LinkState` - one command, poll or handler of `link.py` per step, a PHY that works on its
  own, commands that are refused and commands that are carried out although their
  answer is late, queries that ethtool does not answer; a session of several blocks that
  finds the interface in any state (up or down, autonegotiation on, off or restricted),
  and the finalizer of `conftest.py` with every branch of `restore_link_state`.
* `WireCapture` - the test process, tcpdump and the kernel's queue. `RawSession` extends
  it: the body of each block is one exchange of `RawTCPSession` with the Pi's TCP, as far
  as that session sees it.
* `TcpOracle`, `TcpVectors` - the vectors and their expectations as operators;
  `tcp_handle` for one segment on a seeded connection; the table is a variable that may
  be edited before the suite is run.
* `FsaTables` - rows, cells and the three tools that compare them.
* `NetworkConf` - linter and parser reading the same file line by line, with the seven ways
  (`quirks`) in which a file can mean different things to them: a byte order mark (`bom`), a
  value only Python's `int` takes (`lenient`), white space only Python strips (`blanks`), a byte
  above 0x7E up to the magic line (`high`), a lone CR (`cr`), a NUL or more than the 4096
  bytes `main.S:90` gives the parser (`cut`), and RAM behind the file that joins its last line or looks
  like another (`tail`).
* `Appliance` - site, sizes on both sides, packager (with its refusals of long paths,
  truncated images and sites that do not fit), relocation and lookup.
* `BuildGates` - composes the last four; they share nothing, so a behaviour is about one.
* `MCNetServices`, `MCTcpTable`, `MCIpReasm`, `MCHttpServer`, `MCHexLoad` - definitions for
  the configurations; the other runs use the module itself.
* `NetServicesProofs`, `TcpTableProofs`, `IpReasmProofs`, `HttpServerProofs`, `HexLoadProofs`,
  `LinkStateProofs`, `RawSessionProofs`, `BuildGatesProofs` - theorems, each about the module
  (or the composition) it is named after.

In the state machines with a timer pool (`NetServices`, `TcpTable`, `IpReasm`) `scan = Dispatching` while `net_loop` receives,
otherwise it is the slot index `timer_check` has reached; `busy` counts the ticks since it last
returned.

The program has one pool, and in a DHCP build one user that cancels what it remembers without
asking whose it is by now (`h_commit_lease_arm_timers`, `dhcp_fsa.S:585-596`). Each of the three
modules therefore has the other two in its pool, as an environment that may do all that they do:

* in `TcpTable` and `IpReasm` the rest of the stack sets timers, remembers their slots
  (`kept`), lets them fire and cancels them; with `UseDhcp` it may cancel a slot it remembers
  also when that slot is no longer its own. `robbed` is history: such a cancel has hit a
  timer of TCP (of reassembly). From then on `TIMER_SLOT` may name anybody's timer, and the
  handlers of the module cancel by it, as the code does;
* in `NetServices` a user stands for TCP and reassembly. Its timers are within reach of the
  commit's cancels (`robbed`), and what it still remembers afterwards is within reach of its own
  (`tcp_rtx_clear`, `tcp.S:802`; `ip_reasm.S:503`): `struck` is the set of lease timers it has cancelled.

What each module assumes of the others is what the others show: nothing outside remembers
slots 0 to 2 (`Pinned`, `ReaperPinned`), and TCP and reassembly have no stale handle before a blind
cancel has hit them (`HandleOwned`, `ReasmHandleOwned`). Frames that
fail validation, and frames that are only answered (RST, ARP, ICMP echo, Challenge
ACK), change no modelled state and are stutters.

## Runs

Passing:

* `netservices_dhcp` - DHCP build with an 8-slot pool that TCP and reassembly share.
  Retransmit timers, which nothing cancels, can fill it, so that every "pool full" branch
  is taken; the servers may offer, acknowledge and refuse anything at any time (390,000
  states). `NoBite` and `Pinned` hold. `LeaseTimersKept` and `LeaseProgress` say what the
  client has when `timer_set` gave it a slot, since a full pool loses the timer, and as long
  as no stale handle of TCP or reassembly has cancelled that timer (`struck`); the first
  also says that none does before a commit has robbed its user. `LeaseProgress`: a client
  that stays in the lease states for ever goes round them for ever. One address suffices for these
  (`IPs`); the theorems hold for any set.
* `netservices_static` - static address, NTP back-off and different periods:
  `MdnsCycleArmed`, `MdnsReachesLive` and `NtpKeepsPolling`.
* `tcptable_safety` - DHCP build, two records, two peers, one slot behind the reaper's that
  connections and the rest of the stack contend for: every handler with full and empty
  pool and table, eviction, reuse, blind cancels (1.5 million states). `TableInv` (types, one record per
  peer), `HandleOwned` (until a blind cancel has robbed a connection) and
  `ReaperPinned` (also afterwards) hold. Peers are symmetric.
* `tcptable_live` - one record with zero windows, two units in flight, the
  duplicate-ACK threshold above one: `SynRcvdReclaimed`, `SilentReclaimed`.
* `ipreasm_slots` - DHCP build, two slots, two keys, datagrams of two units of two bytes of
  which three bytes fit a frame: all orders, overlaps, two last fragments, too large
  datagrams, a full pool, blind cancels (305,000 states). `SlotInv`
  (types, one slot per datagram, no bit of an earlier datagram), `ReasmHandleOwned` (until robbed),
  `DeliversWhole`, `OracleAgrees`, and `SlotReclaimed` for a slot that has its timer and is not robbed of it.
* `http_ways` - two ways in rings that just hold them, clients that keep alive and
  that do not, windows of nothing and of a whole response (2.6 million states): the
  pending bits are the queue and input and output side agree on who owns a way
  (`OutputInv`), no event is lost (`NothingLost`) or meets a state without a handler
  (`EventHandled`), and a response on a live connection is ended only when it is all
  sent and acknowledged (`WholeResponse`).
* `http_conn` - one way, any tokens: `PollReturns`, `ResponseEnds`, `RecvEnds`.
* `hexload_line` - two attempts to flash a preamble and a kernel, one fault each, among
  five processes of which some are stale flashers. `PortInv`: the sweep spares the
  ancestors of the flasher, and while it flashes no other flasher of its user is left
  to take the Pi's answers, though processes end and ids are reused. `KeepsPromise`: the refinement of `Flash`, but for
  lines that slipped.
  `HostEnds`: the host gives a verdict even when the Pi hangs.
* `linkstate_blocks` - two blocks on an interface found in any state, a command or query
  failing anywhere, requests for another speed and for the one the link has, a PHY that lingers at
  the old speed, goes dark and comes up for a moment at another (2.1 million states).
  `RestoredInv`: between blocks that raised nothing the interface is up or down as it was
  found, and has the settings it had or negotiates with the full advertisement.
  `FinalizerRestores`: after the session everything `link_state` could read at its
  start is back, unless one of the finalizer's own commands failed. `WaitsStable`: a wait that succeeds was
  not fooled by a blip, and by the lingering link only when that has the speed asked for. `BlocksEnd`.
* `rawsession_exchange` - three exchanges, tcpdump that starts late, dies or ignores
  SIGINT, a pcap that is missing or cannot be parsed, a lost segment, a retransmission. `NothingLeaked`: after the block neither
  tcpdump nor its directory is left (except when `_spawn` itself raises, below).
  `CapturedInOrder`, `SeqNotAhead` (as long as each answer taken was the Pi's ACK of its
  request), `ExchangeEnds`.
* `buildgates_all` - every one-field edit of `tcp_fsa_table` against the suite, two edits of
  a table and its rows against the verifiers, every sequence of lines with at most one quirk
  against linter and parser, every small site, sizing, long path and truncated image against packager
  and boot (226,000 states). Each property names
  what its gate does not see:
  * `SuitePinsTable`: the table of the source is green; a green table has the same empty
    cells and leads where the vectors see it lead, except for cells no segment reaches
    (`CLOSED`, and RST to a listener) and for `synrcvd_ack` put into an empty SYN cell, which
    refuses every SYN as an empty cell does. What the vectors see (`SeenTarget`) is the
    target, but for a FIN cell with `finwait1_fin`: every vector's FIN also acknowledges
    ours, and that handler then overwrites the target. Which of two handlers with
    the same effect on a vector a cell names, the suite cannot see.
  * `VerifiedTableAgrees`: accepted cells are the rows', where the HTTP verifier does not
    look for duplicate rows and takes `NONE` in a row for "anything".
  * `ShippedBoots`: what the linter accepts boots with the linter's values, unless the file
    has a quirk. Each of the seven is in the run; for each, linter and parser do differ.
  * `PackagedServes`: when kernel and packager have the same `MAX_ROUTES`, what is packaged
    is served with its bytes.

Violated, a finding in `PROJECT.json`:

* `hexload_nak` - when a damaged record sums to the complement of its checksum, the refusal
  reads like an acknowledgement: the load goes on and BOOT is reported with a hole in
  the kernel. `hexload_line` leaves that residual out of `Residuals`; everything else of
  the protocol is the same.

### Known disagreements

The models show these too. Each formula is kept in its module, and none of them is
in a passing run.

* `ParsesFromStart` (`HttpServer`; add `INVARIANT ParsesFromStart` to
  `HttpServer_conn.cfg`): a connection that ends in the middle of a request leaves parser
  state and offset to the next one in its entry (`http.S:784`), although `http.S:279` and
  `http_output_fsa.S:636` speak of fresh connections.
* `TimewaitOnlyInTimeWait` (`TcpTable_live.cfg` with `Msl2 = 3`): the 2MSL timer of the FIN+ACK
  path (`tcp.S:2959`) is not remembered, so it closes the next connection of the record.
* `TimeWaitExpires` (`PROPERTY` in `TcpTable_live.cfg`): TIME_WAIT entered with a full pool is
  never left (`tcp.S:3037`; the reaper skips the state, `tcp.S:3606`), while README.md:643,
  docs/l4_rfc1122_compliance.md:17 and docs/TEST_PLAN.md:27 say that it expires.
* `MdnsCycleArmed` in a DHCP build (`INVARIANT` in `NetServices_dhcp.cfg` with `IPs = {1, 2}`, `Users = 0`):
  `h_commit_lease_arm_timers` (`dhcp_fsa.S:590`) cancels the slots it remembers
  without asking whose they are now, after `mdns_kick` (`mdns.S:1284`, `1367`) may have been
  given one. The NTP poll's slot is within its reach in the same way, so `NtpKeepsPolling` is
  stated for the static build too.
* `NeverRobbed` (`INVARIANT` in `TcpTable_safety.cfg`): the same cancel takes a connection's timer.
  With it goes the premise of `HandleOwned`: `tcp_rtx_clear` may then cancel a timer that is not TCP's.
* `AlwaysReclaimed` (`PROPERTY` in `IpReasm_slots.cfg`): a reassembly slot robbed of its timer that
  way never times out.
* `NeverStruck` (`INVARIANT` in `NetServices_dhcp.cfg`): the other direction. The commit cancels the
  timer of a connection or a reassembly slot, arms a lease timer there, and the handle left behind cancels it (`tcp.S:802`,
  `ip_reasm.S:503`): the client may then stay BOUND when its lease is over. `mdns.S:1362-1377`
  describes the hazard and avoids it for mDNS only.
* A datagram dropped as too large leaves its timer running (`ip_reasm.S:516`,
  docs/DECISIONS.md:61); it then times out the slot's next datagram early. `SlotReclaimed`
  is stated so that an early end satisfies it.
* `AlwaysWhole` (`INVARIANT` in `HexLoad_line.cfg`): a garbled line that reads as another record with
  a zero sum is written there and acknowledged (`hex_parse.S:23`, `94`, `131`); `KeepsPromise` lets it off.
* `WaitsSettled` (`PROPERTY` in `LinkState_blocks.cfg`): asked for the speed the link has,
  `temporary_link_speed` (`link.py:442-445`) may take the link before it renegotiates for the
  settled one: "the stale (old-speed) state cannot satisfy both conditions" is not true of
  equal speeds, which test_l2_speed.py:100 asks for.
* `RestoredExactly` and `SessionRestores` (`INVARIANT` in `LinkState_blocks.cfg`): `link.py:13-14` promises to restore the
  saved state always. A block's exit turns autonegotiation on with the full
  advertisement whatever it was; the finalizer restores a speed by advertising only it; and of an interface ethtool
  did not answer for when it was saved neither settings nor advertisement come back.
* `Lockstep` (`INVARIANT` in `BuildGates_all.cfg`): `config_parser.S:135` speaks of "asm-parser ↔ linter lockstep"; each
  of the seven quirks breaks it.
* `AckNotAhead` (`RawSession_exchange.cfg` with `MaxOps = 4`, `MaxFaults = 0`, `MaxLoss = 0`): `send`
  adds the length of whatever payload the first frame carries (`tcp_helpers.py:416`), so a
  retransmitted response is counted twice and `ack` runs ahead of what the Pi has sent.
* `WireCapture.__enter__` calls `_spawn` (`wire.py:902`) outside its `try`: when it raises,
  the ephemeral directory stays. `NothingLeaked` excepts that path.
* A kernel and a packager with different `MAX_ROUTES` and equal totals pass the size
  check of `mk_appliance.py`, and the kernel then reads content as routes.
  `PackagedServes` assumes equal values. With `--max-routes` alone `CONTENT_MAX` is not
  recomputed, so a right flag can be refused.

### Bounds

`Cap`, `N`, `R`, the periods and `MaxRetries`, `MaxRtx`, `DupThresh` are small
values of what are constants in the source; their order is kept where it matters
(2 s pet, 10 s timeout; T1 < T2 < lease). `MaxBusy` (ticks of traffic without an
empty ring) and `MaxFlight`, `Windows`, `Others` are bounds of the models. Two
records and two peers suffice for a collision, an eviction and a reuse; one pool
slot behind the reaper's is what connections and the rest of the stack must share for a blind cancel and
a stale handle; two units of two bytes make a gap, an overlap, a last fragment that ends inside a unit and
a datagram that is too large. `Others` and `Users` bound the timers of the rest of the stack, `OtherDelay` and `UserDelay` their
length. `RtoMod` is the 2^32 of `TCONN_RTO`: the RTT update clamps the RTO only from
below (`tcp.S:484`) and `tcp.S:940` doubles it before the cap at 944, so any u32 is possible and `TableInv` says no more. `DUP_ACK_CNT` is followed up to one above
the threshold, from where it may wrap to 0 at any time, as the byte does after more.

`HexLoad`: one fault per attempt (`MaxFaults`), at any point of it; two attempts (`MaxRuns`) so that the second meets what the first has left,
`MaxTries` waits. A slip writes one of `Pages` and `Counts`; counts that
overrun the staging area on the stack of `hex_parse.S` are left out. `LinkState`: `StableSamples` is 3 as in `wait_for_link_at` (5
in `wait_for_carrier`, for which 3 is the harder case); a blip is shorter
than that many polls, and the dark period after a new advertisement is long enough for
one poll (autonegotiation takes about a second, polls are far closer). `WireCapture`: a record appears in
the pcap as a whole, as `-U` writes it. `TcpVectors`: nothing is buffered, no option is
negotiated, the RST budget is not used up and timers are not observed, as in the
harness; one edit (`MaxTableEdits`) is one slip of an author. `FsaTables`: two edits
(`MaxRowEdits`), so that rows and cells can be wrong in the same way. `NetworkConf`: one quirk per file, so
that each stands for itself; the keys of `Varied` have two good values, the others one. `Appliance`: three
files with bodies of up to two units, two values for every size on each side.

In `HttpServer`, `Sends`, `RxMax` and `Windows` bound the clients. `QCap = N + 1` is
the ratio of the source (127 ways, a ring of 128 of which one slot is not used), the
tightest that `HttpAssumption` allows. Two tokens of buffer are a header in two parts,
a header and its body, or two pipelined requests; a header and a body of one unit each
make every response two chunks. `TickMod = 2 * Timeout` keeps the wrap of the 32-bit tick
difference (30 s are 38% of it at 54 MHz). `http_poll` is called at least once a tick.

### Fairness

`SF(Tick)`: the counter runs whatever the CPU does (strong, because `timer_check`
disables `Tick` for its duration in the model). `WF(TimerCheck)`: the ring is found
empty again and again; that is the same assumption about traffic that `MaxBusy`
makes. `WF(TimerStep)`: the scan, once called, returns. Peers, servers and HTTP
are given no fairness: they may stop or go on for ever.

`HttpServer`: `WF` on the steps of a poll and its return; `SF(BeginPoll(1))`: the
ring is found empty again and again and time passes (strong, because the polls
themselves disable it). A peer that keeps its connection is taken to acknowledge
everything and open its window again and again, and some poll to come while it is open
(`Ack /\ Served'`, `Served /\ BeginPoll`): without this a response waits as long as the
peer lets it, which TCP's own timers and the reaper end (`TcpTable`, `SilentReclaimed`).
`RecvEnds` and `PollReturns` do not use the assumption about peers.

`HexLoad`: `WF` on the steps of the host only; the Pi may hang and the line may be
silent. `LinkState`: `WF` on the steps of the test process and on the end of a blip; the
PHY need never settle. `RawSession`: `WF` on the steps of the test process and on tcpdump's
reaction to SIGINT unless it hangs; wire and Pi may stop.

## Proofs

Every theorem holds for all values of the constants that the named assumptions of its
module allow: any number of slots, connections, ways, fragments, blocks, exchanges,
edits. Each module proves `Invariance` (`Spec => []IInv`) from `Init => IInv` and one lemma
per action, and the theorems below follow from it. TLC checked each `IInv` on the
instance of the run before it was proved.

The next three begin with the same lemmas on `timer_set`, `timer_cancel`, `Fired` and `Elapse`
(which slot is taken, what stays, types).

**`NetServicesProofs`**: `TypeCorrect`, `BootTimersPinned`, `LeaseTimersNeverLost`,
`WatchdogNeverBites`, `MdnsNeverStalls`.
`IInv` is `TypeOK /\ Pinned /\ PetClock /\ LeaseTimersKept /\ HeldOwned`. `NoBite` is not inductive:
`PetClock` relates the countdown to what is left of the pet's own timer, and to
`busy` once that timer is due. `PetClock` needs the pet to stay in slot 0 (`Pinned`):
the re-arm finds exactly the slot `timer_check` has freed because the scan takes the
first free one and 0, 1 and 2 are otherwise never free; and no remembered slot is one
of these, so the blind cancels of the DHCP client cannot reach them.
`LeaseTimersKept` needs that a slot remembered for an awaited timer is not free, so
that nothing else is armed there, and that T1, T2 and the expiry have different
slots, which follows from their different callbacks. TCP and reassembly cancel only what they
remember, and as long as nothing has robbed them that is their own (`HeldOwned`); afterwards
`struck` names what they may have taken. The consequence for the code:
the re-arm of the watchdog that `sys_watchdog.S` says "can fail silently" never
fails in this boot order. The assumption that carries the result is
`TrafficAssumption`, `WdogTimeout > PetPeriod + MaxBusy`, which nothing in the code
enforces. `MdnsNeverStalls` is `MdnsCycleArmed` for `~UseDhcp` (with DHCP it is false, see
above): the DHCP state stays `S_INIT`, whose row of the table ignores everything, and
every other callback frees only its own slot.

**`TcpTableProofs`**: `TableSafe` (`TableInv`), `HandleSafe` (`HandleOwned`), `ReaperSafe`
(`ReaperPinned`). `HandleOwned` is not inductive: `tcp_retransmit_cb` leaves `TIMER_SLOT` alone when
it finds nothing to send again, after `timer_check` has freed the slot. So `IInv` adds that a
remembered retransmit timer means that something is in flight or saved. All this holds while nobody
is `robbed`, which takes `UseDhcp`: with a static address handles are never stale. The reaper needs
that no other timer has its callback and that its slot is never free when another is armed. The ranges need
that the states that may still send a FIN keep room for it in `flight`.
`PersistAssumption` only says that the persist intervals are numbers, which the
provers cannot derive of powers.

**`IpReasmProofs`**: `SlotsSafe` (`SlotInv`), `HandleSafe` (`ReasmHandleOwned`), `WholeDelivered`
(`DeliversWhole`), `OracleSafe` (`OracleAgrees`). `DeliversWhole` needs that a bitmap is a subset of
what was copied since its slot was taken (`fresh`). `OracleSafe` says of every fragment, key and
reachable slot that the oracle's verdict and slot are those of `ip_reasm_input`; it needs
that a key has one slot, since the oracle knows only one. `HandleSafe` has the same exception as TCP's;
the other three hold whatever is cancelled.

**`HttpServerProofs`**: `OutputSafe` (`OutputInv`), `RingsSuffice` (`NothingLost`), `StepsHandled`
(`EventHandled`), `ResponsesWhole` (`WholeResponse`, an action property). The argument: during a
poll a way has at most one event queued (`QueueOK`), so a ring never holds more than `N`, and
`HttpAssumption` (`N + 1 <= QCap`, the ratio of the source) makes it fit; that is a counting
argument, made with the cardinality theorems. `WayOK` says what that one event may be: none
before the scan has passed the way, `RESP_READY` only in `O_IDLE`, otherwise one that the way's state
has a cell for; and what it proves while it waits (nothing in flight, everything queued, the
connection gone), which is what `WholeResponse` needs.

**`LinkStateProofs`**: `BlocksRestore` (`RestoredInv`), `FinalizerSafe` (`FinalizerRestores`), `StableSafe`
(`WaitsStable`). `IInv` says what a wait is for (`WaitOK`), what the session found and could save
(`FoundOK`, `SavedOK`), for every place of the program what the interface is like
as long as nothing has raised (`CleanOK`), and what the finalizer has restored so far whatever
has (`FinalOK`). All three hold from every state of the interface and for every set of requests. `StableSafe` has its own
strengthening, `RunOK`, which bounds the good samples of a blip by the polls the blip has lasted and has some counted on the old link
only when that has the speed wanted. `LinkAssumption` includes that there is a greatest speed.

**`RawSessionProofs`**: `SessionSafe` (`SeqNotAhead`), `BlocksClean` (`NothingLeaked`), `InOrder`
(`CapturedInOrder`). An answer is
counted long after the Pi gave it: it crosses the wire, tcpdump's queue, the file and
`wait_for_frames`. `Captured` says of every frame on that way that, if it answers the running
exchange, the Pi has already accepted and sent what the session will count when it takes it
(`Proves`); `Travelling` says the same of segments and of requests still due. `NothingLeaked` is
inductive as it stands. `InOrder` compares sequences filtered by a predicate. What filtering does
to one more frame is proved by induction over the sequence (`SetInduction`, below), after
which `Ordered` is inductive: as long as tcpdump lives, the file and the kernel's queue together
hold all that crossed the wire, in order; afterwards the file holds the beginning, and
`wait_for_frames` has what it wants of the records it has read.

**`HexLoadProofs`**: `PortKept` (`PortInv`), `Implements` (`KeepsPromise`, a refinement).

*Induction.* The records are made by loops, and loops are recursive functions. The library's
induction rules take an operator, which the provers cannot instantiate; so `SetInduction`
states induction for a *set* of numbers, and `Recursion` that a function defined by recursion on
`0 .. m` is the iteration it looks like. Both are proved from the well-foundedness of
the natural numbers. Every induction in the module (over processes, bytes, chunks, payloads)
is an instance.

*`PortKept`.* `Ancestors` is shown to be the smallest set with `Self` that is closed under `Parent` (a
chain of more steps than there are processes meets nobody new). `SweepInv` says that what the
sweep has still to look at, has found or has killed is outside that set, and that a flasher which is neither
foreign nor an ancestor is still to be looked at; `CountInv` where `i`, `ack` and `tries` are in each
phase; `LineInv` what can be on the line.

*`Implements`* has the hypothesis `Sound`, which `MCHexLoad` evaluates on the instance of the run:

* at most one fault per attempt;
* `Mapped`: the chunk size divides a segment, bases are aligned and below 4 GiB, payloads do
  not overlap. An unaligned base would let a record run across the end of its segment;
* `NoCoincidence`: no refusal or greeting has the bytes of an acceptance. This is a condition on
  the payload that the code does not check; `hexload_nak` shows what happens without it.

A slip needs no hypothesis: the refinement lets an attempt off in which one has happened
(`slipped`), and only that attempt.

The layout comes first: `RecordsLaid` follows the loop of `kernel_to_hex_records` over every
payload (`Placing` is its loop invariant) and says that the data records, each at the base the address
records before it have set, cover every cell once with the right byte. Hence `Applied(k)`, the
memory after `k` records, and `AppliedAll`: all records applied means all cells right.
Then the protocol: `PromiseInv` says for each phase of the host where the Pi can be. Between two records it is
either in step (`Clean`: exactly the records before have been applied) or was reset
(`Rebooting`); while an answer is awaited the record is on the line (`Underway`), was taken and the answer is the
right one (`Answered`), or the attempt is `Doomed`: whatever still arrives, the first two bytes
will not be the answer. That a doomed attempt stays doomed is the heart of it: the bytes read and
those still on the line form one queue (`Queue`) that only grows at its end, a line's length is odd and
never 10 or 82, so neither a short line nor READY can pass for it, and `NoCoincidence`
covers the rest. `FlashStep` then maps each step to a step of `Flash` or to none.

**`BuildGatesProofs`**: `ConfSafe` (`ShippedBoots`), `TablesSafe` (`VerifiedTableAgrees`), `ApplianceSafe`
(`PackagedServes`), `SuiteSafe` (`SuitePinsTable`). For the first,
linter and parser have read the same keys and values and are at the same place, until a quirk
or the linter's first error (`ConfInv`); so it holds of any number of lines without a quirk, up
to the 4096 bytes beyond which a file has one. For the second,
what a tool has said is true of the current rows and cells (`TabInv`); the HTTP verifier
counts rows, and that as many rows as cells without a duplicate leave no cell out is a pigeonhole argument over
finite sets (`FsaAssumption`). For the third, `collect_routes` and `build_slab` are loops, written as
recursive functions. `Recursion` shows that a function with such an equation exists and `UpTo` is
induction up to a bound. With them `RoutesAre` (the routes are those of the regular files and no others)
and `SlabIs` (every entry tells where path, header and body of its route lie, none of the last two at
offset zero) hold for any site. `AppInv` carries that through packaging and boot, and
`AllServed` reads it back through `http_match_uri`: paths are different, so the first hit is the file asked for.
The fourth is about any number of edits, where the run edits one cell. The invariant (`TcpInv`) is only that the suite's
last verdict is true of the table; what it takes is both directions of that verdict.
`SourcePasses`: on every vector `tcp_handle` with the table of the source does what the oracle expects,
handler by handler (`HandlesRight`). `GreenPins`: for each cell a segment reaches there is a vector that
gets to that cell and to no other, and whatever handler and target stand there (`HandleLeaves`, `HandleListens`),
a reply or a final state differs from the expected one unless the cell is pinned.

Only model-checked is all liveness (`LeaseProgress`, `MdnsReachesLive`, `NtpKeepsPolling`, `SynRcvdReclaimed`,
`SilentReclaimed`, `SlotReclaimed`, `PollReturns`, `ResponseEnds`, `RecvEnds`, `HostEnds`, `BlocksEnd`,
`ExchangeEnds`): fairness is out of the prover's reach.

## Not modelled

Frame building and checksums, option parsing, name and time formatting, the PM and
GENET register layouts, performance probes and statistics, USB (Pi Zero), boot code,
image generation and diagnostics. Modelled only as an environment: the clock, servers
and peers; HTTP for `TcpTable` and TCP for `HttpServer`, which are not composed; for each module
with a timer pool, the other users of it.

Left out of modelled parts: duplex and `link_guard` of `link.py`; `verify_ready=False` and
`auto_cleanup=False` of `WireCapture`, and a SIGKILL whose `TimeoutExpired` `_kill_proc` swallows; the mask
arithmetic of the reassembly bitmap (a set of units); the length byte of a slipped record that
overruns the chainloader's staging area; which target an empty cell of the HTTP table names
(0, where the model has `NONE`).

Of the TCP data path nothing is modelled beyond units in flight. Hazards seen there and
elsewhere while reading, which no property covers:

* `tcp.S:1792` compares sequence numbers unsigned, so a window across 2^32 misbehaves;
* `tcp.S:741` arms one more retransmit timer per send; `tcp.S:3738` does not keep the
  persist timer's slot and a full pool ends probing;
* `tcp.S:2106` counts an ACK that advanced `SND_UNA` as a duplicate;
* `tcp.S:1532` leaves RTO, send buffer and SACK state of the record's last user;
* `tcp.S:2709` moves buffered bytes under the out-of-order slots' offsets;
* `ip_reasm.S:391`: a second last fragment may shorten the datagram;
* `http_output_fsa.S:680`: a response can continue on an entry taken by a new peer between
  polls; `http_parse.S:285`: values are read ahead of what has arrived;
* `dhcp_fsa.S:267`: retransmit timers of a finished phase fire in the next;
  `mdns.S:1316`: a second address change in a cycle forgets the first address.

## Plan

Done: `TimerPool`, `NetServices`, `TcpTable`, `IpReasm` with its oracle, `HttpServer`, `HexLoad` with
`Flash`, `LinkState`, `WireCapture` and `RawSession`, the build gates; proofs of every safety
property of the runs and of the refinement of `Flash`.

1. `TcpReceive` and `TcpSend`: receive buffer and out-of-order slots against a
   byte-stream specification (refinement); send buffer, windows, SACK, RTT and RTO
   with their widths.
2. `GenetRings`, `TokenBucket`, `HttpParse` (the result must not depend on how the request is
   cut into segments).
