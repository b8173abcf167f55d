------------------------------ MODULE HexLoad -------------------------------
(***************************************************************************)
(* Flashing a kernel: scripts/hw_send.py on the host, chainload/boot.S and *)
(* hex_parse.S on the Pi, and the serial line between them.                *)
(*                                                                         *)
(* The host sweeps other instances of itself away, opens the port, resets  *)
(* the Pi by DTR, waits for READY, sends the records one by one and reads  *)
(* a two-byte answer to each: the length of the line as the Pi counted it  *)
(* and its checksum byte, the latter inverted for a refusal.  There is no  *)
(* retry: any other answer ends the attempt.  After the last record it     *)
(* waits for BOOT and then only shows what the kernel prints.              *)
(*                                                                         *)
(* A line is its record and what the wire did to it:                       *)
(*   "intact"                                                              *)
(*   "drop"    a character is missing, the rest has moved up               *)
(*   "colon"   the start code was garbled                                  *)
(*   "garble"  another character was, and reads as something else          *)
(*   "short"   fewer than 11 characters arrived before a newline           *)
(* A character that turns into a newline cuts a line in two ("cut"); one   *)
(* whose newline is missing never ends ("lost").                           *)
(*                                                                         *)
(* cl_hex_nibble takes any character for a digit, of any value.  So a      *)
(* garbled line need not be refused: an address that is off by a multiple  *)
(* of 64 KiB has the same checksum, and a garbled length may end the       *)
(* record where the bytes happen to sum to zero.  slipped records that.    *)
(* A line the parser reads as if it were intact counts as intact.          *)
(***************************************************************************)
EXTENDS IntelHex, FiniteSets

CONSTANTS
  Payloads,     \* << [bytes, base] >>: the network.conf preamble, the kernel
  ChunkSize,    \* bytes per data record (16 in hw_send.py)
  Faults,       \* the faults the line may have
  Residuals,    \* what a damaged record may sum to, as far as distinguished
  Pages,        \* how many times 64 KiB a garbled address may be too high
  Counts,       \* the byte counts a garbled length may read as
  Procs,        \* process ids the sweep finds in /proc
  Parent,       \* parent of each process id; 0 for none
  Procs0,       \* what runs under each id at first
  Self,         \* the flasher's own id
  Foreign,      \* the ids whose process belongs to another user
  MaxFaults,    \* line faults, stolen lines and Pi resets per attempt
  MaxRuns,      \* bound on the times hw_send.py is started
  MaxTries      \* read_line calls in a 15 s wait (5 when the port is silent)

ASSUME HexLoadAssumption ==
  /\ IsFiniteSet(Procs) /\ 0 \notin Procs
  /\ Self \in Procs /\ Foreign \subseteq Procs \ {Self}
  /\ Parent \in [Procs -> Procs \union {0}]
  /\ Procs0 \in [Procs -> {"none", "other", "flasher"}]
  /\ Residuals \subseteq 1 .. 255
  /\ Pages \subseteq 1 .. 10 /\ Counts \subseteq Byte
  /\ Payloads \in Seq([ bytes : Seq(Byte), base : Nat ]) /\ Payloads # << >>
  /\ MaxFaults \in Nat /\ MaxTries \in Nat \ {0}
  /\ ChunkSize \in 1 .. 33          \* a longer record does not fit cl_getline
  /\ Faults \subseteq {"drop", "colon", "garble", "short", "cut", "lost"}

VARIABLES
  procs,        \* process id -> "none", "other" or "flasher" (python hw_send.py)
  todo,         \* ids the sweep has still to look at
  target,       \* << >> or << id, checks passed >>
  killed,       \* history: ids this sweep has killed
  phase,        \* where _flash_and_monitor is
  records,      \* the records main() has put together
  i,            \* the record to be sent or answered
  ack,          \* bytes of the answer read so far
  tries,        \* silent read_line calls of this wait
  mode,         \* "block" (VMIN 1) or "timed" (VMIN 0 and VTIME)
  verdict,      \* what the host has reported
  pi,           \* "start", "loop", "jump" or "kernel"
  x24, w27,     \* the chainloader's base address and checksum register
  mem,          \* memory: address -> byte
  h2p,          \* lines on their way to the Pi
  p2h,          \* what the Pi has printed and the host has not read
  faults,       \* line faults, stolen lines and Pi resets so far
  runs,         \* times hw_send.py was started
  slipped       \* history: a garbled line was taken for a record

sweepVars == << procs, todo, target, killed >>
hostVars  == << phase, records, i, ack, tries, mode, verdict >>
piVars    == << pi, x24, w27, mem >>
vars == << sweepVars, hostVars, piVars, h2p, p2h, faults, runs, slipped >>

(***************************************************************************)
(* The records main() puts together: only the last payload ends with EOF.  *)
(***************************************************************************)
Records ==
  LET upto[n \in 0 .. Len(Payloads)] ==
        IF n = 0 THEN << >>
        ELSE upto[n - 1] \o kernel_to_hex_records(Payloads[n].bytes, Payloads[n].base,
                                                  ChunkSize, n = Len(Payloads))
  IN  upto[Len(Payloads)]

PayloadCells(p) == p.base .. (p.base + Len(p.bytes) - 1)

Cells == UNION { PayloadCells(Payloads[n]) : n \in 1 .. Len(Payloads) }

Want ==
  [ a \in Cells |->
      LET p == CHOOSE q \in ToSet(Payloads) : a \in PayloadCells(q)
      IN  p.bytes[a - p.base + 1] ]

Right == { a \in Cells : mem[a] = Want[a] }

\* What the Pi prints: an answer byte, or a line and the letter it begins with.
Char(n)   == [ line |-> "", byte |-> n ]
LineReady == [ line |-> "READY", byte |-> 82 ]
LineBoot  == [ line |-> "BOOT", byte |-> 66 ]
BlankLine == Char(13)

Flashing == {"reset", "ready", "flush", "send", "ack", "boot"}

Init ==
  /\ procs = Procs0
  /\ todo = {} /\ target = << >> /\ killed = {}
  /\ phase = "idle" /\ records = << >> /\ i = 1 /\ ack = << >> /\ tries = 0
  /\ mode = "block" /\ verdict = "none"
  /\ pi = "kernel" /\ x24 = 0 /\ w27 = 0
  /\ mem = [ a \in Cells |-> -1 ]
  /\ h2p = << >> /\ p2h = << >> /\ faults = 0 /\ runs = 0 /\ slipped = FALSE

-----------------------------------------------------------------------------
(* main(): the sweep of stale flashers, then the port.                     *)

proc_ancestors(pid) ==
  LET up[n \in 0 .. Cardinality(Procs)] ==
        IF n = 0 THEN {pid}
        ELSE up[n - 1] \union { Parent[q] : q \in up[n - 1] \ {0} }
  IN  up[Cardinality(Procs)] \ {0}

Ancestors == proc_ancestors(Self)

proc_matches(p) == procs[p] = "flasher"

\* main: an earlier flasher still showing kernel output keeps running.
Start ==
  /\ phase \in {"idle", "console"} /\ runs < MaxRuns
  /\ \/ phase = "idle" /\ UNCHANGED procs
     \/ /\ phase = "console"
        /\ \E p \in Procs \ Ancestors :
             /\ procs[p] # "flasher"
             /\ procs' = [ procs EXCEPT ![p] = "flasher" ]
  /\ todo' = { p \in Procs : procs'[p] # "none" } \ Ancestors
  /\ phase' = "sweep" /\ verdict' = "none"
  /\ records' = Records
  /\ runs' = runs + 1 /\ faults' = 0
  /\ UNCHANGED << target, killed, i, ack, tries, mode, piVars, h2p, p2h, slipped >>

\* Mutant: the sweep stops at the first match.
KillStaleCheck_one ==
  /\ phase = "sweep"
  /\ \/ /\ target = << >>
        /\ \E p \in todo :
             /\ todo' = IF proc_matches(p) THEN {} ELSE todo \ {p}
             /\ target' = IF proc_matches(p) THEN << p, 1 >> ELSE << >>
     \/ /\ target # << >> /\ target[2] = 1
        /\ target' = << target[1], 2 >>
        /\ UNCHANGED todo
  /\ UNCHANGED << procs, killed, hostVars, piVars, h2p, p2h, faults, runs, slipped >>

\* The first look at a process, and the second just before the kill.
KillStaleCheck ==
  /\ phase = "sweep"
  /\ \/ /\ target = << >>
        /\ \E p \in todo :
             /\ todo' = todo \ {p}
             /\ target' = IF proc_matches(p) THEN << p, 1 >> ELSE << >>
     \/ /\ target # << >> /\ target[2] = 1
        /\ target' = IF proc_matches(target[1]) THEN << target[1], 2 >>
                                                 ELSE << >>
        /\ UNCHANGED todo
  /\ UNCHANGED << procs, killed, hostVars, piVars, h2p, p2h, faults, runs, slipped >>

\* os.kill: the process may be gone by now, or not ours to kill.
KillStaleKill ==
  /\ phase = "sweep" /\ target # << >> /\ target[2] = 2
  /\ LET p == target[1]
         dies == procs[p] # "none" /\ p \notin Foreign
     IN  /\ procs'  = IF dies THEN [ procs EXCEPT ![p] = "none" ] ELSE procs
         /\ killed' = IF dies THEN killed \union {p} ELSE killed
  /\ target' = << >>
  /\ UNCHANGED << todo, hostVars, piVars, h2p, p2h, faults, runs, slipped >>

\* A process ends, and its id may be given to another program.
ProcChange ==
  /\ phase = "sweep"
  /\ \E p \in Procs \ (Ancestors \union Foreign) :
       /\ procs[p] \in {"flasher", "none"}
       /\ procs' = [ procs EXCEPT ![p] =
                       IF procs[p] = "none" THEN "other" ELSE "none" ]
  /\ UNCHANGED << todo, target, killed, hostVars, piVars, h2p, p2h, faults, runs, slipped >>

\* open_serial: raw mode, reads block; a failure is a setup error.
OpenSerial ==
  /\ phase = "sweep" /\ todo = {} /\ target = << >>
  /\ mode' = "block" /\ killed' = {}
  /\ \/ phase' = "reset" /\ UNCHANGED verdict
     \/ phase' = "idle" /\ verdict' = "failed"
  /\ UNCHANGED << procs, todo, target, records, i, ack, tries, piVars, h2p, p2h, faults, runs, slipped >>
-----------------------------------------------------------------------------
(* _flash_and_monitor.                                                     *)

Return1 ==
  /\ phase' = "idle" /\ verdict' = "failed"
  /\ i' = 1 /\ ack' = << >> /\ tries' = 0

\* set_dtr up and down, then tcflush of what came before.
DtrReset ==
  /\ phase = "reset"
  /\ pi' = "start" /\ h2p' = << >> /\ p2h' = << >>
  /\ phase' = "ready" /\ slipped' = FALSE
  /\ UNCHANGED << sweepVars, records, i, ack, tries, mode, verdict, x24, w27, mem, faults, runs >>

\* read_line with its own timed mode, until the wanted line or the deadline.
ReadLine(wait, line, next) ==
  /\ phase = wait
  /\ \/ /\ p2h # << >>
        /\ p2h' = Tail(p2h)
        /\ IF Head(p2h).line = line
             THEN next
             ELSE UNCHANGED hostVars
     \/ /\ p2h = << >>
        /\ UNCHANGED << p2h, mode >>
        /\ IF tries + 1 = MaxTries
             THEN Return1
             ELSE tries' = tries + 1 /\ UNCHANGED << phase, i, ack, verdict >>
  /\ UNCHANGED << sweepVars, records, piVars, h2p, faults, runs, slipped >>

WaitReady ==
  ReadLine("ready", "READY", phase' = "flush" /\ UNCHANGED << i, ack, tries, mode, verdict >>)

\* Mutant: the port stays in blocking mode.
FlushForRecords_block ==
  /\ phase = "flush"
  /\ p2h' = << >> /\ phase' = "send" /\ tries' = 0
  /\ UNCHANGED << sweepVars, records, i, ack, mode, verdict, piVars, h2p, faults, runs, slipped >>

\* VMIN 0 and VTIME 50 for the answers, and a second tcflush.
FlushForRecords ==
  /\ phase = "flush"
  /\ mode' = "timed" /\ p2h' = << >> /\ phase' = "send" /\ tries' = 0
  /\ UNCHANGED << sweepVars, records, i, ack, verdict, piVars, h2p, faults, runs, slipped >>

OnTheWire(rec, f) ==
  CASE f = "lost" -> << >>
    [] f = "cut"  -> << [rec |-> rec, fault |-> "drop"],
                        [rec |-> rec, fault |-> "short"] >>
    [] OTHER      -> << [rec |-> rec, fault |-> f] >>

SendRecord ==
  /\ phase = "send"
  /\ \E f \in {"intact"} \union (IF faults < MaxFaults THEN Faults ELSE {}) :
       /\ h2p' = h2p \o OnTheWire(records[i], f)
       /\ faults' = IF f = "intact" THEN faults ELSE faults + 1
  /\ phase' = "ack" /\ ack' = << >>
  /\ UNCHANGED << sweepVars, records, i, tries, mode, verdict, piVars, p2h, runs, slipped >>

\* Mutant: only the checksum byte is compared.
AckGood_nolen(a, rec) == a[2] = rec.cksum

\* Length first; an inverted checksum is a NAK, anything else a mismatch.
AckGood(a, rec) == a[1] = rec.len /\ a[2] = rec.cksum

ReadAck ==
  /\ phase = "ack" /\ p2h # << >>
  /\ p2h' = Tail(p2h)
  /\ LET a == Append(ack, Head(p2h).byte)
     IN  CASE Len(a) < 2 -> ack' = a /\ UNCHANGED << phase, i, verdict, tries >>
           [] Len(a) = 2 /\ AckGood(a, records[i]) ->
                /\ ack' = << >>
                /\ i' = i + 1
                /\ phase' = IF i = Len(records) THEN "boot" ELSE "send"
                /\ UNCHANGED << tries, verdict >>
           [] OTHER -> Return1
  /\ UNCHANGED << sweepVars, records, mode, piVars, h2p, faults, runs, slipped >>

AckTimeout ==
  /\ phase = "ack" /\ p2h = << >> /\ mode = "timed"
  /\ Return1
  /\ UNCHANGED << sweepVars, records, mode, piVars, h2p, p2h, faults, runs, slipped >>

WaitBoot ==
  ReadLine("boot", "BOOT", /\ phase' = "console" /\ mode' = "block"
                           /\ verdict' = "booted"
                           /\ i' = 1 /\ tries' = 0 /\ UNCHANGED ack)

\* Ctrl-C (130) and a port that goes away (1): the finally closes the port.
Abort ==
  /\ phase \in Flashing
  /\ Return1
  /\ UNCHANGED << sweepVars, records, mode, piVars, h2p, p2h, faults, runs, slipped >>

ConsoleEnds ==
  /\ phase = "console"
  /\ phase' = "idle"
  /\ UNCHANGED << sweepVars, records, i, ack, tries, mode, verdict, piVars, h2p, p2h, faults, runs, slipped >>

\* Another flasher that has the port open takes what the Pi prints.
StealByte ==
  /\ p2h # << >> /\ faults < MaxFaults
  /\ \E p \in Procs \ Ancestors : procs[p] = "flasher"
  /\ p2h' = Tail(p2h)
  /\ faults' = faults + 1
  /\ UNCHANGED << sweepVars, hostVars, piVars, h2p, runs, slipped >>
-----------------------------------------------------------------------------
(* The chainloader.                                                        *)

\* From reset to READY; w27 is not initialised.
PiStart ==
  /\ pi = "start"
  /\ pi' = "loop" /\ x24' = 0 /\ h2p' = << >>
  /\ w27' \in Residuals \union {0}
  /\ \/ p2h' = p2h \o << LineReady >>
     \/ p2h' = p2h \o << BlankLine, LineReady >>
  /\ UNCHANGED << sweepVars, hostVars, mem, faults, runs, slipped >>

\* One of the two bytes of an answer may be lost.
Reply(n, c) ==
  \/ p2h' = p2h \o << Char(n), Char(c) >> /\ UNCHANGED faults
  \/ /\ "lost" \in Faults /\ faults < MaxFaults
     /\ faults' = faults + 1
     /\ p2h' \in { Append(p2h, Char(n)), Append(p2h, Char(c)) }

PutData(rec, bytes) ==
  LET at == x24 + rec.addr
  IN  mem' = [ a \in DOMAIN mem \union (at .. (at + Len(bytes) - 1)) |->
                 IF a \in at .. (at + Len(bytes) - 1) THEN bytes[a - at + 1]
                                                      ELSE mem[a] ]

\* cl_parse_hex_record on a record whose bytes sum to zero.
Apply(rec, bytes) ==
  \/ /\ rec.type = Data
     /\ PutData(rec, bytes)
     /\ UNCHANGED << x24, pi >>
  \/ /\ rec.type = Ext
     /\ x24' = (bytes[1] * 256 + bytes[2]) * Seg
     /\ UNCHANGED << mem, pi >>
  \/ /\ rec.type = Eof
     /\ pi' = "jump"
     /\ UNCHANGED << mem, x24 >>

HasLine(f) == pi = "loop" /\ h2p # << >> /\ Head(h2p).fault = f

PiAccept ==
  /\ HasLine("intact")
  /\ LET rec == Head(h2p).rec
     IN  Apply(rec, rec.data) /\ w27' = rec.cksum /\ Reply(rec.len, rec.cksum)
  /\ h2p' = Tail(h2p)
  /\ UNCHANGED << sweepVars, hostVars, runs, slipped >>

\* A line that lost a character reads on into what the previous line left
\* in the buffer; it may still sum to zero.
PiMisread ==
  /\ HasLine("drop") /\ Head(h2p).rec.type # Eof
  /\ LET rec == Head(h2p).rec
     IN  /\ Apply(rec, [ n \in 1 .. Len(rec.data) |-> 0 ])
         /\ w27' = rec.cksum
         /\ Reply(rec.len - 1, rec.cksum)
  /\ h2p' = Tail(h2p)
  /\ UNCHANGED << sweepVars, hostVars, runs, slipped >>

\* A garbled line that sums to zero all the same.  A nibble that comes out
\* negative makes the address one around 4 GiB or beyond, where no payload is.
\* Of a length that is garbled the checksum is some byte of the line, or of
\* what the buffer held before.
ReadAs(rec, n) ==
  [ m \in 1 .. (IF rec.type = Ext /\ n < 2 THEN 2 ELSE n) |->
      IF m <= n /\ m <= Len(rec.data) THEN rec.data[m] ELSE 0 ]

PiSlip ==
  /\ HasLine("garble")
  /\ LET rec == Head(h2p).rec
     IN  \/ /\ rec.type = Data
            /\ \/ \E k \in Pages : PutData([ rec EXCEPT !.addr = @ + k * Seg ], rec.data)
               \/ UNCHANGED mem
            /\ w27' = rec.cksum
            /\ Reply(rec.len, w27')
            /\ UNCHANGED << x24, pi >>
         \/ /\ \E n \in Counts \ {Len(rec.data)} : Apply(rec, ReadAs(rec, n))
            /\ w27' \in Residuals \union {rec.cksum}
            /\ Reply(rec.len, w27')
  /\ h2p' = Tail(h2p)
  /\ slipped' = TRUE
  /\ UNCHANGED << sweepVars, hostVars, runs >>

\* Refused: w27 is the nonzero sum, or the checksum byte if the sum is zero
\* but the type unknown, or unchanged if there is no start code.
PiNak ==
  /\ \/ HasLine("colon") /\ UNCHANGED w27
     \/ /\ HasLine("garble") \/ HasLine("drop")
        /\ w27' \in Residuals \union {Head(h2p).rec.cksum}
  /\ LET l == Head(h2p)
     IN  /\ l.fault # "drop" \/ l.rec.type # Eof
         /\ Reply(IF l.fault = "drop" THEN l.rec.len - 1 ELSE l.rec.len,
                  255 - w27')
  /\ h2p' = Tail(h2p)
  /\ UNCHANGED << sweepVars, hostVars, pi, x24, mem, runs, slipped >>

\* Fewer than 11 characters are taken for the end of the file.
PiShort ==
  /\ \/ HasLine("short")
     \/ HasLine("drop") /\ Head(h2p).rec.type = Eof
  /\ Reply(10, w27)
  /\ pi' = "jump"
  /\ h2p' = Tail(h2p)
  /\ UNCHANGED << sweepVars, hostVars, x24, w27, mem, runs, slipped >>

PiJump ==
  /\ pi = "jump"
  /\ pi' = "kernel" /\ p2h' = Append(p2h, LineBoot)
  /\ UNCHANGED << sweepVars, hostVars, x24, w27, mem, h2p, faults, runs, slipped >>

\* The Pi loses power for a moment.
PiGlitch ==
  /\ pi \in {"loop", "jump"} /\ faults < MaxFaults
  /\ pi' = "start" /\ h2p' = << >>
  /\ faults' = faults + 1
  /\ UNCHANGED << sweepVars, hostVars, x24, w27, mem, p2h, runs, slipped >>
-----------------------------------------------------------------------------
HostStep ==
  \/ KillStaleCheck \/ KillStaleKill \/ OpenSerial \/ DtrReset \/ WaitReady
  \/ FlushForRecords \/ SendRecord \/ ReadAck \/ AckTimeout \/ WaitBoot

Next ==
  \/ HostStep \/ Start \/ Abort \/ ConsoleEnds \/ ProcChange \/ StealByte
  \/ PiStart \/ PiAccept \/ PiMisread \/ PiSlip \/ PiNak \/ PiShort \/ PiJump \/ PiGlitch

Spec == Init /\ [][Next]_vars

\* Only the host's own steps are fair: the Pi may hang at any point.
FairSpec == Spec /\ WF_vars(HostStep)
-----------------------------------------------------------------------------
TypeOK ==
  /\ procs \in [Procs -> {"none", "other", "flasher"}]
  /\ todo \subseteq Procs /\ killed \subseteq Procs
  /\ target = << >> \/ target \in Procs \X {1, 2}
  /\ phase \in Flashing \union {"idle", "sweep", "console"}
  /\ i \in 1 .. Len(records) + 1
  /\ Len(ack) < 2
  /\ tries \in 0 .. MaxTries
  /\ mode \in {"block", "timed"}
  /\ verdict \in {"none", "failed", "booted"}
  /\ pi \in {"start", "loop", "jump", "kernel"}
  /\ w27 \in Byte
  /\ Cells \subseteq DOMAIN mem
  /\ slipped \in BOOLEAN

(***************************************************************************)
(* The sweep never kills the flasher itself or a process it runs under     *)
(* (kill_stale_by_matchers: full ancestor-chain exclusion), whichever      *)
(* processes come and go while it runs.                                    *)
(***************************************************************************)
AncestorsSpared ==
  \A p \in killed :
    \E S \in SUBSET Procs :
      /\ Self \in S /\ p \notin S
      /\ \A q \in S : Parent[q] \in S \union {0}

(***************************************************************************)
(* While a kernel is being flashed no other flasher of ours is left that   *)
(* could take the Pi's answers, though processes end, ids are reused and   *)
(* the earlier flasher was left running in its console.                    *)
(***************************************************************************)
PortOurs ==
  phase \in Flashing =>
    \A p \in Procs \ (Ancestors \union Foreign) : procs[p] # "flasher"

(***************************************************************************)
(* The host side is in order while it flashes: its counters keep their     *)
(* ranges (a wait never outlasts its deadline), the sweep has spared its   *)
(* ancestors and the port is ours.                                         *)
(***************************************************************************)
PortInv == TypeOK /\ AncestorsSpared /\ PortOurs

(***************************************************************************)
(* When the host reports BOOT, every byte of every payload is in memory    *)
(* where it belongs: no damaged, lost or misread record was taken for an   *)
(* acknowledged one, unless a garbled line summed to zero.                 *)
(***************************************************************************)
FlashedWhole == verdict = "booted" /\ ~slipped => Right = Cells

(***************************************************************************)
(* The same without the exception.  Does not hold: see the README, Known   *)
(* disagreements.                                                          *)
(***************************************************************************)
AlwaysWhole == verdict = "booted" => Right = Cells

NRec == Len(Records)

(***************************************************************************)
(* What the promise below presupposes, besides a line on which no more     *)
(* than one thing goes wrong in an attempt.                                *)
(*                                                                         *)
(* Of the payloads: chunks that divide a segment, aligned bases below      *)
(* 4 GiB, and no cell that belongs to two payloads.                        *)
(***************************************************************************)
Sizes   == {1, 2, 4, 8, 16, 32}
Fits(p) == p.base % ChunkSize = 0 /\ (p.base + Len(p.bytes)) \div Seg < Seg

Mapped ==
  /\ ChunkSize \in Sizes
  /\ \A n \in 1 .. Len(Payloads) : Fits(Payloads[n])
  /\ \A m, n \in 1 .. Len(Payloads) :
       m # n => PayloadCells(Payloads[m]) \intersect PayloadCells(Payloads[n]) = {}

\* Of the bytes: neither a refusal (the complement of a residual sum, or of
\* the checksum register as the record before left it) nor a blank line and
\* the R of READY is the answer to a record.
NoCoincidence ==
  \A k \in 1 .. NRec :
    /\ \A w \in Residuals : 255 - w # Records[k].cksum
    /\ k = 1 => 255 # Records[k].cksum
    /\ k > 1 => 255 - Records[k - 1].cksum # Records[k].cksum
    /\ ~(Records[k].len = 13 /\ Records[k].cksum = 82)

Sound == MaxFaults <= 1 /\ Mapped /\ NoCoincidence

(***************************************************************************)
(* The protocol as a whole implements Flash: besides FlashedWhole, memory  *)
(* does not change any more once BOOT was reported, until the next start.  *)
(* An attempt in which a garbled line slipped through is let off.          *)
(***************************************************************************)
Seen == IF slipped THEN Cells ELSE Right
Promise == INSTANCE Flash WITH Cells <- Cells, verdict <- verdict, right <- Seen
KeepsPromise == Promise!Spec

(***************************************************************************)
(* hw_send.py never hangs in the flash: whatever the line does and         *)
(* wherever the Pi stops answering, an attempt ends in the console or with *)
(* an error.                                                               *)
(***************************************************************************)
HostEnds == phase \in Flashing \union {"sweep"} ~> phase \in {"idle", "console"}
=============================================================================
