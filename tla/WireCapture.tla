---------------------------- MODULE WireCapture -----------------------------
(***************************************************************************)
(* hw_test/wire.py: WireCapture, the context manager that runs tcpdump     *)
(* for the body of a with-block, and wait_for_frames, which reads the pcap *)
(* while tcpdump is still writing it.                                      *)
(*                                                                         *)
(* Three parties interleave: the test process, tcpdump, and whatever       *)
(* crosses the wire.  The kernel hands tcpdump every frame its filter      *)
(* accepts from the moment it listens; tcpdump writes them one by one      *)
(* (-U --immediate-mode), may die, or may ignore SIGINT.  What the body    *)
(* sends, and why, is left to the module that extends this one: it leads   *)
(* pc from "body" to "wait" and from "got" to "exit".                      *)
(***************************************************************************)
EXTENDS Integers, Sequences, SequencesExt

CONSTANTS
  MaxProbes,   \* readiness polls within ready_timeout_ms
  MaxWaits,    \* polls of the pcap within deadline_ms
  MaxFaults    \* deaths and hangs of tcpdump, failed spawns, broken files

VARIABLES
  pc,          \* where the test process is
  td,          \* tcpdump: none, starting, capturing, hung, gone
  tmpdir,      \* the ephemeral directory exists
  kq,          \* frames accepted by the filter that tcpdump has not written
  pcap,        \* the records of the file
  polls,       \* polls of the loop that is running
  seen,        \* wait_for_frames: seen_offset
  count,       \* wait_for_frames: how many the caller wants
  matches,     \* wait_for_frames: the frames found
  frames,      \* frame_bytes after __exit__
  outcome,     \* how the last block ended
  tape,        \* history: what crossed the wire and should be in the capture
  faults

capVars == << pc, td, tmpdir, kq, pcap, polls, seen, count, matches, frames, outcome, tape, faults >>

Kinds == {"probe", "reply"}
Probe == [ kind |-> "probe" ]
IsProbe(f) == f.kind = "probe"

\* The caller's predicate: the kinds it accepts.
Wanted == {"reply"}

\* The frames of s that are of one of these kinds, in their order.
OfKind(s, kinds) ==
  LET kept[n \in 0..Len(s)] ==
        IF n = 0 THEN << >>
        ELSE IF s[n].kind \in kinds THEN Append(kept[n - 1], s[n]) ELSE kept[n - 1]
  IN  kept[Len(s)]

\* The body and all that it calls.
InBody == pc \in {"body", "wait", "read", "got"}

CapInit ==
  /\ pc = "idle" /\ td = "none" /\ tmpdir = FALSE
  /\ kq = << >> /\ pcap = << >> /\ polls = 0
  /\ seen = 0 /\ count = 0 /\ matches = << >> /\ frames = << >>
  /\ outcome = "none" /\ tape = << >> /\ faults = 0

-----------------------------------------------------------------------------
(* tcpdump.                                                                *)

TdStart ==
  /\ td = "starting" /\ td' = "capturing"
  /\ UNCHANGED << pc, tmpdir, kq, pcap, polls, seen, count, matches, frames, outcome, tape, faults >>

TdWrite ==
  /\ td = "capturing" /\ kq # << >>
  /\ pcap' = Append(pcap, Head(kq)) /\ kq' = Tail(kq)
  /\ UNCHANGED << pc, td, tmpdir, polls, seen, count, matches, frames, outcome, tape, faults >>

\* It exits by itself (bad filter, interface gone, killed), or is stuck.
TdFails ==
  /\ td \in {"starting", "capturing"} /\ faults < MaxFaults
  /\ td' \in {"gone", "hung"}
  /\ faults' = faults + 1
  /\ UNCHANGED << pc, tmpdir, kq, pcap, polls, seen, count, matches, frames, outcome, tape >>

\* SIGINT: what the kernel still holds is not written any more.
TdStops ==
  /\ pc = "exit" /\ td \in {"starting", "capturing"}
  /\ td' = "gone" /\ kq' = << >>
  /\ UNCHANGED << pc, tmpdir, pcap, polls, seen, count, matches, frames, outcome, tape, faults >>

\* Frame f reaches the interface and the filter accepts it.
Crosses(f) ==
  /\ kq'   = IF td = "capturing" THEN Append(kq, f) ELSE kq
  /\ tape' = IF td = "capturing" \/ InBody THEN Append(tape, f) ELSE tape

-----------------------------------------------------------------------------
(* __init__ and __enter__.                                                 *)

Opened ==
  /\ td' = "starting" /\ tmpdir' = TRUE /\ kq' = << >> /\ pcap' = << >>
  /\ polls' = 0 /\ seen' = 0 /\ count' = 0 /\ matches' = << >> /\ frames' = << >> /\ tape' = << >>

\* __init__, then _spawn: it raises outside the try of __enter__, so the
\* directory made by __init__ stays behind.
Open ==
  \/ Opened /\ pc' = "probe" /\ outcome' = "none" /\ UNCHANGED faults
  \/ /\ faults < MaxFaults /\ faults' = faults + 1
     /\ tmpdir' = TRUE /\ pc' = "over" /\ outcome' = "nospawn"
     /\ UNCHANGED << td, kq, pcap, polls, seen, count, matches, frames, tape >>

\* Mutant: the process is not killed when readiness fails.
EnterFails_leak ==
  /\ tmpdir' = FALSE /\ pc' = "over" /\ outcome' = "error"
  /\ UNCHANGED << td, kq, pcap, polls, seen, count, matches, frames, tape, faults >>

\* The except of __enter__: _kill_proc, _cleanup_tmpdir, raise.
EnterFails ==
  /\ td' = "gone" /\ tmpdir' = FALSE /\ pc' = "over" /\ outcome' = "error"
  /\ UNCHANGED << kq, pcap, polls, seen, count, matches, frames, tape, faults >>

\* One turn of _wait_until_ready: tcpdump is alive, a probe is sent (the
\* send may fail, the frame may be lost), then the pcap is read.
ProbeSend ==
  /\ pc = "probe" /\ polls < MaxProbes /\ td # "gone"
  /\ pc' = "peek"
  /\ \/ td = "capturing" /\ kq' = Append(kq, Probe)
     \/ UNCHANGED kq
  /\ UNCHANGED << td, tmpdir, pcap, polls, seen, count, matches, frames, outcome, tape, faults >>

ProbeDead == pc = "probe" /\ polls < MaxProbes /\ td = "gone" /\ EnterFails

ProbeTimeout == pc = "probe" /\ polls = MaxProbes /\ EnterFails

ProbeSeen == \E i \in 1..Len(pcap) : IsProbe(pcap[i])

\* The reader's errors are counted and otherwise ignored.
ProbePeek ==
  /\ pc = "peek"
  /\ \/ ProbeSeen /\ pc' = "body" /\ UNCHANGED polls
     \/ pc' = "probe" /\ polls' = polls + 1
  /\ UNCHANGED << td, tmpdir, kq, pcap, seen, count, matches, frames, outcome, tape, faults >>

-----------------------------------------------------------------------------
(* wait_for_frames: every poll opens the pcap anew and skips what is seen. *)

StartWait(n) == polls' = 0 /\ seen' = 0 /\ count' = n /\ matches' = << >>

WaitOpen ==
  /\ pc = "wait" /\ polls < MaxWaits
  /\ pc' = "read"
  /\ UNCHANGED << td, tmpdir, kq, pcap, polls, seen, count, matches, frames, outcome, tape, faults >>

\* The next record: probes and frames the caller does not want are skipped.
WaitNext ==
  /\ pc = "read" /\ seen < Len(pcap)
  /\ seen' = seen + 1
  /\ LET f == pcap[seen + 1]
     IN  matches' = IF ~IsProbe(f) /\ f.kind \in Wanted THEN Append(matches, f) ELSE matches
  /\ pc' = IF Len(matches') >= count THEN "got" ELSE "read"
  /\ UNCHANGED << td, tmpdir, kq, pcap, polls, count, frames, outcome, tape, faults >>

\* Mutant: seen_offset is initialised inside the loop.
WaitEof_reset ==
  /\ pc = "read"
  /\ pc' = "wait" /\ polls' = polls + 1 /\ seen' = 0
  /\ UNCHANGED << td, tmpdir, kq, pcap, count, matches, frames, outcome, tape, faults >>

\* The end of the file, or an error of the reader racing tcpdump's write.
WaitEof ==
  /\ pc = "read"
  /\ pc' = "wait" /\ polls' = polls + 1
  /\ UNCHANGED << td, tmpdir, kq, pcap, seen, count, matches, frames, outcome, tape, faults >>

WaitExpires ==
  /\ pc = "wait" /\ polls = MaxWaits
  /\ pc' = "got"
  /\ UNCHANGED << td, tmpdir, kq, pcap, polls, seen, count, matches, frames, outcome, tape, faults >>

-----------------------------------------------------------------------------
(* __exit__: SIGINT, at most SIGINT_FLUSH_DEADLINE_S, parse, clean up.     *)

_read_pcap_filtering_probes == OfKind(pcap, Kinds \ {"probe"})

ExitParse ==
  /\ pc = "exit" /\ td = "gone"
  /\ frames' = _read_pcap_filtering_probes
  /\ tmpdir' = FALSE /\ pc' = "exited" /\ outcome' = "ok"
  /\ UNCHANGED << td, kq, pcap, polls, seen, count, matches, tape, faults >>

\* The file cannot be parsed; the finally removes the directory all the same.
ExitUnreadable ==
  /\ pc = "exit" /\ td = "gone" /\ faults < MaxFaults /\ faults' = faults + 1
  /\ tmpdir' = FALSE /\ pc' = "over" /\ outcome' = "error"
  /\ UNCHANGED << td, kq, pcap, polls, seen, count, matches, frames, tape >>

\* Mutant: wait() without a timeout.
ExitTimeout_forever ==
  FALSE /\ UNCHANGED capVars

\* TimeoutExpired: _kill_proc, WireError; the finally removes the directory.
\* A SIGKILL is taken to work: _kill_proc does not look whether it did.
ExitTimeout ==
  /\ pc = "exit" /\ td = "hung"
  /\ td' = "gone" /\ tmpdir' = FALSE
  /\ pc' = "over" /\ outcome' = "error"
  /\ UNCHANGED << kq, pcap, polls, seen, count, matches, frames, tape, faults >>

-----------------------------------------------------------------------------
CapStep == ProbeSend \/ ProbeDead \/ ProbeTimeout \/ ProbePeek
           \/ WaitOpen \/ WaitNext \/ WaitEof \/ WaitExpires
           \/ ExitParse \/ ExitUnreadable \/ ExitTimeout

TdStep == TdStart \/ TdWrite \/ TdFails \/ TdStops

(* A block that has ended leaves no tcpdump and no directory behind,       *)
(* however it ended: readiness timeout, a dead or a hung tcpdump, a parse, *)
(* a file that cannot be parsed.  (With auto_cleanup, the default.)        *)
(* (_spawn raising is the exception: see Open.)                            *)
NothingLeaked ==
  pc \in {"idle", "exited", "over"} /\ outcome # "nospawn" => td \in {"none", "gone"} /\ ~tmpdir

(* What a block reports has no gap, no duplicate, no probe and the order   *)
(* of the wire: frame_bytes is a prefix of what crossed since tcpdump, or  *)
(* the body, began, and wait_for_frames returned a prefix of the frames    *)
(* its predicate accepts, although it read the file while it was written.  *)
CapturedInOrder ==
  /\ IsPrefix(matches, OfKind(tape, Wanted))
  /\ outcome = "ok" => /\ IsPrefix(frames, tape)
                       /\ IsPrefix(matches, OfKind(frames, Wanted))
=============================================================================
