----------------------------- MODULE RawSession -----------------------------
(***************************************************************************)
(* hw_test/tcp_helpers.py: RawTCPSession, a TCP peer made of raw frames.   *)
(* Every exchange opens a WireCapture, sends one segment and takes the     *)
(* first frame from the Pi as its answer; seq and ack are moved by what    *)
(* that answer is.  The Pi's end is lib/tcp.S as far as the session sees   *)
(* it: SYN_RCVD, ESTABLISHED and CLOSE_WAIT, with a retransmission timer   *)
(* and an application that answers each request with one segment.          *)
(*                                                                         *)
(* Sequence numbers count from 0 on both sides; every payload is one unit. *)
(***************************************************************************)
EXTENDS WireCapture

CONSTANTS
  MaxOps,      \* exchanges of the session
  MaxLoss,     \* segments lost on the wire
  MaxRtx       \* retransmissions by the Pi

VARIABLES
  drv,         \* the session: seq, ack
  op,          \* the exchange that is running
  pi,          \* the Pi's connection: st, rcv, snd, una, due (responses)
  toPi,        \* segments on their way to the Pi
  clean,       \* history: every answer taken was the Pi's ACK of its request
  ops, losses, rtx

sessVars == << drv, op, pi, toPi, clean, ops, losses, rtx >>
vars == << capVars, sessVars >>

NoOp == [ kind |-> "none", id |-> 0 ]

Init ==
  /\ CapInit
  /\ drv = [ seq |-> 0, ack |-> 0 ] /\ op = NoOp
  /\ pi = [ st |-> "LISTEN", rcv |-> 0, snd |-> 0, una |-> 0, due |-> << >> ]
  /\ toPi = << >> /\ clean = TRUE /\ ops = 0 /\ losses = 0 /\ rtx = 0

-----------------------------------------------------------------------------
(* The wire.                                                               *)

Lose(queue) == losses < MaxLoss /\ losses' = losses + 1 /\ UNCHANGED queue

SendsSeg(s) ==
  \/ toPi' = Append(toPi, s) /\ UNCHANGED losses
  \/ Lose(toPi)

\* id: the exchange whose request the frame answers, 0 for a retransmission.
Reply(flags, seq, ack, len, id) ==
  [ kind |-> "reply", flags |-> flags, seq |-> seq, ack |-> ack, len |-> len, id |-> id ]

Emit(f) ==
  /\ \/ Crosses(f) /\ UNCHANGED losses
     \/ Lose(<< kq, tape >>)
  /\ UNCHANGED << pc, td, tmpdir, pcap, polls, seen, count, matches, frames, outcome, faults >>

-----------------------------------------------------------------------------
(* RawTCPSession.                                                          *)

\* connect once, then send, send_fin and send_raw in any order, and "burst":
\* a test's own block that sends and waits for two frames.
Ops == IF op.id = 0 THEN {"connect"} ELSE {"send", "fin", "raw", "burst"}

\* _send_and_recv: WireCapture(...).__enter__
StartOp ==
  /\ pc = "idle" /\ ops < MaxOps
  /\ \E k \in Ops : op' = [ kind |-> k, id |-> ops + 1 ]
  /\ ops' = ops + 1
  /\ Open
  /\ UNCHANGED << drv, pi, toPi, clean, losses, rtx >>

\* _build: raw repeats a payload that was sent before (seq_override).
Request ==
  LET seg(flags, seq, len) ==
        [ flags |-> flags, seq |-> seq, ack |-> drv.ack, len |-> len, id |-> op.id ]
  IN  CASE op.kind = "connect" -> seg("S", drv.seq, 0)
        [] op.kind = "send"    -> seg("A", drv.seq, 1)
        [] op.kind = "fin"     -> seg("F", drv.seq, 0)
        [] op.kind \in {"raw", "burst"} -> seg("A", drv.seq - 1, 1)

\* send_frame, then wait_for_frame (or wait_for_frames): the capture is ready.
BodySend ==
  /\ pc = "body" /\ pc' = "wait"
  /\ SendsSeg(Request)
  /\ StartWait(IF op.kind = "burst" THEN 2 ELSE 1)
  /\ UNCHANGED << td, tmpdir, kq, pcap, frames, outcome, tape, faults,
                  drv, op, pi, clean, ops, rtx >>

\* send_frame raises: __exit__ runs, then the error leaves the session.
BodyRaises ==
  /\ pc = "body" /\ faults < MaxFaults /\ faults' = faults + 1
  /\ pc' = "exit" /\ op' = [ op EXCEPT !.kind = "failed" ]
  /\ UNCHANGED << td, tmpdir, kq, pcap, polls, seen, count, matches, frames, outcome, tape,
                  drv, pi, toPi, clean, ops, losses, rtx >>

\* The end of the with-block: __exit__ sends SIGINT.
BodyEnds ==
  /\ pc = "got" /\ pc' = "exit"
  /\ UNCHANGED << td, tmpdir, kq, pcap, polls, seen, count, matches, frames, outcome, tape, faults,
                  sessVars >>

Taken == Head(matches)

\* Mutant: seq is advanced although nothing was answered.
Advance_always ==
  /\ drv' = [ seq |-> drv.seq + (IF op.kind \in {"send", "fin"} THEN 1 ELSE 0),
              ack |-> drv.ack + (IF op.kind = "send" /\ matches # << >> THEN Taken.len ELSE 0) ]
  /\ pc' = "idle"
  /\ UNCHANGED << toPi, losses >>

\* send, send_fin, send_raw: what is done with the answer, if there is one.
Advance ==
  /\ drv' = IF matches = << >> \/ op.kind \in {"raw", "burst"} THEN drv
            ELSE [ seq |-> drv.seq + 1,
                   ack |-> drv.ack + (IF op.kind = "send" THEN Taken.len ELSE 0) ]
  /\ pc' = "idle"
  /\ UNCHANGED << toPi, losses >>

\* connect: the SYN-ACK is asserted, its sequence number taken, and ACKed.
Connected ==
  IF matches # << >> /\ Taken.flags = "SA"
    THEN /\ drv' = [ seq |-> drv.seq + 1, ack |-> Taken.seq + 1 ]
         /\ SendsSeg([ flags |-> "A", seq |-> drv.seq + 1, ack |-> Taken.seq + 1,
                       len |-> 0, id |-> op.id ])
         /\ pc' = "idle"
    ELSE pc' = "over" /\ UNCHANGED << drv, toPi, losses >>

TakeReply ==
  /\ pc = "exited" /\ op.kind # "none"
  /\ CASE op.kind = "failed"  -> pc' = "over" /\ UNCHANGED << drv, toPi, losses >>
       [] op.kind = "connect" -> Connected
       [] OTHER               -> Advance
  /\ clean' = (clean /\ (matches # << >> => Taken.id = op.id /\ Taken.flags # "R"))
  /\ op' = [ op EXCEPT !.kind = "none" ]
  /\ UNCHANGED << td, tmpdir, kq, pcap, polls, seen, count, matches, frames, outcome, tape, faults,
                  pi, ops, rtx >>

\* ack_last, send_raw_no_wait: no capture, no answer taken.
AckLast ==
  /\ pc = "idle" /\ op.id # 0 /\ toPi = << >> /\ drv.ack > pi.una
  /\ SendsSeg([ flags |-> "A", seq |-> drv.seq, ack |-> drv.ack, len |-> 0, id |-> op.id ])
  /\ UNCHANGED << capVars, drv, op, pi, clean, ops, rtx >>

-----------------------------------------------------------------------------
(* The Pi.                                                                 *)

\* The reply of an accepted, a repeated and an early payload alike.
PiAck(s) == Emit(Reply("A", pi'.snd, pi'.rcv, 0, s.id))

Acked(s) == IF s.ack > pi.una /\ s.ack <= pi.snd THEN s.ack ELSE pi.una

PiSyn(s) ==
  /\ pi.st = "LISTEN" /\ s.flags = "S"
  /\ pi' = [ pi EXCEPT !.st = "SYN_RCVD", !.rcv = s.seq + 1, !.snd = 1 ]
  /\ Emit(Reply("SA", 0, pi'.rcv, 0, s.id))

\* An ACK completes the handshake; a payload it carries is dropped.
PiSynRcvd(s) ==
  /\ pi.st = "SYN_RCVD"
  /\ \/ /\ s.flags = "A" /\ s.ack = pi.snd
        /\ pi' = [ pi EXCEPT !.st = "ESTABLISHED", !.una = pi.snd ]
        /\ UNCHANGED << capVars, losses >>
     \/ /\ s.flags # "A" \/ s.ack # pi.snd
        /\ UNCHANGED pi /\ Emit(Reply("R", 0, 0, 0, s.id))

PiEstab(s) ==
  /\ pi.st = "ESTABLISHED"
  /\ \/ /\ s.flags = "A" /\ s.len = 0
        /\ pi' = [ pi EXCEPT !.una = Acked(s) ]
        /\ UNCHANGED << capVars, losses >>
     \/ /\ s.flags = "A" /\ s.len > 0
        /\ pi' = IF s.seq = pi.rcv
                 THEN [ pi EXCEPT !.una = Acked(s), !.rcv = @ + s.len, !.due = Append(@, s.id) ]
                 ELSE [ pi EXCEPT !.una = Acked(s) ]
        /\ PiAck(s)
     \/ /\ s.flags = "F"
        /\ pi' = [ pi EXCEPT !.st = "CLOSE_WAIT", !.rcv = @ + 1 ]
        /\ PiAck(s)
     \/ /\ s.flags = "S"
        /\ UNCHANGED pi /\ Emit(Reply("R", 0, 0, 0, s.id))

PiClosing(s) ==
  /\ pi.st = "CLOSE_WAIT"
  /\ UNCHANGED pi
  /\ IF s.flags = "A" THEN UNCHANGED << capVars, losses >>
                      ELSE Emit(Reply("R", 0, 0, 0, s.id))

PiReceives ==
  /\ toPi # << >> /\ toPi' = Tail(toPi)
  /\ LET s == Head(toPi) IN PiSyn(s) \/ PiSynRcvd(s) \/ PiEstab(s) \/ PiClosing(s)
  /\ UNCHANGED << drv, op, clean, ops, rtx >>

\* The application's response to a request.
PiResponds ==
  /\ pi.due # << >> /\ pi.st = "ESTABLISHED"
  /\ pi' = [ pi EXCEPT !.snd = @ + 1, !.due = Tail(@) ]
  /\ Emit(Reply("A", pi.snd, pi.rcv, 1, Head(pi.due)))
  /\ UNCHANGED << drv, op, toPi, clean, ops, rtx >>

\* tcp_retransmit_cb: the oldest segment that was not acknowledged.
PiRetransmits ==
  /\ pi.una < pi.snd /\ rtx < MaxRtx /\ rtx' = rtx + 1
  /\ Emit(IF pi.st = "SYN_RCVD" THEN Reply("SA", 0, pi.rcv, 0, 0)
                                ELSE Reply("A", pi.una, pi.rcv, 1, 0))
  /\ UNCHANGED << drv, op, pi, toPi, clean, ops >>

-----------------------------------------------------------------------------
Capturing == (CapStep \/ TdStep) /\ UNCHANGED sessVars

Next == \/ Capturing
        \/ StartOp \/ BodySend \/ BodyRaises \/ BodyEnds \/ TakeReply \/ AckLast
        \/ PiReceives \/ PiResponds \/ PiRetransmits

Spec == Init /\ [][Next]_vars

\* The test process runs; a tcpdump that is not hung handles SIGINT.
FairSpec ==
  /\ Spec
  /\ WF_vars(CapStep /\ UNCHANGED sessVars)
  /\ WF_vars(BodySend \/ BodyRaises) /\ WF_vars(BodyEnds) /\ WF_vars(TakeReply)
  /\ WF_vars(TdStops /\ UNCHANGED sessVars)

-----------------------------------------------------------------------------
(* As long as each answer the session took was the Pi's acknowledgement of *)
(* that very request, the session is never ahead of its peer: it counts no *)
(* payload the Pi has not accepted and acknowledges none it has not sent,  *)
(* whatever segments were lost, answers timed out or requests repeated.    *)
SeqNotAhead ==
  clean /\ op.id # 0 /\ pi.st # "LISTEN" => drv.seq <= pi.rcv /\ drv.ack <= pi.snd

(* A session acknowledges only what the Pi has sent: "Tracks seq/ack       *)
(* numbers" (tcp_helpers.py).  Does not hold when the Pi retransmits its   *)
(* response: see the README, Known disagreements.                          *)
AckNotAhead == drv.ack <= pi.snd

(* Every exchange ends, with an answer, without one or with an error, also *)
(* when tcpdump dies, hangs, or never shows a frame.                       *)
ExchangeEnds == (pc \notin {"idle", "over"}) ~> (pc \in {"idle", "over"})
=============================================================================
