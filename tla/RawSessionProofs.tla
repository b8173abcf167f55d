-------------------------- MODULE RawSessionProofs --------------------------
(***************************************************************************)
(* RawSession for every number of exchanges, polls, faults, lost segments  *)
(* and retransmissions: no block leaves a process or a directory behind,   *)
(* a session whose answers were the Pi's to its own requests is never      *)
(* ahead of the Pi, and what a capture reports is the beginning of what    *)
(* crossed the wire, in its order.                                         *)
(***************************************************************************)
EXTENDS RawSession, TLAPS, WellFoundedInduction

Asked   == {"connect", "send", "fin", "raw", "burst"}
Running == {"probe", "peek", "body", "wait", "read", "got"}

DRV   == [ seq : Nat, ack : Nat ]
OP    == [ kind : Asked \cup {"none", "failed"}, id : Nat ]
REPLY == [ kind : {"reply"}, flags : {"SA", "A", "R"}, seq : Nat, ack : Nat,
           len : {0, 1}, id : Nat ]
SEG   == [ flags : {"S", "A", "F"}, seq : Int, ack : Nat, len : {0, 1}, id : Nat ]
PI    == [ st : {"LISTEN", "SYN_RCVD", "ESTABLISHED", "CLOSE_WAIT"},
           rcv : Nat, snd : Nat, una : Nat, due : Seq(Nat) ]

\* What a frame on the wire or in the capture proves, when it answers the
\* request of exchange o of a session at d: the Pi p has accepted as much as
\* the session will count when it takes the frame.
Proves(f, o, d, p) ==
  /\ o.kind = "connect" /\ f.flags = "SA" => d.seq + 1 <= p.rcv /\ 1 <= p.snd
  /\ o.kind \in {"send", "fin"} => d.seq + 1 <= p.rcv
  /\ o.kind = "send" => d.ack + f.len <= p.snd

\* The Pi's frames: none answers a request that was not sent yet.
Replies(o, d, p, c) ==
  { f \in REPLY : /\ f.id <= o.id
                  /\ f.flags = "SA" => f.seq = 0
                  /\ c /\ f.id = o.id /\ f.flags # "R" => Proves(f, o, d, p) }

Frames(o, d, p, c) == Replies(o, d, p, c) \cup {Probe}

\* The session's segments: the running exchange has sent its number.
Segs(o, d) ==
  { s \in SEG : /\ s.id <= o.id
                /\ s.flags = "S" => s.seq >= 0
                /\ s.id = o.id /\ o.kind \in {"connect", "send", "fin"} => s.seq = d.seq }

\* The requests the application has still to answer: they were accepted.
Due(o, d, p, c) ==
  { k \in Nat : /\ k <= o.id
                /\ c /\ k = o.id /\ o.kind \in {"send", "fin"} => d.seq + 1 <= p.rcv }

TypeInv ==
  /\ drv \in DRV /\ op \in OP /\ pi \in PI /\ clean \in BOOLEAN
  /\ ops = op.id /\ seen \in Nat
  /\ op.kind # "none" => op.id > 0
  /\ pc = "idle" => op.kind = "none"
  /\ pc \in Running => op.kind \in Asked
  /\ pi.st = "LISTEN" => pi.rcv = 0 /\ pi.snd = 0

NotAhead == clean => drv.seq <= pi.rcv /\ drv.ack <= pi.snd

Captured == /\ kq \in Seq(Frames(op, drv, pi, clean))
            /\ pcap \in Seq(Frames(op, drv, pi, clean))
            /\ matches \in Seq(Replies(op, drv, pi, clean))

Travelling == /\ toPi \in Seq(Segs(op, drv))
              /\ pi.due \in Seq(Due(op, drv, pi, clean))

\* The inductive invariant.
IInv == TypeInv /\ NotAhead /\ Captured /\ Travelling

-----------------------------------------------------------------------------
(* Sequences. *)

LEMMA SeqMono ==
  ASSUME NEW S, NEW T, S \subseteq T, NEW q \in Seq(S)
  PROVE  q \in Seq(T)
  OBVIOUS

LEMMA SeqAppend ==
  ASSUME NEW S, NEW q \in Seq(S), NEW e \in S
  PROVE  Append(q, e) \in Seq(S)
  OBVIOUS

LEMMA SeqTake ==
  ASSUME NEW S, NEW q \in Seq(S), q # << >>
  PROVE  Head(q) \in S /\ Tail(q) \in Seq(S)
  OBVIOUS

LEMMA SeqEmpty ==
  ASSUME NEW S
  PROVE  << >> \in Seq(S)
  OBVIOUS

-----------------------------------------------------------------------------
(* What frames prove stays proved. *)

\* The Pi's counters only grow.
LEMMA Grows ==
  ASSUME NEW o \in OP, NEW d \in DRV, NEW p \in PI, NEW r \in PI, NEW c,
         p.rcv <= r.rcv, p.snd <= r.snd
  PROVE  /\ Replies(o, d, p, c) \subseteq Replies(o, d, r, c)
         /\ Frames(o, d, p, c) \subseteq Frames(o, d, r, c)
         /\ Due(o, d, p, c) \subseteq Due(o, d, r, c)
<1>1. ASSUME NEW f \in Replies(o, d, p, c) PROVE f \in Replies(o, d, r, c)
  <2>1. f \in REPLY /\ f.len \in Nat
    BY DEF Replies, REPLY
  <2>2. Proves(f, o, d, p) => Proves(f, o, d, r)
    BY <2>1 DEF Proves, DRV, PI
  <2> QED
    BY <2>1, <2>2 DEF Replies
<1>2. Due(o, d, p, c) \subseteq Due(o, d, r, c)
  BY DEF Due, DRV, PI
<1> QED
  BY <1>1, <1>2 DEF Frames

\* When an exchange is over, or before the next one has sent anything, the
\* frames and segments of the past prove nothing and nothing depends on it.
LEMMA Past ==
  ASSUME NEW o \in OP, NEW d \in DRV, NEW p \in PI, NEW c,
         NEW o2 \in OP, NEW d2 \in DRV, NEW c2,
         o.id <= o2.id,
         o.id < o2.id \/ o2.kind \in {"none", "failed"}
  PROVE  /\ Replies(o, d, p, c) \subseteq Replies(o2, d2, p, c2)
         /\ Frames(o, d, p, c) \subseteq Frames(o2, d2, p, c2)
         /\ Segs(o, d) \subseteq Segs(o2, d2)
         /\ Due(o, d, p, c) \subseteq Due(o2, d2, p, c2)
<1>0. o.id \in Nat /\ o2.id \in Nat
  BY DEF OP
<1>1. ASSUME NEW f \in Replies(o, d, p, c) PROVE f \in Replies(o2, d2, p, c2)
  <2>1. f \in REPLY /\ f.id \in Nat /\ f.id <= o.id /\ (f.flags = "SA" => f.seq = 0)
    BY DEF Replies, REPLY
  <2>2. f.id = o2.id => Proves(f, o2, d2, p)
    BY <1>0, <2>1 DEF Proves
  <2>3. f.id <= o2.id
    BY <1>0, <2>1
  <2> QED
    BY <2>1, <2>2, <2>3 DEF Replies
<1>2. ASSUME NEW s \in Segs(o, d) PROVE s \in Segs(o2, d2)
  <2>1. s \in SEG /\ s.id \in Nat
    BY DEF Segs, SEG
  <2> QED
    BY <1>0, <2>1 DEF Segs
<1>3. ASSUME NEW k \in Due(o, d, p, c) PROVE k \in Due(o2, d2, p, c2)
  BY <1>0 DEF Due
<1> QED
  BY <1>1, <1>2, <1>3 DEF Frames

-----------------------------------------------------------------------------
(* The capture: its steps leave the session alone. *)

LEMMA CaptureType ==
  ASSUME TypeInv, UNCHANGED sessVars, seen' \in Nat,
         pc' = "idle" => pc = "idle", pc' \in Running => pc \in Running
  PROVE  TypeInv'
  BY DEF TypeInv, sessVars

LEMMA CaptureKeeps ==
  ASSUME IInv, UNCHANGED sessVars, TypeInv',
         kq' \in Seq(Frames(op, drv, pi, clean)),
         pcap' \in Seq(Frames(op, drv, pi, clean)),
         matches' \in Seq(Replies(op, drv, pi, clean))
  PROVE  IInv'
<1>1. op' = op /\ drv' = drv /\ pi' = pi /\ clean' = clean /\ toPi' = toPi
  BY DEF sessVars
<1> QED
  BY <1>1 DEF IInv, NotAhead, Captured, Travelling

LEMMA CapStepOK == ASSUME IInv, CapStep, UNCHANGED sessVars PROVE IInv'
<1> DEFINE F == Frames(op, drv, pi, clean)
           R == Replies(op, drv, pi, clean)
<1>1. /\ TypeInv /\ seen \in Nat
      /\ kq \in Seq(F) /\ pcap \in Seq(F) /\ matches \in Seq(R)
      /\ Probe \in F
  BY DEF IInv, Captured, TypeInv, Frames
<1>2. /\ seen' \in Nat
      /\ pc' = "idle" => pc = "idle"
      /\ pc' \in Running => pc \in Running
  BY <1>1 DEF CapStep, ProbeSend, ProbeDead, ProbeTimeout, EnterFails, ProbePeek,
              WaitOpen, WaitNext, WaitEof, WaitExpires,
              ExitParse, ExitUnreadable, ExitTimeout, Running
<1>3. TypeInv'
  BY <1>1, <1>2, CaptureType
<1>4. pcap' = pcap
  BY DEF CapStep, ProbeSend, ProbeDead, ProbeTimeout, EnterFails, ProbePeek,
         WaitOpen, WaitNext, WaitEof, WaitExpires,
              ExitParse, ExitUnreadable, ExitTimeout
<1>5. kq' = kq \/ kq' = Append(kq, Probe)
  BY DEF CapStep, ProbeSend, ProbeDead, ProbeTimeout, EnterFails, ProbePeek,
         WaitOpen, WaitNext, WaitEof, WaitExpires,
              ExitParse, ExitUnreadable, ExitTimeout
<1>6. kq' \in Seq(F)
  BY <1>1, <1>5, SeqAppend
<1>7. matches' \in Seq(R)
  <2>1. CASE WaitNext
    <3>1. pcap[seen + 1] \in F
      BY <1>1, <2>1 DEF WaitNext
    <3>2. pcap[seen + 1].kind \in Wanted => pcap[seen + 1] \in R
      BY <3>1 DEF Wanted, Frames, Probe
    <3> HIDE DEF R
    <3> QED
      BY <1>1, <2>1, <3>2, SeqAppend DEF WaitNext
  <2>2. CASE ~WaitNext
    <3>1. matches' = matches
      BY <2>2 DEF CapStep, ProbeSend, ProbeDead, ProbeTimeout, EnterFails, ProbePeek,
                  WaitOpen, WaitEof, WaitExpires,
              ExitParse, ExitUnreadable, ExitTimeout
    <3> QED
      BY <1>1, <3>1
  <2> QED
    BY <2>1, <2>2
<1> QED
  BY <1>1, <1>3, <1>4, <1>6, <1>7, CaptureKeeps

LEMMA TdStepOK == ASSUME IInv, TdStep, UNCHANGED sessVars PROVE IInv'
<1> DEFINE F == Frames(op, drv, pi, clean)
           R == Replies(op, drv, pi, clean)
<1>1. /\ TypeInv /\ seen \in Nat
      /\ kq \in Seq(F) /\ pcap \in Seq(F) /\ matches \in Seq(R)
  BY DEF IInv, Captured, TypeInv
<1>2. pc' = pc /\ seen' = seen /\ matches' = matches
  BY DEF TdStep, TdStart, TdWrite, TdFails, TdStops
<1>3. TypeInv'
  BY <1>1, <1>2, CaptureType
<1>4. kq' \in Seq(F) /\ pcap' \in Seq(F)
  <2> HIDE DEF F
  <2>1. CASE TdWrite
    <3>1. Head(kq) \in F /\ Tail(kq) \in Seq(F)
      BY <1>1, <2>1, SeqTake DEF TdWrite
    <3> QED
      BY <1>1, <2>1, <3>1, SeqAppend DEF TdWrite
  <2>2. CASE TdStart \/ TdFails \/ TdStops
    BY <1>1, <2>2, SeqEmpty DEF TdStart, TdFails, TdStops
  <2> QED
    BY <2>1, <2>2 DEF TdStep
<1> QED
  BY <1>1, <1>2, <1>3, <1>4, CaptureKeeps

-----------------------------------------------------------------------------
(* The session. *)

\* A step to the end of an exchange, or to the start of the next.
LEMMA PastKeeps ==
  ASSUME IInv, TypeInv', NotAhead', pi' = pi,
         op.id <= op'.id, op.id < op'.id \/ op'.kind \in {"none", "failed"},
         kq' = kq \/ kq' = << >>, pcap' = pcap \/ pcap' = << >>,
         matches' = matches \/ matches' = << >>,
         toPi' \in Seq(Segs(op', drv'))
  PROVE  IInv'
<1>1. /\ op \in OP /\ drv \in DRV /\ pi \in PI /\ op' \in OP /\ drv' \in DRV
  BY DEF IInv, TypeInv
<1>2. /\ Replies(op, drv, pi, clean) \subseteq Replies(op', drv', pi, clean')
      /\ Frames(op, drv, pi, clean) \subseteq Frames(op', drv', pi, clean')
      /\ Due(op, drv, pi, clean) \subseteq Due(op', drv', pi, clean')
  BY <1>1, Past
<1>3. /\ kq' \in Seq(Frames(op', drv', pi, clean'))
      /\ pcap' \in Seq(Frames(op', drv', pi, clean'))
  BY <1>2, SeqMono, SeqEmpty DEF IInv, Captured
<1>4. matches' \in Seq(Replies(op', drv', pi, clean'))
  BY <1>2, SeqMono, SeqEmpty DEF IInv, Captured
<1>5. pi.due \in Seq(Due(op', drv', pi, clean'))
  BY <1>2, SeqMono DEF IInv, Travelling
<1> QED
  BY <1>3, <1>4, <1>5 DEF IInv, Captured, Travelling

\* The segments on their way stay what they are when an exchange ends.
LEMMA PastSegs ==
  ASSUME IInv, TypeInv',
         op.id <= op'.id, op.id < op'.id \/ op'.kind \in {"none", "failed"}
  PROVE  toPi \in Seq(Segs(op', drv'))
<1>1. /\ op \in OP /\ drv \in DRV /\ pi \in PI /\ op' \in OP /\ drv' \in DRV
  BY DEF IInv, TypeInv
<1>2. Segs(op, drv) \subseteq Segs(op', drv')
  BY <1>1, Past
<1> QED
  BY <1>2, SeqMono DEF IInv, Travelling

LEMMA StartOpOK == ASSUME IInv, StartOp PROVE IInv'
<1>1. /\ pc = "idle" /\ ops' = ops + 1
      /\ op' \in OP /\ op'.kind \in Asked /\ op'.id = ops + 1
      /\ drv' = drv /\ pi' = pi /\ toPi' = toPi /\ clean' = clean
  <2>1. ops + 1 \in Nat
    BY DEF IInv, TypeInv, OP
  <2> QED
    BY <2>1 DEF StartOp, Ops, Asked, OP
<1>2. /\ pc' \in {"probe", "over"}
      /\ seen' = 0 \/ seen' = seen
      /\ kq' = kq \/ kq' = << >>
      /\ pcap' = pcap \/ pcap' = << >>
      /\ matches' = matches \/ matches' = << >>
  BY DEF StartOp, Open, Opened
<1>3. op.id \in Nat /\ op.id = ops
  BY DEF IInv, TypeInv, OP
<1>4. TypeInv'
  BY <1>1, <1>2, <1>3 DEF IInv, TypeInv, Asked
<1>5. op.id < op'.id /\ op.id <= op'.id
  BY <1>1, <1>3
<1>6. toPi' \in Seq(Segs(op', drv'))
  BY <1>1, <1>4, <1>5, PastSegs
<1>7. NotAhead'
  BY <1>1 DEF IInv, NotAhead
<1> QED
  BY <1>1, <1>2, <1>4, <1>5, <1>6, <1>7, PastKeeps

LEMMA BodyRaisesOK == ASSUME IInv, BodyRaises PROVE IInv'
<1>1. /\ pc = "body" /\ pc' = "exit" /\ ops' = ops
      /\ op' \in OP /\ op'.kind = "failed" /\ op'.id = op.id
      /\ drv' = drv /\ pi' = pi /\ toPi' = toPi /\ clean' = clean
      /\ kq' = kq /\ pcap' = pcap /\ matches' = matches /\ seen' = seen
  BY DEF BodyRaises, IInv, TypeInv, OP
<1>2. op.id > 0 /\ op.id <= op'.id
  BY <1>1 DEF IInv, TypeInv, Running, Asked, OP
<1>3. TypeInv'
  BY <1>1, <1>2 DEF IInv, TypeInv, Running
<1>4. toPi' \in Seq(Segs(op', drv'))
  BY <1>1, <1>2, <1>3, PastSegs
<1>5. NotAhead'
  BY <1>1 DEF IInv, NotAhead
<1> QED
  BY <1>1, <1>2, <1>3, <1>4, <1>5, PastKeeps

\* A segment with the number of the running exchange.
LEMMA Sends ==
  ASSUME toPi \in Seq(Segs(op, drv)), NEW s \in Segs(op, drv), SendsSeg(s)
  PROVE  toPi' \in Seq(Segs(op, drv))
  BY SeqAppend DEF SendsSeg, Lose

LEMMA BodySendOK == ASSUME IInv, BodySend PROVE IInv'
<1>1. /\ pc = "body" /\ pc' = "wait" /\ ops' = ops
      /\ op' = op /\ drv' = drv /\ pi' = pi /\ clean' = clean
      /\ kq' = kq /\ pcap' = pcap /\ matches' = << >> /\ seen' = 0
      /\ SendsSeg(Request)
  BY DEF BodySend, StartWait
<1>2. TypeInv'
  BY <1>1 DEF IInv, TypeInv, Running
<1>3. op.kind \in Asked /\ op \in OP /\ drv \in DRV
  BY <1>1 DEF IInv, TypeInv, Running
<1>4. Request \in SEG /\ Request.id = op.id
  BY <1>3 DEF Request, SEG, DRV, OP, Asked
<1>5. /\ Request.flags = "S" => Request.seq >= 0
      /\ op.kind \in {"connect", "send", "fin"} => Request.seq = drv.seq
  BY <1>3 DEF Request, Asked, DRV
<1>6. Request \in Segs(op, drv)
  BY <1>3, <1>4, <1>5 DEF Segs, OP
<1>7. toPi' \in Seq(Segs(op, drv))
  BY <1>1, <1>6, Sends DEF IInv, Travelling
<1>8. matches' \in Seq(Replies(op, drv, pi, clean))
  BY <1>1, SeqEmpty
<1> QED
  BY <1>1, <1>2, <1>7, <1>8 DEF IInv, NotAhead, Captured, Travelling

LEMMA BodyEndsOK == ASSUME IInv, BodyEnds PROVE IInv'
<1>1. /\ pc' = "exit" /\ UNCHANGED sessVars
      /\ kq' = kq /\ pcap' = pcap /\ matches' = matches /\ seen' = seen
  BY DEF BodyEnds
<1>2. TypeInv'
  BY <1>1, CaptureType DEF IInv, TypeInv, Running
<1> QED
  BY <1>1, <1>2, CaptureKeeps DEF IInv, Captured

LEMMA AckLastOK == ASSUME IInv, AckLast PROVE IInv'
<1> DEFINE s == [ flags |-> "A", seq |-> drv.seq, ack |-> drv.ack, len |-> 0, id |-> op.id ]
<1>1. /\ pc = "idle" /\ pc' = pc /\ ops' = ops
      /\ op' = op /\ drv' = drv /\ pi' = pi /\ clean' = clean
      /\ kq' = kq /\ pcap' = pcap /\ matches' = matches /\ seen' = seen
      /\ SendsSeg(s)
  BY DEF AckLast, capVars
<1>2. TypeInv'
  BY <1>1 DEF IInv, TypeInv
<1>3. s \in Segs(op, drv)
  BY <1>1 DEF IInv, TypeInv, Segs, SEG, OP, DRV
<1> HIDE DEF s
<1>4. toPi' \in Seq(Segs(op, drv))
  BY <1>1, <1>3, Sends DEF IInv, Travelling
<1> QED
  BY <1>1, <1>2, <1>4 DEF IInv, NotAhead, Captured, Travelling

\* What the session may count when it takes an answer that keeps it clean.
LEMMA TakenProves ==
  ASSUME IInv, matches # << >>
  PROVE  /\ Taken \in REPLY
         /\ Taken.flags = "SA" => Taken.seq = 0
         /\ clean /\ Taken.id = op.id /\ Taken.flags # "R" => Proves(Taken, op, drv, pi)
<1>1. Taken \in Replies(op, drv, pi, clean)
  BY SeqTake DEF IInv, Captured, Taken
<1> HIDE DEF Taken
<1> QED
  BY <1>1 DEF Replies

LEMMA TakeReplyOK == ASSUME IInv, TakeReply PROVE IInv'
<1>1. /\ pc = "exited" /\ op.kind # "none" /\ ops' = ops /\ pi' = pi
      /\ op' \in OP /\ op'.kind = "none" /\ op'.id = op.id
      /\ kq' = kq /\ pcap' = pcap /\ matches' = matches /\ seen' = seen
      /\ clean' \in BOOLEAN
      /\ clean' => clean /\ (matches # << >> => Taken.id = op.id /\ Taken.flags # "R")
  BY DEF TakeReply, IInv, TypeInv, OP
<1>2. /\ op \in OP /\ drv \in DRV /\ pi \in PI /\ op.id \in Nat /\ op.id > 0
      /\ clean => drv.seq <= pi.rcv /\ drv.ack <= pi.snd
  BY <1>1 DEF IInv, TypeInv, NotAhead, OP
<1> DEFINE Outcome ==
      /\ drv' \in DRV
      /\ pc' \in {"idle", "over"}
      /\ clean' => drv'.seq <= pi.rcv /\ drv'.ack <= pi.snd
<1>3. CASE op.kind = "failed"
  <2>1. drv' = drv /\ pc' = "over" /\ toPi' = toPi
    BY <1>3 DEF TakeReply
  <2>2. Outcome /\ toPi' = toPi
    BY <1>1, <1>2, <2>1
  <2> QED
    BY <2>2, <1>1, <1>2, PastSegs, PastKeeps DEF IInv, TypeInv, NotAhead, Running
<1>4. CASE op.kind = "connect"
  <2>0. Connected
    BY <1>4 DEF TakeReply
  <2>1. CASE matches # << >> /\ Taken.flags = "SA"
    <3> DEFINE s == [ flags |-> "A", seq |-> drv.seq + 1, ack |-> Taken.seq + 1,
                      len |-> 0, id |-> op.id ]
    <3>1. /\ drv' = [ seq |-> drv.seq + 1, ack |-> Taken.seq + 1 ]
          /\ SendsSeg(s) /\ pc' = "idle"
      BY <2>0, <2>1 DEF Connected
    <3>2. Taken.seq = 0 /\ (clean' => Proves(Taken, op, drv, pi))
      BY <1>1, <2>1, TakenProves
    <3>3. clean' => drv.seq + 1 <= pi.rcv /\ 1 <= pi.snd
      BY <1>4, <2>1, <3>2 DEF Proves
    <3>4. Outcome
      BY <1>2, <3>1, <3>2, <3>3 DEF DRV
    <3>5. TypeInv' /\ NotAhead'
      BY <1>1, <1>2, <3>4 DEF IInv, TypeInv, NotAhead, Running
    <3>6. toPi \in Seq(Segs(op', drv'))
      BY <1>1, <1>2, <3>5, PastSegs
    <3>7. s \in Segs(op', drv')
      BY <1>1, <1>2, <3>2 DEF Segs, SEG, DRV, OP
    <3> HIDE DEF s
    <3>8. toPi' \in Seq(Segs(op', drv'))
      BY <3>1, <3>6, <3>7, SeqAppend DEF SendsSeg, Lose
    <3> QED
      BY <1>1, <1>2, <3>5, <3>8, PastKeeps
  <2>2. CASE ~(matches # << >> /\ Taken.flags = "SA")
    <3>1. drv' = drv /\ pc' = "over" /\ toPi' = toPi
      BY <2>0, <2>2 DEF Connected
    <3>2. Outcome
      BY <1>1, <1>2, <3>1
    <3>3. TypeInv' /\ NotAhead'
      BY <1>1, <1>2, <3>2 DEF IInv, TypeInv, NotAhead, Running
    <3> QED
      BY <1>1, <1>2, <3>1, <3>3, PastSegs, PastKeeps
  <2> QED
    BY <2>1, <2>2
<1>5. CASE op.kind \notin {"failed", "connect"}
  <2>0. Advance
    BY <1>5 DEF TakeReply
  <2>1. pc' = "idle" /\ toPi' = toPi
    BY <2>0 DEF Advance
  <2>2. drv' \in DRV /\ (clean' => drv'.seq <= pi.rcv /\ drv'.ack <= pi.snd)
    <3>1. CASE matches = << >> \/ op.kind \in {"raw", "burst"}
      BY <1>1, <1>2, <2>0, <3>1 DEF Advance
    <3>2. CASE matches # << >> /\ op.kind \notin {"raw", "burst"}
      <4>1. op.kind \in {"send", "fin"}
        BY <1>1, <1>2, <1>5, <3>2 DEF OP, Asked
      <4>2. /\ drv' = [ seq |-> drv.seq + 1,
                        ack |-> drv.ack + (IF op.kind = "send" THEN Taken.len ELSE 0) ]
        BY <2>0, <3>2 DEF Advance
      <4>3. Taken \in REPLY /\ (clean' => Proves(Taken, op, drv, pi))
        BY <1>1, <3>2, TakenProves
      <4>4. Taken.len \in Nat
        BY <4>3 DEF REPLY
      <4>5. drv' \in DRV /\ drv'.seq = drv.seq + 1
            /\ drv'.ack = drv.ack + (IF op.kind = "send" THEN Taken.len ELSE 0)
        BY <1>2, <4>2, <4>4 DEF DRV
      <4> HIDE DEF Taken
      <4> QED
        BY <1>1, <1>2, <4>1, <4>3, <4>4, <4>5 DEF Proves, DRV, PI
    <3> QED
      BY <3>1, <3>2
  <2>3. TypeInv' /\ NotAhead'
    BY <1>1, <1>2, <2>1, <2>2 DEF IInv, TypeInv, NotAhead, Running
  <2> QED
    BY <1>1, <1>2, <2>1, <2>3, PastSegs, PastKeeps
<1> QED
  BY <1>3, <1>4, <1>5

-----------------------------------------------------------------------------
(* The Pi. *)

\* A frame the Pi puts on the wire may be lost, missed or captured.
LEMMA Emits ==
  ASSUME NEW S, kq \in Seq(S), NEW f \in S, Emit(f)
  PROVE  /\ kq' \in Seq(S)
         /\ pc' = pc /\ pcap' = pcap /\ matches' = matches /\ seen' = seen
  BY SeqAppend DEF Emit, Crosses, Lose

\* A step of the Pi from pi to pi'.
LEMMA PiKeeps ==
  ASSUME IInv, UNCHANGED << drv, op, clean, ops, pc, pcap, matches, seen >>,
         pi' \in PI, pi'.st = "LISTEN" => pi' = pi,
         pi.rcv <= pi'.rcv, pi.snd <= pi'.snd,
         toPi' \in Seq(Segs(op, drv)),
         kq' \in Seq(Frames(op, drv, pi', clean)),
         pi'.due \in Seq(Due(op, drv, pi', clean))
  PROVE  IInv'
<1>1. op \in OP /\ drv \in DRV /\ pi \in PI
  BY DEF IInv, TypeInv
<1>2. /\ Replies(op, drv, pi, clean) \subseteq Replies(op, drv, pi', clean)
      /\ Frames(op, drv, pi, clean) \subseteq Frames(op, drv, pi', clean)
  BY <1>1, Grows
<1>3. /\ pcap \in Seq(Frames(op, drv, pi', clean))
      /\ matches \in Seq(Replies(op, drv, pi', clean))
  BY <1>2, SeqMono DEF IInv, Captured
<1>4. TypeInv'
  BY DEF IInv, TypeInv
<1>5. NotAhead'
  BY <1>1 DEF IInv, NotAhead, DRV, PI
<1> QED
  BY <1>3, <1>4, <1>5 DEF IInv, Captured, Travelling

\* What was captured, and what is due, with the counters as they are now.
LEMMA PiHad ==
  ASSUME IInv, NEW r \in PI, pi.rcv <= r.rcv, pi.snd <= r.snd
  PROVE  /\ kq \in Seq(Frames(op, drv, r, clean))
         /\ pi.due \in Seq(Due(op, drv, r, clean))
<1>1. op \in OP /\ drv \in DRV /\ pi \in PI
  BY DEF IInv, TypeInv
<1>2. /\ Frames(op, drv, pi, clean) \subseteq Frames(op, drv, r, clean)
      /\ Due(op, drv, pi, clean) \subseteq Due(op, drv, r, clean)
  BY <1>1, Grows
<1> QED
  BY <1>2, SeqMono DEF IInv, Captured, Travelling

\* A reply is as good as what it proves.
LEMMA ReplyIs ==
  ASSUME IInv, NEW r \in PI, NEW fl \in {"SA", "A", "R"}, NEW sq \in Nat,
         NEW ak \in Nat, NEW ln \in {0, 1}, NEW k \in Nat, k <= op.id,
         fl = "SA" => sq = 0,
         clean /\ k = op.id /\ fl # "R" => Proves(Reply(fl, sq, ak, ln, k), op, drv, r)
  PROVE  /\ Reply(fl, sq, ak, ln, k) \in Replies(op, drv, r, clean)
         /\ Reply(fl, sq, ak, ln, k) \in Frames(op, drv, r, clean)
<1>1. Reply(fl, sq, ak, ln, k) \in REPLY
  BY DEF Reply, REPLY
<1>2. /\ Reply(fl, sq, ak, ln, k).id = k /\ Reply(fl, sq, ak, ln, k).flags = fl
      /\ Reply(fl, sq, ak, ln, k).seq = sq
  BY DEF Reply
<1> QED
  BY <1>1, <1>2 DEF Replies, Frames

\* RST: it proves nothing, and taking it ends cleanness.
LEMMA ResetIs ==
  ASSUME IInv, NEW r \in PI, NEW k \in Nat, k <= op.id
  PROVE  Reply("R", 0, 0, 0, k) \in Frames(op, drv, r, clean)
  BY ReplyIs

\* The acknowledgement of a request that was accepted, now or before.
LEMMA AckIs ==
  ASSUME IInv, NEW r \in PI, NEW k \in Nat, k <= op.id,
         pi.rcv <= r.rcv, pi.snd <= r.snd,
         clean /\ k = op.id /\ op.kind \in {"connect", "send", "fin"} => drv.seq + 1 <= r.rcv
  PROVE  Reply("A", r.snd, r.rcv, 0, k) \in Frames(op, drv, r, clean)
<1>1. r.snd \in Nat /\ r.rcv \in Nat /\ drv.ack \in Nat /\ pi.snd \in Nat
  BY DEF IInv, TypeInv, PI, DRV
<1>2. clean /\ k = op.id => Proves(Reply("A", r.snd, r.rcv, 0, k), op, drv, r)
  BY <1>1 DEF Proves, Reply, IInv, NotAhead
<1> QED
  BY <1>1, <1>2, ReplyIs

LEMMA SegIs ==
  ASSUME IInv, toPi # << >>
  PROVE  /\ Head(toPi) \in SEG /\ Head(toPi).id \in Nat /\ Head(toPi).id <= op.id
         /\ Head(toPi).flags = "S" => Head(toPi).seq \in Nat
         /\ Head(toPi).id = op.id /\ op.kind \in {"connect", "send", "fin"}
              => Head(toPi).seq = drv.seq
         /\ Tail(toPi) \in Seq(Segs(op, drv))
<1>1. Head(toPi) \in Segs(op, drv) /\ Tail(toPi) \in Seq(Segs(op, drv))
  BY SeqTake DEF IInv, Travelling
<1> DEFINE s == Head(toPi)
<1> HIDE DEF s
<1>2. /\ s \in SEG /\ s.id \in Nat /\ s.id <= op.id
      /\ s.flags = "S" => s.seq \in Nat
      /\ s.id = op.id /\ op.kind \in {"connect", "send", "fin"} => s.seq = drv.seq
  BY <1>1 DEF Segs, SEG, s
<1> QED
  BY <1>1, <1>2 DEF s

\* A segment that is answered, if at all, with a reset, and leaves the
\* counters and the requests alone.
LEMMA QuietOK ==
  ASSUME IInv, toPi # << >>, toPi' = Tail(toPi), UNCHANGED << drv, op, clean, ops >>,
         pi' \in PI, pi'.st = "LISTEN" => pi' = pi,
         pi'.rcv = pi.rcv, pi'.snd = pi.snd, pi'.due = pi.due,
         UNCHANGED capVars \/ Emit(Reply("R", 0, 0, 0, Head(toPi).id))
  PROVE  IInv'
<1>1. /\ Head(toPi).id \in Nat /\ Head(toPi).id <= op.id
      /\ Tail(toPi) \in Seq(Segs(op, drv))
  BY SegIs
<1>2. pi.rcv <= pi'.rcv /\ pi.snd <= pi'.snd
  BY DEF PI
<1>3. /\ kq \in Seq(Frames(op, drv, pi', clean))
      /\ pi.due \in Seq(Due(op, drv, pi', clean))
  BY <1>2, PiHad
<1>4. Reply("R", 0, 0, 0, Head(toPi).id) \in Frames(op, drv, pi', clean)
  BY <1>1, ResetIs
<1>5. /\ kq' \in Seq(Frames(op, drv, pi', clean))
      /\ pc' = pc /\ pcap' = pcap /\ matches' = matches /\ seen' = seen
  BY <1>3, <1>4, Emits DEF capVars
<1> QED
  BY <1>1, <1>2, <1>3, <1>5, PiKeeps

LEMMA PiSynOK ==
  ASSUME IInv, toPi # << >>, toPi' = Tail(toPi), UNCHANGED << drv, op, clean, ops >>,
         PiSyn(Head(toPi))
  PROVE  IInv'
<1> DEFINE s == Head(toPi)
<1>1. /\ s \in SEG /\ s.id \in Nat /\ s.id <= op.id
      /\ s.flags = "S" => s.seq \in Nat
      /\ s.id = op.id /\ op.kind \in {"connect", "send", "fin"} => s.seq = drv.seq
      /\ Tail(toPi) \in Seq(Segs(op, drv))
  BY SegIs
<1>2. /\ PiSyn(s) /\ pi \in PI /\ drv \in DRV /\ op \in OP
      /\ pi.st = "LISTEN" /\ pi.rcv = 0 /\ pi.snd = 0
  BY DEF PiSyn, IInv, TypeInv
<1> HIDE DEF s
<1>3. s.flags = "S" /\ Emit(Reply("SA", 0, pi'.rcv, 0, s.id)) /\ s.seq + 1 \in Nat
  BY <1>1, <1>2 DEF PiSyn
<1>4. /\ pi' \in PI /\ pi'.st = "SYN_RCVD" /\ pi'.rcv = s.seq + 1 /\ pi'.snd = 1
      /\ pi'.due = pi.due
  <2> DEFINE n == s.seq + 1
  <2>1. n \in Nat /\ pi \in PI
    BY <1>2, <1>3
  <2>2. pi' = [ pi EXCEPT !.st = "SYN_RCVD", !.rcv = n, !.snd = 1 ]
    BY <1>2 DEF PiSyn
  <2> HIDE DEF n
  <2>3. /\ pi' \in PI /\ pi'.st = "SYN_RCVD" /\ pi'.rcv = n /\ pi'.snd = 1
        /\ pi'.due = pi.due
    BY <2>1, <2>2 DEF PI
  <2> QED
    BY <2>3 DEF n
<1>5. /\ pi.rcv <= pi'.rcv /\ pi.snd <= pi'.snd /\ pi'.rcv \in Nat
      /\ clean => drv.ack = 0
  BY <1>1, <1>2, <1>3, <1>4 DEF IInv, NotAhead, DRV
<1>6. clean /\ s.id = op.id => Proves(Reply("SA", 0, pi'.rcv, 0, s.id), op, drv, pi')
  BY <1>1, <1>2, <1>4, <1>5 DEF Proves, Reply, DRV
<1>7. Reply("SA", 0, pi'.rcv, 0, s.id) \in Frames(op, drv, pi', clean)
  BY <1>1, <1>4, <1>5, <1>6, ReplyIs
<1>8. /\ kq \in Seq(Frames(op, drv, pi', clean))
      /\ pi.due \in Seq(Due(op, drv, pi', clean))
  BY <1>4, <1>5, PiHad
<1>9. /\ kq' \in Seq(Frames(op, drv, pi', clean))
      /\ pc' = pc /\ pcap' = pcap /\ matches' = matches /\ seen' = seen
  BY <1>3, <1>7, <1>8, Emits
<1> QED
  BY <1>1, <1>4, <1>5, <1>8, <1>9, PiKeeps

\* A request that is acknowledged: new, repeated or early, or a FIN.
LEMMA AnsweredOK ==
  ASSUME IInv, toPi # << >>, toPi' = Tail(toPi), UNCHANGED << drv, op, clean, ops >>,
         pi' \in PI, pi'.st # "LISTEN", pi.rcv <= pi'.rcv, pi'.snd = pi.snd,
         clean /\ Head(toPi).id = op.id /\ op.kind \in {"connect", "send", "fin"}
            => drv.seq + 1 <= pi'.rcv,
         pi'.due = pi.due \/ pi'.due = Append(pi.due, Head(toPi).id),
         PiAck(Head(toPi))
  PROVE  IInv'
<1> DEFINE s == Head(toPi)
<1>1. /\ s.id \in Nat /\ s.id <= op.id /\ Tail(toPi) \in Seq(Segs(op, drv))
  BY SegIs
<1>2. /\ clean /\ s.id = op.id /\ op.kind \in {"connect", "send", "fin"}
            => drv.seq + 1 <= pi'.rcv
      /\ pi'.due = pi.due \/ pi'.due = Append(pi.due, s.id)
      /\ Emit(Reply("A", pi'.snd, pi'.rcv, 0, s.id))
      /\ pi.snd <= pi'.snd
  BY DEF PiAck, PI
<1> HIDE DEF s
<1>3. Reply("A", pi'.snd, pi'.rcv, 0, s.id) \in Frames(op, drv, pi', clean)
  BY <1>1, <1>2, AckIs
<1>4. /\ kq \in Seq(Frames(op, drv, pi', clean))
      /\ pi.due \in Seq(Due(op, drv, pi', clean))
  BY <1>2, PiHad
<1>5. /\ kq' \in Seq(Frames(op, drv, pi', clean))
      /\ pc' = pc /\ pcap' = pcap /\ matches' = matches /\ seen' = seen
  BY <1>2, <1>3, <1>4, Emits
<1>6. s.id \in Due(op, drv, pi', clean)
  BY <1>1, <1>2 DEF Due
<1>7. pi'.due \in Seq(Due(op, drv, pi', clean))
  BY <1>2, <1>4, <1>6, SeqAppend
<1> QED
  BY <1>1, <1>2, <1>5, <1>7, PiKeeps

LEMMA PiSynRcvdOK ==
  ASSUME IInv, toPi # << >>, toPi' = Tail(toPi), UNCHANGED << drv, op, clean, ops >>,
         PiSynRcvd(Head(toPi))
  PROVE  IInv'
<1>1. pi \in PI /\ pi.st = "SYN_RCVD"
  BY DEF IInv, TypeInv, PiSynRcvd
<1>2. CASE pi' = [ pi EXCEPT !.st = "ESTABLISHED", !.una = pi.snd ] /\ UNCHANGED capVars
  <2>1. /\ pi' \in PI /\ pi'.st = "ESTABLISHED" /\ pi'.rcv = pi.rcv /\ pi'.snd = pi.snd
        /\ pi'.due = pi.due
    BY <1>1, <1>2 DEF PI
  <2> QED
    BY <1>2, <2>1, QuietOK
<1>3. CASE pi' = pi /\ Emit(Reply("R", 0, 0, 0, Head(toPi).id))
  BY <1>1, <1>3, QuietOK
<1> QED
  BY <1>2, <1>3 DEF PiSynRcvd

LEMMA PiClosingOK ==
  ASSUME IInv, toPi # << >>, toPi' = Tail(toPi), UNCHANGED << drv, op, clean, ops >>,
         PiClosing(Head(toPi))
  PROVE  IInv'
<1>1. pi \in PI /\ pi' = pi
  BY DEF IInv, TypeInv, PiClosing
<1>2. UNCHANGED capVars \/ Emit(Reply("R", 0, 0, 0, Head(toPi).id))
  BY DEF PiClosing
<1> QED
  BY <1>1, <1>2, QuietOK

LEMMA PiEstabOK ==
  ASSUME IInv, toPi # << >>, toPi' = Tail(toPi), UNCHANGED << drv, op, clean, ops >>,
         PiEstab(Head(toPi))
  PROVE  IInv'
<1> DEFINE s == Head(toPi)
<1>1. /\ pi \in PI /\ drv \in DRV /\ pi.st = "ESTABLISHED"
      /\ clean => drv.seq <= pi.rcv
  BY DEF IInv, TypeInv, PiEstab, NotAhead
<1>2. /\ s \in SEG /\ s.id \in Nat
      /\ s.id = op.id /\ op.kind \in {"connect", "send", "fin"} => s.seq = drv.seq
  BY SegIs
<1>3. PiEstab(s)
  OBVIOUS
<1>4. Acked(s) \in Nat
  BY <1>1, <1>2 DEF Acked, SEG, PI
<1>5. CASE s.flags = "A" /\ s.len = 0 /\ pi' = [ pi EXCEPT !.una = Acked(s) ]
           /\ UNCHANGED capVars
  <2>1. /\ pi' \in PI /\ pi'.st = "ESTABLISHED" /\ pi'.rcv = pi.rcv /\ pi'.snd = pi.snd
        /\ pi'.due = pi.due
    BY <1>1, <1>4, <1>5 DEF PI
  <2> QED
    BY <1>5, <2>1, QuietOK
<1>6. CASE /\ s.len > 0 /\ PiAck(s) /\ s.seq = pi.rcv
           /\ pi' = [ pi EXCEPT !.una = Acked(s), !.rcv = @ + s.len, !.due = Append(@, s.id) ]
  <2> DEFINE n == pi.rcv + s.len
             d == Append(pi.due, s.id)
             a == Acked(s)
  <2>1. n \in Nat /\ a \in Nat /\ n = pi.rcv + 1 /\ pi.rcv <= n
    BY <1>1, <1>2, <1>4, <1>6 DEF PI, SEG
  <2>2. d \in Seq(Nat)
    BY <1>1, <1>2, SeqAppend DEF PI
  <2>3. pi' = [ pi EXCEPT !.una = a, !.rcv = n, !.due = d ]
    BY <1>6
  <2> HIDE DEF n, d, a
  <2>4. /\ pi' \in PI /\ pi'.st = "ESTABLISHED" /\ pi'.rcv = n /\ pi'.snd = pi.snd
        /\ pi'.due = d
    BY <1>1, <2>1, <2>2, <2>3 DEF PI
  <2>5. s.id = op.id /\ op.kind \in {"connect", "send", "fin"} => drv.seq + 1 <= pi'.rcv
    BY <1>1, <1>2, <1>6, <2>1, <2>4 DEF DRV, PI
  <2>6. pi'.due = Append(pi.due, s.id)
    BY <2>4 DEF d
  <2> QED
    BY <1>6, <2>1, <2>4, <2>5, <2>6, AnsweredOK
<1>7. CASE s.len > 0 /\ PiAck(s) /\ s.seq # pi.rcv /\ pi' = [ pi EXCEPT !.una = Acked(s) ]
  <2>1. /\ pi' \in PI /\ pi'.st = "ESTABLISHED" /\ pi'.rcv = pi.rcv /\ pi'.snd = pi.snd
        /\ pi'.due = pi.due
    BY <1>1, <1>4, <1>7 DEF PI
  <2>2. /\ clean /\ s.id = op.id /\ op.kind \in {"connect", "send", "fin"}
              => drv.seq + 1 <= pi'.rcv
        /\ pi.rcv <= pi'.rcv
    BY <1>1, <1>2, <1>7, <2>1 DEF DRV, PI
  <2> QED
    BY <1>7, <2>1, <2>2, AnsweredOK
<1>8. CASE s.flags = "F" /\ PiAck(s) /\ pi' = [ pi EXCEPT !.st = "CLOSE_WAIT", !.rcv = @ + 1 ]
  <2>1. /\ pi' \in PI /\ pi'.st = "CLOSE_WAIT" /\ pi'.rcv = pi.rcv + 1 /\ pi'.snd = pi.snd
        /\ pi'.due = pi.due
    <3> DEFINE n == pi.rcv + 1
    <3>1. pi' = [ pi EXCEPT !.st = "CLOSE_WAIT", !.rcv = n ] /\ n \in Nat /\ pi \in PI
      BY <1>1, <1>8 DEF PI
    <3> HIDE DEF n
    <3>2. /\ pi' \in PI /\ pi'.st = "CLOSE_WAIT" /\ pi'.rcv = n /\ pi'.snd = pi.snd
          /\ pi'.due = pi.due
      BY <3>1 DEF PI
    <3> QED
      BY <3>2 DEF n
  <2>2. /\ clean => drv.seq + 1 <= pi'.rcv
        /\ pi.rcv <= pi'.rcv
    BY <1>1, <2>1 DEF DRV, PI
  <2> QED
    BY <1>8, <2>1, <2>2, AnsweredOK
<1>9. CASE pi' = pi /\ Emit(Reply("R", 0, 0, 0, s.id))
  BY <1>1, <1>9, QuietOK
<1> HIDE DEF s
<1> QED
  BY <1>3, <1>5, <1>6, <1>7, <1>8, <1>9 DEF PiEstab

LEMMA PiReceivesOK == ASSUME IInv, PiReceives PROVE IInv'
<1>1. /\ toPi # << >> /\ toPi' = Tail(toPi) /\ UNCHANGED << drv, op, clean, ops >>
  BY DEF PiReceives
<1> QED
  BY <1>1, PiSynOK, PiSynRcvdOK, PiEstabOK, PiClosingOK DEF PiReceives

\* The response counts one for the Pi before it can count one for the session.
LEMMA PiRespondsOK == ASSUME IInv, PiResponds PROVE IInv'
<1> DEFINE k == Head(pi.due)
           t == Tail(pi.due)
           n == pi.snd + 1
           f == Reply("A", pi.snd, pi.rcv, 1, k)
<1>1. /\ pi \in PI /\ drv \in DRV /\ op \in OP /\ pi.st = "ESTABLISHED"
      /\ toPi' = toPi /\ UNCHANGED << drv, op, clean, ops >>
      /\ pi' = [ pi EXCEPT !.snd = n, !.due = t ] /\ Emit(f)
      /\ clean => drv.ack <= pi.snd
  BY DEF PiResponds, IInv, TypeInv, NotAhead
<1>2. k \in Due(op, drv, pi, clean) /\ t \in Seq(Due(op, drv, pi, clean))
  BY SeqTake DEF PiResponds, IInv, Travelling
<1>3. t \in Seq(Nat) /\ n \in Nat /\ pi.snd <= n
  <2>1. pi.due \in Seq(Nat) /\ pi.snd \in Nat /\ pi.due # << >>
    BY <1>1 DEF PI, PiResponds
  <2> QED
    BY <2>1, SeqTake
<1>4. k \in Nat /\ k <= op.id
      /\ (clean /\ k = op.id /\ op.kind \in {"send", "fin"} => drv.seq + 1 <= pi.rcv)
  BY <1>2 DEF Due
<1>5. n = pi.snd + 1
  OBVIOUS
<1> HIDE DEF k, t, n
<1>6. /\ pi' \in PI /\ pi'.st = "ESTABLISHED" /\ pi'.rcv = pi.rcv /\ pi'.snd = n
      /\ pi'.due = t
  BY <1>1, <1>3 DEF PI
<1>7. /\ pi.rcv <= pi'.rcv /\ pi.snd <= pi'.snd /\ pi.rcv \in Nat /\ pi.snd \in Nat
      /\ drv.ack \in Nat
  BY <1>1, <1>3, <1>6 DEF PI, DRV
<1>8. clean /\ k = op.id => Proves(f, op, drv, pi')
  BY <1>1, <1>4, <1>5, <1>6, <1>7 DEF Proves, Reply
<1>9. f \in Frames(op, drv, pi', clean)
  BY <1>4, <1>6, <1>7, <1>8, ReplyIs
<1> HIDE DEF f
<1>10. kq \in Seq(Frames(op, drv, pi', clean))
  BY <1>6, <1>7, PiHad
<1>11. /\ kq' \in Seq(Frames(op, drv, pi', clean))
       /\ pc' = pc /\ pcap' = pcap /\ matches' = matches /\ seen' = seen
  BY <1>1, <1>9, <1>10, Emits
<1>12. pi'.due \in Seq(Due(op, drv, pi', clean))
  <2>0. op \in OP /\ drv \in DRV /\ pi \in PI /\ pi' \in PI
    BY <1>1, <1>6
  <2>1. Due(op, drv, pi, clean) \subseteq Due(op, drv, pi', clean)
    BY <1>7, <2>0, Grows
  <2> QED
    BY <1>2, <1>6, <2>1, SeqMono
<1>13. toPi' \in Seq(Segs(op, drv))
  BY <1>1 DEF IInv, Travelling
<1> QED
  BY <1>1, <1>6, <1>7, <1>11, <1>12, <1>13, PiKeeps

\* A retransmission bears no exchange's number.
LEMMA PiRetransmitsOK == ASSUME IInv, PiRetransmits PROVE IInv'
<1>1. /\ pi \in PI /\ op \in OP /\ pi' = pi /\ toPi' = toPi
      /\ UNCHANGED << drv, op, clean, ops >>
      /\ 0 <= op.id /\ 0 \in Nat /\ pi.rcv \in Nat /\ pi.una \in Nat
  BY DEF PiRetransmits, IInv, TypeInv, PI, OP
<1>2. op.id = 0 => op.kind = "none"
  BY DEF IInv, TypeInv
<1>3. ASSUME NEW f, op.id = 0 PROVE Proves(f, op, drv, pi)
  BY <1>2, <1>3 DEF Proves
<1>4. /\ Reply("SA", 0, pi.rcv, 0, 0) \in Frames(op, drv, pi, clean)
      /\ Reply("A", pi.una, pi.rcv, 1, 0) \in Frames(op, drv, pi, clean)
  BY <1>1, <1>3, ReplyIs
<1>5. \E f \in Frames(op, drv, pi, clean) : Emit(f)
  BY <1>4 DEF PiRetransmits
<1>6. kq \in Seq(Frames(op, drv, pi, clean)) /\ toPi \in Seq(Segs(op, drv))
      /\ pi.due \in Seq(Due(op, drv, pi, clean))
  BY DEF IInv, Captured, Travelling
<1>7. /\ kq' \in Seq(Frames(op, drv, pi, clean))
      /\ pc' = pc /\ pcap' = pcap /\ matches' = matches /\ seen' = seen
  BY <1>5, <1>6, Emits
<1>8. pi.rcv <= pi.rcv /\ pi.snd <= pi.snd
  BY <1>1 DEF PI
<1> QED
  BY <1>1, <1>6, <1>7, <1>8, PiKeeps

-----------------------------------------------------------------------------

LEMMA InitOK == ASSUME Init PROVE IInv
<1>1. /\ drv = [ seq |-> 0, ack |-> 0 ] /\ op = [ kind |-> "none", id |-> 0 ]
      /\ pi = [ st |-> "LISTEN", rcv |-> 0, snd |-> 0, una |-> 0, due |-> << >> ]
      /\ toPi = << >> /\ clean = TRUE /\ ops = 0 /\ pc = "idle" /\ seen = 0
      /\ kq = << >> /\ pcap = << >> /\ matches = << >>
  BY DEF Init, CapInit, NoOp
<1>2. drv \in DRV /\ op \in OP /\ pi \in PI
  BY <1>1, SeqEmpty DEF DRV, OP, PI
<1>3. TypeInv /\ NotAhead
  BY <1>1, <1>2 DEF TypeInv, NotAhead, Running
<1>4. Captured /\ Travelling
  <2>1. pi.due = << >>
    BY <1>1
  <2> QED
    BY <1>1, <2>1, SeqEmpty DEF Captured, Travelling
<1> QED
  BY <1>3, <1>4 DEF IInv

LEMMA NextOK == ASSUME IInv, [Next]_vars PROVE IInv'
<1>1. CASE UNCHANGED vars
  BY <1>1 DEF vars, capVars, sessVars, IInv, TypeInv, NotAhead, Captured, Travelling
<1>2. CASE Capturing
  BY <1>2, CapStepOK, TdStepOK DEF Capturing
<1> QED
  BY <1>1, <1>2, StartOpOK, BodySendOK, BodyRaisesOK, BodyEndsOK, TakeReplyOK, AckLastOK,
     PiReceivesOK, PiRespondsOK, PiRetransmitsOK DEF Next

\* The inductive invariant holds in every reachable state.
THEOREM Invariance == Spec => []IInv
  BY InitOK, NextOK, PTL DEF Spec

\* As long as each answer it took was the Pi's to that very request, a
\* RawTCPSession never counts a payload the Pi has not accepted, nor
\* acknowledges one the Pi has not sent.
THEOREM SessionSafe == Spec => []SeqNotAhead
<1>1. IInv => SeqNotAhead
  BY DEF IInv, NotAhead, SeqNotAhead
<1> QED
  BY <1>1, Invariance, PTL

-----------------------------------------------------------------------------
(* The process and the directory. *)

LEMMA LeakNext == ASSUME NothingLeaked, [Next]_vars PROVE NothingLeaked'
<1>1. CASE UNCHANGED vars
  BY <1>1 DEF vars, capVars, NothingLeaked
<1>2. CASE CapStep
  BY <1>2 DEF CapStep, ProbeSend, ProbeDead, ProbeTimeout, EnterFails, ProbePeek, WaitOpen,
              WaitNext, WaitEof, WaitExpires,
              ExitParse, ExitUnreadable, ExitTimeout, NothingLeaked
<1>3. CASE TdStep
  BY <1>3 DEF TdStep, TdStart, TdWrite, TdFails, TdStops, NothingLeaked
<1>4. CASE StartOp
  BY <1>4 DEF StartOp, Open, Opened, NothingLeaked
<1>5. CASE BodySend \/ BodyRaises \/ BodyEnds
  BY <1>5 DEF BodySend, BodyRaises, BodyEnds, NothingLeaked
<1>6. CASE TakeReply
  BY <1>6 DEF TakeReply, NothingLeaked
<1>7. CASE AckLast
  BY <1>7 DEF AckLast, capVars, NothingLeaked
<1>8. CASE PiReceives \/ PiResponds \/ PiRetransmits
  <2>1. UNCHANGED capVars \/ \E f : Emit(f)
    BY <1>8 DEF PiReceives, PiResponds, PiRetransmits, PiSyn, PiSynRcvd, PiEstab, PiClosing,
                PiAck
  <2>2. pc' = pc /\ td' = td /\ tmpdir' = tmpdir /\ outcome' = outcome
    BY <2>1 DEF capVars, Emit
  <2> QED
    BY <2>2 DEF NothingLeaked
<1> QED
  BY <1>1, <1>2, <1>3, <1>4, <1>5, <1>6, <1>7, <1>8 DEF Next, Capturing

\* However a WireCapture block ends - readiness timeout, a dead or a hung
\* tcpdump, a body that raises, a parse - its process and its directory are
\* gone; only a failing _spawn leaves the directory.
THEOREM BlocksClean == Spec => []NothingLeaked
<1>1. Init => NothingLeaked
  BY DEF Init, CapInit, NothingLeaked
<1> QED
  BY <1>1, LeakNext, PTL DEF Spec

-----------------------------------------------------------------------------
(* OfKind, by induction over the frames read: it takes them one by one,    *)
(* what it keeps of a beginning is a beginning of what it keeps, and       *)
(* filtering twice is filtering once.                                      *)

\* Induction over the naturals, with the set of the numbers that have the property.
LEMMA SetInduction ==
  ASSUME NEW P, 0 \in P, \A n \in Nat : n \in P => n + 1 \in P
  PROVE  Nat \subseteq P
<1> SUFFICES ASSUME Nat \ P # {} PROVE FALSE
  OBVIOUS
<1>1. \E x \in Nat \ P : \A y \in Nat \ P : ~(y < x)
  <2>1. PICK x \in Nat \ P : \A y \in Nat \ P : ~(<<y, x>> \in OpToRel(<, Nat))
    BY NatLessThanWellFounded, WFMin, Nat \ P \subseteq Nat
  <2>2. \A y \in Nat \ P : ~(y < x)
    BY <2>1 DEF OpToRel
  <2> QED
    BY <2>2
<1>2. PICK x \in Nat \ P : \A y \in Nat \ P : ~(y < x)
  BY <1>1
<1>3. x # 0 /\ x - 1 \in Nat /\ x - 1 < x
  BY <1>2
<1>4. x - 1 \in P
  BY <1>2, <1>3
<1> QED
  BY <1>2, <1>3, <1>4

\* One step of OfKind: what is kept of the first n frames, given the rest.
Picks(s, kinds, n, rest) ==
  IF n = 0 THEN << >>
  ELSE IF s[n].kind \in kinds THEN Append(rest[n - 1], s[n]) ELSE rest[n - 1]

Keeps(s, kinds, m, k) == k = [n \in 0..m |-> Picks(s, kinds, n, k)]

\* The recursive function that OfKind chooses exists.
LEMMA KeepsExists ==
  ASSUME NEW S, NEW s \in Seq(S), NEW kinds, NEW m \in Nat
  PROVE  \E k : Keeps(s, kinds, m, k)
<1> DEFINE P == {n \in Nat : \E k : Keeps(s, kinds, n, k)}
<1>1. 0 \in P
  <2>1. Keeps(s, kinds, 0, [n \in 0..0 |-> << >>])
    BY DEF Keeps, Picks
  <2> QED
    BY <2>1
<1>2. ASSUME NEW n \in Nat, n \in P PROVE n + 1 \in P
  <2>1. PICK k : Keeps(s, kinds, n, k)
    BY <1>2
  <2> DEFINE h == [i \in 0..(n + 1) |-> Picks(s, kinds, i, k)]
  <2>2. \A i \in 0..n : h[i] = k[i]
    BY <2>1 DEF Keeps
  <2>3. \A i \in 0..(n + 1) : Picks(s, kinds, i, k) = Picks(s, kinds, i, h)
    <3> SUFFICES ASSUME NEW i \in 0..(n + 1), i # 0
                 PROVE  Picks(s, kinds, i, k) = Picks(s, kinds, i, h)
      BY DEF Picks
    <3>1. i - 1 \in 0..n
      OBVIOUS
    <3>2. h[i - 1] = k[i - 1]
      BY <2>2, <3>1
    <3> HIDE DEF h
    <3> QED
      BY <3>2 DEF Picks
  <2>4. Keeps(s, kinds, n + 1, h)
    <3>1. h = [i \in 0..(n + 1) |-> Picks(s, kinds, i, h)]
      BY <2>3
    <3> HIDE DEF h
    <3> QED
      BY <3>1 DEF Keeps
  <2>5. \E g : Keeps(s, kinds, n + 1, g)
    BY <2>4
  <2> QED
    BY <2>5
<1>3. Nat \subseteq P
  <2> HIDE DEF P
  <2> QED
    BY <1>1, <1>2, SetInduction
<1> QED
  BY <1>3

Chosen(s, kinds) == CHOOSE k : Keeps(s, kinds, Len(s), k)

LEMMA ChosenKeeps ==
  ASSUME NEW S, NEW s \in Seq(S), NEW kinds
  PROVE  /\ Keeps(s, kinds, Len(s), Chosen(s, kinds))
         /\ OfKind(s, kinds) = Chosen(s, kinds)[Len(s)]
<1>1. \E k : Keeps(s, kinds, Len(s), k)
  BY KeepsExists
<1>2. Keeps(s, kinds, Len(s), Chosen(s, kinds))
  BY <1>1 DEF Chosen
<1>3. OfKind(s, kinds) = Chosen(s, kinds)[Len(s)]
  BY DEF OfKind, Chosen, Keeps, Picks
<1> QED
  BY <1>2, <1>3

\* One value of the chosen function after the other.
LEMMA KeptStep ==
  ASSUME NEW S, NEW s \in Seq(S), NEW kinds
  PROVE  /\ Chosen(s, kinds)[0] = << >>
         /\ \A n \in 0..Len(s) : n # 0 =>
              Chosen(s, kinds)[n] = IF s[n].kind \in kinds
                                      THEN Append(Chosen(s, kinds)[n - 1], s[n])
                                      ELSE Chosen(s, kinds)[n - 1]
<1> DEFINE k == Chosen(s, kinds)
<1>1. Keeps(s, kinds, Len(s), k)
  BY ChosenKeeps
<1>2. \A n \in 0..Len(s) : k[n] = Picks(s, kinds, n, k)
  BY <1>1 DEF Keeps
<1>3. 0 \in 0..Len(s)
  OBVIOUS
<1> HIDE DEF k
<1>4. k[0] = << >>
  BY <1>2, <1>3 DEF Picks
<1>5. ASSUME NEW n \in 0..Len(s), n # 0
      PROVE  k[n] = IF s[n].kind \in kinds THEN Append(k[n - 1], s[n]) ELSE k[n - 1]
  BY <1>2, <1>5 DEF Picks
<1> QED
  BY <1>4, <1>5 DEF k

LEMMA KeptType ==
  ASSUME NEW S, NEW s \in Seq(S), NEW kinds
  PROVE  \A n \in 0..Len(s) : Chosen(s, kinds)[n] \in Seq({f \in S : f.kind \in kinds})
<1> DEFINE k == Chosen(s, kinds)
           T == {f \in S : f.kind \in kinds}
           P == {n \in Nat : n <= Len(s) => k[n] \in Seq(T)}
<1>1. /\ k[0] = << >>
      /\ \A n \in 0..Len(s) : n # 0 =>
           k[n] = IF s[n].kind \in kinds THEN Append(k[n - 1], s[n]) ELSE k[n - 1]
  BY KeptStep
<1> HIDE DEF k
<1>2. 0 \in P
  BY <1>1, SeqEmpty
<1>3. ASSUME NEW n \in Nat, n \in P PROVE n + 1 \in P
  <2> SUFFICES ASSUME n + 1 <= Len(s) PROVE k[n + 1] \in Seq(T)
    OBVIOUS
  <2>1. n + 1 \in 0..Len(s) /\ n + 1 # 0 /\ (n + 1) - 1 = n /\ n + 1 \in 1..Len(s)
    OBVIOUS
  <2>2. k[n] \in Seq(T) /\ s[n + 1] \in S
    BY <1>3, <2>1
  <2>3. k[n + 1] = IF s[n + 1].kind \in kinds THEN Append(k[n], s[n + 1]) ELSE k[n]
    BY <1>1, <2>1
  <2>4. s[n + 1].kind \in kinds => s[n + 1] \in T
    BY <2>2
  <2> HIDE DEF T
  <2> QED
    BY <2>2, <2>3, <2>4, SeqAppend
<1>4. Nat \subseteq P
  <2> HIDE DEF P
  <2> QED
    BY <1>2, <1>3, SetInduction
<1>5. \A n \in 0..Len(s) : k[n] \in Seq(T)
  BY <1>4
<1> QED
  BY <1>5 DEF k

\* What is kept depends on the frames read so far and on nothing else.
LEMMA KeptAgree ==
  ASSUME NEW S, NEW s \in Seq(S), NEW t \in Seq(S), NEW kinds,
         NEW m \in Nat, m <= Len(s), m <= Len(t), \A i \in 1..m : s[i] = t[i]
  PROVE  Chosen(s, kinds)[m] = Chosen(t, kinds)[m]
<1> DEFINE k == Chosen(s, kinds)
           h == Chosen(t, kinds)
           P == {n \in Nat : n <= m => k[n] = h[n]}
<1>1. /\ k[0] = << >>
      /\ \A n \in 0..Len(s) : n # 0 =>
           k[n] = IF s[n].kind \in kinds THEN Append(k[n - 1], s[n]) ELSE k[n - 1]
  BY KeptStep
<1>2. /\ h[0] = << >>
      /\ \A n \in 0..Len(t) : n # 0 =>
           h[n] = IF t[n].kind \in kinds THEN Append(h[n - 1], t[n]) ELSE h[n - 1]
  BY KeptStep
<1> HIDE DEF k, h
<1>3. 0 \in P
  BY <1>1, <1>2
<1>4. ASSUME NEW n \in Nat, n \in P PROVE n + 1 \in P
  <2> SUFFICES ASSUME n + 1 <= m PROVE k[n + 1] = h[n + 1]
    OBVIOUS
  <2>1. n + 1 \in 0..Len(s) /\ n + 1 \in 0..Len(t) /\ n + 1 # 0 /\ (n + 1) - 1 = n
    OBVIOUS
  <2>2. k[n] = h[n] /\ s[n + 1] = t[n + 1]
    BY <1>4, <2>1
  <2>3. k[n + 1] = IF s[n + 1].kind \in kinds THEN Append(k[n], s[n + 1]) ELSE k[n]
    BY <1>1, <2>1
  <2>4. h[n + 1] = IF t[n + 1].kind \in kinds THEN Append(h[n], t[n + 1]) ELSE h[n]
    BY <1>2, <2>1
  <2> QED
    BY <2>2, <2>3, <2>4
<1>5. Nat \subseteq P
  <2> HIDE DEF P
  <2> QED
    BY <1>3, <1>4, SetInduction
<1>6. k[m] = h[m]
  BY <1>5
<1> QED
  BY <1>6 DEF k, h

\* The filter reads left to right.
LEMMA OfKindAppend ==
  ASSUME NEW S, NEW s \in Seq(S), NEW e \in S, NEW kinds
  PROVE  OfKind(Append(s, e), kinds) =
           IF e.kind \in kinds THEN Append(OfKind(s, kinds), e) ELSE OfKind(s, kinds)
<1> DEFINE t == Append(s, e)
           k == Chosen(t, kinds)
<1>1. t \in Seq(S) /\ Len(t) = Len(s) + 1 /\ t[Len(s) + 1] = e
      /\ (\A i \in 1..Len(s) : s[i] = t[i]) /\ Len(s) \in Nat
  OBVIOUS
<1> HIDE DEF t
<1>2. k[Len(s)] = Chosen(s, kinds)[Len(s)]
  <2>1. Len(s) <= Len(s) /\ Len(s) <= Len(t)
    BY <1>1
  <2> QED
    BY <1>1, <2>1, KeptAgree
<1>3. OfKind(t, kinds) = k[Len(s) + 1] /\ OfKind(s, kinds) = Chosen(s, kinds)[Len(s)]
  BY <1>1, ChosenKeeps
<1>4. k[Len(s) + 1] = IF e.kind \in kinds THEN Append(k[Len(s)], e) ELSE k[Len(s)]
  <2>1. Len(s) + 1 \in 0..Len(t) /\ Len(s) + 1 # 0 /\ (Len(s) + 1) - 1 = Len(s)
    BY <1>1
  <2> HIDE DEF k
  <2>2. \A n \in 0..Len(t) : n # 0 =>
           k[n] = IF t[n].kind \in kinds THEN Append(k[n - 1], t[n]) ELSE k[n - 1]
    BY <1>1, KeptStep DEF k
  <2> QED
    BY <1>1, <2>1, <2>2
<1> HIDE DEF k
<1>5. OfKind(t, kinds) =
           IF e.kind \in kinds THEN Append(OfKind(s, kinds), e) ELSE OfKind(s, kinds)
  BY <1>2, <1>3, <1>4
<1> QED
  BY <1>5 DEF t

LEMMA OfKindType ==
  ASSUME NEW S, NEW s \in Seq(S), NEW kinds
  PROVE  OfKind(s, kinds) \in Seq({f \in S : f.kind \in kinds})
<1>1. Len(s) \in 0..Len(s)
  OBVIOUS
<1> QED
  BY <1>1, KeptType, ChosenKeeps

LEMMA KeptNone ==
  ASSUME NEW S, NEW s \in Seq(S), NEW kinds
  PROVE  Chosen(s, kinds)[0] = << >>
  BY KeptStep

LEMMA OfKindEmpty ==
  ASSUME NEW kinds
  PROVE  OfKind(<< >>, kinds) = << >>
<1> DEFINE e == << >>
<1>1. e \in Seq(Nat) /\ Len(e) = 0
  OBVIOUS
<1> HIDE DEF e
<1>2. OfKind(e, kinds) = Chosen(e, kinds)[Len(e)]
  BY <1>1, ChosenKeeps
<1>3. Chosen(e, kinds)[0] = << >>
  BY <1>1, KeptNone
<1>4. OfKind(e, kinds) = << >>
  BY <1>1, <1>2, <1>3
<1> QED
  BY <1>4 DEF e

LEMMA PrefixIs ==
  ASSUME NEW S, NEW s \in Seq(S), NEW t \in Seq(S)
  PROVE  IsPrefix(s, t) <=> Len(s) <= Len(t) /\ \A i \in 1..Len(s) : s[i] = t[i]
  BY DEF IsPrefix

\* What is kept of a beginning is a beginning of what is kept.
LEMMA OfKindPrefix ==
  ASSUME NEW S, NEW s \in Seq(S), NEW t \in Seq(S), IsPrefix(s, t), NEW kinds
  PROVE  IsPrefix(OfKind(s, kinds), OfKind(t, kinds))
<1> DEFINE k == Chosen(t, kinds)
           T == {f \in S : f.kind \in kinds}
           P == {n \in Nat : Len(s) + n <= Len(t) => IsPrefix(k[Len(s)], k[Len(s) + n])}
<1>1. Len(s) \in Nat /\ Len(t) \in Nat /\ Len(s) <= Len(t) /\ \A i \in 1..Len(s) : s[i] = t[i]
  BY PrefixIs
<1>2. \A n \in 0..Len(t) : n # 0 =>
        k[n] = IF t[n].kind \in kinds THEN Append(k[n - 1], t[n]) ELSE k[n - 1]
  BY KeptStep
<1>3. \A n \in 0..Len(t) : k[n] \in Seq(T)
  BY KeptType
<1>4. k[Len(s)] = Chosen(s, kinds)[Len(s)]
  <2>1. Len(s) <= Len(s)
    BY <1>1
  <2> QED
    BY <1>1, <2>1, KeptAgree
<1>5. OfKind(s, kinds) = k[Len(s)] /\ OfKind(t, kinds) = k[Len(t)]
  BY <1>4, ChosenKeeps
<1> HIDE DEF k
<1>6. 0 \in P
  <2>1. Len(s) + 0 = Len(s) /\ Len(s) \in 0..Len(t)
    BY <1>1
  <2>2. IsPrefix(k[Len(s)], k[Len(s)])
    <3>1. k[Len(s)] \in Seq(T)
      BY <1>3, <2>1
    <3> HIDE DEF T
    <3>2. Len(k[Len(s)]) <= Len(k[Len(s)])
      BY <3>1
    <3> QED
      BY <3>1, <3>2, PrefixIs
  <2> QED
    BY <2>1, <2>2
<1>7. ASSUME NEW n \in Nat, n \in P PROVE n + 1 \in P
  <2> SUFFICES ASSUME Len(s) + (n + 1) <= Len(t)
               PROVE  IsPrefix(k[Len(s)], k[Len(s) + (n + 1)])
    OBVIOUS
  <2> DEFINE j == Len(s) + n
  <2>1. /\ j \in 0..Len(t) /\ j + 1 \in 0..Len(t) /\ j + 1 # 0 /\ (j + 1) - 1 = j
        /\ Len(s) \in 0..Len(t) /\ j + 1 \in 1..Len(t) /\ Len(s) + (n + 1) = j + 1
    BY <1>1
  <2>2. IsPrefix(k[Len(s)], k[j])
    BY <1>1, <1>7, <2>1
  <2> HIDE DEF j
  <2>3. k[j + 1] = IF t[j + 1].kind \in kinds THEN Append(k[j], t[j + 1]) ELSE k[j]
    BY <1>2, <2>1
  <2>4. /\ k[Len(s)] \in Seq(T) /\ k[j] \in Seq(T) /\ k[j + 1] \in Seq(T)
        /\ t[j + 1] \in S
    BY <1>3, <2>1
  <2>5. /\ Len(k[Len(s)]) <= Len(k[j])
        /\ \A i \in 1..Len(k[Len(s)]) : k[Len(s)][i] = k[j][i]
    BY <2>2, <2>4, PrefixIs
  <2>6. /\ Len(k[Len(s)]) <= Len(k[j + 1])
        /\ \A i \in 1..Len(k[Len(s)]) : k[Len(s)][i] = k[j + 1][i]
    <3>1. CASE t[j + 1].kind \in kinds
      <4>1. k[j + 1] = Append(k[j], t[j + 1])
        BY <2>3, <3>1
      <4>2. /\ Len(k[j + 1]) = Len(k[j]) + 1
            /\ \A i \in 1..Len(k[j]) : k[j + 1][i] = k[j][i]
        BY <2>4, <4>1
      <4> QED
        BY <2>4, <2>5, <4>2
    <3>2. CASE t[j + 1].kind \notin kinds
      BY <2>3, <2>5, <3>2
    <3> QED
      BY <3>1, <3>2
  <2>7. IsPrefix(k[Len(s)], k[j + 1])
    BY <2>4, <2>6, PrefixIs
  <2> QED
    BY <2>1, <2>7
<1>8. Nat \subseteq P
  <2> HIDE DEF P
  <2> QED
    BY <1>6, <1>7, SetInduction
<1>9. /\ Len(t) - Len(s) \in Nat /\ Len(s) + (Len(t) - Len(s)) = Len(t)
  BY <1>1
<1>10. IsPrefix(k[Len(s)], k[Len(t)])
  <2>1. Len(t) - Len(s) \in P
    BY <1>8, <1>9
  <2> QED
    BY <1>1, <1>9, <2>1
<1> QED
  BY <1>5, <1>10

\* Filtering a second time, by kinds the first filter lets through.
LEMMA OfKindTwice ==
  ASSUME NEW S, NEW s \in Seq(S), NEW A, NEW B, A \subseteq B
  PROVE  OfKind(OfKind(s, B), A) = OfKind(s, A)
<1> DEFINE k == Chosen(s, A)
           h == Chosen(s, B)
           P == {n \in Nat : n <= Len(s) => OfKind(h[n], A) = k[n]}
<1>1. /\ k[0] = << >>
      /\ \A n \in 0..Len(s) : n # 0 =>
           k[n] = IF s[n].kind \in A THEN Append(k[n - 1], s[n]) ELSE k[n - 1]
  BY KeptStep
<1>2. /\ h[0] = << >>
      /\ \A n \in 0..Len(s) : n # 0 =>
           h[n] = IF s[n].kind \in B THEN Append(h[n - 1], s[n]) ELSE h[n - 1]
  BY KeptStep
<1>3. \A n \in 0..Len(s) : h[n] \in Seq({f \in S : f.kind \in B})
  BY KeptType
<1>4. OfKind(s, A) = k[Len(s)] /\ OfKind(s, B) = h[Len(s)] /\ Len(s) \in Nat
  BY ChosenKeeps
<1> HIDE DEF k, h
<1>5. 0 \in P
  BY <1>1, <1>2, OfKindEmpty
<1>6. ASSUME NEW n \in Nat, n \in P PROVE n + 1 \in P
  <2> SUFFICES ASSUME n + 1 <= Len(s) PROVE OfKind(h[n + 1], A) = k[n + 1]
    OBVIOUS
  <2>1. /\ n + 1 \in 0..Len(s) /\ n + 1 # 0 /\ (n + 1) - 1 = n
        /\ n + 1 \in 1..Len(s) /\ n \in 0..Len(s)
    BY <1>4
  <2>2. OfKind(h[n], A) = k[n] /\ s[n + 1] \in S
    BY <1>4, <1>6, <2>1
  <2>3. k[n + 1] = IF s[n + 1].kind \in A THEN Append(k[n], s[n + 1]) ELSE k[n]
    BY <1>1, <2>1
  <2>4. h[n + 1] = IF s[n + 1].kind \in B THEN Append(h[n], s[n + 1]) ELSE h[n]
    BY <1>2, <2>1
  <2>5. h[n] \in Seq(S)
    <3>1. h[n] \in Seq({f \in S : f.kind \in B})
      BY <1>3, <2>1
    <3> QED
      BY <3>1
  <2>6. OfKind(Append(h[n], s[n + 1]), A) =
          IF s[n + 1].kind \in A THEN Append(OfKind(h[n], A), s[n + 1]) ELSE OfKind(h[n], A)
    <3> DEFINE q == h[n]
               e == s[n + 1]
    <3>1. q \in Seq(S) /\ e \in S
      BY <2>2, <2>5
    <3> HIDE DEF q, e
    <3>2. OfKind(Append(q, e), A) =
            IF e.kind \in A THEN Append(OfKind(q, A), e) ELSE OfKind(q, A)
      BY <3>1, OfKindAppend
    <3> QED
      BY <3>2 DEF q, e
  <2> QED
    BY <2>2, <2>3, <2>4, <2>6
<1>7. Nat \subseteq P
  <2> HIDE DEF P
  <2> QED
    BY <1>5, <1>6, SetInduction
<1>8. Len(s) \in P
  BY <1>4, <1>7
<1> QED
  BY <1>4, <1>8

-----------------------------------------------------------------------------
(* What the capture reports. *)

FRAME == REPLY \cup {Probe}

\* The frames that _read_pcap_filtering_probes lets through.
Passed(s) == OfKind(s, Kinds \ {"probe"})

CapTypes == kq \in Seq(FRAME) /\ pcap \in Seq(FRAME) /\ tape \in Seq(REPLY)

\* tcpdump starts before the body does, with an empty file.
Starting == td = "starting" => pc \in {"probe", "peek"} /\ pcap = << >>

\* As long as tcpdump lives, the file and the kernel's queue together hold
\* all that crossed; whatever becomes of it, the file holds the beginning.
Recorded == /\ IsPrefix(Passed(pcap), tape)
            /\ td \in {"starting", "capturing"} => tape = Passed(pcap \o kq)

\* wait_for_frames has what it wants of the records it has read.
Found == seen \in 0..Len(pcap) /\ matches = OfKind(SubSeq(pcap, 1, seen), Wanted)

Reported == outcome = "ok" => /\ td = "gone" /\ pc \in {"exited", "idle", "over"}
                              /\ frames = Passed(pcap)

Ordered == CapTypes /\ Starting /\ Recorded /\ Found /\ Reported

LEMMA PassedAppend ==
  ASSUME NEW s \in Seq(FRAME)
  PROVE  /\ Passed(Append(s, Probe)) = Passed(s)
         /\ \A f \in REPLY : Passed(Append(s, f)) = Append(Passed(s), f)
<1> DEFINE K == Kinds \ {"probe"}
<1>1. Probe \in FRAME /\ Probe.kind \notin K
  BY DEF FRAME, Probe, Kinds
<1>2. \A f \in REPLY : f \in FRAME /\ f.kind \in K
  BY DEF FRAME, REPLY, Kinds
<1> HIDE DEF K
<1>3. OfKind(Append(s, Probe), K) = OfKind(s, K)
  BY <1>1, OfKindAppend
<1>4. ASSUME NEW f \in REPLY PROVE OfKind(Append(s, f), K) = Append(OfKind(s, K), f)
  BY <1>2, OfKindAppend
<1> QED
  BY <1>3, <1>4 DEF Passed, K

LEMMA PassedType ==
  ASSUME NEW s \in Seq(FRAME)
  PROVE  Passed(s) \in Seq(REPLY)
<1> DEFINE K == Kinds \ {"probe"}
           T == {f \in FRAME : f.kind \in K}
<1>1. T \subseteq REPLY
  BY DEF FRAME, Probe, REPLY, Kinds
<1>2. OfKind(s, K) \in Seq(T)
  BY OfKindType
<1> HIDE DEF K, T
<1> QED
  BY <1>1, <1>2, SeqMono DEF Passed, K

LEMMA PassedPrefix ==
  ASSUME NEW s \in Seq(FRAME), NEW t \in Seq(FRAME), IsPrefix(s, t)
  PROVE  IsPrefix(Passed(s), Passed(t))
  BY OfKindPrefix DEF Passed

LEMMA ConcatIs ==
  ASSUME NEW S, NEW s \in Seq(S), NEW t \in Seq(S)
  PROVE  /\ s \o t \in Seq(S) /\ IsPrefix(s, s \o t)
         /\ \A e \in S : s \o Append(t, e) = Append(s \o t, e)
         /\ t # << >> => Append(s, Head(t)) \o Tail(t) = s \o t
<1>1. s \o t \in Seq(S)
  OBVIOUS
<1>2. IsPrefix(s, s \o t)
  <2>1. Len(s) <= Len(s \o t) /\ \A i \in 1..Len(s) : s[i] = (s \o t)[i]
    OBVIOUS
  <2> QED
    BY <1>1, <2>1, PrefixIs
<1>3. ASSUME NEW e \in S PROVE s \o Append(t, e) = Append(s \o t, e)
  OBVIOUS
<1>4. t # << >> => Append(s, Head(t)) \o Tail(t) = s \o t
  OBVIOUS
<1> QED
  BY <1>1, <1>2, <1>3, <1>4

LEMMA PrefixTrans ==
  ASSUME NEW S, NEW s \in Seq(S), NEW t \in Seq(S), NEW u \in Seq(S),
         IsPrefix(s, t), IsPrefix(t, u)
  PROVE  IsPrefix(s, u)
<1>1. /\ Len(s) <= Len(t) /\ \A i \in 1..Len(s) : s[i] = t[i]
      /\ Len(t) <= Len(u) /\ \A i \in 1..Len(t) : t[i] = u[i]
  BY PrefixIs
<1>2. Len(s) <= Len(u) /\ \A i \in 1..Len(s) : s[i] = u[i]
  BY <1>1
<1> QED
  BY <1>2, PrefixIs

LEMMA PrefixAppend ==
  ASSUME NEW S, NEW s \in Seq(S), NEW t \in Seq(S), NEW e \in S, IsPrefix(s, t)
  PROVE  IsPrefix(s, Append(t, e))
<1>1. Len(s) <= Len(t) /\ \A i \in 1..Len(s) : s[i] = t[i]
  BY PrefixIs
<1>2. /\ Append(t, e) \in Seq(S)
      /\ Len(s) <= Len(Append(t, e)) /\ \A i \in 1..Len(s) : s[i] = Append(t, e)[i]
  BY <1>1
<1> QED
  BY <1>2, PrefixIs

LEMMA BeginIs ==
  ASSUME NEW S, NEW s \in Seq(S), NEW n \in 0..Len(s)
  PROVE  /\ SubSeq(s, 1, n) \in Seq(S) /\ IsPrefix(SubSeq(s, 1, n), s)
         /\ n < Len(s) => SubSeq(s, 1, n + 1) = Append(SubSeq(s, 1, n), s[n + 1])
         /\ \A e \in S : SubSeq(Append(s, e), 1, n) = SubSeq(s, 1, n)
<1>1. SubSeq(s, 1, n) \in Seq(S) /\ Len(SubSeq(s, 1, n)) = n
      /\ \A i \in 1..n : SubSeq(s, 1, n)[i] = s[i]
  OBVIOUS
<1>2. IsPrefix(SubSeq(s, 1, n), s)
  <2> DEFINE b == SubSeq(s, 1, n)
  <2>1. b \in Seq(S) /\ Len(b) <= Len(s) /\ \A i \in 1..Len(b) : b[i] = s[i]
    BY <1>1
  <2> HIDE DEF b
  <2>2. IsPrefix(b, s)
    BY <2>1, PrefixIs
  <2> QED
    BY <2>2 DEF b
<1>3. n < Len(s) => SubSeq(s, 1, n + 1) = Append(SubSeq(s, 1, n), s[n + 1])
  OBVIOUS
<1>4. \A e \in S : SubSeq(Append(s, e), 1, n) = SubSeq(s, 1, n)
  OBVIOUS
<1> QED
  BY <1>1, <1>2, <1>3, <1>4

\* Steps that leave what was captured alone.
LEMMA SameRecords ==
  ASSUME Ordered, UNCHANGED << pcap, tape >>,
         td' \in {"starting", "capturing"} => td \in {"starting", "capturing"} /\ kq' = kq
  PROVE  Recorded'
  BY DEF Ordered, Recorded

LEMMA CapStepOrdered == ASSUME Ordered, CapStep PROVE Ordered'
<1>1. CapTypes /\ Starting /\ Recorded /\ Found /\ Reported
  BY DEF Ordered
<1>2. pcap' = pcap /\ tape' = tape /\ (kq' = kq \/ kq' = Append(kq, Probe))
  BY DEF CapStep, ProbeSend, ProbeDead, ProbeTimeout, EnterFails, ProbePeek,
         WaitOpen, WaitNext, WaitEof, WaitExpires,
              ExitParse, ExitUnreadable, ExitTimeout
<1>3. td' = td \/ td' = "gone"
  BY DEF CapStep, ProbeSend, ProbeDead, ProbeTimeout, EnterFails, ProbePeek,
         WaitOpen, WaitNext, WaitEof, WaitExpires,
              ExitParse, ExitUnreadable, ExitTimeout
<1>4. CapTypes'
  <2>1. kq' \in Seq(FRAME)
    BY <1>1, <1>2, SeqAppend DEF CapTypes, FRAME
  <2> QED
    BY <1>1, <1>2, <2>1 DEF CapTypes
<1>5. Starting'
  <2>1. CASE ProbePeek
    <3>1. td' = td /\ (pc' = "body" => ProbeSeen) /\ pc' \in {"probe", "body"}
      BY <2>1 DEF ProbePeek
    <3>2. td = "starting" => ~ProbeSeen
      BY <1>1 DEF Starting, ProbeSeen
    <3> QED
      BY <1>1, <1>2, <3>1, <3>2 DEF Starting
  <2>2. CASE ~ProbePeek
    BY <1>1, <2>2 DEF Starting, CapStep, ProbeSend, ProbeDead, ProbeTimeout, EnterFails,
         WaitOpen, WaitNext, WaitEof, WaitExpires,
              ExitParse, ExitUnreadable, ExitTimeout
  <2> QED
    BY <2>1, <2>2
<1>6. Recorded'
  <2>1. pcap \in Seq(FRAME) /\ kq \in Seq(FRAME) /\ Probe \in FRAME
    BY <1>1 DEF CapTypes, FRAME
  <2>2. Passed(pcap \o Append(kq, Probe)) = Passed(pcap \o kq)
    <3>1. pcap \o kq \in Seq(FRAME) /\ pcap \o Append(kq, Probe) = Append(pcap \o kq, Probe)
      BY <2>1, ConcatIs
    <3> QED
      BY <3>1, PassedAppend
  <2>3. Passed(pcap' \o kq') = Passed(pcap \o kq)
    BY <1>2, <2>2
  <2> QED
    BY <1>1, <1>2, <1>3, <2>3 DEF Recorded
<1>7. Found'
  <2>1. CASE WaitNext
    <3> DEFINE b == SubSeq(pcap, 1, seen)
               f == pcap[seen + 1]
    <3>1. /\ seen \in 0..Len(pcap) /\ seen < Len(pcap) /\ seen' = seen + 1
          /\ matches = OfKind(b, Wanted) /\ pcap \in Seq(FRAME)
          /\ matches' = IF ~IsProbe(f) /\ f.kind \in Wanted THEN Append(matches, f) ELSE matches
      BY <1>1, <2>1 DEF WaitNext, Found, CapTypes
    <3>2. seen' \in 0..Len(pcap) /\ seen + 1 \in 1..Len(pcap)
      BY <3>1
    <3>3. b \in Seq(FRAME) /\ SubSeq(pcap, 1, seen + 1) = Append(b, f)
      BY <3>1, BeginIs
    <3>4. f \in FRAME
      BY <3>1, <3>2
    <3> HIDE DEF b, f
    <3>5. f.kind \in Wanted => ~IsProbe(f)
      BY DEF Wanted, IsProbe
    <3>6. OfKind(Append(b, f), Wanted) =
            IF f.kind \in Wanted THEN Append(OfKind(b, Wanted), f) ELSE OfKind(b, Wanted)
      BY <3>3, <3>4, OfKindAppend
    <3>7. matches' = OfKind(SubSeq(pcap, 1, seen'), Wanted)
      BY <3>1, <3>3, <3>5, <3>6
    <3> QED
      BY <1>2, <3>2, <3>7 DEF Found
  <2>2. CASE ~WaitNext
    <3>1. seen' = seen /\ matches' = matches
      BY <2>2 DEF CapStep, ProbeSend, ProbeDead, ProbeTimeout, EnterFails, ProbePeek,
                  WaitOpen, WaitEof, WaitExpires,
              ExitParse, ExitUnreadable, ExitTimeout
    <3> QED
      BY <1>1, <1>2, <3>1 DEF Found
  <2> QED
    BY <2>1, <2>2
<1>8. Reported'
  <2>1. CASE ExitParse
    BY <2>1 DEF ExitParse, _read_pcap_filtering_probes, Passed, Reported
  <2>2. CASE ~ExitParse
    <3>1. /\ pc \notin {"exited", "idle", "over"}
          /\ outcome' = outcome \/ outcome' = "error"
      BY <2>2 DEF CapStep, ProbeSend, ProbeDead, ProbeTimeout, EnterFails, ProbePeek,
                  WaitOpen, WaitNext, WaitEof, WaitExpires, ExitUnreadable, ExitTimeout
    <3> QED
      BY <1>1, <3>1 DEF Reported
  <2> QED
    BY <2>1, <2>2
<1> QED
  BY <1>4, <1>5, <1>6, <1>7, <1>8 DEF Ordered

LEMMA TdStepOrdered == ASSUME Ordered, TdStep PROVE Ordered'
<1>1. CapTypes /\ Starting /\ Recorded /\ Found /\ Reported
  BY DEF Ordered
<1>2. CASE TdWrite
  <2>0. /\ td = "capturing" /\ td' = td /\ kq # << >>
        /\ pcap' = Append(pcap, Head(kq)) /\ kq' = Tail(kq) /\ tape' = tape
        /\ pc' = pc /\ seen' = seen /\ matches' = matches /\ outcome' = outcome
    BY <1>2 DEF TdWrite
  <2>1. /\ kq \in Seq(FRAME) /\ pcap \in Seq(FRAME)
        /\ Head(kq) \in FRAME /\ Tail(kq) \in Seq(FRAME)
    BY <1>1, <2>0, SeqTake DEF CapTypes
  <2>2. CapTypes'
    BY <1>1, <2>0, <2>1, SeqAppend DEF CapTypes
  <2>3. pcap' \o kq' = pcap \o kq
    BY <2>0, <2>1, ConcatIs
  <2>4. tape = Passed(pcap' \o kq')
    BY <1>1, <2>0, <2>3 DEF Recorded
  <2>5. IsPrefix(Passed(pcap'), tape)
    <3>1. /\ pcap' \in Seq(FRAME) /\ pcap' \o kq' \in Seq(FRAME)
          /\ IsPrefix(pcap', pcap' \o kq')
      BY <2>2, ConcatIs DEF CapTypes
    <3> QED
      BY <2>4, <3>1, PassedPrefix
  <2>6. Recorded'
    BY <2>0, <2>4, <2>5 DEF Recorded
  <2>7. Found'
    <3>1. Len(pcap') = Len(pcap) + 1
      BY <2>0, <2>1
    <3>2. seen \in 0..Len(pcap) /\ seen \in 0..Len(pcap')
      BY <1>1, <2>1, <3>1 DEF Found
    <3>3. SubSeq(pcap', 1, seen) = SubSeq(pcap, 1, seen)
      BY <2>0, <2>1, <3>2, BeginIs
    <3> QED
      BY <1>1, <2>0, <3>2, <3>3 DEF Found
  <2>8. Starting' /\ Reported'
    BY <1>1, <2>0 DEF Starting, Reported
  <2> QED
    BY <2>2, <2>6, <2>7, <2>8 DEF Ordered
<1>3. CASE TdStart \/ TdFails \/ TdStops
  <2>1. /\ pcap' = pcap /\ tape' = tape /\ pc' = pc /\ seen' = seen /\ matches' = matches
        /\ outcome' = outcome /\ frames' = frames
        /\ kq' = kq \/ (kq' = << >> /\ td' = "gone")
        /\ td \in {"starting", "capturing"} /\ td' \in {"capturing", "gone", "hung"}
    BY <1>3 DEF TdStart, TdFails, TdStops
  <2>2. CapTypes'
    BY <1>1, <2>1, SeqEmpty DEF CapTypes
  <2>3. Recorded'
    BY <2>1, SameRecords
  <2>4. Starting' /\ Found' /\ Reported'
    BY <1>1, <2>1 DEF Starting, Found, Reported
  <2> QED
    BY <2>2, <2>3, <2>4 DEF Ordered
<1> QED
  BY <1>2, <1>3 DEF TdStep

LEMMA SessionOrdered ==
  ASSUME Ordered, BodySend \/ BodyRaises \/ BodyEnds \/ TakeReply
  PROVE  Ordered'
<1>1. CapTypes /\ Starting /\ Recorded /\ Found /\ Reported
  BY DEF Ordered
<1>2. UNCHANGED << td, kq, pcap, tape, frames, outcome >>
  BY DEF BodySend, BodyRaises, BodyEnds, TakeReply
<1>3. /\ pc \notin {"probe", "peek"}
      /\ pc \in {"exited", "idle", "over"} => pc' \in {"exited", "idle", "over"}
  BY DEF BodySend, BodyRaises, BodyEnds, TakeReply, Connected, Advance
<1>4. CapTypes' /\ Starting' /\ Reported'
  BY <1>1, <1>2, <1>3 DEF CapTypes, Starting, Reported
<1>5. Recorded'
  BY <1>2, SameRecords
<1>6. Found'
  <2>1. CASE BodySend
    <3>1. seen' = 0 /\ matches' = << >> /\ pcap' = pcap
      BY <2>1 DEF BodySend, StartWait
    <3>2. pcap \in Seq(FRAME) /\ 0 \in 0..Len(pcap) /\ SubSeq(pcap, 1, 0) = << >>
      BY <1>1 DEF CapTypes
    <3> QED
      BY <3>1, <3>2, OfKindEmpty DEF Found
  <2>2. CASE ~BodySend
    <3>1. seen' = seen /\ matches' = matches
      BY <2>2 DEF BodyRaises, BodyEnds, TakeReply
    <3> QED
      BY <1>1, <1>2, <3>1 DEF Found
  <2> QED
    BY <2>1, <2>2
<1> QED
  BY <1>4, <1>5, <1>6 DEF Ordered

\* No block yet, or one that begins.
Blank == /\ kq = << >> /\ pcap = << >> /\ tape = << >> /\ seen = 0 /\ matches = << >>
         /\ td = "starting" => pc \in {"probe", "peek"}
         /\ outcome # "ok"

LEMMA BlankOrdered == Blank => Ordered
<1> SUFFICES ASSUME Blank PROVE Ordered
  OBVIOUS
<1> USE DEF Blank
<1>1. CapTypes /\ Starting /\ Reported
  BY SeqEmpty DEF CapTypes, Starting, Reported
<1>2. Passed(<< >>) = << >> /\ OfKind(<< >>, Wanted) = << >>
  BY OfKindEmpty DEF Passed
<1>3. pcap \o kq = << >> /\ Len(pcap) = 0 /\ SubSeq(pcap, 1, 0) = << >>
  OBVIOUS
<1>4. IsPrefix(<< >>, << >>)
  BY DEF IsPrefix
<1>5. Recorded
  BY <1>2, <1>3, <1>4 DEF Recorded
<1>6. Found
  <2>1. seen \in 0..Len(pcap) /\ SubSeq(pcap, 1, seen) = << >>
    BY <1>3
  <2> QED
    BY <1>2, <2>1 DEF Found
<1> QED
  BY <1>1, <1>5, <1>6 DEF Ordered

LEMMA StartOrdered == ASSUME Ordered, StartOp PROVE Ordered'
<1>1. CASE Opened /\ pc' = "probe" /\ outcome' = "none"
  <2>1. Blank'
    BY <1>1 DEF Opened, Blank
  <2>2. Blank' => Ordered'
    BY BlankOrdered, PTL
  <2> QED
    BY <2>1, <2>2
<1>2. CASE /\ pc' = "over" /\ outcome' = "nospawn"
           /\ UNCHANGED << td, kq, pcap, polls, seen, count, matches, frames, tape >>
  <2>1. td # "starting"
    BY DEF StartOp, Ordered, Starting
  <2> QED
    BY <1>2, <2>1 DEF Ordered, CapTypes, Starting, Recorded, Found, Reported
<1> QED
  BY <1>1, <1>2 DEF StartOp, Open

\* Frame f of the Pi reaches the laptop, or is lost.
LEMMA EmitOrdered == ASSUME Ordered, NEW f \in REPLY, Emit(f) PROVE Ordered'
<1>1. CapTypes /\ Starting /\ Recorded /\ Found /\ Reported
  BY DEF Ordered
<1>2. /\ UNCHANGED << pc, td, pcap, seen, matches, frames, outcome >>
      /\ Crosses(f) \/ (kq' = kq /\ tape' = tape)
  BY DEF Emit, Lose
<1>3. Starting' /\ Found' /\ Reported'
  BY <1>1, <1>2 DEF Starting, Found, Reported
<1>4. f \in FRAME /\ kq \in Seq(FRAME) /\ pcap \in Seq(FRAME) /\ tape \in Seq(REPLY)
  BY <1>1 DEF CapTypes, FRAME
<1>5. CapTypes'
  BY <1>2, <1>4, SeqAppend DEF CapTypes, Crosses
<1>6. tape' = tape \/ tape' = Append(tape, f)
  BY <1>2 DEF Crosses
<1>7. IsPrefix(Passed(pcap), tape')
  <2>1. Passed(pcap) \in Seq(REPLY)
    BY <1>4, PassedType
  <2>2. IsPrefix(Passed(pcap), tape)
    BY <1>1 DEF Recorded
  <2>3. IsPrefix(Passed(pcap), Append(tape, f))
    BY <1>4, <2>1, <2>2, PrefixAppend
  <2> QED
    BY <1>6, <2>2, <2>3
<1>8. ASSUME td \in {"starting", "capturing"} PROVE tape' = Passed(pcap \o kq')
  <2>1. tape = Passed(pcap \o kq)
    BY <1>1, <1>8 DEF Recorded
  <2>2. CASE kq' = kq /\ tape' = tape
    BY <2>1, <2>2
  <2>3. CASE Crosses(f) /\ td = "starting"
    <3>1. ~InBody
      BY <1>1, <2>3 DEF Starting, InBody
    <3> QED
      BY <2>1, <2>3, <3>1 DEF Crosses
  <2>4. CASE Crosses(f) /\ td = "capturing"
    <3>1. kq' = Append(kq, f) /\ tape' = Append(tape, f)
      BY <2>4 DEF Crosses
    <3>2. pcap \o kq \in Seq(FRAME) /\ pcap \o Append(kq, f) = Append(pcap \o kq, f)
      BY <1>4, ConcatIs
    <3>3. Passed(Append(pcap \o kq, f)) = Append(Passed(pcap \o kq), f)
      BY <3>2, PassedAppend
    <3> QED
      BY <2>1, <3>1, <3>2, <3>3
  <2> QED
    BY <1>2, <1>8, <2>2, <2>3, <2>4
<1>9. Recorded'
  BY <1>2, <1>7, <1>8 DEF Recorded
<1> QED
  BY <1>3, <1>5, <1>9 DEF Ordered

\* Whatever the Pi emits is a reply.
LEMMA PiEmits ==
  ASSUME IInv, IInv', PiReceives \/ PiResponds \/ PiRetransmits
  PROVE  UNCHANGED capVars \/ \E f \in REPLY : Emit(f)
<1>1. /\ pi.rcv \in Nat /\ pi.snd \in Nat /\ pi.una \in Nat
      /\ pi'.rcv \in Nat /\ pi'.snd \in Nat
  BY DEF IInv, TypeInv, PI
<1>2. \A fl \in {"SA", "A", "R"}, sq \in Nat, ak \in Nat, ln \in {0, 1}, k \in Nat :
        Reply(fl, sq, ak, ln, k) \in REPLY
  BY DEF Reply, REPLY
<1>3. CASE PiReceives
  <2> DEFINE s == Head(toPi)
  <2>1. s.id \in Nat
    BY <1>3, SegIs DEF PiReceives
  <2>2. PiSyn(s) \/ PiSynRcvd(s) \/ PiEstab(s) \/ PiClosing(s)
    BY <1>3 DEF PiReceives
  <2> HIDE DEF s
  <2>3. /\ Reply("SA", 0, pi'.rcv, 0, s.id) \in REPLY
        /\ Reply("R", 0, 0, 0, s.id) \in REPLY
        /\ Reply("A", pi'.snd, pi'.rcv, 0, s.id) \in REPLY
    BY <1>1, <1>2, <2>1
  <2> QED
    BY <2>2, <2>3 DEF PiSyn, PiSynRcvd, PiEstab, PiClosing, PiAck
<1>4. CASE PiResponds
  <2>1. Head(pi.due) \in Nat
    BY <1>4, SeqTake DEF PiResponds, IInv, TypeInv, PI
  <2>2. Reply("A", pi.snd, pi.rcv, 1, Head(pi.due)) \in REPLY
    BY <1>1, <1>2, <2>1
  <2> QED
    BY <1>4, <2>2 DEF PiResponds
<1>5. CASE PiRetransmits
  <2>1. Reply("SA", 0, pi.rcv, 0, 0) \in REPLY /\ Reply("A", pi.una, pi.rcv, 1, 0) \in REPLY
    BY <1>1, <1>2
  <2> QED
    BY <1>5, <2>1 DEF PiRetransmits
<1> QED
  BY <1>3, <1>4, <1>5

LEMMA SameOrdered == ASSUME Ordered, UNCHANGED capVars PROVE Ordered'
  BY DEF capVars, Ordered, CapTypes, Starting, Recorded, Found, Reported

LEMMA OrderedNext == ASSUME IInv, IInv', Ordered, [Next]_vars PROVE Ordered'
<1>1. CASE UNCHANGED vars
  BY <1>1, SameOrdered DEF vars
<1>2. CASE Capturing
  BY <1>2, CapStepOrdered, TdStepOrdered DEF Capturing
<1>3. CASE AckLast
  BY <1>3, SameOrdered DEF AckLast
<1>4. CASE PiReceives \/ PiResponds \/ PiRetransmits
  BY <1>4, PiEmits, EmitOrdered, SameOrdered
<1> QED
  BY <1>1, <1>2, <1>3, <1>4, StartOrdered, SessionOrdered DEF Next

LEMMA OrderedImplies == ASSUME Ordered PROVE CapturedInOrder
<1> DEFINE b == SubSeq(pcap, 1, seen)
           p == Passed(pcap)
<1>1. /\ pcap \in Seq(FRAME) /\ tape \in Seq(REPLY) /\ seen \in 0..Len(pcap)
      /\ matches = OfKind(b, Wanted) /\ IsPrefix(p, tape)
      /\ outcome = "ok" => frames = p
  BY DEF Ordered, CapTypes, Recorded, Found, Reported
<1>2. p \in Seq(REPLY)
  BY <1>1, PassedType
<1>3. b \in Seq(FRAME) /\ IsPrefix(b, pcap)
  BY <1>1, BeginIs
<1> HIDE DEF b
<1>4. IsPrefix(matches, OfKind(pcap, Wanted))
  BY <1>1, <1>3, OfKindPrefix
<1>5. OfKind(p, Wanted) = OfKind(pcap, Wanted)
  <2>1. Wanted \subseteq Kinds \ {"probe"}
    BY DEF Wanted, Kinds
  <2> QED
    BY <1>1, <2>1, OfKindTwice DEF Passed
<1> HIDE DEF p
<1>6. IsPrefix(OfKind(p, Wanted), OfKind(tape, Wanted))
  BY <1>1, <1>2, OfKindPrefix
<1>7. /\ OfKind(p, Wanted) \in Seq(REPLY) /\ OfKind(tape, Wanted) \in Seq(REPLY)
      /\ OfKind(b, Wanted) \in Seq(FRAME) /\ REPLY \subseteq FRAME
  <2>1. ASSUME NEW S, NEW s \in Seq(S) PROVE OfKind(s, Wanted) \in Seq(S)
    <3>1. OfKind(s, Wanted) \in Seq({f \in S : f.kind \in Wanted})
      BY OfKindType
    <3>2. {f \in S : f.kind \in Wanted} \subseteq S
      OBVIOUS
    <3> QED
      BY <3>1, <3>2, SeqMono
  <2> QED
    BY <1>1, <1>2, <1>3, <2>1 DEF FRAME
<1>8. /\ matches \in Seq(FRAME) /\ OfKind(p, Wanted) \in Seq(FRAME)
      /\ OfKind(tape, Wanted) \in Seq(FRAME)
  BY <1>1, <1>7, SeqMono
<1>9. IsPrefix(matches, OfKind(tape, Wanted))
  BY <1>4, <1>5, <1>6, <1>8, PrefixTrans
<1> QED
  BY <1>1, <1>4, <1>5, <1>9 DEF CapturedInOrder

\* What a capture reports has no gap, no duplicate, no probe and the order
\* of the wire, for any number of frames, polls, faults and exchanges:
\* wait_for_frames returned the beginning of the frames that were wanted,
\* although it read the file while tcpdump wrote it, and frame_bytes is the
\* beginning of what crossed the wire, whatever became of tcpdump.
THEOREM InOrder == Spec => []CapturedInOrder
<1>1. Init => Ordered
  BY BlankOrdered DEF Init, CapInit, Blank
<1>2. Spec => [](IInv /\ Ordered)
  BY <1>1, InitOK, NextOK, OrderedNext, PTL DEF Spec
<1> QED
  BY <1>2, OrderedImplies, PTL
=============================================================================
