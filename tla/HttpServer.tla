----------------------------- MODULE HttpServer -----------------------------
(***************************************************************************)
(* lib/http.S, lib/http_output_fsa.S, lib/vmio_queue.S, lib/vmio_engine.S: *)
(* the HTTP server.  http_poll runs when the receive ring is empty: it     *)
(* scans the connections (the input side: parse, dispatch, half-close,     *)
(* slow clients), posts the events that TCP's state calls for, and steps   *)
(* the output state machine until its two queues are empty.                *)
(*                                                                         *)
(* A way is an entry of tcp_conn_table and of http_conn_table; the LISTEN  *)
(* entry never carries HTTP, which leaves N = 127 of 128.  Between two     *)
(* polls any number of frames is handled: TCP (lib/tcp.S, see TcpTable) is *)
(* the environment here, and of its states only ESTABLISHED, CLOSE_WAIT    *)
(* and "OTHER" (all the rest) matter.                                      *)
(*                                                                         *)
(* The receive buffer is a sequence of tokens: "part" does not end a       *)
(* header section; "get11", "get10", "close11" (Connection: close) and     *)
(* "post11" (one token of body follows) end one; "bad" is what the parser  *)
(* rejects.  A token read as body may be any token.  Offsets and lengths   *)
(* count tokens.  What a response says is left out, its length is not.     *)
(***************************************************************************)
EXTENDS Integers, Sequences, FiniteSetsExt

CONSTANTS
    N,              \* ways: TCP_MAX_CONNS less the LISTEN entry
    QCap,           \* HTTP_FSA_Q_CAP
    Sends,          \* bound: the tokens the clients of each way may send
    RxMax,          \* bound: tokens the receive buffer of each way holds
    HdrLen,         \* length of a response's header
    BodyLens,       \* the lengths a response's body may have (0: HEAD)
    Windows,        \* bound: the send windows a peer may advertise
    Timeout,        \* HTTP_RECV_TIMEOUT_SECS, in ticks
    TickMod         \* the tick counter is 32 bits wide

Ways == 1 .. N

Tokens == {"part", "get11", "get10", "close11", "post11", "bad"}

\* One LISTEN entry and one unusable slot in each ring: they just fit.
ASSUME HttpAssumption ==
    /\ N \in Nat \ {0} /\ QCap \in Nat /\ N + 1 <= QCap
    /\ Sends \in [Ways -> SUBSET Tokens] /\ RxMax \in [Ways -> Nat]
    /\ HdrLen \in Nat \ {0} /\ BodyLens \subseteq Nat
    /\ Windows \subseteq Nat
    /\ Timeout \in Nat \ {0} /\ TickMod \in Nat /\ Timeout < TickMod

VARIABLES
    phase,      \* "net", or where http_poll is: "scan", "events", "drain"
    at,         \* the way http_poll is at
    conn,       \* what the HTTP server sees of tcp_conn_table
    hc,         \* http_conn_table
    ostate,     \* http_fsa_ostate
    q           \* the queues and http_fsa_evt_pending

vars == <<phase, at, conn, hc, ostate, q>>

Flags == {"http11", "close", "clSeen"}

HCONN ==
    [st    : {"IDLE", "RECV_HDR", "RECV_BODY", "SENDING"},  \* HCONN_STATE
     flags : SUBSET Flags,
     ps    : {"reading", "done", "error"},  \* HCONN_PARSE_STATE
     off   : Nat,                           \* HCONN_PARSE_OFF
     req   : Nat,                           \* HCONN_REQ_LEN
     cl    : {0, 1},                        \* HCONN_CONTENT_LEN
     v11   : BOOLEAN,                       \* HCONN_VER_MINOR = '1'
     cf    : BOOLEAN,                       \* HCONN_CLOSE_FOUND
     ptr   : Nat, len : Nat,                \* HCONN_RESP_PTR, _RESP_LEN
     age   : 0 .. TickMod - 1]              \* ticks since HCONN_RECV_TICK

TCONN ==
    [state  : {"ESTABLISHED", "CLOSE_WAIT", "OTHER"},
     rx     : Seq(Tokens),      \* the receive buffer
     flight : Nat,              \* SND_NXT - SND_UNA
     wnd    : Nat]              \* TCONN_SND_WND

\* The entry of a connection that is gone.
Gone == [state |-> "OTHER", rx |-> <<>>, flight |-> 0, wnd |-> 0]

-----------------------------------------------------------------------------
(* The event queues. *)

HiEvents == {"RESP_READY", "TCP_CLOSED", "DO_CLOSE", "DO_KEEPALIVE"}
LoEvents == {"WIN_OPEN", "CHUNK_SENT", "ALL_QUEUED", "ALL_DRAINED"}
Events == HiEvents \cup LoEvents

\* The ring is full with one slot unused.
Full_early(s) == Len(s) + 2 >= QCap
Full(s) == Len(s) + 1 >= QCap

\* http_fsa_post: an event that is pending already is dropped; a full queue
\* loses the event (lost records that it ever did).
Post(r, w, e) ==
    IF <<w, e>> \in r.pending THEN r
    ELSE IF Full(IF e \in HiEvents THEN r.hi ELSE r.lo)
    THEN [r EXCEPT !.lost = TRUE]
    ELSE [r EXCEPT !.pending = @ \cup {<<w, e>>},
                   !.hi = IF e \in HiEvents THEN Append(@, <<w, e>>) ELSE @,
                   !.lo = IF e \in LoEvents THEN Append(@, <<w, e>>) ELSE @]

\* The event that the next engine step takes.
Peek == IF q.hi # <<>> THEN Head(q.hi) ELSE Head(q.lo)

\* The queues once that event is taken and its pending bit cleared.
Dequeued_nobit ==
    IF q.hi # <<>> THEN [q EXCEPT !.hi = Tail(@)] ELSE [q EXCEPT !.lo = Tail(@)]
Dequeued ==
    [q EXCEPT !.pending = @ \ {Peek},
              !.hi = IF q.hi # <<>> THEN Tail(@) ELSE @,
              !.lo = IF q.hi # <<>> THEN @ ELSE Tail(@)]

-----------------------------------------------------------------------------
(* TCP, as far as the server sees it.  Frames and timers are only handled  *)
(* between two polls.                                                      *)

\* A handshake completes in a free entry.
Establish(w) ==
    /\ phase = "net" /\ conn[w].state = "OTHER"
    /\ \E wnd \in Windows :
        conn' = [conn EXCEPT ![w] =
                    [state |-> "ESTABLISHED", rx |-> <<>>, flight |-> 0,
                     wnd |-> wnd]]
    /\ UNCHANGED <<phase, at, hc, ostate, q>>

\* Data arrives in order.
Deliver(w) ==
    /\ phase = "net" /\ conn[w].state = "ESTABLISHED"
    /\ Len(conn[w].rx) < RxMax[w]
    /\ \E t \in Sends[w] : conn' = [conn EXCEPT ![w].rx = Append(@, t)]
    /\ UNCHANGED <<phase, at, hc, ostate, q>>

\* An acknowledgment of some of what is in flight, with a window.
Ack(w) ==
    /\ phase = "net" /\ conn[w].state = "ESTABLISHED"
    /\ \E f \in 0 .. conn[w].flight, wnd \in Windows :
        conn' = [conn EXCEPT ![w].flight = f, ![w].wnd = wnd]
    /\ UNCHANGED <<phase, at, hc, ostate, q>>

PeerFin(w) ==
    /\ phase = "net" /\ conn[w].state = "ESTABLISHED"
    /\ conn' = [conn EXCEPT ![w].state = "CLOSE_WAIT"]
    /\ UNCHANGED <<phase, at, hc, ostate, q>>

\* RST, ICMP error, too many retransmissions, or the idle reaper.
Drop(w) ==
    /\ phase = "net" /\ conn[w].state # "OTHER"
    /\ conn' = [conn EXCEPT ![w] = Gone]
    /\ UNCHANGED <<phase, at, hc, ostate, q>>

\* tcp_send_ready, where conn is ESTABLISHED.  SND_WND has already been
\* reduced by what was sent, and what is in flight is taken off again.
Ready(w) == Max({0, conn[w].wnd - conn[w].flight})

-----------------------------------------------------------------------------
(* http_poll, the input side. *)

\* net_loop calls http_poll when the ring is empty, at most a tick after
\* the last call returned.
BeginPoll(d) ==
    /\ phase = "net"
    /\ phase' = "scan" /\ at' = 1
    /\ hc' = [w \in Ways |->
                IF hc[w].st = "IDLE" THEN hc[w]
                ELSE [hc[w] EXCEPT !.age = (@ + d) % TickMod]]
    /\ UNCHANGED <<conn, ostate, q>>

NextWay ==
    /\ at' = IF at < N THEN at + 1 ELSE 1
    /\ phase' = IF at < N THEN phase
                ELSE IF phase = "scan" THEN "events" ELSE "drain"

\* RESP_PTR, RESP_LEN and RECV_TICK are set before they are next used, so
\* their last values are forgotten with the response and the request.
Forget(c) == [c EXCEPT !.ptr = 0, !.len = 0]

\* What .Lhp_reset_hconn, h_reset and h_close clear.
ResetHconn(c) ==
    Forget([c EXCEPT !.st = "IDLE", !.flags = {}, !.cl = 0, !.age = 0])

\* .Lhp_do_close: tcp_close, the FIN, and the entry is reset.
DoClose(w) ==
    /\ conn' = [conn EXCEPT ![w] = Gone]
    /\ hc' = [hc EXCEPT ![w] = ResetHconn(@)]
    /\ UNCHANGED q

\* .Lhp_setup_resp: the request is consumed, the response handed over.
SetupResp(w, c, flags) ==
    /\ \E b \in BodyLens :
        hc' = [hc EXCEPT ![w] = [c EXCEPT !.st = "SENDING", !.flags = flags,
                                          !.ptr = 0, !.len = HdrLen + b]]
    /\ conn' = [conn EXCEPT ![w].rx = SubSeq(@, c.req + c.cl + 1, Len(@))]
    /\ q' = Post(q, w, "RESP_READY")

\* Nothing to do with the connection for now.
Leave(w, c) ==
    /\ hc' = [hc EXCEPT ![w] = c]
    /\ UNCHANGED <<conn, q>>

\* http_parse_request: reads on from PARSE_OFF to the end of the header
\* section or of the data.  CLOSE_FOUND is only ever set, and a second
\* Content-Length is an error.
ParseRequest(c, buf) ==
    LET ends == {i \in c.off + 1 .. Len(buf) : buf[i] # "part"}
        i    == Min(ends)
        t    == buf[i]
    IN  IF c.ps # "reading" \/ c.off >= Len(buf) THEN c
        ELSE IF ends = {} THEN [c EXCEPT !.off = Len(buf)]
        ELSE IF t = "bad" \/ (t = "post11" /\ "clSeen" \in c.flags)
        THEN [c EXCEPT !.ps = "error", !.off = i]
        ELSE [c EXCEPT !.ps = "done", !.off = i, !.req = i,
                       !.v11 = t # "get10",
                       !.cf = @ \/ t = "close11",
                       !.cl = IF t = "post11" THEN 1 ELSE @,
                       !.flags = IF t = "post11" THEN @ \cup {"clSeen"} ELSE @]

\* HCONN_FLAGS once the version is known, and once Connection is.
VersionFlags(c) == IF c.v11 THEN c.flags \cup {"http11"} ELSE c.flags
DoneFlags(c) ==
    LET f == VersionFlags(c)
    IN  IF c.cf \/ "http11" \notin f THEN f \cup {"close"} ELSE f

\* .Lhp_body_check: answer, or wait for the rest of the body.
BodyCheck(w, c) ==
    IF c.req + c.cl <= Len(conn[w].rx) \/ c.cl = 0
    THEN SetupResp(w, c, c.flags)
    ELSE Leave(w, [c EXCEPT !.st = "RECV_BODY"])

\* .Lhp_fsa_done: 405 or a missing Host are answered before Connection is
\* looked at; 411 (no Content-Length) and 413 (too large a one) before the
\* body is waited for.
Dispatch(w, c) ==
    \/ SetupResp(w, c, VersionFlags(c))
    \/ SetupResp(w, c, DoneFlags(c) \cup {"close"})
    \/ BodyCheck(w, [c EXCEPT !.flags = DoneFlags(c)])

\* .Lhp_try_parse, in RECV_HDR.  The first byte of a request must be a
\* letter (.Lhp_slowloris_close otherwise), but only when PARSE_OFF is 0.  A
\* parser left "done" by an earlier request answers at once, with what the
\* bytes at the old offsets happen to be.
TryParse(w, c) ==
    LET buf == conn[w].rx
        p   == ParseRequest(c, buf)
    IN  \/ c.age >= Timeout /\ DoClose(w)
        \/ c.age < Timeout /\ buf = <<>> /\ Leave(w, c)
        \/ c.age < Timeout /\ buf # <<>> /\ c.off = 0 /\ buf[1] = "bad"
           /\ DoClose(w)
        \/ /\ c.age < Timeout /\ buf # <<>>
           /\ \/ p.ps = "reading" /\ Leave(w, p)
              \/ p.ps = "error" /\ SetupResp(w, p, p.flags)
              \/ c.ps = "done" /\ SetupResp(w, p, p.flags)
              \/ p.ps = "done" /\ Dispatch(w, p)

\* .Lhp_resume_body.
ResumeBody_patient(w, c) ==
    IF conn[w].rx = <<>> THEN Leave(w, c) ELSE BodyCheck(w, c)
ResumeBody(w, c) ==
    IF c.age >= Timeout THEN DoClose(w)
    ELSE IF conn[w].rx = <<>> THEN Leave(w, c)
    ELSE BodyCheck(w, c)

ScanEstablished(w) ==
    /\ phase = "scan" /\ at = w /\ conn[w].state = "ESTABLISHED"
    /\ CASE hc[w].st = "IDLE" ->
                TryParse(w, [hc[w] EXCEPT !.st = "RECV_HDR", !.age = 0])
         [] hc[w].st = "RECV_HDR"  -> TryParse(w, hc[w])
         [] hc[w].st = "RECV_BODY" -> ResumeBody(w, hc[w])
         [] hc[w].st = "SENDING"   -> Leave(w, hc[w])
    /\ NextWay
    /\ UNCHANGED ostate

\* .Lhp_not_estab: a half-closed connection is closed unless a response is
\* on its way; otherwise only HCONN_STATE is cleared.
ScanOther(w) ==
    /\ phase = "scan" /\ at = w /\ conn[w].state # "ESTABLISHED"
    /\ IF conn[w].state = "CLOSE_WAIT"
       THEN IF hc[w].st = "SENDING" THEN Leave(w, hc[w]) ELSE DoClose(w)
       ELSE Leave(w, Forget([hc[w] EXCEPT !.st = "IDLE", !.age = 0]))
    /\ NextWay
    /\ UNCHANGED ostate

-----------------------------------------------------------------------------
(* http_poll, the output side. *)

\* http_fsa_poll_tcp_events, for one way: the events it posts.
TcpEvents_setup(w) ==
    IF ostate[w] = "O_IDLE" THEN {}
    ELSE IF conn[w].state # "ESTABLISHED" THEN {"TCP_CLOSED"}
    ELSE IF ostate[w] = "O_DRAINING"
    THEN IF conn[w].flight = 0 THEN {"ALL_DRAINED"} ELSE {}
    ELSE IF ostate[w] = "O_SETUP" /\ Ready(w) > 0 THEN {"WIN_OPEN"} ELSE {}
TcpEvents_undrained(w) ==
    IF ostate[w] = "O_IDLE" THEN {}
    ELSE IF conn[w].state # "ESTABLISHED" THEN {"TCP_CLOSED"}
    ELSE IF ostate[w] = "O_DRAINING" THEN {"ALL_DRAINED"}
    ELSE IF Ready(w) > 0 THEN {"WIN_OPEN"} ELSE {}
TcpEvents_idle(w) ==
    IF conn[w].state # "ESTABLISHED" THEN {"TCP_CLOSED"}
    ELSE IF ostate[w] = "O_DRAINING"
    THEN IF conn[w].flight = 0 THEN {"ALL_DRAINED"} ELSE {}
    ELSE IF ostate[w] # "O_IDLE" /\ Ready(w) > 0 THEN {"WIN_OPEN"} ELSE {}
TcpEvents(w) ==
    IF ostate[w] = "O_IDLE" THEN {}
    ELSE IF conn[w].state # "ESTABLISHED" THEN {"TCP_CLOSED"}
    ELSE IF ostate[w] = "O_DRAINING"
    THEN IF conn[w].flight = 0 THEN {"ALL_DRAINED"} ELSE {}
    ELSE IF Ready(w) > 0 THEN {"WIN_OPEN"} ELSE {}

PollTcpEvents(w) ==
    /\ phase = "events" /\ at = w
    /\ q' = IF TcpEvents(w) = {} THEN q
            ELSE Post(q, w, CHOOSE e \in TcpEvents(w) : TRUE)
    /\ NextWay
    /\ UNCHANGED <<conn, hc, ostate>>

\* http_fsa_trans_table, the cells that have a handler.
TransTable ==
    {[from |-> "O_IDLE", on |-> "RESP_READY", to |-> "O_SETUP", do |-> "h_install"],
     [from |-> "O_SETUP", on |-> "WIN_OPEN", to |-> "O_TX", do |-> "h_send"],
     [from |-> "O_SETUP", on |-> "TCP_CLOSED", to |-> "O_IDLE", do |-> "h_reset"],
     [from |-> "O_TX", on |-> "WIN_OPEN", to |-> "O_TX", do |-> "h_send"],
     [from |-> "O_TX", on |-> "CHUNK_SENT", to |-> "O_TX", do |-> "h_send"],
     [from |-> "O_TX", on |-> "ALL_QUEUED", to |-> "O_DRAINING", do |-> "h_noop"],
     [from |-> "O_TX", on |-> "TCP_CLOSED", to |-> "O_IDLE", do |-> "h_reset"],
     [from |-> "O_DRAINING", on |-> "ALL_DRAINED", to |-> "O_DRAINING", do |-> "h_decide"],
     [from |-> "O_DRAINING", on |-> "TCP_CLOSED", to |-> "O_IDLE", do |-> "h_reset"],
     [from |-> "O_DRAINING", on |-> "DO_CLOSE", to |-> "O_IDLE", do |-> "h_close"],
     [from |-> "O_DRAINING", on |-> "DO_KEEPALIVE", to |-> "O_IDLE", do |-> "h_keepalive"]}

Pending == q.hi # <<>> \/ q.lo # <<>>

\* vmio_engine_step: the cell for the state and event of the event's way.
Cells == {t \in TransTable : t.from = ostate[Peek[1]] /\ t.on = Peek[2]}

\* http_fsa_step up to the handler: the event is taken, its way's state
\* looked up, and the next state stored.  STEP_NO_TRANS, the event dropped for
\* want of a cell, has no action: EventHandled shows that it never happens.
Step(w, handler) ==
    /\ phase = "drain" /\ Pending /\ Peek[1] = w
    /\ \E t \in Cells :
        /\ t.do = handler
        /\ ostate' = [ostate EXCEPT ![w] = t.to]
    /\ UNCHANGED <<phase, at>>

HInstall(w) ==
    /\ Step(w, "h_install")
    /\ q' = Post(Dequeued, w, "WIN_OPEN")
    /\ UNCHANGED <<conn, hc>>

\* The bytes that h_send hands to tcp_send: what the window takes of what
\* remains, and no further than the end of the header.
Chunk(w) ==
    LET c == hc[w]
        n == Min({Ready(w), c.len - c.ptr})
    IN  IF c.ptr < HdrLen THEN Min({n, HdrLen - c.ptr}) ELSE n

\* What h_send posts; with the window closed it waits for a later poll.
SendEvents_spin(w) ==
    IF conn[w].state # "ESTABLISHED" THEN {"TCP_CLOSED"}
    ELSE IF hc[w].ptr = hc[w].len THEN {"ALL_QUEUED"}
    ELSE IF Ready(w) = 0 THEN {"CHUNK_SENT"}
    ELSE IF hc[w].ptr + Chunk(w) >= hc[w].len THEN {"ALL_QUEUED"}
    ELSE {"CHUNK_SENT"}
SendEvents(w) ==
    IF conn[w].state # "ESTABLISHED" THEN {"TCP_CLOSED"}
    ELSE IF hc[w].ptr = hc[w].len THEN {"ALL_QUEUED"}
    ELSE IF Ready(w) = 0 THEN {}
    ELSE IF hc[w].ptr + Chunk(w) >= hc[w].len THEN {"ALL_QUEUED"}
    ELSE {"CHUNK_SENT"}

HSend(w) ==
    /\ Step(w, "h_send")
    /\ LET n == IF conn[w].state = "ESTABLISHED" /\ hc[w].ptr # hc[w].len
                THEN Chunk(w) ELSE 0
       IN  /\ hc' = [hc EXCEPT ![w].ptr = @ + n]
           /\ conn' = [conn EXCEPT ![w].flight = @ + n, ![w].wnd = @ - n]
    /\ q' = IF SendEvents(w) = {} THEN Dequeued
            ELSE Post(Dequeued, w, CHOOSE e \in SendEvents(w) : TRUE)

HNoop(w) ==
    /\ Step(w, "h_noop")
    /\ q' = Dequeued
    /\ UNCHANGED <<conn, hc>>

HDecide(w) ==
    /\ Step(w, "h_decide")
    /\ q' = Post(Dequeued, w,
                 IF "close" \in hc[w].flags \/ "http11" \notin hc[w].flags
                 THEN "DO_CLOSE" ELSE "DO_KEEPALIVE")
    /\ UNCHANGED <<conn, hc>>

HReset(w) ==
    /\ Step(w, "h_reset")
    /\ hc' = [hc EXCEPT ![w] = ResetHconn(@)]
    /\ q' = Dequeued
    /\ UNCHANGED conn

\* tcp_close from ESTABLISHED, and the FIN.
HClose(w) ==
    /\ Step(w, "h_close")
    /\ hc' = [hc EXCEPT ![w] = ResetHconn(@)]
    /\ conn' = [conn EXCEPT ![w] = Gone]
    /\ q' = Dequeued

\* The next request is parsed from its start; RECV_TICK is not touched.
HKeepalive(w) ==
    /\ Step(w, "h_keepalive")
    /\ hc' = [hc EXCEPT ![w] =
                Forget([@ EXCEPT !.st = "RECV_HDR", !.ps = "reading",
                                 !.off = 0, !.cf = FALSE, !.v11 = FALSE,
                                 !.flags = {}, !.cl = 0])]
    /\ q' = Dequeued
    /\ UNCHANGED conn

\* STEP_IDLE: http_poll returns.
EndPoll ==
    /\ phase = "drain" /\ ~Pending
    /\ phase' = "net"
    /\ UNCHANGED <<at, conn, hc, ostate, q>>

-----------------------------------------------------------------------------

\* http_init and http_fsa_init.
Init ==
    /\ phase = "net" /\ at = 1
    /\ conn = [w \in Ways |-> Gone]
    /\ hc = [w \in Ways |->
                [st |-> "IDLE", flags |-> {}, ps |-> "reading", off |-> 0,
                 req |-> 0, cl |-> 0, v11 |-> FALSE, cf |-> FALSE,
                 ptr |-> 0, len |-> 0, age |-> 0]]
    /\ ostate = [w \in Ways |-> "O_IDLE"]
    /\ q = [hi |-> <<>>, lo |-> <<>>, pending |-> {}, lost |-> FALSE]

Poll(w) ==
    \/ ScanEstablished(w) \/ ScanOther(w) \/ PollTcpEvents(w)
    \/ HInstall(w) \/ HSend(w) \/ HNoop(w) \/ HDecide(w)
    \/ HReset(w) \/ HClose(w) \/ HKeepalive(w)

Env(w) == Establish(w) \/ Deliver(w) \/ Ack(w) \/ PeerFin(w) \/ Drop(w)

Next ==
    \/ \E w \in Ways : Env(w) \/ Poll(w)
    \/ \E d \in {0, 1} : BeginPoll(d)
    \/ EndPoll

Spec == Init /\ [][Next]_vars

Served(w) == conn[w].flight = 0 /\ conn[w].wnd = Max(Windows)

\* The code goes on, bursts end and time passes.  While it holds a connection
\* a peer acknowledges and opens its window again and again, and not only
\* to shut it before the next poll (TcpTable shows what ends a silent one).
Fairness ==
    /\ WF_vars(\E w \in Ways : Poll(w)) /\ WF_vars(EndPoll)
    /\ SF_vars(BeginPoll(1))
    /\ \A w \in Ways :
        /\ SF_vars(Ack(w) /\ Served(w)')
        /\ SF_vars(Served(w) /\ \E d \in {0, 1} : BeginPoll(d))

FairSpec == Spec /\ Fairness

-----------------------------------------------------------------------------
(* Properties. *)

TypeOK ==
    /\ phase \in {"net", "scan", "events", "drain"} /\ at \in Ways
    /\ conn \in [Ways -> TCONN]
    /\ hc \in [Ways -> HCONN]
    /\ \A w \in Ways : hc[w].ptr <= hc[w].len
    /\ ostate \in [Ways -> {"O_IDLE", "O_SETUP", "O_TX", "O_DRAINING"}]
    /\ q \in [hi : Seq(Ways \X HiEvents), lo : Seq(Ways \X LoEvents),
              pending : SUBSET (Ways \X Events), lost : BOOLEAN]

\* The bits of http_fsa_evt_pending are the queued events, each queued once:
\* a bit left behind would mute its event for ever, one cleared too early
\* would let the queues grow past their size.
PendingExact ==
    LET s == q.hi \o q.lo
    IN  /\ q.pending = {s[i] : i \in 1 .. Len(s)}
        /\ \A i, j \in 1 .. Len(s) : s[i] = s[j] => i = j

\* No event is ever lost to a full queue, although the gating is per event
\* and not per way, and a ring of 128 holds 127: a RESP_READY lost would
\* leave its connection SENDING for ever.
NothingLost == ~q.lost

\* No event meets a state that has no handler for it, which would drop it
\* (the counter http_fsa_step_no_trans stays 0): a close, a reset and a new
\* request within one poll never leave an event behind for the state after.
EventHandled == phase = "drain" /\ Pending => Cells # {}

\* Between polls a way is SENDING just when the output machine is at work on
\* it: each side leaves the other's connections alone by looking at its own
\* state only, so a way in one and not the other is served by neither, or by
\* both.
SendingOwned ==
    phase = "net" =>
        \A w \in Ways : hc[w].st = "SENDING" <=> ostate[w] # "O_IDLE"

\* The scan of http_poll and the output machine agree about every way: the
\* records keep their ranges, the pending bits are the queued events, and a
\* way is SENDING just when the machine works on it.
OutputInv == TypeOK /\ PendingExact /\ SendingOwned

\* A poll ends a response on a connection that is still ESTABLISHED (to read
\* the next request or to close) only when all of it was sent and
\* acknowledged.
WholeResponse ==
    [][\A w \in Ways :
        /\ hc[w].st = "SENDING" /\ hc'[w].st # "SENDING"
        /\ conn[w].state = "ESTABLISHED"
        => hc[w].ptr = hc[w].len /\ conn[w].flight = 0]_vars

\* http_poll returns: the machine's handlers post events, but never for ever.
PollReturns == phase # "net" ~> phase = "net"

\* Every response comes to an end, however the window opens and closes in
\* between and whether or not the connection survives: no wait of the output
\* machine is without a poll that posts the event it waits for.
ResponseEnds == \A w \in Ways : ostate[w] # "O_IDLE" ~> ostate[w] = "O_IDLE"

\* No client keeps a connection by sending its request slowly, by never
\* finishing it or its body, or by filling the receive buffer.
RecvEnds ==
    \A w \in Ways : hc[w].st \in {"RECV_HDR", "RECV_BODY"}
                    ~> hc[w].st \notin {"RECV_HDR", "RECV_BODY"}

\* "On the very first dispatch of a new request (HCONN_PARSE_OFF == 0, parser
\* hasn't consumed anything yet), the first byte MUST be an uppercase ASCII
\* letter": when a new connection is about to be read for the first time
\* (HCONN_STATE IDLE), nothing has been consumed, so its first byte is
\* looked at and its request is parsed from the start.  Does not hold: see
\* the README, Known disagreements.
ParsesFromStart ==
    \A w \in Ways :
        hc[w].st = "IDLE" /\ conn[w].state = "ESTABLISHED" => hc[w].off = 0
=============================================================================
