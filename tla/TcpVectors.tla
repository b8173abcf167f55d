---------------------------- MODULE TcpVectors -----------------------------
(***************************************************************************)
(* The TCP functional suite as a gate: tcp_handle of lib/tcp.S, driven by  *)
(* tcp_fsa_table, is run by tests/test_tcp_func.S on every vector of       *)
(* tcp_oracle.py and compared with what the oracle expects.  The table is  *)
(* a variable: its author may edit a cell before the suite is run.         *)
(*                                                                         *)
(* tcp_handle is modelled for one segment on a seeded connection: there is *)
(* nothing buffered or unacknowledged but the SYN, no option is negotiated *)
(* and the RST budget tcp_init grants is not used up.  Timers are not      *)
(* observed by the harness and left out.                                   *)
(***************************************************************************)
EXTENDS TcpOracle

CONSTANT MaxTableEdits      \* bound: cells edited

VARIABLES
    table,      \* tcp_fsa_table
    retouched,  \* cells edited so far
    suite       \* what the last run said: "none", "green" or "red"

tcpVars == <<table, retouched, suite>>

tcp_fsa_rows == {
    <<"LISTEN",      "SYN", "LISTEN",      "listen_syn">>,
    <<"SYN_RCVD",    "RST", "CLOSED",      "conn_close">>,
    <<"SYN_RCVD",    "ACK", "ESTABLISHED", "synrcvd_ack">>,
    <<"ESTABLISHED", "RST", "CLOSED",      "conn_close">>,
    <<"ESTABLISHED", "FIN", "CLOSE_WAIT",  "estab_fin">>,
    <<"ESTABLISHED", "ACK", "ESTABLISHED", "estab_ack">>,
    <<"CLOSE_WAIT",  "RST", "CLOSED",      "conn_close">>,
    <<"CLOSE_WAIT",  "ACK", "CLOSE_WAIT",  "drop">>,
    <<"LAST_ACK",    "RST", "CLOSED",      "conn_close">>,
    <<"LAST_ACK",    "ACK", "CLOSED",      "lastack_ack">>,
    <<"FIN_WAIT_1",  "RST", "CLOSED",      "conn_close">>,
    <<"FIN_WAIT_1",  "FIN", "CLOSING",     "finwait1_fin">>,
    <<"FIN_WAIT_1",  "ACK", "FIN_WAIT_2",  "finwait1_ack">>,
    <<"FIN_WAIT_2",  "RST", "CLOSED",      "conn_close">>,
    <<"FIN_WAIT_2",  "FIN", "TIME_WAIT",   "finwait2_fin">>,
    <<"FIN_WAIT_2",  "ACK", "FIN_WAIT_2",  "drop">>,
    <<"TIME_WAIT",   "RST", "CLOSED",      "conn_close">>,
    <<"TIME_WAIT",   "FIN", "TIME_WAIT",   "timewait_fin">>,
    <<"TIME_WAIT",   "ACK", "TIME_WAIT",   "drop">>,
    <<"CLOSING",     "RST", "CLOSED",      "conn_close">>,
    <<"CLOSING",     "ACK", "TIME_WAIT",   "closing_ack">>}

tcp_fsa_table == TableOf(tcp_fsa_rows)

Handlers == {tcp_fsa_table[c].handler : c \in CONN_STATES \X Events}

-----------------------------------------------------------------------------
(* tcp_handle *)

\* What it leaves: the reply, the connection, and whether the listener has
\* spawned one in SYN_RCVD.
Replies(c, len, flags, seq, ack) ==
    [ret |-> len, flags |-> flags, seq |-> seq, ack |-> ack, conn |-> c,
     spawned |-> FALSE, failed |-> FALSE]
Silent(c) == Replies(c, 0, {}, 0, 0)
AcksNow(c) == Replies(c, 54, {"ACK"}, c.nxt, c.rcv)
Fails(c) == [Silent(c) EXCEPT !.failed = TRUE]

\* .Ltcp_no_conn
NoConn(c, seg) ==
    CASE "RST" \in seg.flags -> Silent(c)
      [] "RST" \notin seg.flags /\ "ACK" \in seg.flags ->
            Replies(c, 54, {"RST"}, seg.ack, 0)
      [] OTHER -> Replies(c, 54, {"RST", "ACK"}, 0, seg.seq + SegLen(seg))

\* In-order data that still fits the receive buffer.
Fits(c, seg) == seg.seq = c.rcv /\ c.rxlen + seg.len <= RXBUF
WithData(c, seg) ==
    [c EXCEPT !.rcv = @ + seg.len, !.rxlen = @ + seg.len]

\* tcp_estab_ack_handler: SND_UNA first, then the data.  Segments that come
\* early are kept for later and acknowledged like duplicates; data the
\* buffer cannot take is ignored.
EstabAck(c, seg) ==
    LET a == IF c.una < seg.ack /\ seg.ack <= c.nxt
             THEN [c EXCEPT !.una = seg.ack] ELSE c
    IN  CASE seg.len = 0 -> Silent(a)
          [] seg.len > 0 /\ Fits(a, seg) -> AcksNow(WithData(a, seg))
          [] seg.len > 0 /\ seg.seq # a.rcv -> AcksNow(a)
          [] OTHER -> Silent(a)

\* tcp_estab_fin_handler: a FIN behind data it cannot take is undone, a FIN
\* without data is taken wherever it is.
EstabFin(c, seg) ==
    CASE seg.len = 0 -> AcksNow([c EXCEPT !.rcv = @ + 1])
      [] seg.len > 0 /\ Fits(c, seg) ->
            AcksNow([WithData(c, seg) EXCEPT !.rcv = @ + 1])
      [] OTHER -> AcksNow([c EXCEPT !.state = "ESTABLISHED"])

\* The three handlers that wait for the ACK of our FIN in state s.
FinAcked(c, seg, s) ==
    CASE seg.ack = c.nxt -> Silent(c)
      [] seg.ack < c.nxt -> Silent([c EXCEPT !.state = s])
      [] seg.ack > c.nxt -> Fails([c EXCEPT !.state = s])

\* tcp_finwait1_fin_handler
FinWait1Fin(c, seg) ==
    AcksNow([c EXCEPT !.rcv = @ + 1,
                      !.state = IF "ACK" \in seg.flags /\ seg.ack = c.nxt
                                THEN "TIME_WAIT" ELSE @])

Handle(handler, c, seg) ==
    CASE handler = "listen_syn" ->
            [Replies(c, 62, {"SYN", "ACK"}, ISN, seg.seq + 1)
                EXCEPT !.spawned = TRUE]
      [] handler = "synrcvd_ack" ->
            IF seg.ack = c.nxt THEN Silent([c EXCEPT !.una = c.nxt])
            ELSE Fails([c EXCEPT !.state = "SYN_RCVD"])
      [] handler \in {"conn_close", "drop"} -> Silent(c)
      [] handler = "estab_ack"    -> EstabAck(c, seg)
      [] handler = "estab_fin"    -> EstabFin(c, seg)
      [] handler = "lastack_ack"  -> FinAcked(c, seg, "LAST_ACK")
      [] handler = "finwait1_ack" -> FinAcked(c, seg, "FIN_WAIT_1")
      [] handler = "closing_ack"  -> FinAcked(c, seg, "CLOSING")
      [] handler = "finwait1_fin" -> FinWait1Fin(c, seg)
      [] handler = "finwait2_fin" -> AcksNow([c EXCEPT !.rcv = @ + 1])
      [] handler = "timewait_fin" -> AcksNow(c)

\* .Ltcp_fsa_lookup: the next state is written before the handler runs and
\* taken back when it fails.
Lookup(t, c, seg, evt) ==
    LET entry == t[<<c.state, evt>>]
        done  == Handle(entry.handler, [c EXCEPT !.state = entry.next], seg)
    IN  CASE entry.handler = "none" -> NoConn(c, seg)
          [] entry.handler # "none" /\ ~done.failed -> done
          [] OTHER -> NoConn([done.conn EXCEPT !.state = c.state], seg)

\* The frame is sound and c its connection: the exact match or the listener.
Dispatch(t, c, seg) ==
    LET evt == classify_event(seg.flags)
        inWindow == seg.seq >= c.rcv /\ seg.seq - c.rcv < RXBUF - c.rxlen
    IN  CASE evt = "unclassifiable" -> NoConn(c, seg)
          [] evt = "RST" /\ c.state = "LISTEN" -> Silent(c)
          [] evt = "RST" /\ c.state # "LISTEN" /\ seg.seq # c.rcv ->
                IF inWindow THEN AcksNow(c) ELSE Silent(c)
          [] OTHER -> Lookup(t, c, seg, evt)

-----------------------------------------------------------------------------
(* test_tcp_functional *)

\* What make_entry and the harness put into the table for a vector: slot 0
\* listens, slot 1 is seeded for an exact match.
Listener == [state |-> "LISTEN", una |-> 0, nxt |-> 0, rcv |-> 0, rxlen |-> 0]
make_entry(v) ==
    IF v.match = "exact"
    THEN [state |-> v.conn, una |-> PRE_SND_UNA, nxt |-> PRE_SND_NXT,
          rcv |-> PRE_RCV_NXT, rxlen |-> 0]
    ELSE Listener

tcp_handle(t, v) ==
    LET seg == build_frame_v2(v)
        c   == make_entry(v)
    IN  CASE ~seg.sound -> Silent(c)
          [] seg.sound /\ v.match = "no_match" -> NoConn(c, seg)
          [] OTHER -> Dispatch(t, c, seg)

Passes(t, v) ==
    LET got == tcp_handle(t, v)
        expected == oracle(v)
    IN  /\ got.ret = expected.ret
        /\ got.ret # 0 => /\ got.flags = expected.flags
                          /\ got.seq = expected.seq
                          /\ got.ack = expected.ack
        /\ v.match = "exact" =>
              /\ got.conn.state = expected.state
              /\ got.conn.rcv = expected.rcv
              /\ got.conn.rxlen = expected.rxlen
              /\ got.conn.una = expected.una
        /\ v.match = "listen_only" =>
              IF expected.state = "SYN_RCVD"
              THEN got.conn.state = "LISTEN" /\ got.spawned
              ELSE got.conn.state = expected.state

-----------------------------------------------------------------------------
TcpInit == table = tcp_fsa_table /\ retouched = 0 /\ suite = "none"

\* One field of one cell is changed.
EditTable ==
    /\ retouched < MaxTableEdits
    /\ \E c \in CONN_STATES \X Events :
          \/ \E s \in CONN_STATES : table' = [table EXCEPT ![c].next = s]
          \/ \E h \in Handlers : table' = [table EXCEPT ![c].handler = h]
    /\ table' # table
    /\ retouched' = retouched + 1
    /\ suite' = "none"

RunSuite ==
    /\ suite = "none"
    /\ suite' = IF \A v \in generate_all_combos : Passes(table, v)
                THEN "green" ELSE "red"
    /\ UNCHANGED <<table, retouched>>

TcpNext == EditTable \/ RunSuite

\* Cells no segment reaches: a CLOSED slot is skipped by the scan, an RST to
\* a listener is dropped before the lookup.
Dead == {c \in CONN_STATES \X Events :
            c[1] = "CLOSED" \/ c = <<"LISTEN", "RST">>}

\* The state in which the vectors see a cell end: each vector with a FIN has
\* the ACK of ours too, for which this handler overwrites the table's target.
SeenTarget(c, entry) ==
    IF c[2] = "FIN" /\ entry.handler = "finwait1_fin" THEN "TIME_WAIT" ELSE entry.next

\* A handler that refuses every SYN, whose answer is that of no handler.
Refuses(c, handler) == c[2] = "SYN" /\ handler = "synrcvd_ack"

\* A green suite means something: the table as it is passes, and a table
\* with a transition added, lost or leading elsewhere does not, except where
\* no vector can tell.
SuitePinsTable ==
    /\ suite = "red" => table # tcp_fsa_table
    /\ suite = "green" =>
          \A c \in CONN_STATES \X Events \ Dead :
             LET was == tcp_fsa_table[c] IN
             IF was.handler = "none"
             THEN table[c].handler = "none" \/ Refuses(c, table[c].handler)
             ELSE /\ table[c].handler # "none"
                  /\ SeenTarget(c, table[c]) = SeenTarget(c, was)
=============================================================================
