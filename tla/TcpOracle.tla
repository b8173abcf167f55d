----------------------------- MODULE TcpOracle -----------------------------
(***************************************************************************)
(* scripts/tcp_oracle.py: the TCP functional vectors and what they expect  *)
(* of tcp_handle.  Numbers are numbers: the byte orders of a frame and of  *)
(* an entry of the binary file are left out.                               *)
(***************************************************************************)
EXTENDS Integers

CONN_STATES == {"CLOSED", "LISTEN", "SYN_RCVD", "ESTABLISHED", "CLOSE_WAIT",
                "LAST_ACK", "FIN_WAIT_1", "FIN_WAIT_2", "TIME_WAIT", "CLOSING"}
Connected == CONN_STATES \ {"CLOSED", "LISTEN"}
Events == {"RST", "SYN", "SYNACK", "FIN", "ACK"}

\* FLAGS and FLAGS_MAP
FLAGS == [RST |-> {"RST"}, SYN |-> {"SYN"}, SYNACK |-> {"SYN", "ACK"},
          FIN_ACK |-> {"FIN", "ACK"}, ACK |-> {"ACK"}, NONE |-> {}]

ISN == 1094861636           \* 0x41424344
PRE_SND_UNA == ISN
PRE_SND_NXT == ISN + 1
PRE_RCV_NXT == 2
RXBUF == 2048               \* TCP_RXBUF_SIZE

Combos ==
    [conn : CONN_STATES, flags : DOMAIN FLAGS,
     match : {"exact", "listen_only", "no_match"},
     payload : {"none", "some", "bad_seq", "dup_seq"},
     cksum : {"valid", "invalid"},
     header : {"valid", "short_frame", "bad_doff", "doff_overrun"}]

\* What is varied while the frame itself is broken.
Canonical(v) ==
    v.conn = "CLOSED" /\ v.flags = "ACK" /\ v.match = "no_match"
        /\ v.payload = "none"

\* Mutant: a state added to the machine is forgotten here.
is_valid_combo_forgets(v) ==
    IF v.header # "valid" THEN Canonical(v) /\ v.cksum = "valid"
    ELSE IF v.cksum = "invalid" THEN Canonical(v)
    ELSE /\ v.match = "exact" => v.conn \in Connected \ {"CLOSING"}
         /\ v.match = "listen_only" => v.conn \in {"LISTEN", "CLOSED"}
         /\ v.match = "no_match" => v.conn = "CLOSED"
         /\ v.payload \in {"bad_seq", "dup_seq"} =>
               v.conn = "ESTABLISHED" /\ v.flags = "ACK" /\ v.match = "exact"
is_valid_combo(v) ==
    IF v.header # "valid" THEN Canonical(v) /\ v.cksum = "valid"
    ELSE IF v.cksum = "invalid" THEN Canonical(v)
    ELSE /\ v.match = "exact" => v.conn \in Connected
         /\ v.match = "listen_only" => v.conn \in {"LISTEN", "CLOSED"}
         /\ v.match = "no_match" => v.conn = "CLOSED"
         /\ v.payload \in {"bad_seq", "dup_seq"} =>
               v.conn = "ESTABLISHED" /\ v.flags = "ACK" /\ v.match = "exact"

generate_all_combos == {v \in Combos : is_valid_combo(v)}

-----------------------------------------------------------------------------
\* The segment of a vector.
build_frame_v2(v) ==
    [flags |-> FLAGS[v.flags],
     seq   |-> CASE v.payload = "some"    -> PRE_RCV_NXT
                 [] v.payload = "bad_seq" -> 999
                 [] v.payload = "dup_seq" -> 0
                 [] v.payload = "none"    -> 1,
     ack   |-> IF v.match = "exact" /\ "ACK" \in FLAGS[v.flags]
               THEN PRE_SND_NXT ELSE 0,
     len   |-> IF v.payload = "none" THEN 0 ELSE 5,
     sound |-> v.header = "valid" /\ v.cksum = "valid"]

classify_event(flags) ==
    CASE "RST" \in flags -> "RST"
      [] "RST" \notin flags /\ "SYN" \in flags ->
            IF "ACK" \in flags THEN "SYNACK" ELSE "SYN"
      [] flags \cap {"RST", "SYN"} = {} /\ "FIN" \in flags -> "FIN"
      [] flags = {"ACK"} -> "ACK"
      [] OTHER -> "unclassifiable"

NoEntry == [next |-> "CLOSED", handler |-> "none"]

\* The table over all states and events that has these rows and nothing else.
TableOf(rows) ==
    [c \in CONN_STATES \X Events |->
        IF \E r \in rows : <<r[1], r[2]>> = c
        THEN LET r == CHOOSE r \in rows : <<r[1], r[2]>> = c
             IN  [next |-> r[3], handler |-> r[4]]
        ELSE NoEntry]

FSA_TABLE == TableOf({
    <<"LISTEN",      "SYN", "LISTEN",      "listen_syn">>,
    <<"SYN_RCVD",    "RST", "CLOSED",      "conn_close">>,
    <<"SYN_RCVD",    "ACK", "ESTABLISHED", "synrcvd_ack">>,
    <<"ESTABLISHED", "RST", "CLOSED",      "conn_close">>,
    <<"ESTABLISHED", "FIN", "CLOSE_WAIT",  "estab_fin">>,
    <<"ESTABLISHED", "ACK", "ESTABLISHED", "estab_ack">>,
    <<"CLOSE_WAIT",  "RST", "CLOSED",      "conn_close">>,
    <<"CLOSE_WAIT",  "ACK", "CLOSE_WAIT",  "drop">>,
    <<"LAST_ACK",    "RST", "CLOSED",      "conn_close">>,
    <<"LAST_ACK",    "ACK", "CLOSED",      "lastack_ack">>,
    <<"FIN_WAIT_1",  "RST", "CLOSED",      "conn_close">>,
    <<"FIN_WAIT_1",  "FIN", "CLOSING",     "finwait1_fin">>,
    <<"FIN_WAIT_1",  "ACK", "FIN_WAIT_2",  "finwait1_ack">>,
    <<"FIN_WAIT_2",  "RST", "CLOSED",      "conn_close">>,
    <<"FIN_WAIT_2",  "FIN", "TIME_WAIT",   "finwait2_fin">>,
    <<"FIN_WAIT_2",  "ACK", "FIN_WAIT_2",  "drop">>,
    <<"TIME_WAIT",   "RST", "CLOSED",      "conn_close">>,
    <<"TIME_WAIT",   "FIN", "TIME_WAIT",   "timewait_fin">>,
    <<"TIME_WAIT",   "ACK", "TIME_WAIT",   "drop">>,
    <<"CLOSING",     "RST", "CLOSED",      "conn_close">>,
    <<"CLOSING",     "ACK", "TIME_WAIT",   "closing_ack">>})

-----------------------------------------------------------------------------
(* oracle: what the harness will compare *)

\* The reply, then the connection.
Expect(ret, flags, seq, ack, state, rcv, rxlen, una) ==
    [ret |-> ret, flags |-> flags, seq |-> seq, ack |-> ack,
     state |-> state, rcv |-> rcv, rxlen |-> rxlen, una |-> una]

\* No reply; the connection as given.
Quiet(state, rcv, rxlen, una) == Expect(0, {}, 0, 0, state, rcv, rxlen, una)

\* A bare ACK of everything up to rcv.
Acks(state, rcv, rxlen, una) ==
    Expect(54, {"ACK"}, PRE_SND_NXT, rcv, state, rcv, rxlen, una)

\* What SYN and FIN add to the length of a segment.
SegLen(seg) ==
    seg.len + (IF "SYN" \in seg.flags THEN 1 ELSE 0)
            + (IF "FIN" \in seg.flags THEN 1 ELSE 0)

\* The connection of an exact match is left as it was seeded.
rst_result(seg, state) ==
    LET Kept(ret, flags, seq, ack) ==
            Expect(ret, flags, seq, ack, state, PRE_RCV_NXT, 0, PRE_SND_UNA)
    IN  CASE "RST" \in seg.flags -> Kept(0, {}, 0, 0)
          [] "RST" \notin seg.flags /\ "ACK" \in seg.flags ->
                Kept(54, {"RST"}, seg.ack, 0)
          [] OTHER -> Kept(54, {"RST", "ACK"}, 0, seg.seq + SegLen(seg))

\* Step 7, by handler.
HandlerSays(entry, seg) ==
    CASE entry.handler = "listen_syn" ->
            Expect(62, {"SYN", "ACK"}, ISN, seg.seq + 1, "SYN_RCVD", 0, 0, 0)
      [] entry.handler \in {"conn_close", "drop", "lastack_ack",
                            "finwait1_ack", "closing_ack"} ->
            Quiet(entry.next, PRE_RCV_NXT, 0, PRE_SND_UNA)
      [] entry.handler = "synrcvd_ack" ->
            Quiet(entry.next, PRE_RCV_NXT, 0, PRE_SND_NXT)
      [] entry.handler = "estab_ack" ->
            CASE seg.len = 0 -> Quiet(entry.next, PRE_RCV_NXT, 0, PRE_SND_NXT)
              [] seg.len > 0 /\ seg.seq = PRE_RCV_NXT ->
                    Acks(entry.next, PRE_RCV_NXT + 5, 5, PRE_SND_NXT)
              [] OTHER -> Acks(entry.next, PRE_RCV_NXT, 0, PRE_SND_NXT)
      [] entry.handler = "estab_fin" ->
            Acks(entry.next, PRE_RCV_NXT + seg.len + 1, seg.len, PRE_SND_UNA)
      [] entry.handler = "finwait1_fin" ->
            Acks(IF "ACK" \in seg.flags /\ seg.ack = PRE_SND_NXT
                 THEN "TIME_WAIT" ELSE entry.next,
                 PRE_RCV_NXT + 1, 0, PRE_SND_UNA)
      [] entry.handler = "finwait2_fin" ->
            Acks(entry.next, PRE_RCV_NXT + 1, 0, PRE_SND_UNA)
      [] entry.handler = "timewait_fin" ->
            Acks(entry.next, PRE_RCV_NXT, 0, PRE_SND_UNA)

\* The steps before it.  A sequence number below RCV_NXT is 2^32 above it.
oracle(v) ==
    LET seg   == build_frame_v2(v)
        state == IF v.match = "listen_only" THEN "LISTEN" ELSE v.conn
        evt   == classify_event(seg.flags)
        outside == \/ seg.seq < PRE_RCV_NXT
                   \/ seg.seq - PRE_RCV_NXT >= RXBUF
    IN  CASE ~seg.sound -> Quiet(v.conn, 0, 0, 0)
          [] seg.sound /\ v.match = "no_match" -> rst_result(seg, v.conn)
          [] seg.sound /\ v.match # "no_match" ->
             CASE evt = "unclassifiable" -> rst_result(seg, state)
               [] evt = "RST" /\ v.match = "exact" /\ outside ->
                     Quiet(v.conn, PRE_RCV_NXT, 0, PRE_SND_UNA)
               [] OTHER ->
                     IF FSA_TABLE[<<state, evt>>].handler = "none"
                     THEN rst_result(seg, state)
                     ELSE HandlerSays(FSA_TABLE[<<state, evt>>], seg)
=============================================================================
