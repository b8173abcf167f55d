-------------------------- MODULE HttpServerProofs --------------------------
(***************************************************************************)
(* HttpServer for every number of ways, every ring that holds one event    *)
(* per way, every request, response, window and timeout: http_poll's scan  *)
(* and the output machine agree about every way, no event is lost or meets *)
(* a state that cannot handle it, and a response ends only when all of it  *)
(* was sent and acknowledged.                                              *)
(***************************************************************************)
EXTENDS HttpServer, SequenceTheorems, FiniteSetTheorems, NaturalsInduction,
        WellFoundedInduction, TLAPS

QTYPE == [hi : Seq(Ways \X HiEvents), lo : Seq(Ways \X LoEvents),
          pending : SUBSET (Ways \X Events), lost : BOOLEAN]

In(s) == {s[i] : i \in 1 .. Len(s)}

Distinct(s) == \A i, j \in 1 .. Len(s) : s[i] = s[j] => i = j

\* The queues of a record: pending is what is queued, each event once.
Exact(r) ==
    /\ r \in QTYPE
    /\ Distinct(r.hi) /\ Distinct(r.lo)
    /\ r.pending = In(r.hi) \cup In(r.lo)

\* No way has two events queued, although the gating is per event.
OnePerWay(r) == \A x, y \in r.pending : x[1] = y[1] => x = y

QueueOK(r) == Exact(r) /\ OnePerWay(r) /\ ~r.lost

\* Way w has no event queued.
Free(r, w) == \A e \in Events : <<w, e>> \notin r.pending

-----------------------------------------------------------------------------
(* Sequences of events. *)

LEMMA AppendIn ==
    ASSUME NEW S, NEW s \in Seq(S), NEW x \in S, Distinct(s), x \notin In(s)
    PROVE  /\ Append(s, x) \in Seq(S) /\ Distinct(Append(s, x))
           /\ In(Append(s, x)) = In(s) \cup {x}
<1> DEFINE t == Append(s, x)
<1>1. /\ t \in Seq(S) /\ Len(t) = Len(s) + 1 /\ Len(s) \in Nat
      /\ \A i \in 1 .. Len(s) : t[i] = s[i]
      /\ t[Len(s) + 1] = x
  BY AppendProperties, LenProperties
<1> HIDE DEF t
<1>2. In(t) = In(s) \cup {x}
  <2>1. \A y \in In(t) : y \in In(s) \cup {x}
    BY <1>1 DEF In
  <2>2. \A y \in In(s) : y \in In(t)
    BY <1>1 DEF In
  <2>3. x \in In(t)
    BY <1>1 DEF In
  <2> QED
    BY <2>1, <2>2, <2>3
<1>3. Distinct(t)
  <2> SUFFICES ASSUME NEW i \in 1 .. Len(t), NEW j \in 1 .. Len(t), t[i] = t[j]
               PROVE  i = j
    BY DEF Distinct
  <2>1. \A k \in 1 .. Len(s) : s[k] # x
    BY DEF In
  <2> QED
    BY <1>1, <2>1 DEF Distinct
<1> QED
  BY <1>1, <1>2, <1>3 DEF t

LEMMA TailIn ==
    ASSUME NEW S, NEW s \in Seq(S), Distinct(s), s # <<>>
    PROVE  /\ Head(s) \in In(s) /\ Head(s) \in S
           /\ Tail(s) \in Seq(S) /\ Distinct(Tail(s))
           /\ In(Tail(s)) = In(s) \ {Head(s)}
<1> DEFINE t == Tail(s)
<1>1. /\ t \in Seq(S) /\ Len(t) = Len(s) - 1 /\ Len(s) \in Nat \ {0}
      /\ \A i \in 1 .. Len(t) : t[i] = s[i + 1]
      /\ Head(s) \in S
  BY HeadTailProperties, EmptySeq, LenProperties
<1>2. Head(s) = s[1] /\ 1 \in 1 .. Len(s)
  BY <1>1
<1> HIDE DEF t
<1>3. Distinct(t)
  <2> SUFFICES ASSUME NEW i \in 1 .. Len(t), NEW j \in 1 .. Len(t), t[i] = t[j]
               PROVE  i = j
    BY DEF Distinct
  <2>1. s[i + 1] = s[j + 1] /\ i + 1 \in 1 .. Len(s) /\ j + 1 \in 1 .. Len(s)
    BY <1>1
  <2>2. i + 1 = j + 1
    BY <2>1 DEF Distinct
  <2> QED
    BY <2>2
<1>4. \A y \in In(t) : y \in In(s) /\ y # s[1]
  <2> SUFFICES ASSUME NEW i \in 1 .. Len(t) PROVE t[i] \in In(s) /\ t[i] # s[1]
    BY DEF In
  <2>1. t[i] = s[i + 1] /\ i + 1 \in 1 .. Len(s) /\ i + 1 # 1
    BY <1>1
  <2>2. s[i + 1] # s[1]
    BY <1>2, <2>1 DEF Distinct
  <2> QED
    BY <2>1, <2>2 DEF In
<1>5. \A y \in In(s) : y # s[1] => y \in In(t)
  <2> SUFFICES ASSUME NEW i \in 1 .. Len(s), s[i] # s[1] PROVE s[i] \in In(t)
    BY DEF In
  <2>1. i - 1 \in 1 .. Len(t) /\ t[i - 1] = s[(i - 1) + 1] /\ (i - 1) + 1 = i
    BY <1>1
  <2> QED
    BY <2>1 DEF In
<1>6. In(t) = In(s) \ {Head(s)}
  BY <1>2, <1>4, <1>5
<1> QED
  BY <1>1, <1>2, <1>3, <1>6 DEF In, t

\* Events of distinct ways, none of them w's, leave room for one of w's.
LEMMA RoomFor ==
    ASSUME NEW w \in Ways, NEW E, NEW s \in Seq(Ways \X E), Distinct(s),
           \A x, y \in In(s) : x[1] = y[1] => x = y,
           \A x \in In(s) : x[1] # w
    PROVE  ~Full(s)
<1>1. Len(s) \in Nat /\ \A i \in 1 .. Len(s) : s[i] \in Ways \X E /\ s[i] \in In(s)
  BY LenProperties, ElementOfSeq DEF In
<1>2. N \in Nat \ {0} /\ QCap \in Nat /\ N + 1 <= QCap
  BY HttpAssumption
<1> DEFINE T == Ways \ {w}
           D == 1 .. Len(s)
           f == [i \in D |-> s[i][1]]
<1>3. f \in [D -> T]
  BY <1>1
<1>4. \A i, j \in D : f[i] = f[j] => i = j
  BY <1>1 DEF Distinct
<1>5. IsFiniteSet(T) /\ Cardinality(T) = N - 1
  <2>1. IsFiniteSet(1 .. N) /\ Cardinality(1 .. N) = N
    BY <1>2, FS_Interval
  <2> QED
    BY <2>1, FS_RemoveElement DEF Ways
<1>6. IsFiniteSet(D) /\ Cardinality(D) = Len(s)
  BY <1>1, FS_Interval
<1> HIDE DEF T, D, f
<1>7. ~(Cardinality(T) < Cardinality(D))
  BY <1>3, <1>4, <1>5, <1>6, FS_PigeonHole
<1> QED
  BY <1>1, <1>2, <1>5, <1>6, <1>7 DEF Full

-----------------------------------------------------------------------------
(* http_fsa_post and the dequeuing half of http_fsa_step. *)

LEMMA QueueFacts ==
    ASSUME NEW r, Exact(r)
    PROVE  /\ r.hi \in Seq(Ways \X HiEvents) /\ r.lo \in Seq(Ways \X LoEvents)
           /\ r.pending \in SUBSET (Ways \X Events) /\ r.lost \in BOOLEAN
           /\ Distinct(r.hi) /\ Distinct(r.lo)
           /\ r.pending = In(r.hi) \cup In(r.lo)
           /\ r = [hi |-> r.hi, lo |-> r.lo, pending |-> r.pending, lost |-> r.lost]
  BY DEF Exact, QTYPE

\* A queue is empty when no event is pending, and only then.
LEMMA EmptyQueues ==
    ASSUME NEW r, Exact(r)
    PROVE  r.pending = {} <=> r.hi = <<>> /\ r.lo = <<>>
<1>1. \A S : \A s \in Seq(S) : In(s) = {} <=> s = <<>>
  <2> SUFFICES ASSUME NEW S, NEW s \in Seq(S) PROVE In(s) = {} <=> s = <<>>
    OBVIOUS
  <2>1. Len(s) \in Nat /\ (s # <<>> => Len(s) \in Nat \ {0}) /\ (s = <<>> => Len(s) = 0)
    BY EmptySeq, LenProperties
  <2>2. s # <<>> => s[1] \in In(s)
    BY <2>1 DEF In
  <2>3. s = <<>> => In(s) = {}
    BY <2>1 DEF In
  <2> QED
    BY <2>2, <2>3
<1> QED
  BY <1>1, QueueFacts

\* An event for a way that has none is queued: the ring has room for it.
LEMMA PostOK ==
    ASSUME NEW r, QueueOK(r), NEW w \in Ways, NEW e \in Events, Free(r, w)
    PROVE  /\ QueueOK(Post(r, w, e))
           /\ Post(r, w, e).pending = r.pending \cup {<<w, e>>}
<1> DEFINE x == <<w, e>>
           p == Post(r, w, e)
<1>1. /\ r.hi \in Seq(Ways \X HiEvents) /\ r.lo \in Seq(Ways \X LoEvents)
      /\ r.pending \in SUBSET (Ways \X Events) /\ r.lost = FALSE
      /\ Distinct(r.hi) /\ Distinct(r.lo)
      /\ r.pending = In(r.hi) \cup In(r.lo)
      /\ r = [hi |-> r.hi, lo |-> r.lo, pending |-> r.pending, lost |-> r.lost]
  BY QueueFacts DEF QueueOK
<1>2. /\ x \in Ways \X Events /\ x \notin r.pending
      /\ \A y \in r.pending : y[1] # w
  <2> SUFFICES ASSUME NEW y \in r.pending PROVE y[1] # w
    BY DEF Free
  <2>1. y = <<y[1], y[2]>> /\ y[2] \in Events
    BY <1>1
  <2> QED
    BY <2>1 DEF Free
<1>3. ~Full(r.hi) /\ ~Full(r.lo)
  <2>1. /\ \A y, z \in In(r.hi) : y[1] = z[1] => y = z
        /\ \A y, z \in In(r.lo) : y[1] = z[1] => y = z
    BY <1>1 DEF QueueOK, OnePerWay
  <2>2. /\ \A y \in In(r.hi) : y[1] # w
        /\ \A y \in In(r.lo) : y[1] # w
    BY <1>1, <1>2
  <2> QED
    BY <1>1, <2>1, <2>2, RoomFor
<1>4. p = [hi      |-> IF e \in HiEvents THEN Append(r.hi, x) ELSE r.hi,
           lo      |-> IF e \in LoEvents THEN Append(r.lo, x) ELSE r.lo,
           pending |-> r.pending \cup {x}, lost |-> r.lost]
  BY <1>1, <1>2, <1>3 DEF Post
<1> HIDE DEF p
<1>5. HiEvents \cap LoEvents = {} /\ Events = HiEvents \cup LoEvents
  BY DEF HiEvents, LoEvents, Events
<1>6. OnePerWay(p)
  BY <1>2, <1>4 DEF OnePerWay, QueueOK
<1>7. CASE e \in HiEvents
  <2>1. x \in Ways \X HiEvents /\ x \notin In(r.hi)
    BY <1>1, <1>2, <1>7
  <2>2. /\ Append(r.hi, x) \in Seq(Ways \X HiEvents) /\ Distinct(Append(r.hi, x))
        /\ In(Append(r.hi, x)) = In(r.hi) \cup {x}
    BY <1>1, <2>1, AppendIn
  <2>3. p.hi = Append(r.hi, x) /\ p.lo = r.lo /\ p.pending = r.pending \cup {x}
        /\ p.lost = FALSE /\ p = [hi |-> p.hi, lo |-> p.lo, pending |-> p.pending, lost |-> p.lost]
    BY <1>1, <1>4, <1>5, <1>7
  <2>4. p \in QTYPE
    BY <1>1, <1>2, <2>2, <2>3 DEF QTYPE
  <2> QED
    BY <1>1, <1>6, <2>2, <2>3, <2>4 DEF QueueOK, Exact, p
<1>8. CASE e \in LoEvents
  <2>1. x \in Ways \X LoEvents /\ x \notin In(r.lo)
    BY <1>1, <1>2, <1>8
  <2>2. /\ Append(r.lo, x) \in Seq(Ways \X LoEvents) /\ Distinct(Append(r.lo, x))
        /\ In(Append(r.lo, x)) = In(r.lo) \cup {x}
    BY <1>1, <2>1, AppendIn
  <2>3. p.lo = Append(r.lo, x) /\ p.hi = r.hi /\ p.pending = r.pending \cup {x}
        /\ p.lost = FALSE /\ p = [hi |-> p.hi, lo |-> p.lo, pending |-> p.pending, lost |-> p.lost]
    BY <1>1, <1>4, <1>5, <1>8
  <2>4. p \in QTYPE
    BY <1>1, <1>2, <2>2, <2>3 DEF QTYPE
  <2> QED
    BY <1>1, <1>6, <2>2, <2>3, <2>4 DEF QueueOK, Exact, p
<1> QED
  BY <1>5, <1>7, <1>8

\* The next event is a pending one, and only its bit is cleared.
LEMMA DequeuedOK ==
    ASSUME QueueOK(q), Pending
    PROVE  /\ Peek \in q.pending /\ Peek \in Ways \X Events
           /\ QueueOK(Dequeued) /\ Dequeued.pending = q.pending \ {Peek}
           /\ Free(Dequeued, Peek[1])
<1>1. /\ q.hi \in Seq(Ways \X HiEvents) /\ q.lo \in Seq(Ways \X LoEvents)
      /\ q.pending \in SUBSET (Ways \X Events) /\ q.lost = FALSE
      /\ Distinct(q.hi) /\ Distinct(q.lo)
      /\ q.pending = In(q.hi) \cup In(q.lo)
      /\ q = [hi |-> q.hi, lo |-> q.lo, pending |-> q.pending, lost |-> q.lost]
  BY QueueFacts DEF QueueOK
<1>2. HiEvents \cap LoEvents = {}
  BY DEF HiEvents, LoEvents
<1>3. \A y \in In(q.hi) : y \in Ways \X HiEvents
  BY <1>1, ElementOfSeq DEF In
<1>4. \A y \in In(q.lo) : y \in Ways \X LoEvents
  BY <1>1, ElementOfSeq DEF In
<1>5. In(q.hi) \cap In(q.lo) = {}
  BY <1>2, <1>3, <1>4
<1> DEFINE d == Dequeued
<1>6. /\ Peek \in q.pending /\ d \in QTYPE /\ Distinct(d.hi) /\ Distinct(d.lo)
      /\ d.pending = q.pending \ {Peek} /\ d.lost = FALSE
      /\ d.pending = In(d.hi) \cup In(d.lo)
  <2>1. CASE q.hi # <<>>
    <3>1. Peek = Head(q.hi)
      BY <2>1 DEF Peek
    <3>2. /\ Head(q.hi) \in In(q.hi)
          /\ Tail(q.hi) \in Seq(Ways \X HiEvents) /\ Distinct(Tail(q.hi))
          /\ In(Tail(q.hi)) = In(q.hi) \ {Head(q.hi)}
      BY <1>1, <2>1, TailIn
    <3>3. q.pending \ {Peek} \in SUBSET (Ways \X Events) /\ q \in QTYPE
      BY <1>1 DEF QTYPE
    <3>4. /\ d.hi = Tail(q.hi) /\ d.lo = q.lo /\ d.pending = q.pending \ {Peek}
          /\ d.lost = FALSE
      BY <1>1, <2>1, <3>3 DEF Dequeued, QTYPE
    <3>5. d \in QTYPE
      BY <1>1, <2>1, <3>2, <3>3 DEF Dequeued, QTYPE
    <3> QED
      BY <1>1, <1>5, <3>1, <3>2, <3>4, <3>5
  <2>2. CASE q.hi = <<>>
    <3>1. Peek = Head(q.lo) /\ q.lo # <<>>
      BY <2>2 DEF Peek, Pending
    <3>2. /\ Head(q.lo) \in In(q.lo)
          /\ Tail(q.lo) \in Seq(Ways \X LoEvents) /\ Distinct(Tail(q.lo))
          /\ In(Tail(q.lo)) = In(q.lo) \ {Head(q.lo)}
      BY <1>1, <3>1, TailIn
    <3>3. q.pending \ {Peek} \in SUBSET (Ways \X Events) /\ q \in QTYPE
      BY <1>1 DEF QTYPE
    <3>4. /\ d.hi = q.hi /\ d.lo = Tail(q.lo) /\ d.pending = q.pending \ {Peek}
          /\ d.lost = FALSE
      BY <1>1, <2>2, <3>3 DEF Dequeued, QTYPE
    <3>5. d \in QTYPE
      BY <1>1, <2>2, <3>2, <3>3 DEF Dequeued, QTYPE
    <3> QED
      BY <1>1, <1>5, <3>1, <3>2, <3>4, <3>5
  <2> QED
    BY <2>1, <2>2
<1>7. Peek \in Ways \X Events
  BY <1>1, <1>6
<1> HIDE DEF d
<1>8. OnePerWay(d)
  BY <1>6 DEF OnePerWay, QueueOK
<1>9. \A e \in Events : <<Peek[1], e>> \in q.pending => <<Peek[1], e>> = Peek
  BY <1>6, <1>7 DEF QueueOK, OnePerWay
<1> QED
  BY <1>6, <1>7, <1>8, <1>9 DEF QueueOK, Exact, Free, d

-----------------------------------------------------------------------------
(* The inductive invariant. *)

\* The loops of the running poll that have passed way w.
Scanned(w) == (phase = "scan" /\ w < at) \/ phase \in {"events", "drain"}
Polled(w) == (phase = "events" /\ w < at) \/ phase = "drain"

Has(w, e) == <<w, e>> \in q.pending

\* The events that the table has a cell for.
Handles(s) == {t.on : t \in {u \in TransTable : u.from = s}}

\* A way that the output machine leaves alone has a response to hand over,
\* or none; a way before the scan has no event, and is in both or neither.
IdleOK(w) ==
    /\ ~Scanned(w) => Free(q, w)
    /\ ~Scanned(w) => (hc[w].st = "SENDING" <=> ostate[w] # "O_IDLE")
    /\ ostate[w] = "O_IDLE" => (hc[w].st = "SENDING" <=> Has(w, "RESP_READY"))
    /\ ostate[w] = "O_IDLE" => \A e \in Events : Has(w, e) => e = "RESP_READY"

\* A way that it works on has only events of its poll, that its state
\* handles; and a way that the scan gave up has lost its connection.
BusyOK(w) ==
    ostate[w] # "O_IDLE" =>
        /\ \A e \in Events : Has(w, e) => Polled(w) /\ e \in Handles(ostate[w])
        /\ hc[w].st # "SENDING" => /\ conn[w].state # "ESTABLISHED"
                                   /\ Polled(w) => Has(w, "TCP_CLOSED")

\* What an event says about its way while it is queued.
EventOK(w) ==
    /\ Has(w, "TCP_CLOSED") => conn[w].state # "ESTABLISHED"
    /\ Has(w, "ALL_DRAINED") \/ Has(w, "DO_CLOSE") \/ Has(w, "DO_KEEPALIVE")
       => conn[w].flight = 0
    /\ ostate[w] = "O_DRAINING" \/ Has(w, "ALL_QUEUED") => hc[w].ptr = hc[w].len

WayOK(w) == IdleOK(w) /\ BusyOK(w) /\ EventOK(w)

OStates == {"O_IDLE", "O_SETUP", "O_TX", "O_DRAINING"}

\* An entry of http_conn_table never sends past its response.
HOK(c) == c \in HCONN /\ c.ptr <= c.len

StateOK ==
    /\ phase \in {"net", "scan", "events", "drain"} /\ at \in Ways
    /\ conn \in [Ways -> TCONN] /\ hc \in [Ways -> HCONN]
    /\ \A w \in Ways : HOK(hc[w])
    /\ ostate \in [Ways -> OStates]

IInv == StateOK /\ QueueOK(q) /\ \A w \in Ways : WayOK(w)

-----------------------------------------------------------------------------
(* Minima, and the records of the tables. *)

LEMMA MinOfSet ==
    ASSUME NEW S, S \subseteq Nat, S # {}
    PROVE  Min(S) \in S /\ \A y \in S : Min(S) <= y
<1>1. PICK x \in S : \A y \in S : ~(<<y, x>> \in OpToRel(<, Nat))
  BY NatLessThanWellFounded, WFMin
<1>2. \A y \in S : x <= y
  <2>1. SUFFICES ASSUME NEW y \in S PROVE x <= y
    OBVIOUS
  <2>2. ~(y < x)
    BY <1>1, <2>1 DEF OpToRel
  <2> QED
    BY <2>2
<1> QED
  BY <1>2 DEF Min

LEMMA MinOfTwo ==
    ASSUME NEW a \in Nat, NEW b \in Nat
    PROVE  /\ Min({a, b}) \in Nat /\ Min({a, b}) <= a /\ Min({a, b}) <= b
           /\ Min({a, b}) = a \/ Min({a, b}) = b
<1>1. {a, b} \subseteq Nat /\ {a, b} # {}
  OBVIOUS
<1> QED
  BY <1>1, MinOfSet

LEMMA ReadyNat ==
    ASSUME NEW w \in Ways, conn[w] \in TCONN
    PROVE  Ready(w) \in Nat /\ Ready(w) <= conn[w].wnd
<1> DEFINE d == conn[w].wnd - conn[w].flight
<1>1. conn[w].wnd \in Nat /\ d \in Int /\ d <= conn[w].wnd
  BY DEF TCONN
<1>2. Ready(w) \in {0, d} /\ Ready(w) >= 0
  <2>1. \E x \in {0, d} : \A y \in {0, d} : x >= y
    BY <1>1
  <2> QED
    BY <2>1 DEF Ready, Max
<1> QED
  BY <1>1, <1>2

LEMMA AgeRange == 0 \in 0 .. TickMod - 1
  BY HttpAssumption

LEMMA ResetOK ==
    ASSUME NEW c \in HCONN
    PROVE  /\ HOK(ResetHconn(c)) /\ ResetHconn(c).st = "IDLE"
           /\ ResetHconn(c).ptr = ResetHconn(c).len
<1> DEFINE d == [c EXCEPT !.st = "IDLE", !.flags = {}, !.cl = 0, !.age = 0]
<1>1. d \in HCONN /\ d.st = "IDLE"
  BY AgeRange DEF HCONN
<1> HIDE DEF d
<1>2. Forget(d) \in HCONN /\ Forget(d).st = "IDLE" /\ Forget(d).ptr = 0 /\ Forget(d).len = 0
  BY <1>1 DEF HCONN, Forget
<1> QED
  BY <1>2 DEF ResetHconn, HOK, d

\* http_parse_request stays within the data and leaves the response alone.
LEMMA ParseOK ==
    ASSUME NEW c \in HCONN, NEW buf \in Seq(Tokens)
    PROVE  LET p == ParseRequest(c, buf)
           IN  p \in HCONN /\ p.st = c.st /\ p.ptr = c.ptr /\ p.len = c.len
<1> DEFINE ends == {i \in c.off + 1 .. Len(buf) : buf[i] # "part"}
           i    == Min(ends)
           t    == buf[i]
           good == [c EXCEPT !.ps = "done", !.off = i, !.req = i,
                             !.v11 = t # "get10",
                             !.cf = @ \/ t = "close11",
                             !.cl = IF t = "post11" THEN 1 ELSE @,
                             !.flags = IF t = "post11" THEN @ \cup {"clSeen"} ELSE @]
           bad  == [c EXCEPT !.ps = "error", !.off = i]
           more == [c EXCEPT !.off = Len(buf)]
<1>1. c.off \in Nat /\ Len(buf) \in Nat
  BY LenProperties DEF HCONN
<1>2. ends # {} => i \in Nat
  <2>1. ends \subseteq Nat
    BY <1>1
  <2> QED
    BY <2>1, MinOfSet
<1>3. \/ ParseRequest(c, buf) = c
      \/ ParseRequest(c, buf) = more
      \/ ends # {} /\ ParseRequest(c, buf) = bad
      \/ ends # {} /\ ParseRequest(c, buf) = good
  BY DEF ParseRequest
<1> HIDE DEF ends
<1> HIDE DEF i
<1> HIDE DEF t
<1>4. more \in HCONN /\ more.st = c.st /\ more.ptr = c.ptr /\ more.len = c.len
  BY <1>1 DEF HCONN
<1>5. i \in Nat => bad \in HCONN /\ bad.st = c.st /\ bad.ptr = c.ptr /\ bad.len = c.len
  BY DEF HCONN
<1>6. i \in Nat => good \in HCONN /\ good.st = c.st /\ good.ptr = c.ptr /\ good.len = c.len
  <2> SUFFICES ASSUME i \in Nat
               PROVE  good \in HCONN /\ good.st = c.st /\ good.ptr = c.ptr /\ good.len = c.len
    OBVIOUS
  <2> DEFINE v == t # "get10"
             f == c.cf \/ t = "close11"
             l == IF t = "post11" THEN 1 ELSE c.cl
             g == IF t = "post11" THEN c.flags \cup {"clSeen"} ELSE c.flags
  <2>1. v \in BOOLEAN /\ f \in BOOLEAN /\ l \in {0, 1} /\ g \in SUBSET Flags
    BY DEF HCONN, Flags
  <2>2. good = [c EXCEPT !.ps = "done", !.off = i, !.req = i, !.v11 = v,
                         !.cf = f, !.cl = l, !.flags = g]
    OBVIOUS
  <2> HIDE DEF v, f, l, g, good
  <2> QED
    BY <2>1, <2>2 DEF HCONN
<1> HIDE DEF good, bad, more
<1> QED
  BY <1>2, <1>3, <1>4, <1>5, <1>6

-----------------------------------------------------------------------------
(* The loops of http_poll, and the ways that a step leaves alone. *)

LEMMA ScanFlow ==
    ASSUME StateOK, phase = "scan", NEW w \in Ways, at = w, NextWay
    PROVE  /\ phase' \in {"scan", "events"} /\ at' \in Ways
           /\ ~Scanned(w) /\ Scanned(w)'
           /\ \A v \in Ways : /\ ~Polled(v) /\ ~Polled(v)'
                              /\ v # w => (Scanned(v)' <=> Scanned(v))
<1>1. N \in Nat \ {0} /\ at \in 1 .. N /\ Ways = 1 .. N
  BY HttpAssumption DEF StateOK, Ways
<1>2. CASE at < N
  <2>1. phase' = "scan" /\ at' = at + 1
    BY <1>2 DEF NextWay
  <2> QED
    BY <1>1, <1>2, <2>1 DEF Scanned, Polled
<1>3. CASE ~(at < N)
  <2>1. phase' = "events" /\ at' = 1 /\ at = N
    BY <1>1, <1>3 DEF NextWay
  <2> QED
    BY <1>1, <2>1 DEF Scanned, Polled
<1> QED
  BY <1>2, <1>3

LEMMA EventsFlow ==
    ASSUME StateOK, phase = "events", NEW w \in Ways, at = w, NextWay
    PROVE  /\ phase' \in {"events", "drain"} /\ at' \in Ways
           /\ ~Polled(w) /\ Polled(w)'
           /\ \A v \in Ways : /\ Scanned(v) /\ Scanned(v)'
                              /\ v # w => (Polled(v)' <=> Polled(v))
<1>1. N \in Nat \ {0} /\ at \in 1 .. N /\ Ways = 1 .. N
  BY HttpAssumption DEF StateOK, Ways
<1>2. CASE at < N
  <2>1. phase' = "events" /\ at' = at + 1
    BY <1>2 DEF NextWay
  <2> QED
    BY <1>1, <1>2, <2>1 DEF Scanned, Polled
<1>3. CASE ~(at < N)
  <2>1. phase' = "drain" /\ at' = 1 /\ at = N
    BY <1>1, <1>3 DEF NextWay
  <2> QED
    BY <1>1, <2>1 DEF Scanned, Polled
<1> QED
  BY <1>2, <1>3

\* A way that a step says nothing about.
SameWay(v) ==
    /\ conn'[v] = conn[v] /\ hc'[v] = hc[v] /\ ostate'[v] = ostate[v]
    /\ \A e \in Events : Has(v, e)' <=> Has(v, e)
    /\ Scanned(v)' <=> Scanned(v)
    /\ Polled(v)' <=> Polled(v)

LEMMA EventNames ==
    {"RESP_READY", "TCP_CLOSED", "DO_CLOSE", "DO_KEEPALIVE", "WIN_OPEN",
     "CHUNK_SENT", "ALL_QUEUED", "ALL_DRAINED"} = Events
  BY DEF Events, HiEvents, LoEvents

LEMMA SameOK ==
    ASSUME NEW v \in Ways, WayOK(v), SameWay(v)
    PROVE  WayOK(v)'
<1>1. IdleOK(v)'
  BY EventNames DEF WayOK, SameWay, IdleOK, Free, Has
<1>2. BusyOK(v)'
  BY EventNames DEF WayOK, SameWay, BusyOK
<1>3. EventOK(v)'
  BY EventNames DEF WayOK, SameWay, EventOK
<1> QED
  BY <1>1, <1>2, <1>3 DEF WayOK

\* Table g is table f after entry w was written, or left alone.
Wrote(f, g, w, x) == g = [f EXCEPT ![w] = x] \/ (g = f /\ x = f[w])

\* The tables after a write to one entry.
LEMMA OneWay ==
    ASSUME StateOK, NEW w \in Ways, NEW c, HOK(c), NEW k \in TCONN, NEW s \in OStates,
           Wrote(hc, hc', w, c), Wrote(conn, conn', w, k), Wrote(ostate, ostate', w, s),
           phase' \in {"net", "scan", "events", "drain"}, at' \in Ways
    PROVE  /\ StateOK'
           /\ hc'[w] = c /\ conn'[w] = k /\ ostate'[w] = s
           /\ \A v \in Ways \ {w} : /\ hc'[v] = hc[v] /\ conn'[v] = conn[v]
                                    /\ ostate'[v] = ostate[v]
<1>1. /\ hc'[w] = c /\ conn'[w] = k /\ ostate'[w] = s
      /\ \A v \in Ways \ {w} : /\ hc'[v] = hc[v] /\ conn'[v] = conn[v]
                               /\ ostate'[v] = ostate[v]
  BY DEF StateOK, Wrote
<1>2. /\ hc' \in [Ways -> HCONN] /\ conn' \in [Ways -> TCONN]
      /\ ostate' \in [Ways -> OStates]
  BY DEF StateOK, HOK, Wrote
<1> QED
  BY <1>1, <1>2 DEF StateOK

-----------------------------------------------------------------------------
(* The input side. *)

LEMMA GoneType == Gone \in TCONN /\ Gone.state = "OTHER" /\ Gone.flight = 0
<1>1. <<>> \in Seq(Tokens)
  BY EmptySeq
<1> QED
  BY <1>1 DEF Gone, TCONN

\* The three ways out of the input side for a connection without a response.
ScanMove(w) ==
    \/ \E c \in HCONN : HOK(c) /\ c.st # "SENDING" /\ Leave(w, c)
    \/ DoClose(w)
    \/ \E c \in HCONN, f \in SUBSET Flags : SetupResp(w, c, f)

LEMMA BodyCheckMoves ==
    ASSUME NEW w \in Ways, NEW c \in HCONN, HOK(c), BodyCheck(w, c)
    PROVE  ScanMove(w)
<1>1. c.flags \in SUBSET Flags
  BY DEF HCONN
<1> DEFINE d == [c EXCEPT !.st = "RECV_BODY"]
<1>2. d \in HCONN /\ HOK(d) /\ d.st # "SENDING"
  BY DEF HCONN, HOK
<1>3. SetupResp(w, c, c.flags) \/ Leave(w, d)
  BY DEF BodyCheck
<1> HIDE DEF d
<1> QED
  BY <1>1, <1>2, <1>3 DEF ScanMove

LEMMA DispatchMoves ==
    ASSUME NEW w \in Ways, NEW c \in HCONN, HOK(c), Dispatch(w, c)
    PROVE  ScanMove(w)
<1>1. /\ VersionFlags(c) \in SUBSET Flags /\ DoneFlags(c) \in SUBSET Flags
      /\ DoneFlags(c) \cup {"close"} \in SUBSET Flags
  BY DEF HCONN, Flags, VersionFlags, DoneFlags
<1> DEFINE d == [c EXCEPT !.flags = DoneFlags(c)]
<1>2. d \in HCONN /\ HOK(d)
  BY <1>1 DEF HCONN, HOK
<1>3. \/ SetupResp(w, c, VersionFlags(c))
      \/ SetupResp(w, c, DoneFlags(c) \cup {"close"})
      \/ BodyCheck(w, d)
  BY DEF Dispatch
<1> HIDE DEF d
<1> QED
  BY <1>1, <1>2, <1>3, BodyCheckMoves DEF ScanMove

LEMMA TryParseMoves ==
    ASSUME NEW w \in Ways, conn[w] \in TCONN, NEW c \in HCONN, HOK(c),
           c.st # "SENDING", TryParse(w, c)
    PROVE  ScanMove(w)
<1> DEFINE p == ParseRequest(c, conn[w].rx)
<1>1. conn[w].rx \in Seq(Tokens)
  BY DEF TCONN
<1>2. p \in HCONN /\ HOK(p) /\ p.st # "SENDING" /\ p.flags \in SUBSET Flags
  BY <1>1, ParseOK DEF HOK, HCONN
<1>3. \/ DoClose(w) \/ Leave(w, c) \/ Leave(w, p) \/ SetupResp(w, p, p.flags)
      \/ Dispatch(w, p)
  BY DEF TryParse
<1> HIDE DEF p
<1> QED
  BY <1>2, <1>3, DispatchMoves DEF ScanMove

LEMMA EstablishedMoves ==
    ASSUME StateOK, NEW w \in Ways, ScanEstablished(w)
    PROVE  \/ hc[w].st = "SENDING" /\ Leave(w, hc[w])
           \/ hc[w].st # "SENDING" /\ ScanMove(w)
<1>1. hc[w] \in HCONN /\ HOK(hc[w]) /\ conn[w] \in TCONN
  BY DEF StateOK
<1>2. CASE hc[w].st = "IDLE"
  <2> DEFINE d == [hc[w] EXCEPT !.st = "RECV_HDR", !.age = 0]
  <2>1. d \in HCONN /\ HOK(d) /\ d.st # "SENDING"
    BY <1>1, AgeRange DEF HCONN, HOK
  <2>2. TryParse(w, d)
    BY <1>2 DEF ScanEstablished
  <2> HIDE DEF d
  <2> QED
    BY <1>1, <1>2, <2>1, <2>2, TryParseMoves
<1>3. CASE hc[w].st = "RECV_HDR"
  BY <1>1, <1>3, TryParseMoves DEF ScanEstablished
<1>4. CASE hc[w].st = "RECV_BODY"
  <2>1. DoClose(w) \/ Leave(w, hc[w]) \/ BodyCheck(w, hc[w])
    BY <1>4 DEF ScanEstablished, ResumeBody
  <2> QED
    BY <1>1, <1>4, <2>1, BodyCheckMoves DEF ScanMove
<1>5. CASE hc[w].st = "SENDING"
  BY <1>5 DEF ScanEstablished
<1> QED
  BY <1>1, <1>2, <1>3, <1>4, <1>5 DEF HCONN

\* What becomes of entry h, with the connection as k, if the scan hands no
\* response over: a response under way is given up with its connection only.
Kept(h, c, k) ==
    /\ c.st = "SENDING" => h.st = "SENDING"
    /\ h.st = "SENDING" /\ c.st # "SENDING" => k.state # "ESTABLISHED"
    /\ c = h \/ c.ptr = c.len \/ h.st # "SENDING"

LEMMA ScanQuiet ==
    ASSUME IInv, NEW w \in Ways, phase = "scan", at = w, NextWay,
           UNCHANGED <<ostate, q>>, NEW c, HOK(c), NEW k \in TCONN,
           hc' = [hc EXCEPT ![w] = c],
           Wrote(conn, conn', w, k),
           Kept(hc[w], c, k)
    PROVE  IInv'
<1>1. /\ phase' \in {"scan", "events"} /\ at' \in Ways
      /\ ~Scanned(w) /\ Scanned(w)'
      /\ \A v \in Ways : /\ ~Polled(v) /\ ~Polled(v)'
                         /\ v # w => (Scanned(v)' <=> Scanned(v))
  BY ScanFlow DEF IInv
<1>2. ostate[w] \in OStates
  BY DEF IInv, StateOK
<1>3. /\ StateOK' /\ hc'[w] = c /\ conn'[w] = k /\ ostate'[w] = ostate[w]
      /\ \A v \in Ways \ {w} : /\ hc'[v] = hc[v] /\ conn'[v] = conn[v]
                               /\ ostate'[v] = ostate[v]
  <2>1. /\ hc'[w] = c /\ conn'[w] = k /\ ostate' = ostate
        /\ \A v \in Ways \ {w} : hc'[v] = hc[v] /\ conn'[v] = conn[v]
    BY DEF IInv, StateOK, Wrote
  <2>2. hc' \in [Ways -> HCONN] /\ conn' \in [Ways -> TCONN]
    BY DEF IInv, StateOK, HOK, Wrote
  <2> QED
    BY <1>1, <2>1, <2>2 DEF IInv, StateOK
<1>4. QueueOK(q)'
  BY DEF IInv
<1>5. \A v \in Ways \ {w} : WayOK(v)'
  BY <1>1, <1>3, SameOK DEF IInv, SameWay, Has
<1>6. WayOK(w)'
  <2>1. WayOK(w) /\ \A e \in Events : ~Has(w, e) /\ ~Has(w, e)'
    BY <1>1 DEF IInv, WayOK, IdleOK, Free, Has
  <2>2. hc[w].st = "SENDING" <=> ostate[w] # "O_IDLE"
    BY <1>1, <2>1 DEF WayOK, IdleOK
  <2>3. IdleOK(w)'
    BY <1>1, <1>3, <2>1, <2>2, EventNames DEF IdleOK, Kept
  <2>4. BusyOK(w)'
    BY <1>1, <1>3, <2>1, <2>2 DEF BusyOK, Kept
  <2>5. EventOK(w)'
    BY <1>3, <2>1, <2>2, EventNames DEF WayOK, EventOK, Kept
  <2> QED
    BY <2>3, <2>4, <2>5 DEF WayOK
<1> QED
  BY <1>3, <1>4, <1>5, <1>6 DEF IInv

\* A scan that hands a response over: its event has room in the ring.
LEMMA SetupOK ==
    ASSUME IInv, NEW w \in Ways, phase = "scan", at = w, NextWay,
           UNCHANGED ostate, hc[w].st # "SENDING",
           NEW c \in HCONN, NEW f \in SUBSET Flags, SetupResp(w, c, f)
    PROVE  IInv'
<1>1. /\ phase' \in {"scan", "events"} /\ at' \in Ways
      /\ ~Scanned(w) /\ Scanned(w)'
      /\ \A v \in Ways : /\ ~Polled(v) /\ ~Polled(v)'
                         /\ v # w => (Scanned(v)' <=> Scanned(v))
  BY ScanFlow DEF IInv
<1>2. PICK b \in BodyLens :
        hc' = [hc EXCEPT ![w] = [c EXCEPT !.st = "SENDING", !.flags = f,
                                          !.ptr = 0, !.len = HdrLen + b]]
  BY DEF SetupResp
<1> DEFINE d == [c EXCEPT !.st = "SENDING", !.flags = f, !.ptr = 0, !.len = HdrLen + b]
           rx == SubSeq(conn[w].rx, c.req + c.cl + 1, Len(conn[w].rx))
           k == [conn[w] EXCEPT !.rx = rx]
<1>3. HOK(d) /\ d.st = "SENDING"
  <2>1. HdrLen + b \in Nat
    BY HttpAssumption
  <2> HIDE DEF IInv
  <2>2. d \in HCONN /\ d.st = "SENDING" /\ d.ptr = 0 /\ d.len = HdrLen + b
    BY <2>1 DEF HCONN
  <2> QED
    BY <2>1, <2>2 DEF HOK
<1>4. conn[w] \in TCONN /\ ostate[w] \in OStates
  BY DEF IInv, StateOK
<1>5. rx \in Seq(Tokens)
  <2>1. conn[w].rx \in Seq(Tokens) /\ c.req \in Nat /\ c.cl \in {0, 1}
    BY <1>4 DEF TCONN, HCONN
  <2>2. c.req + c.cl + 1 \in Int /\ Len(conn[w].rx) \in Int /\ c.req + c.cl + 1 >= 1
    BY <2>1, LenProperties
  <2>3. \A i \in c.req + c.cl + 1 .. Len(conn[w].rx) : conn[w].rx[i] \in Tokens
    BY <2>1, <2>2, ElementOfSeq
  <2> QED
    BY <2>2, <2>3, SubSeqProperties
<1> HIDE DEF d, rx
<1>6. k \in TCONN /\ k.state = conn[w].state /\ k.flight = conn[w].flight
  BY <1>4, <1>5 DEF TCONN
<1>7. conn' = [conn EXCEPT ![w] = k] /\ q' = Post(q, w, "RESP_READY")
  BY <1>4 DEF SetupResp, rx, IInv, StateOK
<1> HIDE DEF k
<1>8. /\ StateOK' /\ hc'[w] = d /\ conn'[w] = k /\ ostate'[w] = ostate[w]
      /\ \A v \in Ways \ {w} : /\ hc'[v] = hc[v] /\ conn'[v] = conn[v]
                               /\ ostate'[v] = ostate[v]
  <2>1. /\ Wrote(hc, hc', w, d) /\ Wrote(conn, conn', w, k)
        /\ Wrote(ostate, ostate', w, ostate[w])
    BY <1>2, <1>7 DEF d, Wrote
  <2>2. StateOK /\ phase' \in {"net", "scan", "events", "drain"} /\ at' \in Ways
    BY <1>1 DEF IInv
  <2> QED
    BY <1>3, <1>4, <1>6, <2>1, <2>2, OneWay
<1>9. WayOK(w) /\ Free(q, w) /\ ostate[w] = "O_IDLE"
  BY <1>1 DEF IInv, WayOK, IdleOK
<1>10. QueueOK(q') /\ q'.pending = q.pending \cup {<<w, "RESP_READY">>}
  BY <1>7, <1>9, PostOK, EventNames DEF IInv
<1>11. \A v \in Ways \ {w} : WayOK(v)'
  <2>1. \A v \in Ways \ {w}, e \in Events : Has(v, e)' <=> Has(v, e)
    BY <1>10 DEF Has
  <2> QED
    BY <1>1, <1>8, <2>1, SameOK DEF IInv, SameWay
<1>12. \A e \in Events : Has(w, e)' <=> e = "RESP_READY"
  BY <1>9, <1>10 DEF Has, Free
<1>13. WayOK(w)'
  <2>1. IdleOK(w)'
    BY <1>1, <1>3, <1>8, <1>9, <1>12, EventNames DEF IdleOK
  <2>2. BusyOK(w)' /\ EventOK(w)'
    BY <1>8, <1>9, <1>12, EventNames DEF BusyOK, EventOK
  <2> QED
    BY <2>1, <2>2 DEF WayOK
<1> QED
  BY <1>8, <1>10, <1>11, <1>13 DEF IInv

LEMMA DoCloseOK ==
    ASSUME IInv, NEW w \in Ways, phase = "scan", at = w, NextWay,
           UNCHANGED ostate, hc[w].st # "SENDING", DoClose(w)
    PROVE  IInv'
<1> DEFINE c == ResetHconn(hc[w])
<1>1. HOK(c) /\ c.st = "IDLE"
  BY ResetOK DEF IInv, StateOK
<1>2. hc' = [hc EXCEPT ![w] = c] /\ conn' = [conn EXCEPT ![w] = Gone] /\ q' = q
  BY DEF DoClose
<1> HIDE DEF c
<1> QED
  BY <1>1, <1>2, GoneType, ScanQuiet DEF Kept, Wrote

LEMMA ScanEstablishedOK ==
    ASSUME IInv, NEW w \in Ways, ScanEstablished(w)
    PROVE  IInv'
<1>1. phase = "scan" /\ at = w /\ NextWay /\ UNCHANGED ostate
  BY DEF ScanEstablished
<1>2. conn[w] \in TCONN /\ HOK(hc[w])
  BY DEF IInv, StateOK
<1>3. CASE hc[w].st = "SENDING" /\ Leave(w, hc[w])
  BY <1>1, <1>2, <1>3, ScanQuiet DEF Leave, Kept, Wrote
<1>4. CASE hc[w].st # "SENDING" /\ ScanMove(w)
  <2>1. CASE DoClose(w)
    BY <1>1, <1>4, <2>1, DoCloseOK
  <2>2. ASSUME NEW c \in HCONN, HOK(c), c.st # "SENDING", Leave(w, c)
        PROVE  IInv'
    BY <1>1, <1>2, <1>4, <2>2, ScanQuiet DEF Leave, Kept, Wrote
  <2>3. ASSUME NEW c \in HCONN, NEW f \in SUBSET Flags, SetupResp(w, c, f)
        PROVE  IInv'
    BY <1>1, <1>4, <2>3, SetupOK
  <2> QED
    BY <1>4, <2>1, <2>2, <2>3 DEF ScanMove
<1> QED
  BY <1>3, <1>4, EstablishedMoves DEF IInv

LEMMA ScanOtherOK ==
    ASSUME IInv, NEW w \in Ways, ScanOther(w)
    PROVE  IInv'
<1>1. /\ phase = "scan" /\ at = w /\ NextWay /\ UNCHANGED ostate
      /\ conn[w].state # "ESTABLISHED"
  BY DEF ScanOther
<1>2. conn[w] \in TCONN /\ HOK(hc[w]) /\ hc[w] \in HCONN
  BY DEF IInv, StateOK
<1>3. CASE hc[w].st = "SENDING" /\ Leave(w, hc[w])
  BY <1>1, <1>2, <1>3, ScanQuiet DEF Leave, Kept, Wrote
<1>4. CASE hc[w].st # "SENDING" /\ DoClose(w)
  BY <1>1, <1>4, DoCloseOK
<1>5. CASE Leave(w, Forget([hc[w] EXCEPT !.st = "IDLE", !.age = 0]))
  <2> DEFINE d == [hc[w] EXCEPT !.st = "IDLE", !.age = 0]
             c == Forget(d)
  <2>1. d \in HCONN /\ d.st = "IDLE"
    BY <1>2, AgeRange DEF HCONN
  <2> HIDE DEF d
  <2>2. c \in HCONN /\ c.st = "IDLE" /\ c.ptr = 0 /\ c.len = 0
    BY <2>1 DEF HCONN, Forget
  <2>3. HOK(c) /\ c.ptr = c.len
    BY <2>2 DEF HOK
  <2>4. hc' = [hc EXCEPT ![w] = c] /\ conn' = conn /\ q' = q
    BY <1>5 DEF Leave, d
  <2> HIDE DEF c
  <2> QED
    BY <1>1, <1>2, <2>2, <2>3, <2>4, ScanQuiet DEF Kept, Wrote
<1> QED
  BY <1>3, <1>4, <1>5 DEF ScanOther

-----------------------------------------------------------------------------
(* TCP between two polls, and the two ends of a poll. *)

LEMMA EnvQuiet ==
    ASSUME IInv, NEW w \in Ways, phase = "net", NEW k \in TCONN,
           conn' = [conn EXCEPT ![w] = k], UNCHANGED <<phase, at, hc, ostate, q>>
    PROVE  IInv'
<1>1. StateOK'
  BY DEF IInv, StateOK
<1>2. ASSUME NEW v \in Ways PROVE WayOK(v)'
  <2>1. /\ WayOK(v) /\ ~Scanned(v) /\ ~Scanned(v)' /\ ~Polled(v) /\ ~Polled(v)'
        /\ \A e \in Events : ~Has(v, e) /\ ~Has(v, e)'
    BY DEF IInv, WayOK, IdleOK, Free, Has, Scanned, Polled
  <2>2. hc[v].st = "SENDING" <=> ostate[v] # "O_IDLE"
    BY <2>1 DEF WayOK, IdleOK
  <2>3. IdleOK(v)'
    BY <2>1, <2>2, EventNames DEF IdleOK, Free, Has
  <2>4. BusyOK(v)'
    BY <2>1, <2>2 DEF BusyOK
  <2>5. EventOK(v)'
    BY <2>1, EventNames DEF WayOK, EventOK
  <2> QED
    BY <2>3, <2>4, <2>5 DEF WayOK
<1> QED
  BY <1>1, <1>2 DEF IInv

LEMMA EnvOK ==
    ASSUME IInv, NEW w \in Ways, Env(w)
    PROVE  IInv'
<1>1. phase = "net" /\ UNCHANGED <<phase, at, hc, ostate, q>>
  BY DEF Env, Establish, Deliver, Ack, PeerFin, Drop
<1>2. conn[w] \in TCONN /\ <<>> \in Seq(Tokens) /\ conn \in [Ways -> TCONN]
  BY EmptySeq DEF IInv, StateOK
<1>3. CASE Establish(w)
  <2>1. PICK wnd \in Windows :
          conn' = [conn EXCEPT ![w] = [state |-> "ESTABLISHED", rx |-> <<>>,
                                       flight |-> 0, wnd |-> wnd]]
    BY <1>3 DEF Establish
  <2>2. wnd \in Nat
    BY HttpAssumption
  <2>3. [state |-> "ESTABLISHED", rx |-> <<>>, flight |-> 0, wnd |-> wnd] \in TCONN
    BY <1>2, <2>2 DEF TCONN
  <2> QED
    BY <1>1, <2>1, <2>3, EnvQuiet
<1>4. CASE Deliver(w)
  <2>1. PICK t \in Sends[w] : conn' = [conn EXCEPT ![w].rx = Append(@, t)]
    BY <1>4 DEF Deliver
  <2>2. Append(conn[w].rx, t) \in Seq(Tokens)
    <3>1. t \in Tokens /\ conn[w].rx \in Seq(Tokens)
      BY <1>2, HttpAssumption DEF TCONN
    <3> QED
      BY <3>1, AppendProperties
  <2> DEFINE k == [conn[w] EXCEPT !.rx = Append(conn[w].rx, t)]
  <2>3. k \in TCONN
    BY <1>2, <2>2 DEF TCONN
  <2>4. conn' = [conn EXCEPT ![w] = k]
    BY <2>1
  <2> HIDE DEF k
  <2> QED
    BY <1>1, <2>3, <2>4, EnvQuiet
<1>5. CASE Ack(w)
  <2>1. PICK f \in 0 .. conn[w].flight, wnd \in Windows :
          conn' = [conn EXCEPT ![w].flight = f, ![w].wnd = wnd]
    BY <1>5 DEF Ack
  <2>2. f \in Nat /\ wnd \in Nat
    BY <1>2, HttpAssumption DEF TCONN
  <2> DEFINE k == [conn[w] EXCEPT !.flight = f, !.wnd = wnd]
  <2>3. k \in TCONN
    BY <1>2, <2>2 DEF TCONN
  <2>4. conn' = [conn EXCEPT ![w] = k]
    BY <1>2, <2>1
  <2> HIDE DEF k
  <2> QED
    BY <1>1, <2>3, <2>4, EnvQuiet
<1>6. CASE PeerFin(w)
  <2> DEFINE k == [conn[w] EXCEPT !.state = "CLOSE_WAIT"]
  <2>1. k \in TCONN
    BY <1>2 DEF TCONN
  <2>2. conn' = [conn EXCEPT ![w] = k]
    BY <1>6 DEF PeerFin
  <2> HIDE DEF k
  <2> QED
    BY <1>1, <2>1, <2>2, EnvQuiet
<1>7. CASE Drop(w)
  BY <1>1, <1>7, GoneType, EnvQuiet DEF Drop
<1> QED
  BY <1>3, <1>4, <1>5, <1>6, <1>7 DEF Env

Aged(c, d) == [c EXCEPT !.age = (@ + d) % TickMod]

\* A tick added to an age stays a tick count.
LEMMA AgeOK ==
    ASSUME NEW c, HOK(c), NEW d \in {0, 1}
    PROVE  /\ HOK(Aged(c, d)) /\ Aged(c, d).st = c.st
           /\ Aged(c, d).ptr = c.ptr /\ Aged(c, d).len = c.len
<1>1. c.age + d \in Nat /\ TickMod \in Nat \ {0}
  BY HttpAssumption DEF HOK, HCONN
<1>2. (c.age + d) % TickMod \in 0 .. TickMod - 1
  BY <1>1
<1> QED
  BY <1>2 DEF HOK, HCONN, Aged

LEMMA BeginOK ==
    ASSUME IInv, NEW d \in {0, 1}, BeginPoll(d)
    PROVE  IInv'
<1>1. /\ phase = "net" /\ phase' = "scan" /\ at' = 1
      /\ UNCHANGED <<conn, ostate, q>>
      /\ hc' = [w \in Ways |->
                  IF hc[w].st = "IDLE" THEN hc[w]
                  ELSE [hc[w] EXCEPT !.age = (@ + d) % TickMod]]
  BY DEF BeginPoll
<1>2. \A w \in Ways : /\ HOK(hc'[w]) /\ hc'[w].st = hc[w].st
                      /\ hc'[w].ptr = hc[w].ptr /\ hc'[w].len = hc[w].len
  <2> SUFFICES ASSUME NEW w \in Ways
               PROVE  /\ HOK(hc'[w]) /\ hc'[w].st = hc[w].st
                      /\ hc'[w].ptr = hc[w].ptr /\ hc'[w].len = hc[w].len
    OBVIOUS
  <2>1. HOK(hc[w])
    BY DEF IInv, StateOK
  <2>2. hc'[w] = hc[w] \/ hc'[w] = Aged(hc[w], d)
    BY <1>1 DEF Aged
  <2> QED
    BY <2>1, <2>2, AgeOK
<1>3. 1 \in Ways /\ \A w \in Ways : ~(w < 1)
  BY HttpAssumption DEF Ways
<1>4. hc' \in [Ways -> HCONN]
  BY <1>1, <1>2 DEF HOK
<1>5. StateOK'
  BY <1>1, <1>2, <1>3, <1>4 DEF IInv, StateOK
<1>6. ASSUME NEW v \in Ways PROVE WayOK(v)'
  <2>1. /\ WayOK(v) /\ ~Scanned(v) /\ ~Scanned(v)' /\ ~Polled(v) /\ ~Polled(v)'
        /\ \A e \in Events : Has(v, e)' <=> Has(v, e)
    BY <1>1, <1>3 DEF IInv, Has, Scanned, Polled
  <2>2. IdleOK(v)'
    BY <1>1, <1>2, <2>1, EventNames DEF WayOK, IdleOK, Free, Has
  <2>3. BusyOK(v)'
    BY <1>1, <1>2, <2>1, EventNames DEF WayOK, BusyOK
  <2>4. EventOK(v)'
    BY <1>1, <1>2, <2>1, EventNames DEF WayOK, EventOK
  <2> QED
    BY <2>2, <2>3, <2>4 DEF WayOK
<1> QED
  BY <1>1, <1>5, <1>6 DEF IInv

\* http_poll returns with both queues empty.
LEMMA EndOK ==
    ASSUME IInv, EndPoll
    PROVE  IInv'
<1>1. /\ phase = "drain" /\ phase' = "net" /\ UNCHANGED <<at, conn, hc, ostate, q>>
      /\ q.pending = {}
  BY EmptyQueues DEF EndPoll, Pending, IInv, QueueOK
<1>2. StateOK'
  BY <1>1 DEF IInv, StateOK
<1>3. ASSUME NEW v \in Ways PROVE WayOK(v)'
  <2>1. /\ WayOK(v) /\ Polled(v) /\ ~Polled(v)' /\ ~Scanned(v)'
        /\ \A e \in Events : ~Has(v, e) /\ ~Has(v, e)'
    BY <1>1 DEF IInv, Has, Scanned, Polled
  <2>2. hc[v].st = "SENDING" <=> ostate[v] # "O_IDLE"
    BY <2>1, EventNames DEF WayOK, IdleOK, BusyOK
  <2>3. IdleOK(v)'
    BY <1>1, <2>1, <2>2, EventNames DEF IdleOK, Free, Has
  <2>4. BusyOK(v)'
    BY <1>1, <2>1, <2>2 DEF BusyOK
  <2>5. EventOK(v)'
    BY <1>1, <2>1, EventNames DEF WayOK, EventOK
  <2> QED
    BY <2>3, <2>4, <2>5 DEF WayOK
<1> QED
  BY <1>1, <1>2, <1>3 DEF IInv

-----------------------------------------------------------------------------
(* The output side: http_fsa_poll_tcp_events. *)

LEMMA ChooseOne ==
    ASSUME NEW x
    PROVE  (CHOOSE e \in {x} : TRUE) = x
  OBVIOUS

\* The cells of http_fsa_trans_table, by state.
LEMMA Cell ==
    ASSUME NEW s, NEW e, NEW to, NEW h,
           [from |-> s, on |-> e, to |-> to, do |-> h] \in TransTable
    PROVE  e \in Handles(s)
  BY DEF Handles

LEMMA Cells_Setup ==
    {"WIN_OPEN", "TCP_CLOSED"}
        \subseteq Handles("O_SETUP")
<1>1. [from |-> "O_SETUP", on |-> "WIN_OPEN", to |-> "O_TX", do |-> "h_send"]
        \in TransTable
  BY DEF TransTable
<1>2. [from |-> "O_SETUP", on |-> "TCP_CLOSED", to |-> "O_IDLE", do |-> "h_reset"]
        \in TransTable
  BY DEF TransTable
<1> QED
  BY <1>1, <1>2, Cell

LEMMA Cells_Tx ==
    {"WIN_OPEN", "CHUNK_SENT", "ALL_QUEUED", "TCP_CLOSED"}
        \subseteq Handles("O_TX")
<1>1. [from |-> "O_TX", on |-> "WIN_OPEN", to |-> "O_TX", do |-> "h_send"]
        \in TransTable
  BY DEF TransTable
<1>2. [from |-> "O_TX", on |-> "CHUNK_SENT", to |-> "O_TX", do |-> "h_send"]
        \in TransTable
  BY DEF TransTable
<1>3. [from |-> "O_TX", on |-> "ALL_QUEUED", to |-> "O_DRAINING", do |-> "h_noop"]
        \in TransTable
  BY DEF TransTable
<1>4. [from |-> "O_TX", on |-> "TCP_CLOSED", to |-> "O_IDLE", do |-> "h_reset"]
        \in TransTable
  BY DEF TransTable
<1> QED
  BY <1>1, <1>2, <1>3, <1>4, Cell

LEMMA Cells_Draining ==
    {"ALL_DRAINED", "TCP_CLOSED", "DO_CLOSE", "DO_KEEPALIVE"}
        \subseteq Handles("O_DRAINING")
<1>1. [from |-> "O_DRAINING", on |-> "ALL_DRAINED", to |-> "O_DRAINING", do |-> "h_decide"]
        \in TransTable
  BY DEF TransTable
<1>2. [from |-> "O_DRAINING", on |-> "TCP_CLOSED", to |-> "O_IDLE", do |-> "h_reset"]
        \in TransTable
  BY DEF TransTable
<1>3. [from |-> "O_DRAINING", on |-> "DO_CLOSE", to |-> "O_IDLE", do |-> "h_close"]
        \in TransTable
  BY DEF TransTable
<1>4. [from |-> "O_DRAINING", on |-> "DO_KEEPALIVE", to |-> "O_IDLE", do |-> "h_keepalive"]
        \in TransTable
  BY DEF TransTable
<1> QED
  BY <1>1, <1>2, <1>3, <1>4, Cell

\* What http_fsa_poll_tcp_events posts.
LEMMA TcpEventsAre ==
    ASSUME StateOK, NEW w \in Ways
    PROVE  \/ TcpEvents(w) = {} /\ (conn[w].state = "ESTABLISHED" \/ ostate[w] = "O_IDLE")
           \/ \E e \in Events :
                /\ TcpEvents(w) = {e} /\ ostate[w] # "O_IDLE"
                /\ e \in Handles(ostate[w])
                /\ e = "TCP_CLOSED" <=> conn[w].state # "ESTABLISHED"
                /\ e \in {"TCP_CLOSED", "ALL_DRAINED", "WIN_OPEN"}
                /\ e = "ALL_DRAINED" => conn[w].flight = 0
<1>1. ostate[w] \in OStates
  BY DEF StateOK
<1>2. \/ TcpEvents(w) = {} /\ (conn[w].state = "ESTABLISHED" \/ ostate[w] = "O_IDLE")
      \/ /\ TcpEvents(w) = {"TCP_CLOSED"} /\ ostate[w] # "O_IDLE"
         /\ conn[w].state # "ESTABLISHED"
      \/ /\ TcpEvents(w) = {"ALL_DRAINED"} /\ ostate[w] = "O_DRAINING"
         /\ conn[w].state = "ESTABLISHED" /\ conn[w].flight = 0
      \/ /\ TcpEvents(w) = {"WIN_OPEN"} /\ ostate[w] \in {"O_SETUP", "O_TX"}
         /\ conn[w].state = "ESTABLISHED"
  BY <1>1 DEF TcpEvents, OStates
<1>3. "TCP_CLOSED" \in Events /\ "ALL_DRAINED" \in Events /\ "WIN_OPEN" \in Events
  BY EventNames
<1>4. CASE TcpEvents(w) = {"TCP_CLOSED"} /\ ostate[w] # "O_IDLE"
           /\ conn[w].state # "ESTABLISHED"
  <2>1. "TCP_CLOSED" \in Handles(ostate[w])
    BY <1>1, <1>4, Cells_Setup, Cells_Tx, Cells_Draining DEF OStates
  <2> QED
    BY <1>3, <1>4, <2>1
<1>5. CASE /\ TcpEvents(w) = {"ALL_DRAINED"} /\ ostate[w] = "O_DRAINING"
           /\ conn[w].state = "ESTABLISHED" /\ conn[w].flight = 0
  <2>1. "ALL_DRAINED" \in Handles(ostate[w])
    BY <1>5, Cells_Draining
  <2> QED
    BY <1>3, <1>5, <2>1
<1>6. CASE /\ TcpEvents(w) = {"WIN_OPEN"} /\ ostate[w] \in {"O_SETUP", "O_TX"}
           /\ conn[w].state = "ESTABLISHED"
  <2>1. "WIN_OPEN" \in Handles(ostate[w])
    BY <1>6, Cells_Setup, Cells_Tx
  <2> QED
    BY <1>3, <1>6, <2>1
<1> QED
  BY <1>2, <1>4, <1>5, <1>6

LEMMA PollTcpEventsOK ==
    ASSUME IInv, NEW w \in Ways, PollTcpEvents(w)
    PROVE  IInv'
<1>1. phase = "events" /\ at = w /\ NextWay /\ UNCHANGED <<conn, hc, ostate>>
  BY DEF PollTcpEvents
<1>2. /\ phase' \in {"events", "drain"} /\ at' \in Ways
      /\ ~Polled(w) /\ Polled(w)'
      /\ \A v \in Ways : /\ Scanned(v) /\ Scanned(v)'
                         /\ v # w => (Polled(v)' <=> Polled(v))
  BY <1>1, EventsFlow DEF IInv
<1>3. StateOK'
  BY <1>1, <1>2 DEF IInv, StateOK
<1>4. WayOK(w)
  BY DEF IInv
<1>5. CASE TcpEvents(w) = {} /\ (conn[w].state = "ESTABLISHED" \/ ostate[w] = "O_IDLE")
  <2>1. q' = q
    BY <1>5 DEF PollTcpEvents
  <2>2. \A v \in Ways, e \in Events : Has(v, e)' <=> Has(v, e)
    BY <2>1 DEF Has
  <2>3. \A v \in Ways \ {w} : WayOK(v)'
    BY <1>1, <1>2, <2>2, SameOK DEF IInv, SameWay
  <2>4. IdleOK(w)'
    BY <1>1, <1>2, <1>4, <2>2, EventNames DEF WayOK, IdleOK
  <2>5. BusyOK(w)'
    BY <1>1, <1>2, <1>4, <1>5, <2>2 DEF WayOK, BusyOK
  <2>6. EventOK(w)'
    BY <1>1, <1>4, <2>2, EventNames DEF WayOK, EventOK
  <2>7. WayOK(w)'
    BY <2>4, <2>5, <2>6 DEF WayOK
  <2> QED
    BY <1>3, <2>1, <2>3, <2>7 DEF IInv
<1>6. ASSUME NEW e \in Events, TcpEvents(w) = {e}, ostate[w] # "O_IDLE",
             e \in Handles(ostate[w]),
             e = "TCP_CLOSED" <=> conn[w].state # "ESTABLISHED",
             e \in {"TCP_CLOSED", "ALL_DRAINED", "WIN_OPEN"},
             e = "ALL_DRAINED" => conn[w].flight = 0
      PROVE  IInv'
  <2>1. q' = Post(q, w, e)
    BY <1>6, ChooseOne DEF PollTcpEvents
  <2>2. Free(q, w)
    BY <1>2, <1>4, <1>6 DEF WayOK, BusyOK, Free, Has
  <2>3. QueueOK(q') /\ q'.pending = q.pending \cup {<<w, e>>}
    BY <2>1, <2>2, PostOK DEF IInv
  <2>4. \A v \in Ways \ {w}, x \in Events : Has(v, x)' <=> Has(v, x)
    BY <2>3 DEF Has
  <2>5. \A x \in Events : Has(w, x)' <=> x = e
    BY <2>2, <2>3 DEF Has, Free
  <2>6. \A v \in Ways \ {w} : WayOK(v)'
    BY <1>1, <1>2, <2>4, SameOK DEF IInv, SameWay
  <2>7. IdleOK(w)'
    BY <1>1, <1>2, <1>6 DEF IdleOK
  <2>8. BusyOK(w)'
    BY <1>1, <1>2, <1>4, <1>6, <2>5, EventNames DEF WayOK, BusyOK
  <2>9. EventOK(w)'
    BY <1>1, <1>4, <1>6, <2>5, EventNames DEF WayOK, EventOK
  <2>10. WayOK(w)'
    BY <2>7, <2>8, <2>9 DEF WayOK
  <2> QED
    BY <1>3, <2>3, <2>6, <2>10 DEF IInv
<1> QED
  BY <1>5, <1>6, TcpEventsAre DEF IInv

-----------------------------------------------------------------------------
(* The output side: http_fsa_step and its handlers. *)

\* What a handler leaves of its way: the entry, the connection, the state,
\* and the event it has posted, if any.
After(c, k, s, e) ==
    /\ s = "O_IDLE" => c.st # "SENDING" /\ e = "none"
    /\ s # "O_IDLE" =>
         /\ e # "none" => e \in Handles(s)
         /\ c.st # "SENDING" => k.state # "ESTABLISHED" /\ e = "TCP_CLOSED"
    /\ e = "TCP_CLOSED" => k.state # "ESTABLISHED"
    /\ e \in {"ALL_DRAINED", "DO_CLOSE", "DO_KEEPALIVE"} => k.flight = 0
    /\ s = "O_DRAINING" \/ e = "ALL_QUEUED" => c.ptr = c.len

\* The step up to the handler: the event is w's only one, and says of w
\* what EventOK says.
LEMMA StepFacts ==
    ASSUME IInv, NEW w \in Ways, NEW h, Step(w, h)
    PROVE  \E e \in Events, t \in TransTable :
             /\ phase = "drain" /\ UNCHANGED <<phase, at>>
             /\ Pending /\ Peek = <<w, e>> /\ Has(w, e)
             /\ \A x \in Events : Has(w, x) => x = e
             /\ t.from = ostate[w] /\ t.on = e /\ t.do = h
             /\ ostate' = [ostate EXCEPT ![w] = t.to]
<1>1. phase = "drain" /\ Pending /\ Peek[1] = w /\ UNCHANGED <<phase, at>>
  BY DEF Step
<1>2. PICK t \in TransTable : /\ t.from = ostate[w] /\ t.on = Peek[2] /\ t.do = h
                              /\ ostate' = [ostate EXCEPT ![w] = t.to]
  BY <1>1 DEF Step, Cells
<1>3. Peek \in q.pending /\ Peek \in Ways \X Events
  BY <1>1, DequeuedOK DEF IInv
<1> DEFINE e == Peek[2]
<1>4. e \in Events /\ Peek = <<w, e>>
  BY <1>1, <1>3
<1>5. \A x \in Events : <<w, x>> \in q.pending => <<w, x>> = Peek
  BY <1>3, <1>4 DEF IInv, QueueOK, OnePerWay
<1>6. Has(w, e) /\ \A x \in Events : Has(w, x) => x = e
  BY <1>3, <1>4, <1>5 DEF Has
<1> QED
  BY <1>1, <1>2, <1>4, <1>6

\* The rest of the step.
LEMMA DrainOK ==
    ASSUME IInv, NEW w \in Ways, NEW o \in Events, phase = "drain",
           UNCHANGED <<phase, at>>, Pending, Peek = <<w, o>>,
           NEW c, HOK(c), NEW k \in TCONN, NEW s \in OStates, NEW e,
           Wrote(hc, hc', w, c), Wrote(conn, conn', w, k), Wrote(ostate, ostate', w, s),
           \/ e = "none" /\ q' = Dequeued
           \/ e \in Events \ {"RESP_READY"} /\ q' = Post(Dequeued, w, e),
           After(c, k, s, e)
    PROVE  IInv'
<1>1. /\ QueueOK(Dequeued) /\ Dequeued.pending = q.pending \ {<<w, o>>}
      /\ Free(Dequeued, w)
  BY DequeuedOK DEF IInv
<1>2. "none" \notin Events
  BY EventNames
<1>3. /\ QueueOK(q')
      /\ \A v \in Ways \ {w}, x \in Events : Has(v, x)' <=> Has(v, x)
      /\ \A x \in Events : Has(w, x)' <=> x = e
  <2>1. CASE e = "none" /\ q' = Dequeued
    <3>1. q'.pending = q.pending \ {<<w, o>>}
      BY <1>1, <2>1
    <3> QED
      BY <1>1, <1>2, <2>1, <3>1 DEF Has, Free
  <2>2. CASE e \in Events /\ q' = Post(Dequeued, w, e)
    <3>1. QueueOK(q') /\ q'.pending = (q.pending \ {<<w, o>>}) \cup {<<w, e>>}
      BY <1>1, <2>2, PostOK
    <3>2. \A v \in Ways \ {w}, x \in Events : Has(v, x)' <=> Has(v, x)
      BY <3>1 DEF Has
    <3>3. \A x \in Events : Has(w, x)' <=> x = e
      BY <1>1, <3>1 DEF Has, Free
    <3> QED
      BY <3>1, <3>2, <3>3
  <2> QED
    BY <2>1, <2>2
<1>4. /\ phase' \in {"net", "scan", "events", "drain"} /\ at' \in Ways /\ StateOK
      /\ \A v \in Ways : Scanned(v) /\ Scanned(v)' /\ Polled(v) /\ Polled(v)'
  BY DEF IInv, StateOK, Scanned, Polled
<1>5. /\ hc'[w] = c /\ conn'[w] = k /\ ostate'[w] = s
      /\ \A v \in Ways \ {w} : /\ hc'[v] = hc[v] /\ conn'[v] = conn[v]
                               /\ ostate'[v] = ostate[v]
  BY <1>4 DEF StateOK, Wrote
<1>6. StateOK'
  <2>1. /\ hc' \in [Ways -> HCONN] /\ conn' \in [Ways -> TCONN]
        /\ ostate' \in [Ways -> OStates]
    BY <1>4 DEF StateOK, HOK, Wrote
  <2> QED
    BY <1>4, <1>5, <2>1 DEF StateOK
<1>7. \A v \in Ways \ {w} : WayOK(v)'
  BY <1>3, <1>4, <1>5, SameOK DEF IInv, SameWay
<1>8. e # "RESP_READY"
  OBVIOUS
<1>9. IdleOK(w)'
  BY <1>2, <1>3, <1>4, <1>5, <1>8, EventNames DEF IdleOK, After
<1>10. BusyOK(w)'
  BY <1>2, <1>3, <1>4, <1>5, EventNames DEF BusyOK, After
<1>11. EventOK(w)'
  BY <1>3, <1>5, EventNames DEF EventOK, After
<1>12. WayOK(w)'
  BY <1>9, <1>10, <1>11 DEF WayOK
<1> QED
  BY <1>3, <1>6, <1>7, <1>12 DEF IInv

\* The cells that call each handler.
LEMMA HandlerCells ==
    ASSUME NEW t \in TransTable
    PROVE  /\ t.do = "h_install" => t.from = "O_IDLE" /\ t.on = "RESP_READY" /\ t.to = "O_SETUP"
           /\ t.do = "h_send" => /\ t.from \in {"O_SETUP", "O_TX"} /\ t.to = "O_TX"
                                 /\ t.on \in {"WIN_OPEN", "CHUNK_SENT"}
           /\ t.do = "h_noop" => t.from = "O_TX" /\ t.on = "ALL_QUEUED" /\ t.to = "O_DRAINING"
           /\ t.do = "h_decide" => /\ t.from = "O_DRAINING" /\ t.on = "ALL_DRAINED"
                                   /\ t.to = "O_DRAINING"
           /\ t.do = "h_reset" => t.on = "TCP_CLOSED" /\ t.to = "O_IDLE" /\ t.from # "O_IDLE"
           /\ t.do = "h_close" => t.from = "O_DRAINING" /\ t.on = "DO_CLOSE" /\ t.to = "O_IDLE"
           /\ t.do = "h_keepalive" => /\ t.from = "O_DRAINING" /\ t.on = "DO_KEEPALIVE"
                                      /\ t.to = "O_IDLE"
  BY DEF TransTable

LEMMA WayFacts ==
    ASSUME IInv, NEW w \in Ways
    PROVE  /\ HOK(hc[w]) /\ hc[w] \in HCONN /\ conn[w] \in TCONN
           /\ ostate[w] \in OStates /\ WayOK(w)
           /\ Wrote(hc, hc, w, hc[w]) /\ Wrote(conn, conn, w, conn[w])
  BY DEF IInv, StateOK, Wrote

LEMMA HInstallOK ==
    ASSUME IInv, NEW w \in Ways, HInstall(w)
    PROVE  IInv'
<1>1. /\ Step(w, "h_install") /\ q' = Post(Dequeued, w, "WIN_OPEN")
      /\ conn' = conn /\ hc' = hc
  BY DEF HInstall
<1>2. PICK o \in Events, t \in TransTable :
        /\ phase = "drain" /\ UNCHANGED <<phase, at>>
        /\ Pending /\ Peek = <<w, o>> /\ Has(w, o)
        /\ \A x \in Events : Has(w, x) => x = o
        /\ t.from = ostate[w] /\ t.on = o /\ t.do = "h_install"
        /\ ostate' = [ostate EXCEPT ![w] = t.to]
  BY <1>1, StepFacts
<1>3. ostate[w] = "O_IDLE" /\ o = "RESP_READY" /\ t.to = "O_SETUP"
  BY <1>2, HandlerCells
<1>4. /\ HOK(hc[w]) /\ conn[w] \in TCONN /\ WayOK(w)
      /\ Wrote(hc, hc', w, hc[w]) /\ Wrote(conn, conn', w, conn[w])
  BY <1>1, WayFacts
<1>5. Wrote(ostate, ostate', w, "O_SETUP") /\ "O_SETUP" \in OStates
  BY <1>2, <1>3 DEF Wrote, OStates
<1>6. hc[w].st = "SENDING"
  BY <1>2, <1>3, <1>4 DEF WayOK, IdleOK
<1>7. After(hc[w], conn[w], "O_SETUP", "WIN_OPEN")
  BY <1>6, Cells_Setup DEF After
<1>8. "WIN_OPEN" \in Events \ {"RESP_READY"}
  BY EventNames
<1> QED
  BY <1>1, <1>2, <1>4, <1>5, <1>7, <1>8, DrainOK

LEMMA HNoopOK ==
    ASSUME IInv, NEW w \in Ways, HNoop(w)
    PROVE  IInv'
<1>1. Step(w, "h_noop") /\ q' = Dequeued /\ conn' = conn /\ hc' = hc
  BY DEF HNoop
<1>2. PICK o \in Events, t \in TransTable :
        /\ phase = "drain" /\ UNCHANGED <<phase, at>>
        /\ Pending /\ Peek = <<w, o>> /\ Has(w, o)
        /\ \A x \in Events : Has(w, x) => x = o
        /\ t.from = ostate[w] /\ t.on = o /\ t.do = "h_noop"
        /\ ostate' = [ostate EXCEPT ![w] = t.to]
  BY <1>1, StepFacts
<1>3. ostate[w] = "O_TX" /\ o = "ALL_QUEUED" /\ t.to = "O_DRAINING"
  BY <1>2, HandlerCells
<1>4. /\ HOK(hc[w]) /\ conn[w] \in TCONN /\ WayOK(w)
      /\ Wrote(hc, hc', w, hc[w]) /\ Wrote(conn, conn', w, conn[w])
  BY <1>1, WayFacts
<1>5. Wrote(ostate, ostate', w, "O_DRAINING") /\ "O_DRAINING" \in OStates
  BY <1>2, <1>3 DEF Wrote, OStates
<1>6. hc[w].st = "SENDING" /\ hc[w].ptr = hc[w].len
  BY <1>2, <1>3, <1>4, EventNames DEF WayOK, BusyOK, EventOK, Polled
<1>7. After(hc[w], conn[w], "O_DRAINING", "none")
  BY <1>6 DEF After
<1> QED
  BY <1>1, <1>2, <1>4, <1>5, <1>7, DrainOK

LEMMA HDecideOK ==
    ASSUME IInv, NEW w \in Ways, HDecide(w)
    PROVE  IInv'
<1>1. /\ Step(w, "h_decide") /\ conn' = conn /\ hc' = hc
      /\ \E e \in {"DO_CLOSE", "DO_KEEPALIVE"} : q' = Post(Dequeued, w, e)
  BY DEF HDecide
<1>2. PICK o \in Events, t \in TransTable :
        /\ phase = "drain" /\ UNCHANGED <<phase, at>>
        /\ Pending /\ Peek = <<w, o>> /\ Has(w, o)
        /\ \A x \in Events : Has(w, x) => x = o
        /\ t.from = ostate[w] /\ t.on = o /\ t.do = "h_decide"
        /\ ostate' = [ostate EXCEPT ![w] = t.to]
  BY <1>1, StepFacts
<1>3. ostate[w] = "O_DRAINING" /\ o = "ALL_DRAINED" /\ t.to = "O_DRAINING"
  BY <1>2, HandlerCells
<1>4. /\ HOK(hc[w]) /\ conn[w] \in TCONN /\ WayOK(w)
      /\ Wrote(hc, hc', w, hc[w]) /\ Wrote(conn, conn', w, conn[w])
  BY <1>1, WayFacts
<1>5. Wrote(ostate, ostate', w, "O_DRAINING") /\ "O_DRAINING" \in OStates
  BY <1>2, <1>3 DEF Wrote, OStates
<1>6. hc[w].st = "SENDING" /\ hc[w].ptr = hc[w].len /\ conn[w].flight = 0
  BY <1>2, <1>3, <1>4, EventNames DEF WayOK, BusyOK, EventOK, Polled
<1>7. PICK e \in {"DO_CLOSE", "DO_KEEPALIVE"} : q' = Post(Dequeued, w, e)
  BY <1>1
<1>8. e \in Events \ {"RESP_READY"}
  BY EventNames
<1>9. After(hc[w], conn[w], "O_DRAINING", e)
  BY <1>6, <1>7, Cells_Draining DEF After
<1> QED
  BY <1>2, <1>4, <1>5, <1>7, <1>8, <1>9, DrainOK

\* h_reset, h_close and h_keepalive: the way goes back to the input side.
LEMMA HandBackOK ==
    ASSUME IInv, NEW w \in Ways, NEW h \in {"h_reset", "h_close", "h_keepalive"},
           Step(w, h), q' = Dequeued, NEW c, HOK(c), c.st # "SENDING",
           hc' = [hc EXCEPT ![w] = c], NEW k \in TCONN, Wrote(conn, conn', w, k)
    PROVE  IInv'
<1>1. PICK o \in Events, t \in TransTable :
        /\ phase = "drain" /\ UNCHANGED <<phase, at>>
        /\ Pending /\ Peek = <<w, o>> /\ Has(w, o)
        /\ \A x \in Events : Has(w, x) => x = o
        /\ t.from = ostate[w] /\ t.on = o /\ t.do = h
        /\ ostate' = [ostate EXCEPT ![w] = t.to]
  BY StepFacts
<1>2. t.to = "O_IDLE"
  BY <1>1, HandlerCells
<1>3. Wrote(ostate, ostate', w, "O_IDLE") /\ "O_IDLE" \in OStates /\ Wrote(hc, hc', w, c)
  BY <1>1, <1>2 DEF Wrote, OStates
<1>4. After(c, k, "O_IDLE", "none")
  BY DEF After
<1> QED
  BY <1>1, <1>3, <1>4, DrainOK

LEMMA HResetOK ==
    ASSUME IInv, NEW w \in Ways, HReset(w) \/ HClose(w)
    PROVE  IInv'
<1> DEFINE c == ResetHconn(hc[w])
<1>1. HOK(c) /\ c.st # "SENDING" /\ conn[w] \in TCONN
  BY WayFacts, ResetOK
<1>2. /\ Step(w, "h_reset") \/ Step(w, "h_close")
      /\ q' = Dequeued /\ hc' = [hc EXCEPT ![w] = c]
      /\ conn' = conn \/ conn' = [conn EXCEPT ![w] = Gone]
  BY DEF HReset, HClose
<1>3. Wrote(conn, conn', w, conn[w]) \/ Wrote(conn, conn', w, Gone)
  BY <1>2 DEF Wrote
<1> HIDE DEF c
<1> QED
  BY <1>1, <1>2, <1>3, GoneType, HandBackOK

LEMMA HKeepaliveOK ==
    ASSUME IInv, NEW w \in Ways, HKeepalive(w)
    PROVE  IInv'
<1> DEFINE b == [hc[w] EXCEPT !.st = "RECV_HDR", !.ps = "reading",
                              !.off = 0, !.cf = FALSE, !.v11 = FALSE,
                              !.flags = {}, !.cl = 0]
           c == Forget(b)
<1>1. hc[w] \in HCONN /\ conn[w] \in TCONN
  BY WayFacts
<1>2. /\ Step(w, "h_keepalive") /\ q' = Dequeued /\ hc' = [hc EXCEPT ![w] = c]
      /\ conn' = conn
  BY DEF HKeepalive
<1>3. b \in HCONN /\ b.st = "RECV_HDR"
  BY <1>1 DEF HCONN
<1> HIDE DEF b
<1>4. c \in HCONN /\ c.st = "RECV_HDR" /\ c.ptr = 0 /\ c.len = 0
  BY <1>3 DEF HCONN, Forget
<1>5. HOK(c) /\ c.st # "SENDING"
  BY <1>4 DEF HOK
<1>6. Wrote(conn, conn', w, conn[w])
  BY <1>2 DEF Wrote
<1> HIDE DEF c
<1> QED
  BY <1>1, <1>2, <1>5, <1>6, HandBackOK

\* h_send never sends past the response, nor more than the window takes.
LEMMA ChunkOK ==
    ASSUME NEW w \in Ways, HOK(hc[w]), conn[w] \in TCONN
    PROVE  /\ Chunk(w) \in Nat /\ Chunk(w) <= conn[w].wnd
           /\ hc[w].ptr + Chunk(w) <= hc[w].len
<1>1. /\ hc[w].ptr \in Nat /\ hc[w].len \in Nat /\ hc[w].ptr <= hc[w].len
      /\ conn[w].wnd \in Nat
  BY DEF HOK, HCONN, TCONN
<1>2. Ready(w) \in Nat /\ Ready(w) <= conn[w].wnd
  BY ReadyNat
<1> DEFINE rest == hc[w].len - hc[w].ptr
           n == Min({Ready(w), rest})
<1>3. rest \in Nat
  BY <1>1
<1>4. n \in Nat /\ n <= Ready(w) /\ n <= rest
  BY <1>2, <1>3, MinOfTwo
<1>5. Chunk(w) = IF hc[w].ptr < HdrLen THEN Min({n, HdrLen - hc[w].ptr}) ELSE n
  BY DEF Chunk
<1> HIDE DEF n
<1>6. Chunk(w) \in Nat /\ Chunk(w) <= n
  <2>1. CASE hc[w].ptr < HdrLen
    <3>1. HdrLen - hc[w].ptr \in Nat
      BY <1>1, <2>1, HttpAssumption
    <3> QED
      BY <1>4, <1>5, <2>1, <3>1, MinOfTwo
  <2>2. CASE ~(hc[w].ptr < HdrLen)
    BY <1>4, <1>5, <2>2
  <2> QED
    BY <2>1, <2>2
<1> QED
  BY <1>1, <1>2, <1>3, <1>4, <1>6

\* What h_send posts, and when.
LEMMA SendEventsAre ==
    ASSUME NEW w \in Ways, HOK(hc[w]), conn[w] \in TCONN
    PROVE  \/ SendEvents(w) = {}
           \/ SendEvents(w) = {"TCP_CLOSED"} /\ conn[w].state # "ESTABLISHED"
           \/ SendEvents(w) = {"ALL_QUEUED"} /\ hc[w].ptr = hc[w].len
           \/ /\ SendEvents(w) = {"ALL_QUEUED"} /\ conn[w].state = "ESTABLISHED"
              /\ hc[w].ptr # hc[w].len /\ hc[w].ptr + Chunk(w) = hc[w].len
           \/ SendEvents(w) = {"CHUNK_SENT"}
<1>1. /\ hc[w].ptr \in Nat /\ hc[w].len \in Nat /\ Chunk(w) \in Nat
      /\ hc[w].ptr + Chunk(w) <= hc[w].len
  BY ChunkOK DEF HOK, HCONN
<1> QED
  BY <1>1 DEF SendEvents

LEMMA HSendOK ==
    ASSUME IInv, NEW w \in Ways, HSend(w)
    PROVE  IInv'
<1> DEFINE n == IF conn[w].state = "ESTABLISHED" /\ hc[w].ptr # hc[w].len
                THEN Chunk(w) ELSE 0
           c == [hc[w] EXCEPT !.ptr = @ + n]
           k == [conn[w] EXCEPT !.flight = @ + n, !.wnd = @ - n]
<1>1. Step(w, "h_send")
  BY DEF HSend
<1>2. PICK o \in Events, t \in TransTable :
        /\ phase = "drain" /\ UNCHANGED <<phase, at>>
        /\ Pending /\ Peek = <<w, o>> /\ Has(w, o)
        /\ \A x \in Events : Has(w, x) => x = o
        /\ t.from = ostate[w] /\ t.on = o /\ t.do = "h_send"
        /\ ostate' = [ostate EXCEPT ![w] = t.to]
  BY <1>1, StepFacts
<1>3. /\ ostate[w] \in {"O_SETUP", "O_TX"} /\ o \in {"WIN_OPEN", "CHUNK_SENT"}
      /\ t.to = "O_TX"
  BY <1>2, HandlerCells
<1>4. HOK(hc[w]) /\ hc[w] \in HCONN /\ conn[w] \in TCONN /\ WayOK(w)
  BY WayFacts
<1>5. Wrote(ostate, ostate', w, "O_TX") /\ "O_TX" \in OStates
  BY <1>2, <1>3 DEF Wrote, OStates
<1>6. hc[w].st = "SENDING"
  BY <1>2, <1>3, <1>4, EventNames DEF WayOK, BusyOK, Polled
<1>7. /\ n \in Nat /\ n <= conn[w].wnd /\ hc[w].ptr + n <= hc[w].len
      /\ hc[w].ptr \in Nat /\ hc[w].len \in Nat
      /\ conn[w].wnd \in Nat /\ conn[w].flight \in Nat
  <2>1. /\ hc[w].ptr \in Nat /\ hc[w].len \in Nat /\ hc[w].ptr <= hc[w].len
        /\ conn[w].wnd \in Nat /\ conn[w].flight \in Nat
    BY <1>4 DEF HOK, HCONN, TCONN
  <2> QED
    BY <1>4, <2>1, ChunkOK
<1>8. hc' = [hc EXCEPT ![w] = c] /\ conn' = [conn EXCEPT ![w] = k]
  <2>1. /\ hc' = [hc EXCEPT ![w].ptr = @ + n]
        /\ conn' = [conn EXCEPT ![w].flight = @ + n, ![w].wnd = @ - n]
    BY DEF HSend
  <2>2. conn \in [Ways -> TCONN]
    BY DEF IInv, StateOK
  <2> HIDE DEF n
  <2> QED
    BY <2>1, <2>2, <1>4
<1>9. /\ q' = IF SendEvents(w) = {} THEN Dequeued
              ELSE Post(Dequeued, w, CHOOSE e \in SendEvents(w) : TRUE)
  BY DEF HSend
<1>10. \/ SendEvents(w) = {}
       \/ SendEvents(w) = {"TCP_CLOSED"} /\ conn[w].state # "ESTABLISHED"
       \/ SendEvents(w) = {"ALL_QUEUED"} /\ hc[w].ptr + n = hc[w].len
       \/ SendEvents(w) = {"CHUNK_SENT"}
  <2>1. hc[w].ptr = hc[w].len => hc[w].ptr + n = hc[w].len
    BY <1>7
  <2>2. conn[w].state = "ESTABLISHED" /\ hc[w].ptr # hc[w].len => n = Chunk(w)
    OBVIOUS
  <2> HIDE DEF n
  <2> QED
    BY <1>4, <2>1, <2>2, SendEventsAre
<1> HIDE DEF n
<1>11. /\ c \in HCONN /\ c.st = hc[w].st /\ c.ptr = hc[w].ptr + n
       /\ c.len = hc[w].len
  BY <1>4, <1>7 DEF HCONN
<1>12. HOK(c)
  BY <1>7, <1>11 DEF HOK
<1>13. k \in TCONN /\ k.state = conn[w].state
  <2>1. conn[w].flight + n \in Nat /\ conn[w].wnd - n \in Nat
    BY <1>7
  <2> QED
    BY <1>4, <2>1 DEF TCONN
<1> HIDE DEF c, k
<1>14. Wrote(hc, hc', w, c) /\ Wrote(conn, conn', w, k)
  BY <1>8 DEF Wrote
<1>15. PICK e \in {"none", "TCP_CLOSED", "ALL_QUEUED", "CHUNK_SENT"} :
         /\ e = "none" => q' = Dequeued
         /\ e # "none" => q' = Post(Dequeued, w, e)
         /\ e = "TCP_CLOSED" => conn[w].state # "ESTABLISHED"
         /\ e = "ALL_QUEUED" => hc[w].ptr + n = hc[w].len
  <2>1. CASE SendEvents(w) = {}
    BY <1>9, <2>1
  <2>2. ASSUME NEW e \in {"TCP_CLOSED", "ALL_QUEUED", "CHUNK_SENT"},
               SendEvents(w) = {e}
        PROVE  q' = Post(Dequeued, w, e)
    BY <1>9, <2>2, ChooseOne
  <2>3. CASE SendEvents(w) = {"TCP_CLOSED"} /\ conn[w].state # "ESTABLISHED"
    BY <2>2, <2>3
  <2>4. CASE SendEvents(w) = {"ALL_QUEUED"} /\ hc[w].ptr + n = hc[w].len
    BY <2>2, <2>4
  <2>5. CASE SendEvents(w) = {"CHUNK_SENT"}
    BY <2>2, <2>5
  <2> QED
    BY <1>10, <2>1, <2>3, <2>4, <2>5
<1>16. After(c, k, "O_TX", e)
  <2>1. e # "none" => e \in Handles("O_TX")
    BY Cells_Tx
  <2>2. e = "TCP_CLOSED" => k.state # "ESTABLISHED"
    BY <1>10, <1>13, <1>15
  <2>3. e = "ALL_QUEUED" => c.ptr = c.len
    BY <1>10, <1>11, <1>15
  <2> QED
    BY <1>6, <1>11, <2>1, <2>2, <2>3 DEF After
<1>17. \/ e = "none" /\ q' = Dequeued
       \/ e \in Events \ {"RESP_READY"} /\ q' = Post(Dequeued, w, e)
  BY <1>15, EventNames
<1> QED
  BY <1>2, <1>5, <1>12, <1>13, <1>14, <1>16, <1>17, DrainOK

-----------------------------------------------------------------------------
(* The invariant. *)

LEMMA InitOK == Init => IInv
<1> SUFFICES ASSUME Init PROVE IInv
  OBVIOUS
<1>1. <<>> \in Seq(Ways \X HiEvents) /\ <<>> \in Seq(Ways \X LoEvents) /\ Len(<<>>) = 0
  BY EmptySeq
<1>2. In(<<>>) = {} /\ Distinct(<<>>)
  BY <1>1 DEF In, Distinct
<1>3. /\ q.hi = <<>> /\ q.lo = <<>> /\ q.pending = {} /\ q.lost = FALSE
      /\ q = [hi |-> <<>>, lo |-> <<>>, pending |-> {}, lost |-> FALSE]
  BY DEF Init
<1>4. QueueOK(q)
  <2>1. q \in QTYPE
    BY <1>1, <1>3 DEF QTYPE
  <2> QED
    BY <1>2, <1>3, <2>1 DEF QueueOK, Exact, OnePerWay
<1> DEFINE c == [st |-> "IDLE", flags |-> {}, ps |-> "reading", off |-> 0,
                 req |-> 0, cl |-> 0, v11 |-> FALSE, cf |-> FALSE,
                 ptr |-> 0, len |-> 0, age |-> 0]
<1>5. c \in HCONN /\ c.st = "IDLE" /\ c.ptr = 0 /\ c.len = 0
  BY AgeRange DEF HCONN
<1>6. \A w \in Ways : hc[w] = c /\ conn[w] = Gone /\ ostate[w] = "O_IDLE"
  BY DEF Init
<1>7. 1 \in Ways
  BY HttpAssumption DEF Ways
<1>8. /\ phase = "net" /\ at = 1 /\ conn = [w \in Ways |-> Gone]
      /\ hc = [w \in Ways |-> c] /\ ostate = [w \in Ways |-> "O_IDLE"]
  BY DEF Init
<1> HIDE DEF c
<1>9. StateOK
  BY <1>5, <1>6, <1>7, <1>8, GoneType DEF StateOK, HOK, OStates
<1>10. \A w \in Ways : WayOK(w)
  <2>1. \A w \in Ways, e \in Events : ~Has(w, e)
    BY <1>3 DEF Has
  <2> QED
    BY <1>3, <1>5, <1>6, <1>8, <2>1, EventNames
    DEF WayOK, IdleOK, BusyOK, EventOK, Free, Scanned
<1> QED
  BY <1>4, <1>9, <1>10 DEF IInv

LEMMA StutterOK ==
    ASSUME IInv, UNCHANGED vars
    PROVE  IInv'
<1>1. StateOK' /\ QueueOK(q)'
  BY DEF IInv, StateOK, vars
<1>2. \A v \in Ways : SameWay(v)
  BY DEF SameWay, Has, Scanned, Polled, vars
<1> QED
  BY <1>1, <1>2, SameOK DEF IInv

LEMMA NextOK == IInv /\ [Next]_vars => IInv'
<1> SUFFICES ASSUME IInv, [Next]_vars PROVE IInv'
  OBVIOUS
<1>1. CASE UNCHANGED vars
  BY <1>1, StutterOK
<1>2. ASSUME NEW w \in Ways, Env(w) \/ Poll(w)
      PROVE  IInv'
  BY <1>2, EnvOK, ScanEstablishedOK, ScanOtherOK, PollTcpEventsOK, HInstallOK,
     HSendOK, HNoopOK, HDecideOK, HResetOK, HKeepaliveOK
  DEF Poll
<1>3. ASSUME NEW d \in {0, 1}, BeginPoll(d)
      PROVE  IInv'
  BY <1>3, BeginOK
<1>4. CASE EndPoll
  BY <1>4, EndOK
<1> QED
  BY <1>1, <1>2, <1>3, <1>4 DEF Next

\* What two queues without repetition and without a common element hold.
LEMMA ConcatIn ==
    ASSUME NEW S, NEW a \in Seq(S), NEW b \in Seq(S), Distinct(a), Distinct(b),
           In(a) \cap In(b) = {}
    PROVE  In(a \o b) = In(a) \cup In(b) /\ Distinct(a \o b)
<1> DEFINE s == a \o b
<1>1. /\ Len(a) \in Nat /\ Len(b) \in Nat /\ Len(s) = Len(a) + Len(b)
      /\ \A i \in 1 .. Len(a) + Len(b) :
           s[i] = IF i <= Len(a) THEN a[i] ELSE b[i - Len(a)]
  BY ConcatProperties, LenProperties
<1> HIDE DEF s
<1>2. \A i \in 1 .. Len(s) :
        \/ i \in 1 .. Len(a) /\ s[i] = a[i]
        \/ i - Len(a) \in 1 .. Len(b) /\ s[i] = b[i - Len(a)]
  BY <1>1
<1>3. \A i \in 1 .. Len(a) : i \in 1 .. Len(s) /\ s[i] = a[i]
  BY <1>1
<1>4. \A i \in 1 .. Len(b) : i + Len(a) \in 1 .. Len(s) /\ s[i + Len(a)] = b[i]
  <2> SUFFICES ASSUME NEW i \in 1 .. Len(b)
               PROVE  i + Len(a) \in 1 .. Len(s) /\ s[i + Len(a)] = b[i]
    OBVIOUS
  <2>1. /\ i + Len(a) \in 1 .. Len(a) + Len(b) /\ ~(i + Len(a) <= Len(a))
        /\ (i + Len(a)) - Len(a) = i
    BY <1>1
  <2> QED
    BY <1>1, <2>1
<1>5. In(s) = In(a) \cup In(b)
  <2>1. \A x \in In(s) : x \in In(a) \cup In(b)
    BY <1>2 DEF In
  <2>2. \A x \in In(a) : x \in In(s)
    BY <1>3 DEF In
  <2>3. \A x \in In(b) : x \in In(s)
    BY <1>4 DEF In
  <2> QED
    BY <2>1, <2>2, <2>3
<1>6. Distinct(s)
  <2> SUFFICES ASSUME NEW i \in 1 .. Len(s), NEW j \in 1 .. Len(s), s[i] = s[j]
               PROVE  i = j
    BY DEF Distinct
  <2>1. /\ i \in 1 .. Len(a) => s[i] \in In(a)
        /\ i \notin 1 .. Len(a) => s[i] \in In(b)
        /\ j \in 1 .. Len(a) => s[j] \in In(a)
        /\ j \notin 1 .. Len(a) => s[j] \in In(b)
    BY <1>2 DEF In
  <2>2. i \in 1 .. Len(a) <=> j \in 1 .. Len(a)
    BY <2>1
  <2>3. CASE i \in 1 .. Len(a)
    BY <1>3, <2>2, <2>3 DEF Distinct
  <2>4. CASE i \notin 1 .. Len(a)
    <3>1. i - Len(a) = j - Len(a)
      BY <1>2, <2>2, <2>4 DEF Distinct
    <3> QED
      BY <1>1, <3>1
  <2> QED
    BY <2>3, <2>4
<1> QED
  BY <1>5, <1>6 DEF s

LEMMA ExactOK ==
    ASSUME QueueOK(q)
    PROVE  PendingExact
<1>1. /\ q.hi \in Seq(Ways \X HiEvents) /\ q.lo \in Seq(Ways \X LoEvents)
      /\ Distinct(q.hi) /\ Distinct(q.lo)
      /\ q.pending = In(q.hi) \cup In(q.lo)
  BY QueueFacts DEF QueueOK
<1>2. q.hi \in Seq(Ways \X Events) /\ q.lo \in Seq(Ways \X Events)
  <2>1. Ways \X HiEvents \subseteq Ways \X Events /\ Ways \X LoEvents \subseteq Ways \X Events
    BY DEF Events
  <2> QED
    BY <1>1, <2>1, SeqMonotonic
<1>3. In(q.hi) \cap In(q.lo) = {}
  <2>1. HiEvents \cap LoEvents = {}
    BY DEF HiEvents, LoEvents
  <2>2. \A y \in In(q.hi) : y \in Ways \X HiEvents
    BY <1>1, ElementOfSeq DEF In
  <2>3. \A y \in In(q.lo) : y \in Ways \X LoEvents
    BY <1>1, ElementOfSeq DEF In
  <2> QED
    BY <2>1, <2>2, <2>3
<1>4. In(q.hi \o q.lo) = In(q.hi) \cup In(q.lo) /\ Distinct(q.hi \o q.lo)
  BY <1>1, <1>2, <1>3, ConcatIn
<1> QED
  BY <1>1, <1>4 DEF PendingExact, In, Distinct

-----------------------------------------------------------------------------
(* Theorems. *)

\* IInv holds in every state that the server reaches.
THEOREM Invariance == Spec => []IInv
<1>1. Init => IInv
  BY InitOK
<1>2. IInv /\ [Next]_vars => IInv'
  BY NextOK
<1> QED
  BY <1>1, <1>2, PTL DEF Spec

\* For every number of ways: http_fsa_evt_pending is what is queued, each
\* event once, and between two polls a way is SENDING just when the output
\* machine works on it, however requests, windows, resets and half-closes
\* interleave.
THEOREM OutputSafe == Spec => []OutputInv
<1>1. IInv => OutputInv
  <2> SUFFICES ASSUME IInv PROVE OutputInv
    OBVIOUS
  <2>1. q \in QTYPE
    BY DEF IInv, QueueOK, Exact
  <2>2. TypeOK
    BY <2>1 DEF IInv, StateOK, HOK, TypeOK, QTYPE, OStates
  <2>3. PendingExact
    BY ExactOK DEF IInv
  <2>4. SendingOwned
    BY DEF IInv, WayOK, IdleOK, Scanned, SendingOwned
  <2> QED
    BY <2>2, <2>3, <2>4 DEF OutputInv
<1> QED
  BY <1>1, Invariance, PTL

\* A ring of one more slot than there are ways never loses an event: no way
\* has two events queued, although http_fsa_post gates per event only.
THEOREM RingsSuffice == Spec => []NothingLost
<1>1. IInv => NothingLost
  BY DEF IInv, QueueOK, NothingLost
<1> QED
  BY <1>1, Invariance, PTL

\* The step of the engine finds a cell for every event it takes
\* (http_fsa_step_no_trans stays 0).
THEOREM StepsHandled == Spec => []EventHandled
<1>1. IInv => EventHandled
  <2> SUFFICES ASSUME IInv, phase = "drain", Pending PROVE Cells # {}
    BY DEF EventHandled
  <2>1. Peek \in q.pending /\ Peek \in Ways \X Events
    BY DequeuedOK DEF IInv
  <2>2. PICK w \in Ways, e \in Events : Peek = <<w, e>>
    BY <2>1
  <2>3. Has(w, e) /\ WayOK(w) /\ Peek[1] = w /\ Peek[2] = e
    BY <2>1, <2>2 DEF Has, IInv
  <2>4. e \in Handles(ostate[w])
    <3>1. CASE ostate[w] = "O_IDLE"
      <4>1. e = "RESP_READY"
        BY <2>3, <3>1 DEF WayOK, IdleOK
      <4>2. [from |-> "O_IDLE", on |-> "RESP_READY", to |-> "O_SETUP",
             do |-> "h_install"] \in TransTable
        BY DEF TransTable
      <4> QED
        BY <3>1, <4>1, <4>2, Cell
    <3>2. CASE ostate[w] # "O_IDLE"
      BY <2>3, <3>2 DEF WayOK, BusyOK
    <3> QED
      BY <3>1, <3>2
  <2>5. PICK t \in TransTable : t.from = ostate[w] /\ t.on = e
    BY <2>4 DEF Handles
  <2> QED
    BY <2>3, <2>5 DEF Cells
<1> QED
  BY <1>1, Invariance, PTL

-----------------------------------------------------------------------------
(* The end of a response. *)

\* The handlers that end a response run on a connection that is gone, or
\* after all of the response was sent and acknowledged.
LEMMA EndsWhole ==
    ASSUME IInv, NEW w \in Ways, NEW h \in {"h_reset", "h_close", "h_keepalive"},
           Step(w, h), conn[w].state = "ESTABLISHED"
    PROVE  hc[w].ptr = hc[w].len /\ conn[w].flight = 0
<1>1. PICK o \in Events, t \in TransTable :
        /\ Has(w, o) /\ t.from = ostate[w] /\ t.on = o /\ t.do = h
  BY StepFacts
<1>2. WayOK(w)
  BY DEF IInv
<1>3. o # "TCP_CLOSED"
  BY <1>1, <1>2 DEF WayOK, EventOK
<1>4. ostate[w] = "O_DRAINING" /\ o \in {"DO_CLOSE", "DO_KEEPALIVE"}
  BY <1>1, <1>3, HandlerCells
<1> QED
  BY <1>1, <1>2, <1>4 DEF WayOK, EventOK

\* The scan ends no response on a connection that is ESTABLISHED.
LEMMA ScanKeeps ==
    ASSUME IInv, NEW w \in Ways, NEW v \in Ways,
           ScanEstablished(v) \/ ScanOther(v),
           hc[w].st = "SENDING", conn[w].state = "ESTABLISHED"
    PROVE  hc'[w].st = "SENDING"
<1>1. hc \in [Ways -> HCONN]
  BY DEF IInv, StateOK
<1>2. CASE ScanEstablished(v)
  <2>1. \/ hc[v].st = "SENDING" /\ hc' = [hc EXCEPT ![v] = hc[v]]
        \/ hc[v].st # "SENDING" /\ \E c : hc' = [hc EXCEPT ![v] = c]
    <3>1. CASE hc[v].st = "SENDING" /\ Leave(v, hc[v])
      BY <3>1 DEF Leave
    <3>2. CASE hc[v].st # "SENDING" /\ ScanMove(v)
      BY <3>2 DEF ScanMove, Leave, DoClose, SetupResp
    <3> QED
      BY <1>2, <3>1, <3>2, EstablishedMoves DEF IInv
  <2> QED
    BY <1>1, <2>1
<1>3. CASE ScanOther(v)
  <2>1. v # w /\ \E c : hc' = [hc EXCEPT ![v] = c]
    BY <1>3 DEF ScanOther, Leave, DoClose
  <2> QED
    BY <1>1, <2>1
<1> QED
  BY <1>2, <1>3

\* http_poll ends a response on a connection that is still ESTABLISHED only
\* when all of it was handed to TCP and acknowledged, for every length,
\* every window and every order of requests, acknowledgments and resets.
THEOREM ResponsesWhole == Spec => WholeResponse
<1>1. IInv /\ [Next]_vars
      => [\A w \in Ways :
            /\ hc[w].st = "SENDING" /\ hc'[w].st # "SENDING"
            /\ conn[w].state = "ESTABLISHED"
            => hc[w].ptr = hc[w].len /\ conn[w].flight = 0]_vars
  <2> SUFFICES ASSUME IInv, Next, NEW w \in Ways, hc[w].st = "SENDING",
                      hc'[w].st # "SENDING", conn[w].state = "ESTABLISHED"
               PROVE  hc[w].ptr = hc[w].len /\ conn[w].flight = 0
    OBVIOUS
  <2>1. hc \in [Ways -> HCONN] /\ HOK(hc[w])
    BY DEF IInv, StateOK
  <2>2. ASSUME NEW v \in Ways, Env(v) PROVE FALSE
    BY <2>2 DEF Env, Establish, Deliver, Ack, PeerFin, Drop
  <2>3. ASSUME NEW v \in Ways, PollTcpEvents(v) \/ HInstall(v) \/ HNoop(v) \/ HDecide(v)
        PROVE  FALSE
    BY <2>3 DEF PollTcpEvents, HInstall, HNoop, HDecide
  <2>4. ASSUME NEW v \in Ways, ScanEstablished(v) \/ ScanOther(v) PROVE FALSE
    BY <2>4, ScanKeeps
  <2>5. ASSUME NEW v \in Ways, HSend(v) PROVE FALSE
    <3>1. \E n : hc' = [hc EXCEPT ![v].ptr = @ + n]
      BY <2>5 DEF HSend
    <3> QED
      BY <2>1, <3>1 DEF HCONN
  <2>6. ASSUME NEW v \in Ways, HReset(v) \/ HClose(v) \/ HKeepalive(v)
        PROVE  hc[w].ptr = hc[w].len /\ conn[w].flight = 0
    <3>1. /\ Step(v, "h_reset") \/ Step(v, "h_close") \/ Step(v, "h_keepalive")
          /\ \E c : hc' = [hc EXCEPT ![v] = c]
      BY <2>6 DEF HReset, HClose, HKeepalive
    <3>2. v = w
      BY <2>1, <3>1
    <3> QED
      BY <3>1, <3>2, EndsWhole
  <2>7. ASSUME NEW d \in {0, 1}, BeginPoll(d) PROVE FALSE
    <3>1. hc'[w] = hc[w] \/ hc'[w] = Aged(hc[w], d)
      BY <2>7 DEF BeginPoll, Aged
    <3> QED
      BY <2>1, <3>1, AgeOK
  <2>8. ~EndPoll
    BY DEF EndPoll
  <2> QED
    BY <2>2, <2>3, <2>4, <2>5, <2>6, <2>7, <2>8 DEF Next, Poll
<1> QED
  BY <1>1, Invariance, PTL DEF Spec, WholeResponse
=============================================================================
