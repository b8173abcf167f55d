--------------------------- MODULE HexLoadProofs ---------------------------
(***************************************************************************)
(* HexLoad for every payload, chunk size, process tree and residual sum.   *)
(***************************************************************************)
EXTENDS HexLoad, TLAPS, FiniteSetTheorems, WellFoundedInduction

-----------------------------------------------------------------------------
(* Induction, and functions that are defined by recursion on 0 .. m. *)

LEMMA SetInduction ==
  ASSUME NEW P, 0 \in P, \A n \in Nat : n \in P => n + 1 \in P
  PROVE  Nat \subseteq P
<1> SUFFICES ASSUME Nat \ P # {} PROVE FALSE
  OBVIOUS
<1>1. \E x \in Nat \ P : \A y \in Nat \ P : ~(y < x)
  <2>1. PICK x \in Nat \ P : \A y \in Nat \ P : ~(<<y, x>> \in OpToRel(<, Nat))
    BY NatLessThanWellFounded, WFMin, Nat \ P \subseteq Nat
  <2>2. \A y \in Nat \ P : ~(y < x)
    BY <2>1 DEF OpToRel
  <2> QED
    BY <2>2
<1>2. PICK x \in Nat \ P : \A y \in Nat \ P : ~(y < x)
  BY <1>1
<1>3. x # 0 /\ x - 1 \in Nat /\ x - 1 < x
  BY <1>2
<1>4. x - 1 \in P
  BY <1>2, <1>3
<1> QED
  BY <1>2, <1>3, <1>4

LEMMA UpTo ==
  ASSUME NEW m \in Nat, NEW P, 0 \in P, \A n \in 1..m : n - 1 \in P => n \in P
  PROVE  0..m \subseteq P
<1> DEFINE Q == {n \in Nat : n <= m => n \in P}
<1>1. 0 \in Q
  OBVIOUS
<1>2. ASSUME NEW n \in Nat, n \in Q PROVE n + 1 \in Q
  <2> SUFFICES ASSUME n + 1 <= m PROVE n + 1 \in P
    OBVIOUS
  <2>1. n + 1 \in 1..m /\ (n + 1) - 1 = n /\ n \in P
    BY <1>2
  <2> QED
    BY <2>1
<1>3. Nat \subseteq Q
  <2> HIDE DEF Q
  <2> QED
    BY <1>1, <1>2, SetInduction
<1> QED
  BY <1>3

\* g has the first value b, and F[n] makes its n-th of the one before.
Iterates(g, S, b, m, F) ==
  g \in [0..m -> S] /\ g[0] = b /\ \A n \in 1..m : g[n] = F[n][g[n - 1]]

LEMMA Recursion ==
  ASSUME NEW S, NEW b \in S, NEW m \in Nat, NEW F \in [1..m -> [S -> S]]
  PROVE  \E g : Iterates(g, S, b, m, F)
<1> DEFINE Upto(n, g) == /\ g \in [0..m -> S] /\ g[0] = b
                         /\ \A k \in 1..n : g[k] = F[k][g[k - 1]]
           P == {n \in 0..m : \E g \in [0..m -> S] : Upto(n, g)}
<1>1. 0 \in P
  <2> DEFINE h == [n \in 0..m |-> b]
  <2>1. h \in [0..m -> S] /\ Upto(0, h)
    OBVIOUS
  <2>2. \E x \in [0..m -> S] : Upto(0, x)
    <3> HIDE DEF h, Upto
    <3> QED
      BY <2>1
  <2> QED
    BY <2>2
<1>2. ASSUME NEW n \in 1..m, n - 1 \in P PROVE n \in P
  <2>1. PICK g \in [0..m -> S] : Upto(n - 1, g)
    BY <1>2
  <2> DEFINE h == [k \in 0..m |-> IF k = n THEN F[n][g[n - 1]] ELSE g[k]]
  <2>2. n - 1 \in 0..m /\ g[n - 1] \in S /\ F[n][g[n - 1]] \in S
    BY <2>1
  <2>3. h \in [0..m -> S] /\ h[0] = b
    BY <2>1, <2>2
  <2>4. ASSUME NEW k \in 1..n PROVE h[k] = F[k][h[k - 1]]
    <3>1. CASE k = n
      <4>1. h[n] = F[n][g[n - 1]] /\ h[n - 1] = g[n - 1]
        BY <2>2
      <4> QED
        BY <3>1, <4>1
    <3>2. CASE k # n
      <4>1. k \in 1..(n - 1) /\ k \in 0..m /\ k - 1 \in 0..m /\ k - 1 # n
        BY <3>2
      <4>2. h[k] = g[k] /\ h[k - 1] = g[k - 1]
        BY <3>2, <4>1
      <4>3. g[k] = F[k][g[k - 1]]
        BY <2>1, <4>1
      <4> QED
        BY <4>2, <4>3
    <3> QED
      BY <3>1, <3>2
  <2>5. Upto(n, h)
    BY <2>3, <2>4
  <2>6. \E x \in [0..m -> S] : Upto(n, x)
    <3> HIDE DEF h, Upto
    <3> QED
      BY <2>3, <2>5
  <2> QED
    BY <2>6
<1>3. 0..m \subseteq P
  <2> HIDE DEF P
  <2> QED
    BY <1>1, <1>2, UpTo
<1>4. m \in P
  BY <1>3
<1>5. PICK g \in [0..m -> S] : Upto(m, g)
  BY <1>4
<1>6. Iterates(g, S, b, m, F)
  BY <1>5 DEF Iterates
<1> QED
  BY <1>6

LEMMA SeqAppend ==
  ASSUME NEW S, NEW q \in Seq(S), NEW e \in S
  PROVE  Append(q, e) \in Seq(S)
  OBVIOUS

LEMMA SeqAppendAt ==
  ASSUME NEW S, NEW q \in Seq(S), NEW e \in S
  PROVE  Append(q, e)[Len(q) + 1] = e /\ \A n \in 1..Len(q) : Append(q, e)[n] = q[n]
  OBVIOUS

LEMMA SeqMono ==
  ASSUME NEW S, NEW T, S \subseteq T, NEW q \in Seq(S)
  PROVE  q \in Seq(T)
  OBVIOUS

LEMMA SeqOne ==
  ASSUME NEW S, NEW e \in S
  PROVE  << e >> \in Seq(S) /\ Len(<< e >>) = 1
  OBVIOUS

LEMMA SeqEmpty ==
  ASSUME NEW S
  PROVE  << >> \in Seq(S)
  OBVIOUS

LEMMA SeqTake ==
  ASSUME NEW S, NEW q \in Seq(S), q # << >>
  PROVE  Head(q) \in S /\ Tail(q) \in Seq(S)
  OBVIOUS

LEMMA SeqConcat ==
  ASSUME NEW S, NEW q \in Seq(S), NEW r \in Seq(S)
  PROVE  q \o r \in Seq(S) /\ Len(q \o r) = Len(q) + Len(r)
  OBVIOUS

LEMMA SeqJoin ==
  ASSUME NEW S, NEW q \in Seq(S), NEW r \in Seq(S)
  PROVE  /\ q \o r \in Seq(S) /\ Len(q \o r) = Len(q) + Len(r)
         /\ \A e \in S : q \o Append(r, e) = Append(q \o r, e)
         /\ \A e \in S : q \o << e >> = Append(q, e)
  OBVIOUS

-----------------------------------------------------------------------------
(* Intel HEX records. *)

\* The sums of the first bytes.
Sums(u, s) == u[0] = 0 /\ \A n \in 1..Len(s) : u[n] = u[n - 1] + s[n]

LEMMA SumOfIs ==
  ASSUME NEW s \in Seq(Int)
  PROVE  \E u : Sums(u, s) /\ SumOf(s) = u[Len(s)]
<1> DEFINE m == Len(s)
           F == [n \in 1..m |-> [x \in Int |-> x + s[n]]]
           Rec(f) == f = [n \in 0..m |-> IF n = 0 THEN 0 ELSE f[n - 1] + s[n]]
           up == CHOOSE f : Rec(f)
<1>1. m \in Nat /\ \A n \in 1..m : s[n] \in Int
  OBVIOUS
<1> HIDE DEF m
<1>2. \E f : Rec(f)
  <2>1. F \in [1..m -> [Int -> Int]]
    BY <1>1
  <2> HIDE DEF F
  <2>2. PICK g : Iterates(g, Int, 0, m, F)
    <3>1. 0 \in Int /\ m \in Nat
      BY <1>1
    <3> QED
      BY <2>1, <3>1, Recursion, Zenon
  <2>3. ASSUME NEW n \in 1..m PROVE g[n] = g[n - 1] + s[n]
    <3>1. g[n - 1] \in Int
      BY <1>1, <2>2 DEF Iterates
    <3> QED
      BY <2>2, <3>1 DEF F, Iterates
  <2>4. Rec(g)
    BY <1>1, <2>2, <2>3 DEF Iterates
  <2> QED
    BY <2>4
<1>3. Rec(up)
  BY <1>2
<1>4. SumOf(s) = up[m]
  BY DEF SumOf, m
<1> HIDE DEF up
<1>5. Sums(up, s)
  BY <1>1, <1>3 DEF Sums, m
<1> QED
  BY <1>4, <1>5 DEF m

LEMMA SumOfType ==
  ASSUME NEW s \in Seq(Int)
  PROVE  SumOf(s) \in Int
<1> DEFINE m == Len(s)
<1>1. m \in Nat /\ \A n \in 1..m : s[n] \in Int
  OBVIOUS
<1>2. PICK up : Sums(up, s) /\ SumOf(s) = up[m]
  BY SumOfIs
<1>3. up[0] = 0 /\ \A n \in 1..m : up[n] = up[n - 1] + s[n]
  BY <1>2 DEF Sums
<1> HIDE DEF m
<1> DEFINE P == {n \in 0..m : up[n] \in Int}
<1>4. 0 \in P
  BY <1>1, <1>3
<1>5. ASSUME NEW n \in 1..m, n - 1 \in P PROVE n \in P
  BY <1>1, <1>3, <1>5
<1> HIDE DEF P
<1>6. 0..m \subseteq P
  BY <1>1, <1>4, <1>5, UpTo
<1> QED
  BY <1>1, <1>2, <1>6 DEF P

\* What make_hex_record makes.
REC == { r \in [ type : {Data, Eof, Ext}, addr : Nat, data : Seq(Byte), cksum : Byte, len : Nat ] :
           r.len = 11 + 2 * Len(r.data) /\ (r.type = Ext => Len(r.data) = 2) }

\* Every record of a payload before the end of the file.
BODY == { r \in REC : r.type # Eof }

LEMMA Bytes16Is ==
  ASSUME NEW n \in Nat
  PROVE  /\ Bytes16(n) \in Seq(Byte) /\ Len(Bytes16(n)) = 2
         /\ n < Seg => (Bytes16(n)[1] * 256 + Bytes16(n)[2]) * Seg = n * Seg
<1>1. (n \div 256) % 256 \in Byte /\ n % 256 \in Byte
  BY DEF Byte
<1>2. n < 65536 => ((n \div 256) % 256) * 256 + (n % 256) = n
  <2>1. n = 256 * (n \div 256) + (n % 256) /\ n \div 256 \in Nat /\ n % 256 \in 0..255
    OBVIOUS
  <2>2. n < 65536 => n \div 256 < 256
    BY <2>1
  <2>3. ASSUME NEW q \in Nat, q < 256 PROVE q % 256 = q
    BY <2>3
  <2> QED
    BY <2>1, <2>2, <2>3
<1>3. /\ Bytes16(n) \in Seq(Byte) /\ Len(Bytes16(n)) = 2
      /\ Bytes16(n)[1] = (n \div 256) % 256 /\ Bytes16(n)[2] = n % 256
  BY <1>1 DEF Bytes16
<1> QED
  BY <1>2, <1>3 DEF Seg

LEMMA RecordIs ==
  ASSUME NEW t \in {Data, Eof, Ext}, NEW a \in Nat, NEW d \in Seq(Byte), t = Ext => Len(d) = 2
  PROVE  /\ make_hex_record(t, a, d) \in REC
         /\ make_hex_record(t, a, d).type = t
         /\ make_hex_record(t, a, d).addr = a % Seg
         /\ make_hex_record(t, a, d).data = d
<1> DEFINE raw == << Len(d) >> \o Bytes16(a) \o << t >> \o d
           c   == (256 - (SumOf(raw) % 256)) % 256
<1>0. Byte \subseteq Int
  BY DEF Byte
<1>1. Bytes16(a) \in Seq(Int) /\ Len(Bytes16(a)) = 2
  BY <1>0, Bytes16Is, SeqMono
<1>2. d \in Seq(Int) /\ t \in Int /\ Len(d) \in Nat /\ Len(d) \in Int
  <2>1. d \in Seq(Int)
    BY <1>0, SeqMono
  <2>2. t \in Int
    BY DEF Data, Eof, Ext
  <2>3. Len(d) \in Nat
    OBVIOUS
  <2> QED
    BY <2>1, <2>2, <2>3
<1>3. raw \in Seq(Int) /\ Len(raw) = 4 + Len(d)
  <2>1. << Len(d) >> \in Seq(Int) /\ << t >> \in Seq(Int)
        /\ Len(<< Len(d) >>) = 1 /\ Len(<< t >>) = 1
    BY <1>2, SeqOne
  <2> DEFINE q1 == << Len(d) >>
             q2 == Bytes16(a)
             q3 == << t >>
  <2> HIDE DEF q1, q2, q3
  <2>2. q1 \in Seq(Int) /\ q2 \in Seq(Int) /\ q3 \in Seq(Int)
        /\ Len(q1) = 1 /\ Len(q2) = 2 /\ Len(q3) = 1
    BY <1>1, <2>1 DEF q1, q2, q3
  <2>3. q1 \o q2 \in Seq(Int) /\ Len(q1 \o q2) = Len(q1) + Len(q2)
    BY <2>2, SeqConcat
  <2>4. (q1 \o q2) \o q3 \in Seq(Int) /\ Len((q1 \o q2) \o q3) = Len(q1 \o q2) + Len(q3)
    BY <2>2, <2>3, SeqConcat
  <2>5. /\ ((q1 \o q2) \o q3) \o d \in Seq(Int)
        /\ Len(((q1 \o q2) \o q3) \o d) = Len((q1 \o q2) \o q3) + Len(d)
    BY <1>2, <2>4, SeqConcat
  <2>6. Len(((q1 \o q2) \o q3) \o d) = 4 + Len(d)
    BY <1>2, <2>2, <2>3, <2>4, <2>5
  <2> QED
    BY <2>5, <2>6 DEF q1, q2, q3
<1>4. SumOf(raw) \in Int
  BY <1>3, SumOfType
<1>5. a % Seg \in Nat
  BY DEF Seg
<1>6. make_hex_record(t, a, d) =
        [ type |-> t, addr |-> a % Seg, data |-> d, cksum |-> c, len |-> 3 + 2 * Len(raw) ]
  BY DEF make_hex_record
<1> HIDE DEF raw
<1>7. c \in Byte
  <2>1. ASSUME NEW n \in Int PROVE (256 - (n % 256)) % 256 \in 0..255
    OBVIOUS
  <2> QED
    BY <1>4, <2>1 DEF Byte
<1>8. 3 + 2 * Len(raw) = 11 + 2 * Len(d) /\ 3 + 2 * Len(raw) \in Nat
  BY <1>2, <1>3
<1> DEFINE l == 3 + 2 * Len(raw)
           x == a % Seg
           r == [ type |-> t, addr |-> x, data |-> d, cksum |-> c, len |-> l ]
<1> HIDE DEF c, l, x
<1>9. r \in REC /\ r.type = t /\ r.addr = x /\ r.data = d
  BY <1>2, <1>5, <1>7, <1>8 DEF REC, l, x
<1> QED
  BY <1>6, <1>9 DEF l, x

LEMMA ExtIs ==
  ASSUME NEW u \in Nat
  PROVE  /\ ExtRecord(u) \in BODY /\ ExtRecord(u).type = Ext
         /\ u < Seg => (ExtRecord(u).data[1] * 256 + ExtRecord(u).data[2]) * Seg = u * Seg
<1> DEFINE d == Bytes16(u)
<1>1. /\ d \in Seq(Byte) /\ Len(d) = 2
      /\ u < Seg => (d[1] * 256 + d[2]) * Seg = u * Seg
  BY Bytes16Is
<1> HIDE DEF d
<1>2. /\ make_hex_record(Ext, 0, d) \in REC /\ make_hex_record(Ext, 0, d).type = Ext
      /\ make_hex_record(Ext, 0, d).data = d
  BY <1>1, RecordIs
<1>3. Ext # Eof
  BY DEF Ext, Eof
<1> QED
  BY <1>1, <1>2, <1>3 DEF ExtRecord, BODY, d

\* The states of the loop of kernel_to_hex_records.
LOOP(kernel) == [ pos : 0..Len(kernel), upper : Nat, offset : Nat, records : Seq(BODY) ]

LEMMA StartIs ==
  ASSUME NEW base \in Nat, NEW kernel \in Seq(Byte)
  PROVE  /\ LoopStart(base) \in LOOP(kernel) /\ LoopStart(base).pos = 0
         /\ LoopStart(base).upper = (base \div Seg) % Seg
         /\ LoopStart(base).offset = base % Seg
         /\ LoopStart(base).records = << ExtRecord((base \div Seg) % Seg) >>
<1>1. (base \div Seg) % Seg \in Nat /\ base % Seg \in Nat /\ 0 \in 0..Len(kernel)
  BY DEF Seg
<1>2. << ExtRecord((base \div Seg) % Seg) >> \in Seq(BODY)
  BY <1>1, ExtIs
<1> QED
  BY <1>1, <1>2 DEF LoopStart, LOOP

\* One turn, its parts by name: where it ends, the segment and the offset of
\* the record, and the records before it.
TurnEnd(s, kernel) == IF s.pos + ChunkSize < Len(kernel) THEN s.pos + ChunkSize ELSE Len(kernel)
TurnUpper(s) == IF s.offset >= Seg THEN s.upper + 1 ELSE s.upper
TurnOff(s)   == IF s.offset >= Seg THEN 0 ELSE s.offset
TurnFirst(s) == IF s.offset >= Seg THEN Append(s.records, ExtRecord(TurnUpper(s)))
                                   ELSE s.records
TurnData(s, kernel) ==
  make_hex_record(Data, TurnOff(s), SubSeq(kernel, s.pos + 1, TurnEnd(s, kernel)))

LEMMA TurnIs ==
  ASSUME NEW kernel \in Seq(Byte), NEW s \in LOOP(kernel), s.pos # Len(kernel)
  PROVE  /\ LoopTurn(s, kernel, ChunkSize) =
              [ pos |-> TurnEnd(s, kernel), upper |-> TurnUpper(s),
                offset |-> TurnOff(s) + (TurnEnd(s, kernel) - s.pos),
                records |-> Append(TurnFirst(s), TurnData(s, kernel)) ]
         /\ LoopTurn(s, kernel, ChunkSize) \in LOOP(kernel)
         /\ TurnEnd(s, kernel) \in (s.pos + 1)..Len(kernel)
         /\ TurnUpper(s) \in Nat /\ TurnOff(s) \in Nat
         /\ TurnFirst(s) \in Seq(BODY) /\ TurnData(s, kernel) \in BODY
         /\ TurnData(s, kernel).type = Data
         /\ TurnData(s, kernel).addr = TurnOff(s) % Seg
         /\ TurnData(s, kernel).data = SubSeq(kernel, s.pos + 1, TurnEnd(s, kernel))
<1> DEFINE e == TurnEnd(s, kernel)
           d == SubSeq(kernel, s.pos + 1, e)
<1>1. /\ s.pos \in Nat /\ s.pos < Len(kernel) /\ Len(kernel) \in Nat
      /\ s.upper \in Nat /\ s.offset \in Nat /\ s.records \in Seq(BODY) /\ ChunkSize \in 1..33
  BY HexLoadAssumption DEF LOOP
<1>2. e \in (s.pos + 1)..Len(kernel) /\ e \in 0..Len(kernel)
  BY <1>1 DEF TurnEnd
<1>3. TurnUpper(s) \in Nat /\ TurnOff(s) \in Nat
  BY <1>1 DEF TurnUpper, TurnOff
<1> HIDE DEF e
<1>4. d \in Seq(Byte)
  BY <1>1, <1>2
<1> HIDE DEF d
<1>5. TurnFirst(s) \in Seq(BODY)
  BY <1>1, <1>3, ExtIs, SeqAppend DEF TurnFirst
<1>6. /\ TurnData(s, kernel) \in BODY /\ TurnData(s, kernel).type = Data
      /\ TurnData(s, kernel).addr = TurnOff(s) % Seg /\ TurnData(s, kernel).data = d
  <2>1. Data \in {Data, Eof, Ext} /\ Data # Ext /\ Data # Eof
    BY DEF Data, Ext, Eof
  <2>2. /\ TurnData(s, kernel) \in REC /\ TurnData(s, kernel).type = Data
        /\ TurnData(s, kernel).addr = TurnOff(s) % Seg /\ TurnData(s, kernel).data = d
    <3>1. TurnData(s, kernel) = make_hex_record(Data, TurnOff(s), d)
      BY Zenon DEF TurnData, d, e
    <3>2. ASSUME NEW a \in Nat, NEW y \in Seq(Byte)
          PROVE  /\ make_hex_record(Data, a, y) \in REC
                 /\ make_hex_record(Data, a, y).type = Data
                 /\ make_hex_record(Data, a, y).addr = a % Seg
                 /\ make_hex_record(Data, a, y).data = y
      BY <2>1, RecordIs, SMTT(30)
    <3> QED
      BY <1>3, <1>4, <3>1, <3>2
  <2> QED
    BY <2>1, <2>2 DEF BODY
<1>7. TurnFirst(s) \o << TurnData(s, kernel) >> = Append(TurnFirst(s), TurnData(s, kernel))
      /\ Append(TurnFirst(s), TurnData(s, kernel)) \in Seq(BODY)
  BY <1>5, <1>6, SeqJoin, SeqAppend
<1>8. LoopTurn(s, kernel, ChunkSize) =
        [ pos |-> e, upper |-> TurnUpper(s), offset |-> TurnOff(s) + (e - s.pos),
          records |-> TurnFirst(s) \o << TurnData(s, kernel) >> ]
  BY DEF LoopTurn, TurnEnd, TurnUpper, TurnOff, TurnFirst, TurnData, e
<1>9. TurnOff(s) + (e - s.pos) \in Nat
  BY <1>1, <1>2, <1>3
<1>10. LoopTurn(s, kernel, ChunkSize) \in LOOP(kernel)
  BY <1>2, <1>3, <1>7, <1>8, <1>9 DEF LOOP
<1> QED
  BY <1>2, <1>3, <1>5, <1>6, <1>7, <1>8, <1>10 DEF e, d

\* One payload's loop: LoopEnd is the last of the states that turns lead to.
TurnFrom(s, kernel) == IF s.pos = Len(kernel) THEN s ELSE LoopTurn(s, kernel, ChunkSize)

Turns(t, kernel, base) ==
  /\ t[0] = LoopStart(base)
  /\ \A n \in 1..Len(kernel) : t[n] = TurnFrom(t[n - 1], kernel)

LEMMA LoopIs ==
  ASSUME NEW kernel \in Seq(Byte), NEW base \in Nat
  PROVE  \E t : /\ Turns(t, kernel, base)
                /\ LoopEnd(kernel, base, ChunkSize) = t[Len(kernel)]
<1> DEFINE m == Len(kernel)
           S == LOOP(kernel)
           F == [n \in 1..m |-> [s \in S |-> TurnFrom(s, kernel)]]
           Rec(f) == f = [n \in 0..m |-> IF n = 0 THEN LoopStart(base)
                                         ELSE IF f[n - 1].pos = m THEN f[n - 1]
                                         ELSE LoopTurn(f[n - 1], kernel, ChunkSize)]
           t == CHOOSE f : Rec(f)
<1>1. m \in Nat /\ LoopStart(base) \in S
  BY StartIs
<1>2. ASSUME NEW s \in S PROVE TurnFrom(s, kernel) \in S
  BY TurnIs DEF TurnFrom
<1>3. F \in [1..m -> [S -> S]]
  <2> HIDE DEF S
  <2> QED
    BY <1>2
<1> HIDE DEF F, S, m
<1>4. PICK g : Iterates(g, S, LoopStart(base), m, F)
  BY <1>1, <1>3, Recursion, Zenon
<1>5. ASSUME NEW n \in 1..m PROVE g[n] = TurnFrom(g[n - 1], kernel)
  <2>1. g[n - 1] \in S /\ g[n] = F[n][g[n - 1]]
    BY <1>1, <1>4 DEF Iterates
  <2> QED
    BY <2>1 DEF F
<1>6. g = [n \in 0..m |-> IF n = 0 THEN LoopStart(base) ELSE TurnFrom(g[n - 1], kernel)]
  BY <1>1, <1>4, <1>5 DEF Iterates
<1>7. Rec(g)
  BY <1>6 DEF TurnFrom, m
<1>8. Rec(t)
  BY <1>7
<1>9. LoopEnd(kernel, base, ChunkSize) = t[m]
  BY DEF LoopEnd, m
<1> HIDE DEF t
<1>10. t[0] = LoopStart(base)
  <2>1. 0 \in 0..m
    BY <1>1
  <2> QED
    BY <1>8, <2>1
<1>11. ASSUME NEW n \in 1..m PROVE t[n] = TurnFrom(t[n - 1], kernel)
  <2>1. n \in 0..m /\ n # 0
    BY <1>1
  <2>2. t[n] = IF t[n - 1].pos = m THEN t[n - 1] ELSE LoopTurn(t[n - 1], kernel, ChunkSize)
    BY <1>8, <2>1
  <2> QED
    BY <2>2 DEF TurnFrom, m
<1>12. Turns(t, kernel, base)
  BY <1>10, <1>11 DEF Turns, m
<1> QED
  BY <1>9, <1>12 DEF m

LEMMA LoopType ==
  ASSUME NEW kernel \in Seq(Byte), NEW base \in Nat, NEW t, Turns(t, kernel, base)
  PROVE  \A n \in 0..Len(kernel) : t[n] \in LOOP(kernel)
<1> DEFINE m == Len(kernel)
           P == {n \in 0..m : t[n] \in LOOP(kernel)}
<1>1. m \in Nat /\ t[0] = LoopStart(base) /\ \A n \in 1..m : t[n] = TurnFrom(t[n - 1], kernel)
  BY DEF Turns
<1> HIDE DEF m
<1>2. 0 \in P
  BY <1>1, StartIs
<1>3. ASSUME NEW n \in 1..m, n - 1 \in P PROVE n \in P
  <2>1. n \in 0..m /\ t[n - 1] \in LOOP(kernel) /\ t[n] = TurnFrom(t[n - 1], kernel)
    BY <1>1, <1>3
  <2>2. TurnFrom(t[n - 1], kernel) \in LOOP(kernel)
    BY <2>1, TurnIs DEF TurnFrom
  <2> QED
    BY <2>1, <2>2
<1> HIDE DEF P
<1>4. 0..m \subseteq P
  BY <1>1, <1>2, <1>3, UpTo
<1> QED
  BY <1>4 DEF P, m

LEMMA LoopEndType ==
  ASSUME NEW kernel \in Seq(Byte), NEW base \in Nat
  PROVE  LoopEnd(kernel, base, ChunkSize) \in LOOP(kernel)
<1>1. PICK t : Turns(t, kernel, base) /\ LoopEnd(kernel, base, ChunkSize) = t[Len(kernel)]
  BY LoopIs
<1>2. Len(kernel) \in 0..Len(kernel)
  OBVIOUS
<1> QED
  BY <1>1, <1>2, LoopType

EofRecord == make_hex_record(Eof, 0, << >>)

LEMMA EofIs ==
  /\ EofRecord \in REC /\ EofRecord.type = Eof
  /\ EofRecord.len = 11 /\ EofRecord.cksum = 255
<1> DEFINE d == << >>
           raw == << Len(d) >> \o Bytes16(0) \o << Eof >> \o d
<1>1. EofRecord \in REC /\ EofRecord.type = Eof /\ EofRecord.data = << >>
  <2>1. Eof \in {Data, Eof, Ext} /\ Eof # Ext /\ 0 \in Nat /\ << >> \in Seq(Byte)
    BY SeqEmpty DEF Eof, Ext
  <2> QED
    BY <2>1, RecordIs DEF EofRecord
<1>2. EofRecord.len = 11
  BY <1>1 DEF REC
<1>3. Bytes16(0) = << 0, 0 >>
  BY DEF Bytes16
<1>4. raw \in Seq(Int) /\ Len(raw) = 4 /\ raw[1] = 0 /\ raw[2] = 0 /\ raw[3] = 0 /\ raw[4] = 1
  BY <1>3, SMTT(30) DEF Eof
<1>5. SumOf(raw) = 1
  <2>1. PICK u : Sums(u, raw) /\ SumOf(raw) = u[Len(raw)]
    BY <1>4, SumOfIs
  <2> HIDE DEF raw
  <2>2. /\ u[0] = 0 /\ u[1] = u[1 - 1] + raw[1] /\ u[2] = u[2 - 1] + raw[2]
        /\ u[3] = u[3 - 1] + raw[3] /\ u[4] = u[4 - 1] + raw[4]
    BY <1>4, <2>1 DEF Sums
  <2>3. u[1] = 0
    BY <1>4, <2>2
  <2>4. u[2] = 0
    BY <1>4, <2>2, <2>3
  <2>5. u[3] = 0
    BY <1>4, <2>2, <2>4
  <2>6. u[4] = 1
    BY <1>4, <2>2, <2>5
  <2> QED
    BY <1>4, <2>1, <2>6
<1>6. EofRecord.cksum = (256 - (SumOf(raw) % 256)) % 256
  BY DEF EofRecord, make_hex_record
<1>7. EofRecord.cksum = 255
  BY <1>5, <1>6
<1> QED
  BY <1>1, <1>2, <1>7

\* The records of the first payloads, as Records puts them together.
PayloadRecords(n) ==
  kernel_to_hex_records(Payloads[n].bytes, Payloads[n].base, ChunkSize, n = Len(Payloads))

Assembled(u) ==
  u[0] = << >> /\ \A n \in 1..Len(Payloads) : u[n] = u[n - 1] \o PayloadRecords(n)

LEMMA PayloadIs ==
  ASSUME NEW n \in 1..Len(Payloads)
  PROVE  Payloads[n].bytes \in Seq(Byte) /\ Payloads[n].base \in Nat
<1> DEFINE T == [ bytes : Seq(Byte), base : Nat ]
<1>0. Payloads \in Seq(T)
  BY HexLoadAssumption
<1> HIDE DEF T
<1>1. Payloads[n] \in T
  BY <1>0
<1> USE DEF T
<1> QED
  BY <1>1

LEMMA PayloadRecordsAre ==
  ASSUME NEW n \in 1..Len(Payloads)
  PROVE  LET s == LoopEnd(Payloads[n].bytes, Payloads[n].base, ChunkSize)
         IN  /\ s \in LOOP(Payloads[n].bytes)
             /\ PayloadRecords(n) = IF n = Len(Payloads) THEN s.records \o << EofRecord >>
                                                         ELSE s.records
<1> DEFINE s == LoopEnd(Payloads[n].bytes, Payloads[n].base, ChunkSize)
<1>1. s \in LOOP(Payloads[n].bytes)
  BY PayloadIs, LoopEndType
<1>2. PayloadRecords(n) = s.records \o IF n = Len(Payloads) THEN << EofRecord >> ELSE << >>
  BY DEF PayloadRecords, kernel_to_hex_records, EofRecord
<1> HIDE DEF s
<1>3. s.records \in Seq(BODY)
  BY <1>1 DEF LOOP
<1>4. s.records \o << >> = s.records
  BY <1>3
<1> QED
  BY <1>1, <1>2, <1>4 DEF s

LEMMA PayloadRecordsType ==
  ASSUME NEW n \in 1..Len(Payloads)
  PROVE  PayloadRecords(n) \in Seq(REC)
<1>1. PICK s \in LOOP(Payloads[n].bytes) :
        PayloadRecords(n) = IF n = Len(Payloads) THEN s.records \o << EofRecord >> ELSE s.records
  BY PayloadRecordsAre
<1>2. s.records \in Seq(REC)
  <2>1. s.records \in Seq(BODY) /\ BODY \subseteq REC
    BY DEF LOOP, BODY
  <2> QED
    BY <2>1, SeqMono
<1>3. << EofRecord >> \in Seq(REC)
  BY EofIs, SeqOne
<1>4. s.records \o << EofRecord >> \in Seq(REC)
  BY <1>2, <1>3, SeqConcat
<1> QED
  BY <1>1, <1>2, <1>4

LEMMA RecordsIs ==
  \E u : Assembled(u) /\ Records = u[Len(Payloads)]
<1> DEFINE m == Len(Payloads)
           S == Seq(REC)
           F == [n \in 1..m |-> [q \in S |-> q \o PayloadRecords(n)]]
           Rec(f) == f = [n \in 0..m |-> IF n = 0 THEN << >> ELSE f[n - 1] \o
                            kernel_to_hex_records(Payloads[n].bytes, Payloads[n].base, ChunkSize, n = m)]
           u == CHOOSE f : Rec(f)
<1>1. m \in Nat /\ << >> \in S
  BY HexLoadAssumption, SeqEmpty
<1>2. ASSUME NEW n \in 1..m, NEW q \in S PROVE q \o PayloadRecords(n) \in S
  BY PayloadRecordsType, SeqConcat
<1> HIDE DEF S
<1>3. F \in [1..m -> [S -> S]]
  BY <1>2
<1> HIDE DEF F, m
<1>4. PICK g : Iterates(g, S, << >>, m, F)
  BY <1>1, <1>3, Recursion, Zenon
<1>5. ASSUME NEW n \in 1..m PROVE g[n] = g[n - 1] \o PayloadRecords(n)
  <2>1. g[n - 1] \in S /\ g[n] = F[n][g[n - 1]]
    BY <1>1, <1>4 DEF Iterates
  <2> QED
    BY <2>1 DEF F
<1>6. g = [n \in 0..m |-> IF n = 0 THEN << >> ELSE g[n - 1] \o PayloadRecords(n)]
  BY <1>1, <1>4, <1>5 DEF Iterates
<1>7. Rec(g)
  BY <1>6 DEF PayloadRecords, m
<1>8. Rec(u)
  BY <1>7
<1>9. Records = u[m]
  BY DEF Records, m
<1> HIDE DEF u
<1>10. u[0] = << >>
  <2>1. 0 \in 0..m
    BY <1>1
  <2> QED
    BY <1>8, <2>1
<1>11. ASSUME NEW n \in 1..m PROVE u[n] = u[n - 1] \o PayloadRecords(n)
  <2>1. n \in 0..m /\ n # 0
    BY <1>1
  <2>2. u[n] = u[n - 1] \o kernel_to_hex_records(Payloads[n].bytes, Payloads[n].base, ChunkSize, n = m)
    BY <1>8, <2>1
  <2> QED
    BY <2>2 DEF PayloadRecords, m
<1>12. Assembled(u)
  BY <1>10, <1>11 DEF Assembled, m
<1> QED
  BY <1>9, <1>12 DEF m

LEMMA RecordsType ==
  Records \in Seq(REC) /\ Len(Records) \in Nat \ {0}
<1> DEFINE m == Len(Payloads)
<1>1. m \in Nat \ {0}
  BY HexLoadAssumption
<1>2. PICK u : Assembled(u) /\ Records = u[m]
  BY RecordsIs
<1>3. u[0] = << >> /\ \A n \in 1..m : u[n] = u[n - 1] \o PayloadRecords(n)
  BY <1>2 DEF Assembled
<1>4. \A n \in 1..m : PayloadRecords(n) \in Seq(REC)
  BY PayloadRecordsType
<1> DEFINE P == {n \in 0..m : u[n] \in Seq(REC)}
<1>5. 0 \in P
  <2>1. << >> \in Seq(REC)
    BY SeqEmpty
  <2>2. 0 \in 0..m
    BY <1>1
  <2> QED
    BY <1>3, <2>1, <2>2, Zenon
<1>6. ASSUME NEW n \in 1..m, n - 1 \in P PROVE n \in P
  <2>1. n \in 0..m /\ u[n - 1] \in Seq(REC) /\ u[n] = u[n - 1] \o PayloadRecords(n)
    BY <1>3, <1>6
  <2>2. u[n - 1] \o PayloadRecords(n) \in Seq(REC)
    BY <1>4, <2>1, SeqConcat
  <2> QED
    BY <2>1, <2>2
<1> HIDE DEF P
<1>7. 0..m \subseteq P
  BY <1>1, <1>5, <1>6, UpTo
<1>8. Records \in Seq(REC)
  BY <1>1, <1>2, <1>7 DEF P
<1>9. PayloadRecords(m) # << >>
  <2>1. m \in 1..Len(Payloads)
    BY <1>1
  <2>2. PICK s \in LOOP(Payloads[m].bytes) : PayloadRecords(m) = s.records \o << EofRecord >>
    BY <2>1, PayloadRecordsAre
  <2>3. s.records \in Seq(BODY) /\ s.records \in Seq(REC)
    <3>1. s.records \in Seq(BODY) /\ BODY \subseteq REC
      BY DEF LOOP, BODY
    <3> QED
      BY <3>1, SeqMono
  <2> HIDE DEF m
  <2>4. Len(s.records \o << EofRecord >>) = Len(s.records) + 1 /\ Len(s.records) \in Nat
    BY <2>3, EofIs, SeqOne, SeqConcat
  <2>5. PayloadRecords(m) \in Seq(REC)
    BY <1>4, <2>1 DEF m
  <2> QED
    BY <2>2, <2>4, <2>5
<1>10. Len(Records) # 0
  <2>1. m \in 1..m /\ m - 1 \in 0..m
    BY <1>1
  <2>2. u[m - 1] \in Seq(REC) /\ PayloadRecords(m) \in Seq(REC) /\ Records = u[m - 1] \o PayloadRecords(m)
    BY <1>2, <1>3, <1>4, <1>7, <2>1 DEF P
  <2>3. Len(Records) = Len(u[m - 1]) + Len(PayloadRecords(m))
    BY <2>2, SeqConcat
  <2>4. Len(u[m - 1]) \in Nat /\ Len(PayloadRecords(m)) \in Nat \ {0}
    BY <1>9, <2>2
  <2> QED
    BY <2>3, <2>4
<1> QED
  BY <1>8, <1>10

-----------------------------------------------------------------------------
(* The processes the flasher runs under. *)

Pids == Procs \union {0}

Above(X) == X \union { Parent[q] : q \in X \ {0} }

Closed(X) == \A q \in X \ {0} : Parent[q] \in X

LEMMA AboveIs ==
  ASSUME NEW X \in SUBSET Pids
  PROVE  /\ Above(X) \in SUBSET Pids /\ X \subseteq Above(X)
         /\ Closed(X) => Above(X) = X
         /\ ~Closed(X) => \E x \in Above(X) : x \notin X
<1>1. \A q \in X \ {0} : Parent[q] \in Pids
  BY HexLoadAssumption DEF Pids
<1> QED
  BY <1>1 DEF Above, Closed

LEMMA AncestorsAre ==
  /\ Ancestors \subseteq Procs /\ Self \in Ancestors
  /\ \A q \in Ancestors : Parent[q] \in Ancestors \union {0}
<1> DEFINE c == Cardinality(Procs)
           S == SUBSET Pids
           F == [n \in 1..c |-> [X \in S |-> Above(X)]]
           Rec(f) == f = [n \in 0..c |-> IF n = 0 THEN {Self}
                                         ELSE f[n - 1] \union { Parent[q] : q \in f[n - 1] \ {0} }]
           u == CHOOSE f : Rec(f)
<1>0. /\ IsFiniteSet(Procs) /\ 0 \notin Procs /\ Self \in Procs
      /\ Parent \in [Procs -> Procs \union {0}]
  BY HexLoadAssumption
<1>1. c \in Nat
  BY <1>0, FS_CardinalityType
<1>2. IsFiniteSet(Pids) /\ Cardinality(Pids) = c + 1
  BY <1>0, FS_AddElement DEF Pids
<1> HIDE DEF c
<1>3. {Self} \in S
  BY <1>0 DEF Pids
<1>4. ASSUME NEW X \in S PROVE Above(X) \in S
  BY AboveIs
<1> HIDE DEF S
<1>5. F \in [1..c -> [S -> S]]
  BY <1>4
<1> HIDE DEF F
<1>6. PICK g : Iterates(g, S, {Self}, c, F)
  BY <1>1, <1>3, <1>5, Recursion, Zenon
<1>7. ASSUME NEW n \in 1..c PROVE g[n] = Above(g[n - 1])
  <2>1. g[n - 1] \in S /\ g[n] = F[n][g[n - 1]]
    BY <1>1, <1>6 DEF Iterates
  <2> QED
    BY <2>1 DEF F
<1>8. g = [n \in 0..c |-> IF n = 0 THEN {Self} ELSE Above(g[n - 1])]
  BY <1>1, <1>6, <1>7 DEF Iterates
<1>9. Rec(g)
  BY <1>8 DEF Above
<1>10. Rec(u)
  BY <1>9
<1>11. Ancestors = u[c] \ {0}
  BY DEF Ancestors, proc_ancestors, c
<1> HIDE DEF u
<1>12. u[0] = {Self}
  <2>1. 0 \in 0..c
    BY <1>1
  <2> QED
    BY <1>10, <2>1
<1>13. ASSUME NEW n \in 1..c PROVE u[n] = Above(u[n - 1])
  <2>1. n \in 0..c /\ n # 0
    BY <1>1
  <2>2. u[n] = u[n - 1] \union { Parent[q] : q \in u[n - 1] \ {0} }
    BY <1>10, <2>1
  <2> QED
    BY <2>2 DEF Above
<1> DEFINE P == {n \in 0..c : /\ u[n] \in S /\ Self \in u[n]
                              /\ Closed(u[n]) \/ Cardinality(u[n]) >= n + 1}
<1>14. 0 \in P
  <2>1. Cardinality({Self}) = 1
    BY FS_Singleton
  <2> QED
    BY <1>1, <1>3, <1>12, <2>1
<1>15. ASSUME NEW n \in 1..c, n - 1 \in P PROVE n \in P
  <2> DEFINE X == u[n - 1]
             Y == u[n]
  <2>1. /\ X \in S /\ Self \in X
        /\ Closed(X) \/ Cardinality(X) >= n
        /\ Y = Above(X) /\ n \in 0..c
    BY <1>13, <1>15
  <2> HIDE DEF X, Y
  <2>2. /\ Y \in S /\ X \subseteq Y
        /\ Closed(X) => Y = X
        /\ ~Closed(X) => \E x \in Y : x \notin X
    BY <2>1, AboveIs DEF S
  <2>3. CASE Closed(X)
    BY <2>1, <2>2, <2>3 DEF X, Y
  <2>4. CASE ~Closed(X)
    <3>1. PICK x \in Y : x \notin X
      BY <2>2, <2>4
    <3>2. IsFiniteSet(Y) /\ IsFiniteSet(X)
      BY <1>2, <2>1, <2>2, FS_Subset DEF S
    <3>3. IsFiniteSet(X \union {x}) /\ Cardinality(X \union {x}) = Cardinality(X) + 1
      BY <3>1, <3>2, FS_AddElement
    <3>4. Cardinality(X \union {x}) <= Cardinality(Y)
      <4>1. X \union {x} \subseteq Y
        BY <2>2, <3>1
      <4> QED
        BY <3>2, <4>1, FS_Subset
    <3>5. Cardinality(X) \in Nat /\ Cardinality(Y) \in Nat
      BY <3>2, FS_CardinalityType
    <3>6. Cardinality(Y) >= n + 1
      BY <2>1, <2>4, <3>3, <3>4, <3>5
    <3> QED
      BY <2>1, <2>2, <3>6 DEF X, Y
  <2> QED
    BY <2>3, <2>4
<1> HIDE DEF P
<1>16. 0..c \subseteq P
  BY <1>1, <1>14, <1>15, UpTo
<1>17. u[c] \in S /\ Self \in u[c] /\ (Closed(u[c]) \/ Cardinality(u[c]) >= c + 1)
  BY <1>1, <1>16 DEF P
<1>18. Closed(u[c])
  <2> SUFFICES ASSUME Cardinality(u[c]) >= c + 1 PROVE Closed(u[c])
    BY <1>17
  <2>1. u[c] \subseteq Pids
    BY <1>17 DEF S
  <2>2. Cardinality(u[c]) <= Cardinality(Pids) /\ IsFiniteSet(u[c])
    BY <1>2, <2>1, FS_Subset
  <2>3. Cardinality(u[c]) = Cardinality(Pids)
    BY <1>1, <1>2, <2>2, FS_CardinalityType
  <2>4. u[c] = Pids
    BY <1>2, <2>1, <2>3, FS_Subset
  <2> QED
    BY <1>0, <2>4 DEF Closed, Pids
<1> QED
  BY <1>0, <1>11, <1>17, <1>18 DEF Closed, Pids, S

-----------------------------------------------------------------------------
(* The sweep. *)

Outside == Procs \ (Ancestors \union Foreign)

\* No ancestor is ever a candidate, and a stale flasher of ours stays one
\* until it is dead: none is left when the port is opened.
SweepInv ==
  /\ procs \in [Procs -> {"none", "other", "flasher"}]
  /\ todo \subseteq Procs \ Ancestors
  /\ killed \subseteq Procs \ Ancestors
  /\ target = << >> \/ target \in (Procs \ Ancestors) \X {1, 2}
  /\ phase = "sweep" =>
       \A p \in Outside : procs[p] = "flasher" => p \in todo \/ (target # << >> /\ target[1] = p)
  /\ PortOurs

LEMMA SweepInit == Init => SweepInv
<1> SUFFICES ASSUME Init PROVE SweepInv
  OBVIOUS
<1> QED
  BY HexLoadAssumption DEF Init, SweepInv, PortOurs, Flashing

LEMMA SweepStart ==
  ASSUME SweepInv, Start
  PROVE  SweepInv'
<1>1. procs' \in [Procs -> {"none", "other", "flasher"}]
  BY DEF Start, SweepInv
<1>2. todo' = { p \in Procs : procs'[p] # "none" } \ Ancestors /\ phase' = "sweep"
      /\ target' = target /\ killed' = killed
  BY DEF Start
<1>3. PortOurs'
  BY <1>2 DEF PortOurs, Flashing
<1> QED
  BY <1>1, <1>2, <1>3 DEF SweepInv, Outside

LEMMA SweepCheck ==
  ASSUME SweepInv, KillStaleCheck
  PROVE  SweepInv'
<1>0. phase' = phase /\ phase = "sweep" /\ procs' = procs /\ killed' = killed
  BY DEF KillStaleCheck, hostVars
<1>1. PortOurs'
  BY <1>0 DEF PortOurs, Flashing
<1>2. CASE target = << >> /\ \E p \in todo :
             /\ todo' = todo \ {p}
             /\ target' = IF proc_matches(p) THEN << p, 1 >> ELSE << >>
  <2>1. PICK p \in todo : todo' = todo \ {p} /\ target' = IF proc_matches(p) THEN << p, 1 >> ELSE << >>
    BY <1>2
  <2>2. p \in Procs \ Ancestors
    BY DEF SweepInv
  <2>3. CASE proc_matches(p)
    <3>1. target' = << p, 1 >> /\ target' \in (Procs \ Ancestors) \X {1, 2} /\ target' # << >> /\ target'[1] = p
      BY <2>1, <2>2, <2>3
    <3> QED
      BY <1>0, <1>1, <1>2, <2>1, <3>1 DEF SweepInv
  <2>4. CASE ~proc_matches(p)
    BY <1>0, <1>1, <1>2, <2>1, <2>4 DEF SweepInv, proc_matches
  <2> QED
    BY <2>3, <2>4
<1>3. CASE /\ target # << >> /\ target[2] = 1
           /\ target' = IF proc_matches(target[1]) THEN << target[1], 2 >> ELSE << >>
           /\ UNCHANGED todo
  <2>1. target[1] \in Procs \ Ancestors
    BY <1>3 DEF SweepInv
  <2>2. CASE proc_matches(target[1])
    <3>1. /\ target' \in (Procs \ Ancestors) \X {1, 2} /\ target' # << >>
          /\ target'[1] = target[1] /\ todo' = todo
      BY <1>3, <2>1, <2>2
    <3> QED
      BY <1>0, <1>1, <1>3, <3>1 DEF SweepInv
  <2>3. CASE ~proc_matches(target[1])
    BY <1>0, <1>1, <1>3, <2>3 DEF SweepInv, proc_matches
  <2> QED
    BY <2>2, <2>3
<1> QED
  BY <1>2, <1>3 DEF KillStaleCheck

LEMMA SweepKill ==
  ASSUME SweepInv, KillStaleKill
  PROVE  SweepInv'
<1> DEFINE p == target[1]
<1>0. /\ phase' = phase /\ phase = "sweep" /\ todo' = todo /\ target' = << >>
      /\ target \in (Procs \ Ancestors) \X {1, 2} /\ target # << >> /\ p \in Procs \ Ancestors
  BY DEF KillStaleKill, hostVars, SweepInv
<1>1. PortOurs'
  BY <1>0 DEF PortOurs, Flashing
<1>2. CASE procs[p] # "none" /\ p \notin Foreign
  <2>1. procs' = [ procs EXCEPT ![p] = "none" ] /\ killed' = killed \union {p}
    BY <1>2 DEF KillStaleKill
  <2>2. procs' \in [Procs -> {"none", "other", "flasher"}] /\ killed' \subseteq Procs \ Ancestors
    BY <1>0, <2>1 DEF SweepInv
  <2>3. ASSUME NEW q \in Outside, procs'[q] = "flasher" PROVE q \in todo'
    <3>1. q \in Procs
      BY DEF Outside
    <3>2. q # p /\ procs[q] = "flasher"
      BY <2>1, <2>3, <3>1 DEF SweepInv
    <3> QED
      BY <1>0, <3>2 DEF SweepInv
  <2> QED
    BY <1>0, <1>1, <2>2, <2>3 DEF SweepInv
<1>3. CASE ~(procs[p] # "none" /\ p \notin Foreign)
  <2>1. procs' = procs /\ killed' = killed
    BY <1>3 DEF KillStaleKill
  <2>2. ASSUME NEW q \in Outside, procs[q] = "flasher" PROVE q \in todo
    <3>1. q # p
      BY <1>3, <2>2 DEF Outside
    <3> QED
      BY <1>0, <2>2, <3>1 DEF SweepInv
  <2> QED
    BY <1>0, <1>1, <2>1, <2>2 DEF SweepInv
<1> QED
  BY <1>2, <1>3

LEMMA SweepProcChange ==
  ASSUME SweepInv, ProcChange
  PROVE  SweepInv'
<1>0. phase' = phase /\ phase = "sweep" /\ todo' = todo /\ target' = target /\ killed' = killed
  BY DEF ProcChange, hostVars
<1>1. PICK p \in Procs \ (Ancestors \union Foreign) :
        procs' = [ procs EXCEPT ![p] = IF procs[p] = "none" THEN "other" ELSE "none" ]
  BY DEF ProcChange
<1>2. procs' \in [Procs -> {"none", "other", "flasher"}]
  BY <1>1 DEF SweepInv
<1>3. \A q \in Procs : procs'[q] = "flasher" => procs[q] = "flasher"
  BY <1>1 DEF SweepInv
<1>4. PortOurs'
  BY <1>0 DEF PortOurs, Flashing
<1> QED
  BY <1>0, <1>2, <1>3, <1>4 DEF SweepInv, Outside

LEMMA SweepOpen ==
  ASSUME SweepInv, OpenSerial
  PROVE  SweepInv'
<1>0. /\ phase = "sweep" /\ todo = {} /\ target = << >> /\ killed' = {}
      /\ procs' = procs /\ todo' = todo /\ target' = target /\ phase' \in {"reset", "idle"}
  BY DEF OpenSerial
<1>1. \A p \in Outside : procs'[p] # "flasher"
  BY <1>0 DEF SweepInv
<1>2. PortOurs'
  BY <1>1 DEF PortOurs, Outside
<1> QED
  BY <1>0, <1>2 DEF SweepInv

\* Everything else leaves the processes alone, and nothing but OpenSerial
\* leads from the sweep to the flash.
Elsewhere ==
  /\ UNCHANGED sweepVars
  /\ phase # "sweep" /\ phase' # "sweep"
  /\ phase' \in Flashing => phase \in Flashing

LEMMA SweepElsewhere ==
  ASSUME SweepInv, Elsewhere \/ (UNCHANGED sweepVars /\ UNCHANGED phase)
  PROVE  SweepInv'
  BY DEF SweepInv, Elsewhere, sweepVars, PortOurs, Outside

LEMMA HostElsewhere ==
  ASSUME \/ DtrReset \/ WaitReady \/ FlushForRecords \/ SendRecord \/ ReadAck
         \/ AckTimeout \/ WaitBoot \/ Abort \/ ConsoleEnds
  PROVE  Elsewhere
<1> USE DEF Elsewhere, Flashing, Return1, hostVars
<1>1. CASE DtrReset
  BY <1>1 DEF DtrReset
<1>2. CASE WaitReady
  BY <1>2 DEF WaitReady, ReadLine
<1>3. CASE FlushForRecords
  BY <1>3 DEF FlushForRecords
<1>4. CASE SendRecord
  BY <1>4 DEF SendRecord
<1>5. CASE ReadAck
  BY <1>5 DEF ReadAck
<1>6. CASE AckTimeout
  BY <1>6 DEF AckTimeout
<1>7. CASE WaitBoot
  BY <1>7 DEF WaitBoot, ReadLine
<1>8. CASE Abort
  BY <1>8 DEF Abort
<1>9. CASE ConsoleEnds
  BY <1>9 DEF ConsoleEnds
<1> QED
  BY <1>1, <1>2, <1>3, <1>4, <1>5, <1>6, <1>7, <1>8, <1>9

\* What the Pi does but for taking a garbled line.
PiStep == PiStart \/ PiAccept \/ PiMisread \/ PiNak \/ PiShort \/ PiJump \/ PiGlitch

LEMMA PiElsewhere ==
  ASSUME PiStep \/ PiSlip \/ StealByte
  PROVE  UNCHANGED sweepVars /\ UNCHANGED hostVars /\ UNCHANGED runs
  BY DEF PiStep, PiStart, PiAccept, PiMisread, PiSlip, PiNak, PiShort, PiJump, PiGlitch, StealByte

LEMMA SweepStep == SweepInv /\ [Next]_vars => SweepInv'
<1> SUFFICES ASSUME SweepInv, [Next]_vars PROVE SweepInv'
  OBVIOUS
<1>1. CASE \/ DtrReset \/ WaitReady \/ FlushForRecords \/ SendRecord \/ ReadAck
           \/ AckTimeout \/ WaitBoot \/ Abort \/ ConsoleEnds
  BY <1>1, HostElsewhere, SweepElsewhere
<1>2. CASE PiStep \/ PiSlip \/ StealByte
  BY <1>2, PiElsewhere, SweepElsewhere DEF hostVars
<1>3. CASE UNCHANGED vars
  BY <1>3, SweepElsewhere DEF vars, hostVars
<1> QED
  BY <1>1, <1>2, <1>3, SweepStart, SweepCheck, SweepKill, SweepProcChange, SweepOpen
     DEF Next, HostStep, PiStep

-----------------------------------------------------------------------------
(* The host's counters and what is on the line. *)

LINES == [ rec : REC, fault : {"intact", "drop", "colon", "garble", "short"} ]
CHARS == [ line : {"", "READY", "BOOT"}, byte : Int ]

\* Where i is in each phase, and that a wait gives up before MaxTries.
CountInv ==
  /\ phase \in Flashing \union {"idle", "sweep", "console"}
  /\ records \in {<< >>, Records}
  /\ phase # "idle" => records = Records
  /\ i \in Nat
  /\ phase \in {"send", "ack"} => i \in 1..Len(Records)
  /\ phase = "boot" => i = Len(Records) + 1
  /\ phase \notin {"send", "ack", "boot"} => i = 1
  /\ ack \in Seq(Int) /\ Len(ack) < 2
  /\ tries \in 0..(MaxTries - 1)
  /\ mode \in {"block", "timed"}
  /\ verdict \in {"none", "failed", "booted"}

LineInv ==
  /\ pi \in {"start", "loop", "jump", "kernel"}
  /\ x24 \in Nat /\ w27 \in Byte /\ faults \in Nat
  /\ Cells \subseteq DOMAIN mem
  /\ h2p \in Seq(LINES)
  /\ p2h \in Seq(CHARS)

LEMMA CharsAre ==
  /\ \A n \in Int : Char(n) \in CHARS
  /\ LineReady \in CHARS /\ LineBoot \in CHARS /\ BlankLine \in CHARS
  BY DEF Char, LineReady, LineBoot, BlankLine, CHARS

LEMMA CountInit == Init => CountInv
<1> SUFFICES ASSUME Init PROVE CountInv
  OBVIOUS
<1>1. << >> \in Seq(Int) /\ Len(<< >>) < 2
  BY SeqEmpty
<1> QED
  BY <1>1, HexLoadAssumption DEF Init, CountInv, Flashing

LEMMA LineInit == Init => LineInv
<1> SUFFICES ASSUME Init PROVE LineInv
  OBVIOUS
<1>1. h2p \in Seq(LINES) /\ p2h \in Seq(CHARS)
  BY SeqEmpty DEF Init
<1> QED
  BY <1>1 DEF Init, LineInv, Byte

LEMMA CountReturn1 ==
  ASSUME CountInv, Return1, UNCHANGED << records, mode >>
  PROVE  CountInv'
<1>1. ack' \in Seq(Int) /\ Len(ack') < 2
  BY SeqEmpty DEF Return1
<1> QED
  BY <1>1, HexLoadAssumption DEF Return1, CountInv, Flashing

LEMMA CountReadLine ==
  ASSUME CountInv, LineInv, NEW wait, NEW line, NEW next \in BOOLEAN,
         ReadLine(wait, line, next),
         next /\ phase = wait /\ UNCHANGED records => CountInv'
  PROVE  CountInv'
<1>0. phase = wait /\ UNCHANGED records
  BY DEF ReadLine
<1>1. CASE p2h # << >> /\ IF Head(p2h).line = line THEN next ELSE UNCHANGED hostVars
  <2>1. CASE next
    BY <1>0, <2>1
  <2>2. CASE UNCHANGED hostVars
    BY <2>2 DEF CountInv, hostVars
  <2> QED
    BY <1>1, <2>1, <2>2
<1>2. CASE UNCHANGED mode /\ Return1
  BY <1>0, <1>2, CountReturn1
<1>3. CASE tries + 1 # MaxTries /\ tries' = tries + 1 /\ UNCHANGED << phase, i, ack, verdict, mode >>
  <2>1. tries' \in 0..(MaxTries - 1)
    BY <1>3, HexLoadAssumption DEF CountInv
  <2> QED
    BY <1>0, <1>3, <2>1 DEF CountInv
<1> QED
  BY <1>1, <1>2, <1>3 DEF ReadLine

LEMMA CountReadAck ==
  ASSUME CountInv, LineInv, ReadAck
  PROVE  CountInv'
<1> DEFINE b == Head(p2h).byte
           a == Append(ack, b)
<1>1. /\ phase = "ack" /\ records' = records /\ mode' = mode /\ records = Records
      /\ i \in 1..Len(Records) /\ Len(Records) \in Nat
  BY RecordsType DEF ReadAck, CountInv
<1>2. b \in Int
  <2>1. Head(p2h) \in CHARS
    BY SeqTake DEF ReadAck, LineInv
  <2> QED
    BY <2>1 DEF CHARS
<1>3. a \in Seq(Int) /\ Len(a) = Len(ack) + 1
  BY <1>2 DEF CountInv
<1>4. << >> \in Seq(Int) /\ Len(<< >>) < 2
  BY SeqEmpty
<1> HIDE DEF a
<1>5. CASE Len(a) < 2 /\ ack' = a /\ UNCHANGED << phase, i, verdict, tries >>
  BY <1>1, <1>3, <1>5 DEF CountInv
<1>6. CASE /\ ack' = << >> /\ i' = i + 1
           /\ phase' = IF i = Len(records) THEN "boot" ELSE "send"
           /\ UNCHANGED << tries, verdict >>
  BY <1>1, <1>4, <1>6 DEF CountInv, Flashing
<1>7. CASE Return1
  BY <1>1, <1>7, CountReturn1
<1> QED
  BY <1>5, <1>6, <1>7 DEF ReadAck, a

LEMMA CountStep == CountInv /\ LineInv /\ [Next]_vars => CountInv'
<1> SUFFICES ASSUME CountInv, LineInv, [Next]_vars PROVE CountInv'
  OBVIOUS
<1>0. MaxTries \in Nat \ {0} /\ 0 \in 0..(MaxTries - 1) /\ Len(Records) \in Nat \ {0}
  BY HexLoadAssumption, RecordsType
<1> USE DEF CountInv, Flashing
<1>1. CASE Start
  BY <1>1 DEF Start
<1>2. CASE KillStaleCheck
  BY <1>2 DEF KillStaleCheck, hostVars
<1>3. CASE KillStaleKill
  BY <1>3 DEF KillStaleKill, hostVars
<1>4. CASE ProcChange
  BY <1>4 DEF ProcChange, hostVars
<1>5. CASE OpenSerial
  BY <1>5 DEF OpenSerial
<1>6. CASE DtrReset
  BY <1>6 DEF DtrReset
<1>7. CASE WaitReady
  <2> DEFINE next == phase' = "flush" /\ UNCHANGED << i, ack, tries, mode, verdict >>
  <2>1. ReadLine("ready", "READY", next)
    BY <1>7 DEF WaitReady
  <2>2. next /\ phase = "ready" /\ UNCHANGED records => CountInv'
    OBVIOUS
  <2>3. next \in BOOLEAN
    OBVIOUS
  <2> HIDE DEF next, CountInv
  <2> QED
    BY <2>1, <2>2, <2>3, CountReadLine
<1>8. CASE FlushForRecords
  <2>1. 1 \in 1..Len(Records)
    BY <1>0
  <2> QED
    BY <1>0, <1>8, <2>1 DEF FlushForRecords
<1>9. CASE SendRecord
  <2>1. << >> \in Seq(Int) /\ Len(<< >>) < 2
    BY SeqEmpty
  <2> QED
    BY <1>9, <2>1 DEF SendRecord
<1>10. CASE ReadAck
  BY <1>10, CountReadAck
<1>11. CASE AckTimeout
  BY <1>11, CountReturn1 DEF AckTimeout
<1>12. CASE WaitBoot
  <2> DEFINE next == phase' = "console" /\ mode' = "block" /\ verdict' = "booted"
                     /\ i' = 1 /\ tries' = 0 /\ UNCHANGED ack
  <2>1. ReadLine("boot", "BOOT", next)
    BY <1>12 DEF WaitBoot
  <2>2. next /\ phase = "boot" /\ UNCHANGED records => CountInv'
    BY <1>0
  <2>3. next \in BOOLEAN
    OBVIOUS
  <2> HIDE DEF next, CountInv
  <2> QED
    BY <2>1, <2>2, <2>3, CountReadLine
<1>13. CASE Abort
  BY <1>13, CountReturn1 DEF Abort
<1>14. CASE ConsoleEnds
  BY <1>14 DEF ConsoleEnds
<1>15. CASE PiStep \/ PiSlip \/ StealByte
  BY <1>15, PiElsewhere DEF hostVars
<1>16. CASE UNCHANGED vars
  BY <1>16 DEF vars, hostVars
<1> QED
  BY <1>1, <1>2, <1>3, <1>4, <1>5, <1>6, <1>7, <1>8, <1>9, <1>10, <1>11, <1>12, <1>13, <1>14,
     <1>15, <1>16 DEF Next, HostStep, PiStep

LEMMA RecIs ==
  ASSUME NEW r \in REC
  PROVE  /\ r.len \in Nat /\ r.cksum \in Byte /\ r.cksum \in Int /\ r.addr \in Nat /\ r.data \in Seq(Byte)
         /\ r.type \in {Data, Eof, Ext} /\ r.len = 11 + 2 * Len(r.data)
         /\ r.type = Ext => r.data[1] \in Nat /\ r.data[2] \in Nat
<1>1. /\ r.len \in Nat /\ r.cksum \in Byte /\ r.addr \in Nat /\ r.data \in Seq(Byte)
      /\ r.type \in {Data, Eof, Ext} /\ r.len = 11 + 2 * Len(r.data)
      /\ r.type = Ext => Len(r.data) = 2
  BY DEF REC
<1>2. Byte \subseteq Int /\ Byte \subseteq Nat
  BY DEF Byte
<1>3. ASSUME NEW d \in Seq(Byte), Len(d) = 2 PROVE d[1] \in Nat /\ d[2] \in Nat
  <2>1. d[1] \in Byte /\ d[2] \in Byte
    BY <1>3
  <2> QED
    BY <1>2, <2>1
<1> QED
  BY <1>1, <1>2, <1>3

LEMMA ReplyLine ==
  ASSUME LineInv, NEW n \in Int, NEW c \in Int, Reply(n, c)
  PROVE  p2h' \in Seq(CHARS) /\ faults' \in Nat
<1>1. Char(n) \in CHARS /\ Char(c) \in CHARS
  BY CharsAre
<1>2. Append(p2h, Char(n)) \in Seq(CHARS) /\ Append(p2h, Char(c)) \in Seq(CHARS)
  BY <1>1, SeqAppend DEF LineInv
<1>3. p2h \o << Char(n), Char(c) >> \in Seq(CHARS)
  <2>1. << Char(n), Char(c) >> \in Seq(CHARS)
    BY <1>1
  <2> QED
    BY <2>1, SeqConcat DEF LineInv
<1>4. CASE p2h' = p2h \o << Char(n), Char(c) >> /\ UNCHANGED faults
  <2>1. p2h' \in Seq(CHARS)
    BY <1>3, <1>4, Zenon
  <2> QED
    BY <1>4, <2>1 DEF LineInv
<1>5. CASE faults' = faults + 1 /\ p2h' \in { Append(p2h, Char(n)), Append(p2h, Char(c)) }
  <2>1. p2h' \in Seq(CHARS)
    BY <1>2, <1>5, Zenon
  <2>2. faults \in Nat
    BY DEF LineInv
  <2> QED
    BY <1>5, <2>1, <2>2
<1> QED
  BY <1>4, <1>5 DEF Reply

LEMMA ApplyLine ==
  ASSUME LineInv, NEW rec \in REC, NEW bytes, Apply(rec, bytes),
         rec.type = Ext => bytes[1] \in Nat /\ bytes[2] \in Nat
  PROVE  x24' \in Nat /\ Cells \subseteq DOMAIN mem' /\ pi' \in {pi, "jump"}
<1>1. CASE rec.type = Data /\ PutData(rec, bytes) /\ UNCHANGED << x24, pi >>
  BY <1>1 DEF PutData, LineInv
<1>2. CASE rec.type = Ext /\ x24' = (bytes[1] * 256 + bytes[2]) * Seg /\ UNCHANGED << mem, pi >>
  <2>1. \A m, n \in Nat : (m * 256 + n) * Seg \in Nat
    BY DEF Seg
  <2>2. x24' \in Nat
    BY <1>2, <2>1
  <2> QED
    BY <1>2, <2>2 DEF LineInv
<1>3. CASE pi' = "jump" /\ UNCHANGED << mem, x24 >>
  BY <1>3 DEF LineInv
<1> QED
  BY <1>1, <1>2, <1>3 DEF Apply

\* The line at the head of the queue.
LEMMA LineHead ==
  ASSUME LineInv, h2p # << >>
  PROVE  Head(h2p) \in LINES /\ Tail(h2p) \in Seq(LINES) /\ Head(h2p).rec \in REC
<1>1. Head(h2p) \in LINES /\ Tail(h2p) \in Seq(LINES)
  BY SeqTake DEF LineInv
<1> QED
  BY <1>1 DEF LINES

LEMMA WireLines ==
  ASSUME NEW r \in REC, NEW f \in {"intact"} \union Faults
  PROVE  OnTheWire(r, f) \in Seq(LINES)
<1>1. CASE f = "lost"
  BY <1>1, SeqEmpty DEF OnTheWire
<1>2. CASE f = "cut"
  <2>1. [rec |-> r, fault |-> "drop"] \in LINES /\ [rec |-> r, fault |-> "short"] \in LINES
    BY DEF LINES
  <2>2. << [rec |-> r, fault |-> "drop"], [rec |-> r, fault |-> "short"] >> \in Seq(LINES)
    BY <2>1
  <2> QED
    BY <1>2, <2>2 DEF OnTheWire
<1>3. CASE f # "lost" /\ f # "cut"
  <2>1. [rec |-> r, fault |-> f] \in LINES
    BY <1>3, HexLoadAssumption DEF LINES
  <2>2. << [rec |-> r, fault |-> f] >> \in Seq(LINES)
    BY <2>1, SeqOne
  <2> QED
    BY <1>3, <2>2 DEF OnTheWire
<1> QED
  BY <1>1, <1>2, <1>3

LEMMA LineSend ==
  ASSUME LineInv, CountInv, SendRecord
  PROVE  LineInv'
<1>1. PICK f \in {"intact"} \union Faults :
        /\ h2p' = h2p \o OnTheWire(records[i], f)
        /\ faults' = IF f = "intact" THEN faults ELSE faults + 1
  BY DEF SendRecord
<1>2. records[i] \in REC
  BY RecordsType DEF CountInv, SendRecord
<1>3. h2p' \in Seq(LINES)
  BY <1>1, <1>2, WireLines, SeqConcat DEF LineInv
<1>4. faults' \in Nat /\ UNCHANGED << pi, x24, w27, mem, p2h >>
  BY <1>1 DEF SendRecord, LineInv, piVars
<1> QED
  BY <1>3, <1>4 DEF LineInv

LEMMA LinePi ==
  ASSUME LineInv, PiStep
  PROVE  LineInv'
<1>1. CASE PiStart
  <2>1. p2h' \in Seq(CHARS)
    <3>1. << LineReady >> \in Seq(CHARS) /\ << BlankLine, LineReady >> \in Seq(CHARS)
      BY CharsAre
    <3> QED
      BY <1>1, <3>1, SeqConcat DEF PiStart, LineInv
  <2>2. w27' \in Byte
    BY <1>1, HexLoadAssumption DEF PiStart, Byte
  <2>3. h2p' \in Seq(LINES)
    BY <1>1, SeqEmpty DEF PiStart
  <2> QED
    BY <1>1, <2>1, <2>2, <2>3 DEF PiStart, LineInv
<1>2. CASE PiAccept
  <2> DEFINE rec == Head(h2p).rec
  <2>1. h2p # << >> /\ rec \in REC /\ h2p' = Tail(h2p) /\ Tail(h2p) \in Seq(LINES)
    BY <1>2, LineHead DEF PiAccept, HasLine
  <2>2. Apply(rec, rec.data) /\ w27' = rec.cksum /\ Reply(rec.len, rec.cksum)
    BY <1>2 DEF PiAccept
  <2> HIDE DEF rec
  <2>3. rec.len \in Int /\ rec.cksum \in Int /\ rec.cksum \in Byte
        /\ (rec.type = Ext => rec.data[1] \in Nat /\ rec.data[2] \in Nat)
    BY <2>1, RecIs
  <2>4. p2h' \in Seq(CHARS) /\ faults' \in Nat
    BY <2>2, <2>3, ReplyLine
  <2>5. x24' \in Nat /\ Cells \subseteq DOMAIN mem' /\ pi' \in {pi, "jump"}
    BY <2>1, <2>2, <2>3, ApplyLine
  <2> QED
    BY <2>1, <2>2, <2>3, <2>4, <2>5 DEF LineInv
<1>3. CASE PiMisread
  <2> DEFINE rec == Head(h2p).rec
             z == [ n \in 1..Len(rec.data) |-> 0 ]
  <2>1. h2p # << >> /\ rec \in REC /\ h2p' = Tail(h2p) /\ Tail(h2p) \in Seq(LINES)
    BY <1>3, LineHead DEF PiMisread, HasLine
  <2>2. Apply(rec, z) /\ w27' = rec.cksum /\ Reply(rec.len - 1, rec.cksum)
    BY <1>3 DEF PiMisread
  <2> HIDE DEF rec
  <2>3. rec.len - 1 \in Int /\ rec.cksum \in Int /\ rec.cksum \in Byte
        /\ (rec.type = Ext => Len(rec.data) = 2)
    BY <2>1, RecIs DEF REC
  <2>4. p2h' \in Seq(CHARS) /\ faults' \in Nat
    BY <2>2, <2>3, ReplyLine
  <2>5. ASSUME rec.type = Ext PROVE z[1] \in Nat /\ z[2] \in Nat
    <3>1. z = [ n \in 1..2 |-> 0 ]
      BY <2>3, <2>5
    <3> QED
      BY <3>1
  <2> HIDE DEF z
  <2>6. x24' \in Nat /\ Cells \subseteq DOMAIN mem' /\ pi' \in {pi, "jump"}
    BY <2>1, <2>2, <2>5, ApplyLine
  <2> QED
    BY <2>1, <2>2, <2>3, <2>4, <2>6 DEF LineInv
<1>4. CASE PiNak
  <2> DEFINE l == Head(h2p)
             n == IF l.fault = "drop" THEN l.rec.len - 1 ELSE l.rec.len
  <2>1. h2p # << >> /\ l.rec \in REC /\ h2p' = Tail(h2p) /\ Tail(h2p) \in Seq(LINES)
    BY <1>4, LineHead DEF PiNak, HasLine
  <2>2. w27' \in Byte
    <3>1. w27' = w27 \/ w27' \in Residuals \/ w27' = l.rec.cksum
      BY <1>4 DEF PiNak
    <3>2. Residuals \subseteq Byte /\ l.rec.cksum \in Byte
      BY <2>1, HexLoadAssumption, RecIs DEF Byte
    <3> QED
      BY <3>1, <3>2 DEF LineInv
  <2>3. Reply(n, 255 - w27')
    BY <1>4 DEF PiNak
  <2>4. n \in Int /\ 255 - w27' \in Int
    BY <2>1, <2>2, RecIs DEF Byte
  <2> HIDE DEF n
  <2>5. p2h' \in Seq(CHARS) /\ faults' \in Nat
    BY <2>3, <2>4, ReplyLine
  <2>6. UNCHANGED << pi, x24, mem >>
    BY <1>4 DEF PiNak
  <2> QED
    BY <2>1, <2>2, <2>5, <2>6 DEF LineInv
<1>5. CASE PiShort
  <2>1. h2p # << >> /\ h2p' = Tail(h2p) /\ Tail(h2p) \in Seq(LINES)
    BY <1>5, LineHead DEF PiShort, HasLine
  <2>2. 10 \in Int /\ w27 \in Int /\ Reply(10, w27)
    BY <1>5 DEF PiShort, LineInv, Byte
  <2>3. p2h' \in Seq(CHARS) /\ faults' \in Nat
    BY <2>2, ReplyLine
  <2> QED
    BY <1>5, <2>1, <2>3 DEF PiShort, LineInv
<1>6. CASE PiJump
  <2>1. p2h' \in Seq(CHARS)
    BY <1>6, CharsAre, SeqAppend DEF PiJump, LineInv
  <2> QED
    BY <1>6, <2>1 DEF PiJump, LineInv
<1>7. CASE PiGlitch
  <2>1. h2p' \in Seq(LINES)
    BY <1>7, SeqEmpty DEF PiGlitch
  <2> QED
    BY <1>7, <2>1 DEF PiGlitch, LineInv
<1> QED
  BY <1>1, <1>2, <1>3, <1>4, <1>5, <1>6, <1>7 DEF PiStep

\* A garbled line that is taken changes no more than a record may.
LEMMA SlipIs ==
  ASSUME LineInv, PiSlip
  PROVE  /\ pi = "loop" /\ h2p # << >> /\ Head(h2p).rec \in REC /\ h2p' = Tail(h2p)
         /\ w27' \in Byte /\ x24' \in Nat /\ Cells \subseteq DOMAIN mem' /\ pi' \in {pi, "jump"}
         /\ Reply(Head(h2p).rec.len, w27') /\ slipped' = TRUE
<1> DEFINE rec == Head(h2p).rec
<1>1. pi = "loop" /\ h2p # << >> /\ rec \in REC /\ h2p' = Tail(h2p) /\ slipped' = TRUE
  BY LineHead DEF PiSlip, HasLine
<1>2. \/ /\ (\E k \in Pages : PutData([ rec EXCEPT !.addr = @ + k * Seg ], rec.data)) \/ UNCHANGED mem
         /\ w27' = rec.cksum /\ Reply(rec.len, w27') /\ UNCHANGED << x24, pi >>
      \/ /\ \E n \in Counts : Apply(rec, ReadAs(rec, n))
         /\ w27' \in Residuals \union {rec.cksum} /\ Reply(rec.len, w27')
  BY DEF PiSlip
<1>3. rec.cksum \in Byte /\ rec.data \in Seq(Byte) /\ Residuals \subseteq Byte
  BY <1>1, RecIs, HexLoadAssumption DEF Byte
<1> HIDE DEF rec
<1>4. CASE /\ (\E k \in Pages : PutData([ rec EXCEPT !.addr = @ + k * Seg ], rec.data)) \/ UNCHANGED mem
           /\ w27' = rec.cksum /\ Reply(rec.len, w27') /\ UNCHANGED << x24, pi >>
  <2>1. ASSUME NEW k \in Pages, PutData([ rec EXCEPT !.addr = @ + k * Seg ], rec.data)
        PROVE  Cells \subseteq DOMAIN mem'
    BY <2>1 DEF PutData, LineInv
  <2>2. Cells \subseteq DOMAIN mem'
    BY <1>4, <2>1 DEF LineInv
  <2>3. x24' \in Nat /\ pi' = pi /\ w27' \in Byte
    BY <1>3, <1>4 DEF LineInv
  <2> QED
    BY <1>1, <1>4, <2>2, <2>3 DEF rec
<1>5. CASE /\ \E n \in Counts : Apply(rec, ReadAs(rec, n))
           /\ w27' \in Residuals \union {rec.cksum} /\ Reply(rec.len, w27')
  <2>1. PICK n \in Counts : Apply(rec, ReadAs(rec, n))
    BY <1>5
  <2>2. n \in Nat
    BY HexLoadAssumption DEF Byte
  <2>3. ASSUME rec.type = Ext PROVE ReadAs(rec, n)[1] \in Nat /\ ReadAs(rec, n)[2] \in Nat
    <3> DEFINE d == rec.data
               top == IF rec.type = Ext /\ n < 2 THEN 2 ELSE n
    <3>1. \A m \in 1..top : m <= n /\ m <= Len(d) => d[m] \in Nat
      <4>1. \A m \in 1..Len(d) : d[m] \in Byte
        BY <1>3
      <4>2. Len(d) \in Nat /\ Byte \subseteq Nat
        BY <1>3 DEF Byte
      <4> HIDE DEF top, d
      <4> SUFFICES ASSUME NEW m \in 1..top, m <= n, m <= Len(d) PROVE d[m] \in Nat
        OBVIOUS
      <4>3. m \in Int /\ 1 <= m
        BY <2>2 DEF top
      <4>4. m \in 1..Len(d)
        BY <4>2, <4>3
      <4> QED
        BY <4>1, <4>2, <4>4
    <3>2. 1 \in 1..top /\ 2 \in 1..top
      BY <2>2, <2>3
    <3>3. ReadAs(rec, n) = [ m \in 1..top |-> IF m <= n /\ m <= Len(d) THEN d[m] ELSE 0 ]
      BY DEF ReadAs
    <3> HIDE DEF top, d
    <3>4. \A m \in 1..top : ReadAs(rec, n)[m] \in Nat
      BY <3>1, <3>3
    <3> QED
      BY <3>2, <3>4
  <2>4. x24' \in Nat /\ Cells \subseteq DOMAIN mem' /\ pi' \in {pi, "jump"}
    BY <1>1, <2>1, <2>3, ApplyLine DEF rec
  <2>5. w27' \in Byte
    BY <1>3, <1>5
  <2> QED
    BY <1>1, <1>5, <2>4, <2>5 DEF rec
<1> QED
  BY <1>2, <1>4, <1>5

LEMMA LineSlip ==
  ASSUME LineInv, PiSlip
  PROVE  LineInv'
<1>1. Head(h2p).rec \in REC /\ Tail(h2p) \in Seq(LINES) /\ Reply(Head(h2p).rec.len, w27') /\ w27' \in Byte
  BY SlipIs, LineHead
<1>2. Head(h2p).rec.len \in Int /\ w27' \in Int
  BY <1>1, RecIs DEF Byte
<1>3. p2h' \in Seq(CHARS) /\ faults' \in Nat
  BY <1>1, <1>2, ReplyLine
<1> QED
  BY <1>1, <1>3, SlipIs DEF LineInv

LEMMA LineStep == LineInv /\ CountInv /\ [Next]_vars => LineInv'
<1> SUFFICES ASSUME LineInv, CountInv, [Next]_vars PROVE LineInv'
  OBVIOUS
<1>0. << >> \in Seq(LINES) /\ << >> \in Seq(CHARS) /\ (p2h # << >> => Tail(p2h) \in Seq(CHARS))
  BY SeqEmpty, SeqTake DEF LineInv
<1> USE DEF LineInv
<1>1. CASE Start
  BY <1>1 DEF Start, piVars
<1>2. CASE KillStaleCheck
  BY <1>2 DEF KillStaleCheck, piVars
<1>3. CASE KillStaleKill
  BY <1>3 DEF KillStaleKill, piVars
<1>4. CASE ProcChange
  BY <1>4 DEF ProcChange, piVars
<1>5. CASE OpenSerial
  BY <1>5 DEF OpenSerial, piVars
<1>6. CASE DtrReset
  BY <1>0, <1>6 DEF DtrReset
<1>7. CASE WaitReady
  BY <1>0, <1>7 DEF WaitReady, ReadLine, piVars
<1>8. CASE FlushForRecords
  BY <1>0, <1>8 DEF FlushForRecords, piVars
<1>9. CASE SendRecord
  BY <1>9, LineSend
<1>10. CASE ReadAck
  BY <1>0, <1>10 DEF ReadAck, piVars
<1>11. CASE AckTimeout
  BY <1>11 DEF AckTimeout, piVars
<1>12. CASE WaitBoot
  BY <1>0, <1>12 DEF WaitBoot, ReadLine, piVars
<1>13. CASE Abort
  BY <1>13 DEF Abort, piVars
<1>14. CASE ConsoleEnds
  BY <1>14 DEF ConsoleEnds, piVars
<1>15. CASE StealByte
  BY <1>0, <1>15 DEF StealByte, piVars
<1>16. CASE PiStep
  BY <1>16, LinePi
<1>17. CASE UNCHANGED vars
  BY <1>17 DEF vars, piVars
<1>18. CASE PiSlip
  BY <1>18, LineSlip
<1> QED
  BY <1>1, <1>2, <1>3, <1>4, <1>5, <1>6, <1>7, <1>8, <1>9, <1>10, <1>11, <1>12, <1>13, <1>14,
     <1>15, <1>16, <1>17, <1>18 DEF Next, HostStep, PiStep

\* Only a garbled line that is taken sets slipped, only the reset clears it.
SlipInv == slipped \in BOOLEAN

LEMMA SlipStep ==
  ASSUME [Next]_vars
  PROVE  /\ PiSlip => slipped' = TRUE
         /\ DtrReset => slipped' = FALSE
         /\ ~PiSlip /\ ~DtrReset => slipped' = slipped
<1>1. PiSlip => slipped' = TRUE
  BY DEF PiSlip
<1>2. DtrReset => slipped' = FALSE
  BY DEF DtrReset
<1>3. CASE PiStep \/ StealByte
  BY <1>1, <1>2, <1>3 DEF PiStep, PiStart, PiAccept, PiMisread, PiNak, PiShort, PiJump, PiGlitch, StealByte
<1>4. CASE KillStaleCheck \/ KillStaleKill \/ OpenSerial \/ Start \/ ProcChange
  BY <1>1, <1>2, <1>4 DEF KillStaleCheck, KillStaleKill, OpenSerial, Start, ProcChange
<1>5. CASE WaitReady \/ WaitBoot
  BY <1>1, <1>2, <1>5 DEF WaitReady, WaitBoot, ReadLine
<1>6. CASE FlushForRecords \/ SendRecord \/ ReadAck \/ AckTimeout \/ Abort \/ ConsoleEnds
  BY <1>1, <1>2, <1>6 DEF FlushForRecords, SendRecord, ReadAck, AckTimeout, Abort, ConsoleEnds
<1>7. CASE UNCHANGED vars
  BY <1>1, <1>2, <1>7 DEF vars
<1> QED
  BY <1>1, <1>2, <1>3, <1>4, <1>5, <1>6, <1>7 DEF Next, HostStep, PiStep

LEMMA SlipKept == SlipInv /\ [Next]_vars => SlipInv'
  BY SlipStep DEF SlipInv

LEMMA PortParts == SweepInv /\ CountInv /\ LineInv /\ SlipInv => PortInv
<1> SUFFICES ASSUME SweepInv, CountInv, LineInv, SlipInv PROVE PortInv
  OBVIOUS
<1>1. AncestorsSpared
  <2> SUFFICES ASSUME NEW p \in killed
               PROVE  \E S \in SUBSET Procs : /\ Self \in S /\ p \notin S
                                              /\ \A q \in S : Parent[q] \in S \union {0}
    BY DEF AncestorsSpared
  <2>1. Ancestors \in SUBSET Procs /\ p \notin Ancestors
    BY AncestorsAre DEF SweepInv
  <2> QED
    BY <2>1, AncestorsAre
<1>2. i \in 1..(Len(records) + 1)
  <2>1. Len(Records) \in Nat \ {0} /\ Len(<< >>) = 0
    BY RecordsType
  <2>2. CASE phase = "idle"
    BY <2>1, <2>2 DEF CountInv
  <2>3. CASE phase # "idle"
    BY <2>1, <2>3 DEF CountInv
  <2> QED
    BY <2>2, <2>3
<1>3. todo \subseteq Procs /\ killed \subseteq Procs /\ (target = << >> \/ target \in Procs \X {1, 2})
  BY DEF SweepInv
<1>4. tries \in 0..MaxTries
  BY HexLoadAssumption DEF CountInv
<1>5. TypeOK
  BY <1>2, <1>3, <1>4 DEF TypeOK, SweepInv, CountInv, LineInv, SlipInv
<1> QED
  BY <1>1, <1>5 DEF PortInv, SweepInv

(***************************************************************************)
(* Whatever processes come and go, however long the chain of parents and   *)
(* whatever the payloads: the sweep of hw_send.py spares the flasher's own *)
(* ancestors, no other flasher of the same user is left when the port is   *)
(* opened, and the host's counters stay in their ranges while it flashes.  *)
(***************************************************************************)
THEOREM PortKept == Spec => []PortInv
<1>1. Init => SweepInv /\ CountInv /\ LineInv /\ SlipInv
  BY SweepInit, CountInit, LineInit DEF Init, SlipInv
<1>2. SweepInv /\ CountInv /\ LineInv /\ SlipInv /\ [Next]_vars
        => (SweepInv /\ CountInv /\ LineInv /\ SlipInv)'
  BY SweepStep, CountStep, LineStep, SlipKept
<1> QED
  BY <1>1, <1>2, PortParts, PTL DEF Spec

-----------------------------------------------------------------------------
(* Where the records put their bytes. *)

\* The chainloader's base address after record r, and the cells it fills.
ExtBase(r)  == (r.data[1] * 256 + r.data[2]) * Seg
After(r, b) == IF r.type = Ext THEN ExtBase(r) ELSE b
Pairs(r, b) ==
  IF r.type = Data THEN { << b + r.addr + n - 1, r.data[n] >> : n \in 1..Len(r.data) } ELSE {}

\* B[k] is the base address after k of the records, b after all of them, and
\* S the cells with their bytes that they fill.
Laid(r, B, b, S) ==
  /\ B \in [0..Len(r) -> Nat] /\ B[0] = 0 /\ B[Len(r)] = b
  /\ \A k \in 1..Len(r) : B[k] = After(r[k], B[k - 1])
  /\ \A k \in 1..Len(r) : Pairs(r[k], B[k]) \subseteq S
  /\ \A x \in S : \E k \in 1..Len(r) : x \in Pairs(r[k], B[k])

Lays(r, b, S) == \E B : Laid(r, B, b, S)

LEMMA LaysNone == Lays(<< >>, 0, {})
<1> DEFINE B == [k \in 0..0 |-> 0]
<1>1. Laid(<< >>, B, 0, {})
  BY DEF Laid
<1> QED
  BY <1>1 DEF Lays

LEMMA LaysAppend ==
  ASSUME NEW r \in Seq(REC), NEW rec \in REC, NEW b, NEW S, Lays(r, b, S)
  PROVE  Lays(Append(r, rec), After(rec, b), S \union Pairs(rec, After(rec, b)))
<1>1. PICK B : Laid(r, B, b, S)
  BY DEF Lays
<1> DEFINE m == Len(r)
           c == After(rec, b)
           C == [k \in 0..(m + 1) |-> IF k = m + 1 THEN c ELSE B[k]]
           q == Append(r, rec)
           T == S \union Pairs(rec, c)
<1>2. /\ m \in Nat /\ Len(q) = m + 1 /\ q[m + 1] = rec
      /\ \A k \in 1..m : q[k] = r[k]
  OBVIOUS
<1>3. /\ B \in [0..m -> Nat] /\ B[0] = 0 /\ B[m] = b
      /\ \A k \in 1..m : B[k] = After(r[k], B[k - 1])
      /\ \A k \in 1..m : Pairs(r[k], B[k]) \subseteq S
      /\ \A x \in S : \E k \in 1..m : x \in Pairs(r[k], B[k])
  BY <1>1 DEF Laid
<1>4. c \in Nat
  <2>1. b \in Nat
    BY <1>2, <1>3
  <2> QED
    <3>1. rec.type = Ext => rec.data[1] \in Nat /\ rec.data[2] \in Nat
      BY RecIs
    <3>3. rec.type = Ext => ExtBase(rec) \in Nat
      <4> DEFINE x == rec.data[1]
                 y == rec.data[2]
      <4>1. rec.type = Ext => x \in Nat /\ y \in Nat
        BY <3>1
      <4> HIDE DEF x, y
      <4>2. rec.type = Ext => (x * 256 + y) * Seg \in Nat
        BY <4>1 DEF Seg
      <4> QED
        BY <4>2 DEF ExtBase, x, y
    <3>4. After(rec, b) \in Nat
      BY <2>1, <3>3 DEF After
    <3> QED
      BY <3>4
<1> HIDE DEF m, c, q
<1>5. /\ C \in [0..(m + 1) -> Nat] /\ C[0] = 0 /\ C[m + 1] = c
      /\ \A k \in 0..m : C[k] = B[k]
  BY <1>2, <1>3, <1>4
<1> HIDE DEF C
<1>6. ASSUME NEW k \in 1..(m + 1) PROVE C[k] = After(q[k], C[k - 1])
  <2>1. CASE k = m + 1
    <3>1. C[k] = c /\ C[k - 1] = b /\ q[k] = rec
      BY <1>2, <1>3, <1>5, <2>1
    <3> QED
      BY <3>1 DEF c
  <2>2. CASE k # m + 1
    <3>1. k \in 1..m /\ k \in 0..m /\ k - 1 \in 0..m
      BY <1>2, <2>2
    <3> QED
      BY <1>2, <1>3, <1>5, <3>1
  <2> QED
    BY <2>1, <2>2
<1>7. ASSUME NEW k \in 1..(m + 1) PROVE Pairs(q[k], C[k]) \subseteq T
  <2>1. CASE k = m + 1
    BY <1>2, <1>5, <2>1
  <2>2. CASE k # m + 1
    <3>1. k \in 1..m /\ k \in 0..m
      BY <1>2, <2>2
    <3> QED
      BY <1>2, <1>3, <1>5, <3>1
  <2> QED
    BY <2>1, <2>2
<1>8. ASSUME NEW x \in T PROVE \E k \in 1..(m + 1) : x \in Pairs(q[k], C[k])
  <2>1. CASE x \in S
    <3>1. PICK k \in 1..m : x \in Pairs(r[k], B[k])
      BY <1>3, <2>1
    <3>2. k \in 1..(m + 1) /\ q[k] = r[k] /\ C[k] = B[k]
      BY <1>2, <1>5
    <3> QED
      BY <3>1, <3>2
  <2>2. CASE x \in Pairs(rec, c)
    <3>1. m + 1 \in 1..(m + 1) /\ q[m + 1] = rec /\ C[m + 1] = c
      BY <1>2, <1>5
    <3> QED
      BY <2>2, <3>1
  <2> QED
    BY <2>1, <2>2
<1> HIDE DEF T
<1>9. Laid(q, C, c, T)
  BY <1>2, <1>5, <1>6, <1>7, <1>8 DEF Laid
<1>10. Lays(q, c, T)
  BY <1>9 DEF Lays
<1> QED
  BY <1>10 DEF q, c, T

\* The first m bytes of a payload.
Image(bytes, base, m) == { << base + n - 1, bytes[n] >> : n \in 1..m }

LEMMA SizeIs ==
  ASSUME ChunkSize \in Sizes
  PROVE  /\ \A n \in Nat : n % ChunkSize = 0 => (n % Seg) % ChunkSize = 0
         /\ \A n \in Nat : n < Seg /\ n % ChunkSize = 0 =>
              n + ChunkSize <= Seg /\ (n + ChunkSize) % ChunkSize = 0
<1> USE DEF Seg
<1>1. CASE ChunkSize = 1
  BY <1>1
<1>2. CASE ChunkSize = 2
  BY <1>2
<1>3. CASE ChunkSize = 4
  BY <1>3
<1>4. CASE ChunkSize = 8
  BY <1>4
<1>5. CASE ChunkSize = 16
  BY <1>5
<1>6. CASE ChunkSize = 32
  BY <1>6
<1> QED
  BY <1>1, <1>2, <1>3, <1>4, <1>5, <1>6 DEF Sizes

\* What holds between two turns: the bytes before pos are placed, and the
\* next one goes where it belongs.
Placing(R, S, kernel, base, s) ==
  /\ s.upper * Seg + s.offset = base + s.pos
  /\ s.offset <= Seg
  /\ s.pos # Len(kernel) => s.offset % ChunkSize = 0
  /\ Lays(R \o s.records, s.upper * Seg, S \union Image(kernel, base, s.pos))

LEMMA LaysExt ==
  ASSUME NEW r \in Seq(REC), NEW b, NEW S, Lays(r, b, S), NEW u \in Nat, u < Seg
  PROVE  Lays(Append(r, ExtRecord(u)), u * Seg, S)
<1> DEFINE e == ExtRecord(u)
<1>1. e \in REC /\ e.type = Ext /\ ExtBase(e) = u * Seg
  BY ExtIs DEF BODY, ExtBase
<1> HIDE DEF e
<1>2. After(e, b) = u * Seg /\ Pairs(e, u * Seg) = {}
  BY <1>1 DEF After, Pairs, Ext, Data
<1>3. Lays(Append(r, e), After(e, b), S \union Pairs(e, After(e, b)))
  BY <1>1, LaysAppend
<1>4. S \union {} = S
  OBVIOUS
<1> QED
  BY <1>2, <1>3, <1>4 DEF e

LEMMA PlacingStart ==
  ASSUME NEW R \in Seq(REC), NEW S, NEW b, Lays(R, b, S), ChunkSize \in Sizes,
         NEW kernel \in Seq(Byte), NEW base \in Nat, base % ChunkSize = 0,
         base + Len(kernel) < Seg * Seg
  PROVE  Placing(R, S, kernel, base, LoopStart(base))
<1> DEFINE u == base \div Seg
           s == LoopStart(base)
<1>1. u \in Nat /\ u < Seg /\ u % Seg = u /\ u * Seg + (base % Seg) = base /\ base % Seg <= Seg
  <2>1. Len(kernel) \in Nat
    OBVIOUS
  <2>2. base < 65536 * 65536
    BY <2>1 DEF Seg
  <2>3. base \div 65536 < 65536 /\ base \div 65536 \in Nat
    BY <2>2
  <2>4. ASSUME NEW n \in Nat, n < 65536 PROVE n % 65536 = n
    BY <2>4
  <2> QED
    BY <2>2, <2>3, <2>4 DEF Seg
<1>2. s.pos = 0 /\ s.upper = u /\ s.offset = base % Seg /\ s.records = << ExtRecord(u) >>
  BY <1>1, StartIs
<1> HIDE DEF u, s
<1>3. (base % Seg) % ChunkSize = 0
  BY SizeIs
<1>4. R \o << ExtRecord(u) >> = Append(R, ExtRecord(u))
  <2>1. ExtRecord(u) \in REC
    BY <1>1, ExtIs DEF BODY
  <2> QED
    BY <2>1, SeqJoin, SeqEmpty
<1>5. Lays(Append(R, ExtRecord(u)), u * Seg, S)
  BY <1>1, LaysExt
<1>6. S \union Image(kernel, base, 0) = S
  BY DEF Image
<1>7. Lays(R \o s.records, s.upper * Seg, S \union Image(kernel, base, s.pos))
  BY <1>2, <1>4, <1>5, <1>6
<1>8. s.upper * Seg + s.offset = base + s.pos
  BY <1>1, <1>2
<1> QED
  BY <1>1, <1>2, <1>3, <1>7, <1>8 DEF Placing, s

\* The bytes d from position p on.
Slice(base, p, d) == { << base + p + n - 1, d[n] >> : n \in 1..Len(d) }

LEMMA ImageGrows ==
  ASSUME NEW kernel \in Seq(Byte), NEW base \in Nat, NEW p \in Nat, NEW e \in (p + 1)..Len(kernel)
  PROVE  Image(kernel, base, e) =
           Image(kernel, base, p) \union Slice(base, p, SubSeq(kernel, p + 1, e))
<1> DEFINE d == SubSeq(kernel, p + 1, e)
           D == { << base + p + n - 1, d[n] >> : n \in 1..Len(d) }
<1>0. Len(kernel) \in Nat /\ e \in Nat /\ e <= Len(kernel) /\ p < e
  OBVIOUS
<1>1. Len(d) = e - p /\ \A n \in 1..(e - p) : d[n] = kernel[p + n]
  BY <1>0
<1> HIDE DEF d
<1>2. ASSUME NEW x \in Image(kernel, base, e) PROVE x \in Image(kernel, base, p) \union D
  <2>1. PICK n \in 1..e : x = << base + n - 1, kernel[n] >>
    BY DEF Image
  <2>2. CASE n <= p
    <3>1. n \in 1..p
      BY <1>0, <2>2
    <3> QED
      BY <2>1, <3>1 DEF Image
  <2>3. CASE ~(n <= p)
    <3>1. n - p \in 1..(e - p) /\ p + (n - p) = n /\ base + p + (n - p) - 1 = base + n - 1
      BY <1>0, <2>3
    <3>2. d[n - p] = kernel[n]
      BY <1>1, <3>1
    <3> QED
      BY <1>1, <2>1, <3>1, <3>2
  <2> QED
    BY <2>2, <2>3
<1>3. ASSUME NEW x \in Image(kernel, base, p) PROVE x \in Image(kernel, base, e)
  <2>1. PICK n \in 1..p : x = << base + n - 1, kernel[n] >>
    BY <1>3 DEF Image
  <2>2. n \in 1..e
    BY <1>0
  <2> QED
    BY <2>1, <2>2 DEF Image
<1>4. ASSUME NEW x \in D PROVE x \in Image(kernel, base, e)
  <2>1. PICK n \in 1..(e - p) : x = << base + p + n - 1, d[n] >>
    BY <1>1, <1>4
  <2>2. p + n \in 1..e /\ base + (p + n) - 1 = base + p + n - 1 /\ d[n] = kernel[p + n]
    BY <1>0, <1>1
  <2> QED
    BY <2>1, <2>2 DEF Image
<1> HIDE DEF D
<1>5. Image(kernel, base, e) = Image(kernel, base, p) \union D
  BY <1>2, <1>3, <1>4
<1> QED
  BY <1>5 DEF D, d, Slice

LEMMA PlacingTurn ==
  ASSUME NEW R \in Seq(REC), NEW S, ChunkSize \in Sizes,
         NEW kernel \in Seq(Byte), NEW base \in Nat, base + Len(kernel) < Seg * Seg,
         NEW s \in LOOP(kernel), s.pos # Len(kernel), Placing(R, S, kernel, base, s)
  PROVE  Placing(R, S, kernel, base, LoopTurn(s, kernel, ChunkSize))
<1> DEFINE e == TurnEnd(s, kernel)
           u == TurnUpper(s)
           off == TurnOff(s)
           f == TurnFirst(s)
           d == TurnData(s, kernel)
           T == S \union Image(kernel, base, s.pos)
           sub == SubSeq(kernel, s.pos + 1, e)
<1>1. /\ s.pos \in Nat /\ s.pos < Len(kernel) /\ Len(kernel) \in Nat
      /\ s.upper \in Nat /\ s.offset \in Nat /\ s.records \in Seq(BODY) /\ ChunkSize \in 1..33
  BY HexLoadAssumption DEF LOOP
<1>2. /\ s.upper * Seg + s.offset = base + s.pos /\ s.offset <= Seg
      /\ s.offset % ChunkSize = 0
      /\ Lays(R \o s.records, s.upper * Seg, T)
  BY DEF Placing
<1>3. /\ e \in (s.pos + 1)..Len(kernel) /\ u \in Nat /\ off \in Nat /\ f \in Seq(BODY) /\ d \in BODY
      /\ d.type = Data /\ d.addr = off % Seg /\ d.data = sub
      /\ LoopTurn(s, kernel, ChunkSize) =
              [ pos |-> e, upper |-> u, offset |-> off + (e - s.pos), records |-> Append(f, d) ]
  BY TurnIs
<1>4. u * Seg + off = base + s.pos /\ off < Seg /\ off % ChunkSize = 0 /\ u < Seg
  <2>1. CASE s.offset >= Seg
    <3>1. u = s.upper + 1 /\ off = 0 /\ s.offset = Seg
      BY <1>1, <1>2, <2>1 DEF TurnUpper, TurnOff, Seg
    <3>2. u * Seg + off = base + s.pos
      BY <1>1, <1>2, <3>1 DEF Seg
    <3>3. u < Seg
      <4>1. base + s.pos < 65536 * 65536 /\ u * 65536 = base + s.pos /\ u \in Nat
        <5>1. base + s.pos < Seg * Seg
          <6>1. \A x, y, z \in Nat : x < y /\ base + y < z => base + x < z
            OBVIOUS
          <6>2. Seg * Seg \in Nat
            BY DEF Seg
          <6> QED
            BY <1>1, <6>1, <6>2
        <5>2. u * Seg = base + s.pos
          <6>1. u * Seg \in Nat
            BY <1>3 DEF Seg
          <6> QED
            BY <3>1, <3>2, <6>1
        <5> QED
          BY <1>3, <5>1, <5>2 DEF Seg
      <4> QED
        BY <4>1 DEF Seg
    <3> QED
      BY <1>1, <3>1, <3>2, <3>3 DEF Seg
  <2>2. CASE ~(s.offset >= Seg)
    <3>1. u = s.upper /\ off = s.offset
      BY <2>2 DEF TurnUpper, TurnOff
    <3>2. off < Seg
      BY <1>1, <2>2, <3>1 DEF Seg
    <3>3. u < Seg
      BY <1>1, <1>2, <3>1 DEF Seg
    <3> QED
      BY <1>2, <3>1, <3>2, <3>3
  <2> QED
    BY <2>1, <2>2
<1>0. BODY \subseteq REC /\ s.records \in Seq(REC) /\ f \in Seq(REC) /\ d \in REC
  <2>1. BODY \subseteq REC
    BY DEF BODY
  <2> QED
    BY <1>1, <1>3, <2>1, SeqMono
<1>5. Lays(R \o f, u * Seg, T)
  <2>1. CASE s.offset >= Seg
    <3>1. f = Append(s.records, ExtRecord(u))
      BY <2>1 DEF TurnFirst
    <3>2. ExtRecord(u) \in REC
      BY <1>3, ExtIs DEF BODY
    <3>3. R \o s.records \in Seq(REC) /\ R \o f = Append(R \o s.records, ExtRecord(u))
      BY <1>0, <3>1, <3>2, SeqJoin
    <3> HIDE DEF T, f, u
    <3> QED
      BY <1>2, <1>3, <1>4, <3>3, LaysExt
  <2>2. CASE ~(s.offset >= Seg)
    BY <1>2, <2>2 DEF TurnFirst, TurnUpper
  <2> QED
    BY <2>1, <2>2
<1> HIDE DEF e, u, off, f, d, T, sub
<1>6. R \o f \in Seq(REC) /\ R \o Append(f, d) = Append(R \o f, d)
  BY <1>0, SeqJoin
<1>7. After(d, u * Seg) = u * Seg
  BY <1>3 DEF After, Data, Ext
<1>8. Pairs(d, u * Seg) = Slice(base, s.pos, sub)
  <2>1. d.addr = off
    <3>1. ASSUME NEW n \in Nat, n < 65536 PROVE n % 65536 = n
      BY <3>1
    <3> QED
      BY <1>3, <1>4, <3>1 DEF Seg
  <2>2. Pairs(d, u * Seg) = { << u * Seg + off + n - 1, sub[n] >> : n \in 1..Len(sub) }
    BY <1>3, <2>1 DEF Pairs
  <2> QED
    BY <1>4, <2>2 DEF Slice
<1>9. T \union Pairs(d, u * Seg) = S \union Image(kernel, base, e)
  <2>0. s.pos \in Nat /\ e \in (s.pos + 1)..Len(kernel)
    BY <1>1, <1>3
  <2>1. Image(kernel, base, e) =
           Image(kernel, base, s.pos) \union Slice(base, s.pos, sub)
    <3> DEFINE p == s.pos
    <3>1. p \in Nat /\ e \in (p + 1)..Len(kernel)
      BY <2>0
    <3> HIDE DEF p
    <3>2. Image(kernel, base, e) =
             Image(kernel, base, p) \union Slice(base, p, SubSeq(kernel, p + 1, e))
      <4>1. \A k \in Seq(Byte), n \in Nat, q \in Nat : \A z \in (q + 1)..Len(k) :
              Image(k, n, z) = Image(k, n, q) \union Slice(n, q, SubSeq(k, q + 1, z))
        BY ImageGrows, Zenon
      <4> QED
        BY <3>1, <4>1
    <3> QED
      BY <3>2, Zenon DEF p, sub
  <2>2. Image(kernel, base, e) = Image(kernel, base, s.pos) \union Pairs(d, u * Seg)
    BY <1>8, <2>1, Zenon
  <2> QED
    BY <2>2 DEF T
<1>10. Lays(R \o Append(f, d), u * Seg, S \union Image(kernel, base, e))
  <2>1. Lays(Append(R \o f, d), After(d, u * Seg), T \union Pairs(d, After(d, u * Seg)))
    BY <1>0, <1>5, <1>6, LaysAppend
  <2> QED
    BY <1>6, <1>7, <1>9, <2>1
<1>11. off + (e - s.pos) <= Seg /\ (e # Len(kernel) => (off + (e - s.pos)) % ChunkSize = 0)
  <2>1. off + ChunkSize <= Seg /\ (off + ChunkSize) % ChunkSize = 0
    BY <1>3, <1>4, SizeIs
  <2>2. e - s.pos <= ChunkSize /\ (e # Len(kernel) => e - s.pos = ChunkSize) /\ e \in Nat
    <3>1. ASSUME NEW a \in Nat, NEW c \in Nat, NEW n \in Nat, a < n
          PROVE  LET x == IF a + c < n THEN a + c ELSE n
                 IN  x - a <= c /\ (x # n => x - a = c) /\ x \in Nat
      BY <3>1
    <3>2. ChunkSize \in Nat
      BY <1>1
    <3> QED
      BY <1>1, <3>1, <3>2, Zenon DEF e, TurnEnd
  <2>3. off \in Nat /\ s.pos \in Nat /\ ChunkSize \in Nat /\ e - s.pos \in Int
    <3>1. \A x, y \in Nat : x - y \in Int
      OBVIOUS
    <3>2. ChunkSize \in Nat
      BY <1>1
    <3> QED
      BY <1>1, <1>3, <2>2, <3>1, <3>2, Zenon
  <2> QED
    <3>1. ASSUME NEW o \in Nat, NEW c \in Nat, NEW x \in Int, x <= c, o + c <= Seg
          PROVE  o + x <= Seg
      BY <3>1 DEF Seg
    <3>2. off + (e - s.pos) <= Seg
      BY <2>1, <2>2, <2>3, <3>1, Zenon
    <3> QED
      BY <2>1, <2>2, <3>2, Zenon
<1>12. u * Seg + (off + (e - s.pos)) = base + e
  <2>1. u * Seg \in Nat /\ e \in Nat /\ s.pos \in Nat /\ off \in Nat
    <3>1. \A n \in Nat : n * Seg \in Nat
      BY DEF Seg
    <3>2. \A x, y \in Nat : \A n \in (x + 1)..y : n \in Nat
      OBVIOUS
    <3> QED
      BY <1>1, <1>3, <3>1, <3>2, Zenon
  <2> DEFINE a == u * Seg
  <2>3. a \in Nat /\ a + off = base + s.pos
    BY <1>4, <2>1
  <2> HIDE DEF a
  <2>4. a + (off + (e - s.pos)) = base + e
    <3>1. \A n, p, k \in Nat : a + n = base + p => a + (n + (k - p)) = base + k
      BY <2>3
    <3> QED
      BY <2>1, <2>3, <3>1
  <2> QED
    BY <2>4 DEF a
<1> DEFINE t == LoopTurn(s, kernel, ChunkSize)
<1>13. t.pos = e /\ t.upper = u /\ t.offset = off + (e - s.pos) /\ t.records = Append(f, d)
  BY <1>3
<1> HIDE DEF t
<1>14. Placing(R, S, kernel, base, t)
  BY <1>10, <1>11, <1>12, <1>13 DEF Placing
<1> QED
  BY <1>14 DEF t

\* One turn moves on, so that Len(kernel) of them place all of it.
LEMMA PlacingAll ==
  ASSUME NEW R \in Seq(REC), NEW S, NEW b, Lays(R, b, S), ChunkSize \in Sizes,
         NEW kernel \in Seq(Byte), NEW base \in Nat, base % ChunkSize = 0,
         base + Len(kernel) < Seg * Seg
  PROVE  \E c : Lays(R \o LoopEnd(kernel, base, ChunkSize).records, c, S \union Image(kernel, base, Len(kernel)))
<1> DEFINE m == Len(kernel)
<1>1. PICK t : Turns(t, kernel, base) /\ LoopEnd(kernel, base, ChunkSize) = t[m]
  BY LoopIs
<1>2. m \in Nat /\ \A n \in 0..m : t[n] \in LOOP(kernel)
  BY <1>1, LoopType
<1>3. t[0] = LoopStart(base) /\ \A n \in 1..m : t[n] = TurnFrom(t[n - 1], kernel)
  BY <1>1 DEF Turns
<1> DEFINE P == {n \in 0..m : Placing(R, S, kernel, base, t[n]) /\ t[n].pos >= n}
<1>4. 0 \in P
  <2>1. Placing(R, S, kernel, base, t[0])
    BY <1>3, PlacingStart
  <2>2. t[0].pos = 0
    BY <1>3, StartIs
  <2> QED
    BY <1>2, <2>1, <2>2
<1>5. ASSUME NEW n \in 1..m, n - 1 \in P PROVE n \in P
  <2> DEFINE s == t[n - 1]
  <2>1. /\ s \in LOOP(kernel) /\ Placing(R, S, kernel, base, s) /\ s.pos >= n - 1
        /\ t[n] = TurnFrom(s, kernel) /\ n \in 0..m
    BY <1>2, <1>3, <1>5
  <2>2. s.pos \in 0..m
    BY <2>1 DEF LOOP
  <2> HIDE DEF s
  <2>3. CASE s.pos = m
    BY <1>2, <2>1, <2>3 DEF TurnFrom
  <2>4. CASE s.pos # m
    <3>1. t[n] = LoopTurn(s, kernel, ChunkSize)
      BY <2>1, <2>4 DEF TurnFrom
    <3>2. Placing(R, S, kernel, base, t[n])
      BY <2>1, <2>4, <3>1, PlacingTurn
    <3>3. t[n].pos = TurnEnd(s, kernel) /\ TurnEnd(s, kernel) \in (s.pos + 1)..m
      BY <2>1, <2>4, <3>1, TurnIs
    <3> QED
      BY <1>2, <2>1, <2>2, <3>2, <3>3
  <2> QED
    BY <2>3, <2>4
<1> HIDE DEF P
<1>6. 0..m \subseteq P
  BY <1>2, <1>4, <1>5, UpTo
<1>7. Placing(R, S, kernel, base, t[m]) /\ t[m].pos = m
  <2>1. m \in P /\ t[m] \in LOOP(kernel)
    BY <1>2, <1>6
  <2>2. t[m].pos \in 0..m /\ t[m].pos >= m
    BY <2>1 DEF P, LOOP
  <2> QED
    BY <1>2, <2>1, <2>2 DEF P
<1> QED
  BY <1>1, <1>7 DEF Placing

Filled(n) == Image(Payloads[n].bytes, Payloads[n].base, Len(Payloads[n].bytes))
Whole(m)  == UNION { Filled(n) : n \in 1..m }

LEMMA WholeGrows ==
  /\ Whole(0) = {}
  /\ \A m \in Nat \ {0} : Whole(m) = Whole(m - 1) \union Filled(m)
<1>1. Whole(0) = {}
  BY DEF Whole
<1>2. ASSUME NEW m \in Nat \ {0} PROVE Whole(m) = Whole(m - 1) \union Filled(m)
  <2>1. 1..m = (1..(m - 1)) \union {m}
    OBVIOUS
  <2> QED
    BY <2>1 DEF Whole
<1> QED
  BY <1>1, <1>2

\* One more payload, without its end of file record.
LEMMA LaysPayload ==
  ASSUME Mapped, NEW n \in 1..Len(Payloads), NEW R \in Seq(BODY), NEW b, Lays(R, b, Whole(n - 1))
  PROVE  LET q == R \o LoopEnd(Payloads[n].bytes, Payloads[n].base, ChunkSize).records
         IN  q \in Seq(BODY) /\ \E c : Lays(q, c, Whole(n))
<1> DEFINE k == Payloads[n].bytes
           z == Payloads[n].base
           s == LoopEnd(k, z, ChunkSize)
           q == R \o s.records
<1>1. k \in Seq(Byte) /\ z \in Nat
  BY PayloadIs
<1>2. z % ChunkSize = 0 /\ z + Len(k) < Seg * Seg /\ ChunkSize \in Sizes
  <2>1. z % ChunkSize = 0 /\ (z + Len(k)) \div Seg < Seg /\ ChunkSize \in Sizes
    BY DEF Mapped, Fits
  <2>2. ASSUME NEW x \in Nat, x \div Seg < Seg PROVE x < Seg * Seg
    BY <2>2 DEF Seg
  <2> HIDE DEF k, z
  <2>3. z + Len(k) \in Nat
    BY <1>1
  <2> QED
    BY <2>1, <2>2, <2>3
<1>3. R \in Seq(REC)
  BY SeqMono DEF BODY
<1> HIDE DEF k, z
<1>4. \E c : Lays(q, c, Whole(n - 1) \union Image(k, z, Len(k)))
  BY <1>1, <1>2, <1>3, PlacingAll
<1>5. s.records \in Seq(BODY)
  BY <1>1, LoopEndType DEF LOOP
<1> HIDE DEF s
<1>6. q \in Seq(BODY)
  BY <1>5, SeqConcat
<1>7. n \in Nat \ {0}
  BY HexLoadAssumption
<1>8. Whole(n) = Whole(n - 1) \union Image(k, z, Len(k))
  BY <1>7, WholeGrows DEF Filled, k, z
<1> HIDE DEF q
<1>9. \E c : Lays(q, c, Whole(n))
  BY <1>4, <1>8
<1> QED
  BY <1>6, <1>9 DEF q, s, k, z

LEMMA RecordsLaid ==
  ASSUME Mapped
  PROVE  \E body \in Seq(BODY) : /\ Records = Append(body, EofRecord)
                                 /\ \E c : Lays(Records, c, Whole(Len(Payloads)))
<1> DEFINE m == Len(Payloads)
<1>1. m \in Nat \ {0}
  BY HexLoadAssumption
<1>2. PICK u : Assembled(u) /\ Records = u[m]
  BY RecordsIs
<1>3. u[0] = << >> /\ \A n \in 1..m : u[n] = u[n - 1] \o PayloadRecords(n)
  BY <1>2 DEF Assembled
<1> DEFINE P == {n \in 0..(m - 1) : u[n] \in Seq(BODY) /\ \E c : Lays(u[n], c, Whole(n))}
           More(n) == LoopEnd(Payloads[n].bytes, Payloads[n].base, ChunkSize).records
<1>4. 0 \in P
  <2>1. << >> \in Seq(BODY)
    BY SeqEmpty
  <2>2. \E c : Lays(<< >>, c, Whole(0))
    BY LaysNone, WholeGrows
  <2>3. 0 \in 0..(m - 1)
    BY <1>1
  <2> QED
    BY <1>3, <2>1, <2>2, <2>3, Zenon
<1>5. ASSUME NEW n \in 1..m, u[n - 1] \in Seq(BODY), \E c : Lays(u[n - 1], c, Whole(n - 1))
      PROVE  u[n - 1] \o More(n) \in Seq(BODY) /\ \E c : Lays(u[n - 1] \o More(n), c, Whole(n))
  BY <1>5, LaysPayload
<1>6. ASSUME NEW n \in 1..m PROVE /\ More(n) \in Seq(BODY)
                                  /\ PayloadRecords(n) = IF n = m THEN More(n) \o << EofRecord >> ELSE More(n)
  BY PayloadRecordsAre DEF LOOP
<1> HIDE DEF More
<1>7. ASSUME NEW n \in 1..(m - 1), n - 1 \in P PROVE n \in P
  <2>1. n \in 1..m /\ n # m /\ n \in 0..(m - 1)
    BY <1>1
  <2>2. u[n] = u[n - 1] \o More(n)
    BY <1>3, <1>6, <2>1
  <2>3. u[n] \in Seq(BODY) /\ \E c : Lays(u[n], c, Whole(n))
    BY <1>5, <1>7, <2>1, <2>2
  <2> QED
    BY <2>1, <2>3
<1> HIDE DEF P
<1>8. 0..(m - 1) \subseteq P
  <2>1. m - 1 \in Nat
    BY <1>1
  <2> QED
    BY <1>4, <1>7, <2>1, UpTo
<1> DEFINE R == u[m - 1]
           body == R \o More(m)
<1>9. m \in 1..m /\ m - 1 \in 0..(m - 1)
  BY <1>1
<1>10. R \in Seq(BODY) /\ \E c : Lays(R, c, Whole(m - 1))
  BY <1>8, <1>9 DEF P
<1>11. body \in Seq(BODY) /\ \E c : Lays(body, c, Whole(m))
  BY <1>5, <1>9, <1>10
<1>12. body \in Seq(REC) /\ R \in Seq(REC) /\ More(m) \in Seq(REC)
  <2>1. BODY \subseteq REC
    BY DEF BODY
  <2> QED
    BY <1>6, <1>9, <1>10, <1>11, <2>1, SeqMono
<1>13. Records = R \o (More(m) \o << EofRecord >>)
  BY <1>2, <1>3, <1>6, <1>9
<1> HIDE DEF R
<1>14. Records = Append(body, EofRecord)
  <2>1. More(m) \o << EofRecord >> = Append(More(m), EofRecord)
    BY <1>12, EofIs, SeqJoin
  <2>2. R \o Append(More(m), EofRecord) = Append(R \o More(m), EofRecord)
    BY <1>12, EofIs, SeqJoin
  <2> QED
    BY <1>13, <2>1, <2>2
<1> HIDE DEF body
<1>15. \E c : Lays(Records, c, Whole(m))
  <2>1. PICK c : Lays(body, c, Whole(m))
    BY <1>11
  <2>2. After(EofRecord, c) = c /\ Pairs(EofRecord, c) = {}
    BY EofIs DEF After, Pairs, Eof, Ext, Data
  <2>3. Lays(Append(body, EofRecord), After(EofRecord, c), Whole(m) \union Pairs(EofRecord, After(EofRecord, c)))
    BY <1>12, <2>1, EofIs, LaysAppend
  <2>4. Whole(m) \union {} = Whole(m)
    OBVIOUS
  <2> QED
    BY <1>14, <2>2, <2>3, <2>4
<1> QED
  BY <1>11, <1>14, <1>15

\* The chainloader's base address after each record.
Bases == CHOOSE B : \E c : Laid(Records, B, c, Whole(Len(Payloads)))

\* Cell x[1] is to hold x[2].
LEMMA WantIs ==
  ASSUME Mapped
  PROVE  /\ \A x \in Whole(Len(Payloads)) : x[1] \in Cells /\ Want[x[1]] = x[2]
         /\ \A a \in Cells : << a, Want[a] >> \in Whole(Len(Payloads))
<1> DEFINE m == Len(Payloads)
<1>1. ASSUME NEW n \in 1..m, NEW a \in PayloadCells(Payloads[n])
      PROVE  /\ a \in Cells /\ a - Payloads[n].base + 1 \in 1..Len(Payloads[n].bytes)
             /\ Want[a] = Payloads[n].bytes[a - Payloads[n].base + 1]
  <2> DEFINE p == CHOOSE q \in ToSet(Payloads) : a \in PayloadCells(q)
  <2>1. ToSet(Payloads) = { Payloads[k] : k \in 1..m }
    BY HexLoadAssumption DEF ToSet
  <2>2. Payloads[n] \in ToSet(Payloads)
    BY <2>1
  <2>3. p \in ToSet(Payloads) /\ a \in PayloadCells(p)
    BY <2>2
  <2> HIDE DEF p
  <2>4. PICK k \in 1..m : p = Payloads[k]
    BY <2>1, <2>3
  <2>5. k = n
    BY <2>3, <2>4 DEF Mapped
  <2>6. a \in Cells
    BY DEF Cells
  <2>7. Want[a] = p.bytes[a - p.base + 1]
    BY <2>6 DEF Want, p
  <2>8. Payloads[n].base \in Nat /\ Len(Payloads[n].bytes) \in Nat
    BY PayloadIs
  <2>9. a - Payloads[n].base + 1 \in 1..Len(Payloads[n].bytes)
    BY <2>8 DEF PayloadCells
  <2> QED
    BY <2>4, <2>5, <2>6, <2>7, <2>9
<1>2. ASSUME NEW x \in Whole(m) PROVE x[1] \in Cells /\ Want[x[1]] = x[2]
  <2>1. PICK n \in 1..m : x \in Filled(n)
    BY DEF Whole
  <2>2. PICK k \in 1..Len(Payloads[n].bytes) :
          x = << Payloads[n].base + k - 1, Payloads[n].bytes[k] >>
    BY <2>1 DEF Filled, Image
  <2>3. Payloads[n].base \in Nat /\ Len(Payloads[n].bytes) \in Nat
    BY PayloadIs
  <2>4. x[1] \in PayloadCells(Payloads[n]) /\ x[1] - Payloads[n].base + 1 = k
    BY <2>2, <2>3 DEF PayloadCells
  <2>5. x[2] = Payloads[n].bytes[k]
    BY <2>2
  <2> QED
    BY <1>1, <2>4, <2>5
<1>3. ASSUME NEW a \in Cells PROVE << a, Want[a] >> \in Whole(m)
  <2>1. PICK n \in 1..m : a \in PayloadCells(Payloads[n])
    BY DEF Cells
  <2> DEFINE k == a - Payloads[n].base + 1
  <2>2. k \in 1..Len(Payloads[n].bytes) /\ Want[a] = Payloads[n].bytes[k]
    BY <1>1, <2>1
  <2>3. a = Payloads[n].base + k - 1
    BY <2>1, PayloadIs DEF PayloadCells
  <2> HIDE DEF k
  <2>4. << a, Want[a] >> \in Filled(n)
    BY <2>2, <2>3 DEF Filled, Image
  <2> QED
    BY <2>4 DEF Whole
<1> QED
  BY <1>2, <1>3

\* The cells that record k fills.
Span(k) ==
  IF Records[k].type = Data
    THEN (Bases[k] + Records[k].addr)..(Bases[k] + Records[k].addr + Len(Records[k].data) - 1)
    ELSE {}

LEMMA LoadFacts ==
  ASSUME Mapped
  PROVE  /\ Bases \in [0..NRec -> Nat] /\ Bases[0] = 0
         /\ \A k \in 1..NRec : Bases[k] = After(Records[k], Bases[k - 1])
         /\ \A k \in 1..NRec : \A a \in Span(k) :
              a \in Cells /\ Want[a] = Records[k].data[a - (Bases[k] + Records[k].addr) + 1]
         /\ \A a \in Cells : \E k \in 1..NRec : a \in Span(k)
         /\ \A k \in 1..NRec : Records[k] \in REC /\ (Records[k].type = Eof <=> k = NRec)
         /\ Records[NRec].len = 11 /\ Records[NRec].cksum = 255 /\ NRec \in Nat \ {0}
<1> DEFINE W == Whole(Len(Payloads))
<1>1. PICK body \in Seq(BODY) : Records = Append(body, EofRecord) /\ \E c : Lays(Records, c, W)
  BY RecordsLaid
<1>2. PICK c : Laid(Records, Bases, c, W)
  BY <1>1 DEF Lays, Bases
<1>3. Records \in Seq(REC) /\ NRec \in Nat \ {0}
  BY RecordsType DEF NRec
<1>4. \A k \in 1..NRec : Records[k] \in REC
  BY <1>3 DEF NRec
<1>5. NRec = Len(body) + 1 /\ Records[NRec] = EofRecord /\ \A k \in 1..Len(body) : Records[k] \in BODY
  BY <1>1 DEF NRec
<1>6. ASSUME NEW k \in 1..NRec PROVE Records[k].type = Eof <=> k = NRec
  <2>1. CASE k = NRec
    BY <1>5, <2>1, EofIs
  <2>2. CASE k # NRec
    <3>1. k \in 1..Len(body)
      BY <1>1, <1>5, <2>2
    <3> QED
      BY <1>5, <2>2, <3>1 DEF BODY
  <2> QED
    BY <2>1, <2>2
<1>7. Records[NRec].len = 11 /\ Records[NRec].cksum = 255
  BY <1>5, EofIs
<1>8. /\ Bases \in [0..NRec -> Nat] /\ Bases[0] = 0
      /\ \A k \in 1..NRec : Bases[k] = After(Records[k], Bases[k - 1])
      /\ \A k \in 1..NRec : Pairs(Records[k], Bases[k]) \subseteq W
      /\ \A x \in W : \E k \in 1..NRec : x \in Pairs(Records[k], Bases[k])
  BY <1>2 DEF Laid, NRec
<1> HIDE DEF W
<1>9. ASSUME NEW k \in 1..NRec, NEW a \in Span(k)
      PROVE  a \in Cells /\ Want[a] = Records[k].data[a - (Bases[k] + Records[k].addr) + 1]
  <2> DEFINE z == Bases[k] + Records[k].addr
             n == a - z + 1
  <2>1. z \in Nat /\ Len(Records[k].data) \in Nat /\ Records[k].type = Data
    <3>1. Records[k].addr \in Nat /\ Len(Records[k].data) \in Nat /\ Bases[k] \in Nat
      <4>1. Records[k] \in REC /\ k \in 0..NRec
        BY <1>3, <1>4
      <4>2. Bases[k] \in Nat
        BY <1>8, <4>1
      <4>3. Records[k].addr \in Nat /\ Records[k].data \in Seq(Byte)
        BY <4>1, RecIs
      <4> QED
        BY <4>2, <4>3
    <3>2. Records[k].type = Data
      BY DEF Span
    <3>3. \A x, y \in Nat : x + y \in Nat
      OBVIOUS
    <3> QED
      BY <3>1, <3>2, <3>3, Zenon
  <2>2. a \in z..(z + Len(Records[k].data) - 1)
    BY <2>1 DEF Span
  <2>3. n \in 1..Len(Records[k].data) /\ a = z + n - 1
    BY <2>1, <2>2
  <2> HIDE DEF n
  <2>4. << a, Records[k].data[n] >> \in Pairs(Records[k], Bases[k])
    BY <2>1, <2>3 DEF Pairs
  <2>5. << a, Records[k].data[n] >> \in W
    BY <1>8, <2>4
  <2> QED
    BY <2>5, WantIs DEF W, n
<1>10. ASSUME NEW a \in Cells PROVE \E k \in 1..NRec : a \in Span(k)
  <2>1. << a, Want[a] >> \in W
    BY WantIs DEF W
  <2>2. PICK k \in 1..NRec : << a, Want[a] >> \in Pairs(Records[k], Bases[k])
    BY <1>8, <2>1
  <2>3. PICK n \in 1..Len(Records[k].data) :
          << a, Want[a] >> = << Bases[k] + Records[k].addr + n - 1, Records[k].data[n] >>
    BY <2>2 DEF Pairs
  <2>4. Records[k].type = Data /\ a = Bases[k] + Records[k].addr + n - 1
    BY <2>2, <2>3 DEF Pairs
  <2>5. Bases[k] \in Nat /\ Records[k].addr \in Nat /\ Len(Records[k].data) \in Nat
    <3>1. Records[k] \in REC /\ k \in 0..NRec
      BY <1>3, <1>4
    <3>2. Bases[k] \in Nat
      BY <1>8, <3>1
    <3>3. Records[k].addr \in Nat /\ Records[k].data \in Seq(Byte)
      BY <3>1, RecIs
    <3> QED
      BY <3>2, <3>3
  <2>6. a \in Span(k)
    <3>1. ASSUME NEW b \in Nat, NEW x \in Nat, NEW y \in Nat, NEW z \in 1..y
          PROVE  b + x + z - 1 \in (b + x)..(b + x + y - 1)
      OBVIOUS
    <3> QED
      BY <2>4, <2>5, <3>1, Zenon DEF Span
  <2> QED
    BY <2>6
<1> QED
  BY <1>3, <1>4, <1>6, <1>7, <1>8, <1>9, <1>10

-----------------------------------------------------------------------------
(* The answers: what is read and not yet judged, then what is not yet read. *)

\* The records up to k have been loaded.
Applied(k) == x24 = Bases[k] /\ \A j \in 1..k : \A a \in Span(j) : mem[a] = Want[a]

LEMMA AppliedAll ==
  ASSUME Mapped, Applied(NRec)
  PROVE  Right = Cells
<1>1. ASSUME NEW a \in Cells PROVE mem[a] = Want[a]
  <2>1. PICK k \in 1..NRec : a \in Span(k)
    BY LoadFacts
  <2> QED
    BY <2>1 DEF Applied
<1> QED
  BY <1>1 DEF Right

LEMMA AppliedNone ==
  ASSUME Mapped, x24 = 0
  PROVE  Applied(0)
  BY LoadFacts DEF Applied

LEMMA AppliedNext ==
  ASSUME Mapped, LineInv, NEW k \in 1..NRec, Applied(k - 1), Apply(Records[k], Records[k].data)
  PROVE  Applied(k)' /\ pi' = (IF k = NRec THEN "jump" ELSE pi)
<1> DEFINE r == Records[k]
<1>1. /\ NRec \in Nat \ {0} /\ r \in REC /\ (r.type = Eof <=> k = NRec)
      /\ Bases[k] \in Nat /\ Bases[k - 1] \in Nat /\ Bases[k] = After(r, Bases[k - 1])
      /\ \A a \in Span(k) : a \in Cells /\ Want[a] = r.data[a - (Bases[k] + r.addr) + 1]
      /\ \A j \in 1..NRec : \A a \in Span(j) : a \in Cells
  <2>1. NRec \in Nat \ {0} /\ Bases \in [0..NRec -> Nat]
    BY LoadFacts
  <2>2. Bases[k] \in Nat /\ Bases[k - 1] \in Nat
    BY <2>1
  <2>3. r \in REC /\ (r.type = Eof <=> k = NRec) /\ Bases[k] = After(r, Bases[k - 1])
    BY LoadFacts
  <2>4. \A a \in Span(k) : a \in Cells /\ Want[a] = r.data[a - (Bases[k] + r.addr) + 1]
    BY LoadFacts
  <2>5. \A j \in 1..NRec : \A a \in Span(j) : a \in Cells
    BY LoadFacts
  <2> QED
    BY <2>1, <2>2, <2>3, <2>4, <2>5
<1>2. x24 = Bases[k - 1] /\ \A j \in 1..(k - 1) : \A a \in Span(j) : mem[a] = Want[a]
  BY DEF Applied
<1>3. r.addr \in Nat /\ Len(r.data) \in Nat /\ r.type \in {Data, Eof, Ext}
  BY <1>1, RecIs
<1>4. \A j \in 1..k : j = k \/ j \in 1..(k - 1)
  OBVIOUS
<1>5. CASE r.type = Data /\ PutData(r, r.data) /\ UNCHANGED << x24, pi >>
  <2> DEFINE at == x24 + r.addr
             new == at..(at + Len(r.data) - 1)
  <2>1. Bases[k] = x24 /\ Span(k) = new
    BY <1>1, <1>2, <1>5 DEF After, Span, Data, Ext
  <2>2. mem' = [ a \in DOMAIN mem \union new |-> IF a \in new THEN r.data[a - at + 1] ELSE mem[a] ]
    BY <1>5 DEF PutData
  <2> HIDE DEF new
  <2>3. \A a \in Span(k) : mem'[a] = Want[a]
    BY <1>1, <2>1, <2>2
  <2>4. ASSUME NEW j \in 1..(k - 1), NEW a \in Span(j) PROVE mem'[a] = Want[a]
    <3>1. a \in Cells /\ a \in DOMAIN mem /\ mem[a] = Want[a]
      <4>1. j \in 1..NRec
        BY <1>1
      <4> QED
        BY <1>1, <1>2, <4>1 DEF LineInv
    <3>2. CASE a \in new
      BY <2>1, <2>3, <3>2
    <3>3. CASE a \notin new
      BY <2>2, <3>1, <3>3
    <3> QED
      BY <3>2, <3>3
  <2>5. \A j \in 1..k : \A a \in Span(j) : mem'[a] = Want[a]
    BY <1>4, <2>3, <2>4
  <2>6. k # NRec
    BY <1>1, <1>5 DEF Data, Eof
  <2> QED
    BY <1>5, <2>1, <2>5, <2>6 DEF Applied
<1>6. CASE r.type = Ext /\ x24' = (r.data[1] * 256 + r.data[2]) * Seg /\ UNCHANGED << mem, pi >>
  <2>1. x24' = Bases[k] /\ Span(k) = {} /\ k # NRec
    BY <1>1, <1>6 DEF After, ExtBase, Span, Data, Ext, Eof
  <2> QED
    BY <1>2, <1>4, <1>6, <2>1 DEF Applied
<1>7. CASE r.type = Eof /\ pi' = "jump" /\ UNCHANGED << mem, x24 >>
  <2>1. x24' = Bases[k] /\ Span(k) = {} /\ k = NRec
    BY <1>1, <1>2, <1>7 DEF After, Span, Data, Ext, Eof
  <2> QED
    BY <1>2, <1>4, <1>7, <2>1 DEF Applied
<1> QED
  BY <1>5, <1>6, <1>7 DEF Apply

QLen  == Len(ack) + Len(p2h)
Queue == [ n \in 1..QLen |-> IF n <= Len(ack) THEN ack[n] ELSE p2h[n - Len(ack)].byte ]

\* The first bytes of the queue stay.
Grows(n) == QLen' = QLen + n /\ \A k \in 1..QLen : Queue'[k] = Queue[k]

LEMMA QueueType ==
  ASSUME CountInv, LineInv
  PROVE  /\ Len(ack) \in {0, 1} /\ Len(p2h) \in Nat /\ QLen \in Nat
         /\ QLen = 0 <=> ack = << >> /\ p2h = << >>
         /\ ack = << >> <=> Len(ack) = 0
         /\ p2h = << >> <=> Len(p2h) = 0
<1>1. ASSUME NEW S, NEW q \in Seq(S) PROVE Len(q) \in Nat /\ (q = << >> <=> Len(q) = 0)
  OBVIOUS
<1>2. Len(ack) \in Nat /\ Len(ack) < 2 /\ (ack = << >> <=> Len(ack) = 0)
  BY <1>1 DEF CountInv
<1>3. Len(p2h) \in Nat /\ (p2h = << >> <=> Len(p2h) = 0)
  BY <1>1 DEF LineInv
<1>4. Len(ack) \in {0, 1} /\ QLen \in Nat /\ (QLen = 0 <=> Len(ack) = 0 /\ Len(p2h) = 0)
  <2> DEFINE a == Len(ack)
             p == Len(p2h)
  <2>1. a \in Nat /\ a < 2 /\ p \in Nat /\ QLen = a + p
    BY <1>2, <1>3 DEF QLen
  <2> HIDE DEF a, p
  <2>2. a \in {0, 1} /\ QLen \in Nat /\ (QLen = 0 <=> a = 0 /\ p = 0)
    BY <2>1
  <2> QED
    BY <2>2 DEF a, p
<1> QED
  BY <1>2, <1>3, <1>4

LEMMA QueueAppend ==
  ASSUME CountInv, LineInv, NEW r \in Seq(CHARS), ack' = ack, p2h' = p2h \o r
  PROVE  Grows(Len(r)) /\ \A k \in 1..Len(r) : Queue'[QLen + k] = r[k].byte
<1>1. Len(ack) \in Nat /\ Len(p2h) \in Nat /\ Len(r) \in Nat /\ p2h \in Seq(CHARS)
  BY QueueType DEF LineInv
<1>2. /\ Len(p2h') = Len(p2h) + Len(r)
      /\ \A n \in 1..Len(p2h) : p2h'[n] = p2h[n]
      /\ \A k \in 1..Len(r) : p2h'[Len(p2h) + k] = r[k]
  BY <1>1
<1>3. QLen' = QLen + Len(r) /\ QLen \in Nat /\ QLen = Len(ack) + Len(p2h)
  BY <1>1, <1>2 DEF QLen
<1>4. Queue' = [ n \in 1..QLen' |-> IF n <= Len(ack) THEN ack[n] ELSE p2h'[n - Len(ack)].byte ]
  BY DEF Queue
<1>5. ASSUME NEW n \in 1..QLen PROVE Queue'[n] = Queue[n]
  <2>1. n \in 1..QLen'
    BY <1>1, <1>3
  <2>2. Queue'[n] = IF n <= Len(ack) THEN ack[n] ELSE p2h'[n - Len(ack)].byte
    BY <1>4, <2>1
  <2>3. Queue[n] = IF n <= Len(ack) THEN ack[n] ELSE p2h[n - Len(ack)].byte
    BY DEF Queue
  <2>4. CASE n <= Len(ack)
    BY <2>2, <2>3, <2>4
  <2>5. CASE ~(n <= Len(ack))
    <3>1. n - Len(ack) \in 1..Len(p2h)
      BY <1>1, <1>3, <2>5
    <3> QED
      BY <1>2, <2>2, <2>3, <2>5, <3>1
  <2> QED
    BY <2>4, <2>5
<1>6. ASSUME NEW k \in 1..Len(r) PROVE Queue'[QLen + k] = r[k].byte
  <2>1. QLen + k \in 1..QLen' /\ ~(QLen + k <= Len(ack)) /\ (QLen + k) - Len(ack) = Len(p2h) + k
    BY <1>1, <1>3
  <2>2. Queue'[QLen + k] = p2h'[(QLen + k) - Len(ack)].byte
    BY <1>4, <2>1
  <2> QED
    BY <1>2, <2>1, <2>2
<1> QED
  BY <1>3, <1>5, <1>6 DEF Grows

LEMMA QueueTwo ==
  ASSUME CountInv, LineInv, NEW r \in Seq(CHARS), Len(r) \in {1, 2}, ack' = ack, p2h' = p2h \o r
  PROVE  /\ Len(r) = 1 => Grows(1) /\ Queue'[QLen + 1] = r[1].byte
         /\ Len(r) = 2 => Grows(2) /\ Queue'[QLen + 1] = r[1].byte /\ Queue'[QLen + 2] = r[2].byte
<1>1. Grows(Len(r)) /\ \A k \in 1..Len(r) : Queue'[QLen + k] = r[k].byte
  BY QueueAppend
<1>2. CASE Len(r) = 1
  <2>1. 1 \in 1..Len(r)
    BY <1>2
  <2> QED
    BY <1>1, <1>2, <2>1
<1>3. CASE Len(r) = 2
  <2>1. 1 \in 1..Len(r) /\ 2 \in 1..Len(r)
    BY <1>3
  <2> QED
    BY <1>1, <1>3, <2>1
<1> QED
  BY <1>2, <1>3

LEMMA QueueRead ==
  ASSUME CountInv, LineInv, p2h # << >>, ack' = Append(ack, Head(p2h).byte), p2h' = Tail(p2h)
  PROVE  Grows(0)
<1> DEFINE b == Head(p2h).byte
<1>1. Len(ack) \in Nat /\ Len(p2h) \in Nat \ {0} /\ ack \in Seq(Int) /\ p2h \in Seq(CHARS)
  BY QueueType DEF LineInv, CountInv
<1>0. p2h[1] \in CHARS /\ p2h[1] = Head(p2h)
  BY <1>1
<1>2. b \in Int /\ b = p2h[1].byte
  BY <1>0 DEF CHARS
<1> HIDE DEF b
<1>3. /\ Len(ack') = Len(ack) + 1 /\ ack'[Len(ack) + 1] = b
      /\ \A n \in 1..Len(ack) : ack'[n] = ack[n]
  BY <1>1, <1>2 DEF b
<1>4. Len(p2h') = Len(p2h) - 1 /\ \A n \in 1..(Len(p2h) - 1) : p2h'[n] = p2h[n + 1]
  BY <1>1
<1>5. QLen' = QLen /\ QLen \in Nat /\ QLen = Len(ack) + Len(p2h)
  BY <1>1, <1>3, <1>4 DEF QLen
<1>6. Queue' = [ n \in 1..QLen |-> IF n <= Len(ack) + 1 THEN ack'[n] ELSE p2h'[n - (Len(ack) + 1)].byte ]
  BY <1>3, <1>5 DEF Queue
<1>7. ASSUME NEW n \in 1..QLen PROVE Queue'[n] = Queue[n]
  <2>1. Queue'[n] = IF n <= Len(ack) + 1 THEN ack'[n] ELSE p2h'[n - (Len(ack) + 1)].byte
    BY <1>6
  <2>2. Queue[n] = IF n <= Len(ack) THEN ack[n] ELSE p2h[n - Len(ack)].byte
    BY DEF Queue
  <2>3. CASE n <= Len(ack)
    <3>1. n \in 1..Len(ack) /\ n <= Len(ack) + 1
      BY <1>1, <1>5, <2>3
    <3> QED
      BY <1>3, <2>1, <2>2, <2>3, <3>1
  <2>4. CASE n = Len(ack) + 1
    <3>1. n <= Len(ack) + 1 /\ ~(n <= Len(ack)) /\ n - Len(ack) = 1
      BY <1>1, <2>4
    <3> QED
      BY <1>2, <1>3, <2>1, <2>2, <2>4, <3>1
  <2>5. CASE n > Len(ack) + 1
    <3> DEFINE j == n - (Len(ack) + 1)
    <3>1. ~(n <= Len(ack) + 1) /\ ~(n <= Len(ack)) /\ n - Len(ack) = j + 1 /\ j \in 1..(Len(p2h) - 1)
      BY <1>1, <1>5, <2>5
    <3> HIDE DEF j
    <3>2. Queue'[n] = p2h'[j].byte /\ Queue[n] = p2h[j + 1].byte
      BY <2>1, <2>2, <3>1 DEF j
    <3> QED
      BY <1>4, <3>1, <3>2
  <2> QED
    BY <1>1, <1>5, <2>3, <2>4, <2>5
<1> QED
  BY <1>5, <1>7 DEF Grows

\* Two bytes are judged: the second is read at that moment.
LEMMA QueueJudge ==
  ASSUME CountInv, LineInv, p2h # << >>, Len(ack) = 1, ack' = << >>, p2h' = Tail(p2h)
  PROVE  /\ QLen >= 2 /\ QLen' = QLen - 2
         /\ \A k \in 1..(QLen - 2) : Queue'[k] = Queue[k + 2]
<1>1. Len(p2h) \in Nat \ {0} /\ p2h \in Seq(CHARS)
  BY QueueType DEF LineInv
<1>2. Len(ack') = 0 /\ Len(p2h') = Len(p2h) - 1 /\ \A n \in 1..(Len(p2h) - 1) : p2h'[n] = p2h[n + 1]
  BY <1>1
<1>3. QLen = Len(p2h) + 1 /\ QLen' = Len(p2h) - 1 /\ QLen' = QLen - 2 /\ QLen >= 2
  BY <1>1, <1>2 DEF QLen
<1>4. Queue' = [ n \in 1..(Len(p2h) - 1) |-> IF n <= 0 THEN ack'[n] ELSE p2h'[n - 0].byte ]
  BY <1>2, <1>3 DEF Queue
<1>5. ASSUME NEW k \in 1..(QLen - 2) PROVE Queue'[k] = Queue[k + 2]
  <2>1. k \in 1..(Len(p2h) - 1) /\ ~(k <= 0) /\ k - 0 = k
    BY <1>1, <1>3
  <2>2. Queue'[k] = p2h'[k].byte
    BY <1>4, <2>1
  <2>3. k + 2 \in 1..QLen /\ ~(k + 2 <= 1) /\ (k + 2) - 1 = k + 1
    BY <1>1, <1>3
  <2>4. Queue[k + 2] = p2h[k + 1].byte
    BY <2>3 DEF Queue
  <2> QED
    BY <1>2, <2>1, <2>2, <2>4
<1> QED
  BY <1>3, <1>5

LEMMA QueueFirst ==
  ASSUME CountInv, LineInv, p2h # << >>, Len(ack) = 1
  PROVE  /\ Append(ack, Head(p2h).byte)[1] = Queue[1]
         /\ Append(ack, Head(p2h).byte)[2] = Queue[2]
<1>1. Len(p2h) \in Nat \ {0} /\ p2h \in Seq(CHARS) /\ ack \in Seq(Int)
  BY QueueType DEF LineInv, CountInv
<1>2. QLen \in Nat /\ QLen >= 2
  BY <1>1 DEF QLen
<1>3. Queue[1] = ack[1] /\ Queue[2] = p2h[1].byte
  <2>1. 1 \in 1..QLen /\ 2 \in 1..QLen /\ ~(2 <= 1) /\ 2 - 1 = 1
    BY <1>2
  <2> QED
    BY <2>1 DEF Queue
<1>4. Head(p2h) = p2h[1] /\ p2h[1] \in CHARS
  BY <1>1
<1> DEFINE b == p2h[1].byte
<1>6. b \in Int
  BY <1>4 DEF CHARS
<1> HIDE DEF b
<1>5. Append(ack, b)[1] = ack[1] /\ Append(ack, b)[2] = b
  <2> DEFINE a == Append(ack, b)
  <2>1. a[Len(ack) + 1] = b /\ \A n \in 1..Len(ack) : a[n] = ack[n]
    <3>1. \A q \in Seq(Int), x \in Int :
             Append(q, x)[Len(q) + 1] = x /\ \A n \in 1..Len(q) : Append(q, x)[n] = q[n]
      OBVIOUS
    <3> QED
      BY <1>1, <1>6, <3>1, Zenon
  <2> HIDE DEF a
  <2>2. a[1] = ack[1] /\ a[2] = b
    <3>1. 1 \in 1..Len(ack) /\ Len(ack) + 1 = 2
      OBVIOUS
    <3> QED
      BY <2>1, <3>1
  <2> QED
    BY <2>2 DEF a
<1> QED
  BY <1>3, <1>4, <1>5 DEF b

LEMMA QueueSteal ==
  ASSUME CountInv, LineInv, p2h # << >>, ack' = ack, p2h' = Tail(p2h)
  PROVE  /\ QLen >= 1 /\ QLen' = QLen - 1
         /\ \A k \in 1..(QLen - 1) : Queue'[k] = IF k <= Len(ack) THEN Queue[k] ELSE Queue[k + 1]
<1>1. Len(ack) \in Nat /\ Len(p2h) \in Nat \ {0} /\ p2h \in Seq(CHARS)
  BY QueueType DEF LineInv
<1>2. Len(p2h') = Len(p2h) - 1 /\ \A n \in 1..(Len(p2h) - 1) : p2h'[n] = p2h[n + 1]
  BY <1>1
<1>3. QLen = Len(ack) + Len(p2h) /\ QLen' = QLen - 1 /\ QLen >= 1 /\ QLen \in Nat
  BY <1>1, <1>2 DEF QLen
<1>4. Queue' = [ n \in 1..QLen' |-> IF n <= Len(ack) THEN ack[n] ELSE p2h'[n - Len(ack)].byte ]
  BY DEF Queue
<1>5. ASSUME NEW k \in 1..(QLen - 1)
      PROVE  Queue'[k] = IF k <= Len(ack) THEN Queue[k] ELSE Queue[k + 1]
  <2>1. k \in 1..QLen' /\ k \in 1..QLen /\ k + 1 \in 1..QLen
    BY <1>1, <1>3
  <2>2. CASE k <= Len(ack)
    BY <1>4, <2>1, <2>2 DEF Queue
  <2>3. CASE ~(k <= Len(ack))
    <3> DEFINE j == k - Len(ack)
    <3>1. ~(k + 1 <= Len(ack)) /\ (k + 1) - Len(ack) = j + 1 /\ j \in 1..(Len(p2h) - 1)
      BY <1>1, <1>3, <2>3
    <3>2. Queue'[k] = p2h'[j].byte
      BY <1>4, <2>1, <2>3
    <3>3. Queue[k + 1] = p2h[j + 1].byte
      BY <2>1, <3>1 DEF Queue
    <3> HIDE DEF j
    <3>4. p2h'[j] = p2h[j + 1]
      BY <1>2, <3>1
    <3> QED
      BY <2>3, <3>2, <3>3, <3>4
  <2> QED
    BY <2>2, <2>3
<1> QED
  BY <1>3, <1>5

-----------------------------------------------------------------------------
(* BOOT is printed once, by a Pi that has left the chainloader. *)

Boots(p) == \E n \in 1..Len(p) : p[n].line = "BOOT"

BootLast == Boots(p2h) => pi = "kernel"

LEMMA BootsIs ==
  ASSUME NEW p \in Seq(CHARS)
  PROVE  /\ ~Boots(<< >>)
         /\ p # << >> => (Boots(Tail(p)) => Boots(p))
         /\ p # << >> => (Head(p).line = "BOOT" => Boots(p))
         /\ \A r \in Seq(CHARS) : Boots(p \o r) => Boots(p) \/ Boots(r)
<1>1. ~Boots(<< >>)
  BY DEF Boots
<1>2. ASSUME p # << >>, Boots(Tail(p)) PROVE Boots(p)
  <2>1. PICK n \in 1..Len(Tail(p)) : Tail(p)[n].line = "BOOT"
    BY <1>2 DEF Boots
  <2>2. n + 1 \in 1..Len(p) /\ Tail(p)[n] = p[n + 1]
    BY <1>2
  <2> QED
    BY <2>1, <2>2 DEF Boots
<1>3. ASSUME p # << >>, Head(p).line = "BOOT" PROVE Boots(p)
  <2>1. 1 \in 1..Len(p) /\ Head(p) = p[1]
    BY <1>3
  <2> QED
    BY <1>3, <2>1 DEF Boots
<1>4. ASSUME NEW r \in Seq(CHARS), Boots(p \o r) PROVE Boots(p) \/ Boots(r)
  <2> DEFINE q == p \o r
  <2>0. /\ Len(p) \in Nat /\ Len(r) \in Nat /\ Len(q) = Len(p) + Len(r)
        /\ \A n \in 1..Len(p) : q[n] = p[n]
        /\ \A n \in 1..Len(r) : q[Len(p) + n] = r[n]
    OBVIOUS
  <2>1. PICK n \in 1..Len(q) : q[n].line = "BOOT"
    BY <1>4 DEF Boots
  <2> HIDE DEF q
  <2>2. CASE n \in 1..Len(p)
    BY <2>0, <2>1, <2>2 DEF Boots
  <2>3. CASE n \notin 1..Len(p)
    <3>1. n - Len(p) \in 1..Len(r) /\ Len(p) + (n - Len(p)) = n
      BY <2>0, <2>3
    <3>2. r[n - Len(p)].line = "BOOT"
      BY <2>0, <2>1, <3>1
    <3> QED
      BY <3>1, <3>2 DEF Boots
  <2> QED
    BY <2>2, <2>3
<1> QED
  BY <1>1, <1>2, <1>3, <1>4

LEMMA BootsNot ==
  /\ \A n \in Int : ~Boots(<< Char(n) >>)
  /\ \A n, c \in Int : ~Boots(<< Char(n), Char(c) >>)
  /\ ~Boots(<< LineReady >>) /\ ~Boots(<< BlankLine, LineReady >>)
<1>1. ASSUME NEW e, e.line # "BOOT" PROVE ~Boots(<< e >>)
  BY <1>1 DEF Boots
<1>2. ASSUME NEW d, NEW e, d.line # "BOOT", e.line # "BOOT" PROVE ~Boots(<< d, e >>)
  BY <1>2 DEF Boots
<1>3. /\ LineReady.line # "BOOT" /\ BlankLine.line # "BOOT"
      /\ \A n \in Int : Char(n).line # "BOOT"
  BY DEF LineReady, BlankLine, Char
<1> QED
  BY <1>1, <1>2, <1>3

\* An answer is sent whole, or one of its bytes is lost.
LEMMA ReplyIs ==
  ASSUME CountInv, LineInv, NEW n \in Int, NEW c \in Int, Reply(n, c), ack' = ack
  PROVE  /\ \/ faults' = faults /\ Grows(2) /\ Queue'[QLen + 1] = n /\ Queue'[QLen + 2] = c
            \/ /\ faults < MaxFaults /\ faults' = faults + 1
               /\ Grows(1) /\ Queue'[QLen + 1] \in {n, c}
         /\ Boots(p2h)' => Boots(p2h)
<1>1. p2h \in Seq(CHARS) /\ Char(n) \in CHARS /\ Char(c) \in CHARS
      /\ Char(n).byte = n /\ Char(c).byte = c
  BY CharsAre DEF LineInv, Char
<1>2. CASE p2h' = p2h \o << Char(n), Char(c) >> /\ UNCHANGED faults
  <2> DEFINE r == << Char(n), Char(c) >>
  <2>1. r \in Seq(CHARS) /\ Len(r) = 2 /\ r[1].byte = n /\ r[2].byte = c /\ ~Boots(r)
    BY <1>1, BootsNot
  <2> HIDE DEF r
  <2>2. p2h' = p2h \o r
    BY <1>2 DEF r
  <2>3. Grows(2) /\ Queue'[QLen + 1] = n /\ Queue'[QLen + 2] = c
    BY <2>1, <2>2, QueueTwo
  <2>4. Boots(p2h') => Boots(p2h)
    BY <1>1, <2>1, <2>2, BootsIs
  <2> QED
    BY <1>2, <2>3, <2>4
<1>3. CASE /\ faults < MaxFaults /\ faults' = faults + 1
           /\ p2h' \in { Append(p2h, Char(n)), Append(p2h, Char(c)) }
  <2>1. PICK x \in {n, c} : p2h' = Append(p2h, Char(x))
    BY <1>3
  <2> DEFINE r == << Char(x) >>
  <2>2. r \in Seq(CHARS) /\ Len(r) = 1 /\ r[1].byte = x /\ ~Boots(r)
    BY <1>1, BootsNot
  <2>3. p2h' = p2h \o r
    BY <1>1, <2>1, SeqJoin
  <2> HIDE DEF r
  <2>4. Grows(1) /\ Queue'[QLen + 1] = x
    BY <2>2, <2>3, QueueTwo
  <2>5. Boots(p2h') => Boots(p2h)
    BY <1>1, <2>2, <2>3, BootsIs
  <2> QED
    BY <1>3, <2>4, <2>5
<1> QED
  BY <1>2, <1>3 DEF Reply

\* A greeting.
LEMMA StartIsGreeting ==
  ASSUME CountInv, LineInv, PiStart
  PROVE  /\ \/ Grows(1) /\ Queue'[QLen + 1] = 82
            \/ Grows(2) /\ Queue'[QLen + 1] = 13 /\ Queue'[QLen + 2] = 82
         /\ Boots(p2h)' => Boots(p2h)
<1>0. p2h \in Seq(CHARS) /\ LineReady \in CHARS /\ BlankLine \in CHARS /\ ack' = ack
      /\ LineReady.byte = 82 /\ BlankLine.byte = 13
  BY CharsAre DEF LineInv, LineReady, BlankLine, Char, PiStart, hostVars
<1>1. CASE p2h' = p2h \o << LineReady >>
  <2> DEFINE r == << LineReady >>
  <2>1. r \in Seq(CHARS) /\ Len(r) = 1 /\ r[1].byte = 82 /\ ~Boots(r)
    BY <1>0, BootsNot
  <2> HIDE DEF r
  <2>2. p2h' = p2h \o r
    BY <1>1 DEF r
  <2> QED
    BY <1>0, <2>1, <2>2, QueueTwo, BootsIs
<1>2. CASE p2h' = p2h \o << BlankLine, LineReady >>
  <2> DEFINE r == << BlankLine, LineReady >>
  <2>1. r \in Seq(CHARS) /\ Len(r) = 2 /\ r[1].byte = 13 /\ r[2].byte = 82 /\ ~Boots(r)
    BY <1>0, BootsNot
  <2> HIDE DEF r
  <2>2. p2h' = p2h \o r
    BY <1>2 DEF r
  <2>3. Grows(2) /\ Queue'[QLen + 1] = 13 /\ Queue'[QLen + 2] = 82
    BY <1>0, <2>1, <2>2, QueueTwo
  <2>4. Boots(p2h') => Boots(p2h)
    BY <1>0, <2>1, <2>2, BootsIs
  <2> QED
    BY <2>3, <2>4
<1> QED
  BY <1>1, <1>2 DEF PiStart

LEMMA JumpIs ==
  ASSUME CountInv, LineInv, PiJump
  PROVE  Grows(1) /\ Queue'[QLen + 1] = 66
<1>1. p2h \in Seq(CHARS) /\ LineBoot \in CHARS /\ ack' = ack /\ p2h' = Append(p2h, LineBoot)
      /\ LineBoot.byte = 66
  BY CharsAre DEF LineInv, LineBoot, PiJump, hostVars
<1> DEFINE r == << LineBoot >>
<1>2. r \in Seq(CHARS) /\ Len(r) = 1 /\ r[1].byte = 66
  BY <1>1
<1>3. p2h' = p2h \o r
  BY <1>1, SeqJoin
<1> HIDE DEF r
<1> QED
  BY <1>1, <1>2, <1>3, QueueTwo

LEMMA BootsSlip ==
  ASSUME CountInv, LineInv, PiSlip
  PROVE  (Boots(p2h)' => Boots(p2h)) /\ pi = "loop"
<1>1. Head(h2p).rec \in REC /\ Reply(Head(h2p).rec.len, w27') /\ w27' \in Byte /\ pi = "loop"
  BY SlipIs
<1>2. Head(h2p).rec.len \in Int
  BY <1>1, RecIs
<1>3. w27' \in Int
  BY <1>1 DEF Byte
<1>4. ack' = ack
  BY PiElsewhere DEF hostVars
<1> QED
  BY <1>1, <1>2, <1>3, <1>4, ReplyIs

\* What the Pi's steps but the last leave of the line BOOT.
LEMMA BootsPi ==
  ASSUME CountInv, LineInv, PiStep, ~PiJump
  PROVE  (Boots(p2h)' => Boots(p2h)) /\ pi \in {"start", "loop", "jump"}
<1>0. ack' = ack
  BY PiElsewhere DEF hostVars
<1>1. CASE PiStart
  BY <1>1, StartIsGreeting DEF PiStart
<1>2. CASE PiAccept
  <2> DEFINE rec == Head(h2p).rec
  <2>1. h2p # << >> /\ pi = "loop" /\ Reply(rec.len, rec.cksum)
    BY <1>2 DEF PiAccept, HasLine
  <2>2. rec.len \in Int /\ rec.cksum \in Int
    BY <2>1, LineHead, RecIs
  <2> HIDE DEF rec
  <2> QED
    BY <1>0, <2>1, <2>2, ReplyIs
<1>3. CASE PiMisread
  <2> DEFINE rec == Head(h2p).rec
  <2>1. h2p # << >> /\ pi = "loop" /\ Reply(rec.len - 1, rec.cksum)
    BY <1>3 DEF PiMisread, HasLine
  <2>2. rec.len - 1 \in Int /\ rec.cksum \in Int
    BY <2>1, LineHead, RecIs
  <2> HIDE DEF rec
  <2> QED
    BY <1>0, <2>1, <2>2, ReplyIs
<1>4. CASE PiNak
  <2> DEFINE l == Head(h2p)
             n == IF l.fault = "drop" THEN l.rec.len - 1 ELSE l.rec.len
  <2>1. h2p # << >> /\ pi = "loop" /\ Reply(n, 255 - w27')
    BY <1>4 DEF PiNak, HasLine
  <2>2. n \in Int
    BY <2>1, LineHead, RecIs
  <2>3. 255 - w27' \in Int
    <3>1. w27' \in Byte
      BY LinePi DEF LineInv
    <3> QED
      BY <3>1 DEF Byte
  <2> HIDE DEF n
  <2> QED
    BY <1>0, <2>1, <2>2, <2>3, ReplyIs
<1>5. CASE PiShort
  <2>1. pi = "loop" /\ Reply(10, w27)
    BY <1>5 DEF PiShort, HasLine
  <2>2. 10 \in Int /\ w27 \in Int
    BY DEF LineInv, Byte
  <2> QED
    BY <1>0, <2>1, <2>2, ReplyIs
<1>6. CASE PiGlitch
  BY <1>6 DEF PiGlitch
<1> QED
  BY <1>1, <1>2, <1>3, <1>4, <1>5, <1>6 DEF PiStep

LEMMA BootLastStep ==
  ASSUME CountInv, LineInv, BootLast, [Next]_vars
  PROVE  BootLast'
<1>0. p2h \in Seq(CHARS) /\ ~Boots(<< >>) /\ (p2h # << >> => (Boots(Tail(p2h)) => Boots(p2h)))
  BY BootsIs DEF LineInv
<1>1. CASE PiStep /\ ~PiJump
  BY <1>1, BootsPi DEF BootLast
<1>2. CASE PiJump
  BY <1>2 DEF PiJump, BootLast
<1>3. CASE DtrReset
  BY <1>0, <1>3 DEF DtrReset, BootLast
<1>4. CASE FlushForRecords
  BY <1>0, <1>4 DEF FlushForRecords, BootLast
<1>5. CASE UNCHANGED pi /\ (p2h' = p2h \/ (p2h # << >> /\ p2h' = Tail(p2h)))
  BY <1>0, <1>5 DEF BootLast
<1>6. CASE \/ Start \/ KillStaleCheck \/ KillStaleKill \/ ProcChange \/ OpenSerial \/ SendRecord
           \/ AckTimeout \/ Abort \/ ConsoleEnds \/ UNCHANGED vars
  <2>1. UNCHANGED pi /\ p2h' = p2h
    BY <1>6 DEF Start, KillStaleCheck, KillStaleKill, ProcChange, OpenSerial, SendRecord,
       AckTimeout, Abort, ConsoleEnds, vars, piVars
  <2> QED
    BY <1>5, <2>1
<1>7. CASE WaitReady \/ WaitBoot \/ ReadAck \/ StealByte
  <2>1. UNCHANGED pi /\ (p2h' = p2h \/ (p2h # << >> /\ p2h' = Tail(p2h)))
    BY <1>7 DEF WaitReady, WaitBoot, ReadLine, ReadAck, StealByte, piVars
  <2> QED
    BY <1>5, <2>1
<1>8. CASE PiSlip
  BY <1>8, BootsSlip DEF BootLast
<1> QED
  BY <1>1, <1>2, <1>3, <1>4, <1>6, <1>7, <1>8 DEF Next, HostStep, PiStep

-----------------------------------------------------------------------------
(* The protocol. *)

Spent == faults >= MaxFaults

\* The checksum register when record k arrives.
Before(k) == IF k = 1 THEN w27 \in Residuals \union {0} ELSE w27 = Records[k - 1].cksum

LEMMA AnswersDiffer ==
  ASSUME Sound, NEW k \in 1..NRec
  PROVE  /\ Records[k].len \in Nat /\ Records[k].cksum \in Nat
         /\ Records[k].len # 82 /\ Records[k].len # 10
         /\ \A w \in Residuals : 255 - w # Records[k].cksum
         /\ Before(k) => 255 - w27 # Records[k].cksum
         /\ ~(Records[k].len = 13 /\ Records[k].cksum = 82)
<1>1. Records[k] \in REC
  BY LoadFacts DEF Sound
<1>2. /\ Records[k].len \in Nat /\ Records[k].cksum \in Byte
      /\ Records[k].len = 11 + 2 * Len(Records[k].data) /\ Len(Records[k].data) \in Nat
  BY <1>1, RecIs
<1>3. Records[k].cksum \in Nat
  <2>1. Byte \subseteq Nat
    BY DEF Byte
  <2> QED
    BY <1>2, <2>1
<1>4. ASSUME NEW n \in Nat PROVE 11 + 2 * n # 82 /\ 11 + 2 * n # 10
  OBVIOUS
<1>5. /\ \A w \in Residuals : 255 - w # Records[k].cksum
      /\ k = 1 => 255 # Records[k].cksum
      /\ k > 1 => 255 - Records[k - 1].cksum # Records[k].cksum
      /\ ~(Records[k].len = 13 /\ Records[k].cksum = 82)
  BY DEF Sound, NoCoincidence
<1>6. ASSUME Before(k) PROVE 255 - w27 # Records[k].cksum
  <2>1. CASE k = 1
    <3>1. w27 \in Residuals \/ w27 = 0
      BY <1>6, <2>1 DEF Before
    <3> QED
      BY <1>5, <2>1, <3>1
  <2>2. CASE k # 1
    <3>1. k > 1
      BY <2>2, LoadFacts DEF Sound
    <3> QED
      BY <1>5, <1>6, <2>2, <3>1 DEF Before
  <2> QED
    BY <2>1, <2>2
<1>7. Records[k].len # 82 /\ Records[k].len # 10
  <2> DEFINE n == Len(Records[k].data)
  <2>1. n \in Nat /\ Records[k].len = 11 + 2 * n
    BY <1>2
  <2> HIDE DEF n
  <2>2. 11 + 2 * n # 82 /\ 11 + 2 * n # 10
    BY <1>4, <2>1
  <2> QED
    BY <2>1, <2>2
<1> QED
  BY <1>2, <1>3, <1>5, <1>6, <1>7

-----------------------------------------------------------------------------
(* Where the two ends are in each phase, while at most one thing goes wrong. *)

\* The answer on its way is the one the host waits for.
Good == QLen >= 2 /\ Queue[1] = Records[i].len /\ Queue[2] = Records[i].cksum

\* Behind k bytes of the queue there is a greeting and nothing else.
Greets(k) ==
  \/ QLen = k + 1 /\ Queue[k + 1] = 82
  \/ QLen = k + 2 /\ Queue[k + 1] = 13 /\ Queue[k + 2] = 82

\* The Pi was reset in the middle of the records, and forgets what it had.
Rebooting(k) ==
  /\ Spent /\ h2p = << >>
  /\ (pi = "start" /\ QLen = k) \/ (pi = "loop" /\ Greets(k))

Clean(k) == pi = "loop" /\ QLen = 0 /\ Applied(k - 1) /\ Before(k)

\* ready and flush.
Greeting ==
  /\ h2p = << >> /\ pi \in {"start", "loop"}
  /\ pi = "loop" => x24 = 0 /\ w27 \in Residuals \union {0}
  /\ pi = "start" => Spent \/ (phase = "ready" /\ p2h = << >>)

Sending == (Clean(i) /\ h2p = << >>) \/ Rebooting(0)

\* ack: the record is on the line, or
Underway == Clean(i) /\ h2p = << [rec |-> Records[i], fault |-> "intact"] >>

\* it was taken and the answer says so, or
Answered ==
  /\ Good /\ h2p = << >>
  /\ \/ QLen = 2 /\ Applied(i) /\ pi = "loop" /\ i < NRec /\ w27 = Records[i].cksum
     \/ QLen = 2 /\ Applied(i) /\ pi = "jump" /\ i = NRec
     \/ QLen = 3 /\ Queue[3] = 66 /\ Applied(i) /\ pi = "kernel" /\ i = NRec
     \/ Rebooting(2)

Damaged ==
  /\ h2p # << >> /\ Head(h2p).rec = Records[i] /\ Before(i)
  /\ Head(h2p).fault \in {"drop", "colon", "garble", "short"}

\* the host will not be satisfied, whatever still comes.
Doomed ==
  /\ Spent
  /\ \/ QLen >= 2 /\ ~Good
     \/ QLen = 1 /\ Queue[1] # Records[i].len
     \/ QLen = 1 /\ pi = "loop" /\ h2p = << >>
     \/ QLen = 1 /\ pi = "jump" /\ i = NRec
     \/ QLen = 0 /\ pi = "start"
     \/ QLen = 0 /\ pi = "loop" /\ h2p = << >>
     \/ QLen = 0 /\ pi = "loop" /\ Damaged

Booting == h2p = << >> /\ (pi \in {"jump", "kernel"} => Right = Cells)

PromiseInv ==
  /\ BootLast
  /\ phase # "ack" => ack = << >>
  /\ phase \in Flashing \union {"sweep"} => verdict = "none"
  /\ verdict = "booted" => pi = "kernel" /\ Right = Cells
  /\ phase \in {"ready", "flush"} => Greeting
  /\ phase = "send" => Sending
  /\ phase = "ack" => Underway \/ Answered \/ Doomed
  /\ phase = "boot" => Booting

\* A fault leaves no other to come.
LEMMA FaultSpends ==
  ASSUME Sound, LineInv, faults' = faults + 1
  PROVE  Spent'
  BY HexLoadAssumption DEF Sound, LineInv, Spent

\* What each step of the Pi needs, and what it puts on the line.
LEMMA PiNeeds ==
  ASSUME LineInv, CountInv
  PROVE  /\ PiStart => pi = "start" /\ pi' = "loop" /\ h2p' = << >> /\ x24' = 0
                       /\ w27' \in Residuals \union {0} /\ UNCHANGED << faults, mem >>
         /\ PiJump => pi = "jump" /\ pi' = "kernel" /\ UNCHANGED << faults, x24, mem, h2p >>
         /\ PiGlitch => pi \in {"loop", "jump"} /\ pi' = "start" /\ h2p' = << >> /\ ~Spent
                        /\ faults' = faults + 1 /\ UNCHANGED << ack, p2h, mem >>
         /\ PiAccept \/ PiMisread \/ PiNak \/ PiShort => pi = "loop" /\ h2p # << >>
         /\ StealByte => ~Spent /\ faults' = faults + 1 /\ p2h # << >> /\ p2h' = Tail(p2h)
                         /\ ack' = ack /\ UNCHANGED << pi, x24, w27, mem, h2p >>
         /\ PiStep \/ StealByte => i' = i /\ phase' = phase /\ ack' = ack /\ verdict' = verdict
<1>1. faults \in Nat /\ MaxFaults \in Nat
  BY HexLoadAssumption DEF LineInv
<1>2. faults < MaxFaults => ~Spent
  BY <1>1 DEF Spent
<1>3. PiGlitch => ack' = ack
  BY DEF PiGlitch, hostVars
<1>4. PiStep \/ StealByte => i' = i /\ phase' = phase /\ ack' = ack /\ verdict' = verdict
  BY PiElsewhere DEF hostVars
<1>5. PiAccept \/ PiMisread \/ PiNak \/ PiShort => pi = "loop" /\ h2p # << >>
  BY DEF PiAccept, PiMisread, PiNak, PiShort, HasLine
<1>6. StealByte => ~Spent /\ faults' = faults + 1 /\ p2h # << >> /\ p2h' = Tail(p2h)
                   /\ ack' = ack /\ UNCHANGED << pi, x24, w27, mem, h2p >>
  BY <1>2 DEF StealByte, hostVars, piVars
<1> QED
  BY <1>2, <1>3, <1>4, <1>5, <1>6 DEF PiStart, PiJump, PiGlitch

\* The answers to a damaged line.
LEMMA DamagedReply ==
  ASSUME Sound, CountInv, LineInv, i \in 1..NRec, Spent, pi = "loop", QLen = 0, Damaged,
         PiAccept \/ PiMisread \/ PiNak \/ PiShort
  PROVE  Grows(2) /\ faults' = faults /\ ~(Queue'[1] = Records[i].len /\ Queue'[2] = Records[i].cksum)
<1> DEFINE r == Records[i]
<1>1. /\ r.len \in Nat /\ r.cksum \in Nat /\ r.len # 10
      /\ \A w \in Residuals : 255 - w # r.cksum
      /\ 255 - w27 # r.cksum
  BY AnswersDiffer DEF Damaged
<1>2. ack' = ack /\ ~(faults < MaxFaults)
  BY PiElsewhere, HexLoadAssumption DEF PiStep, hostVars, Spent, LineInv
<1>3. Head(h2p).rec = r /\ Head(h2p).fault \in {"drop", "colon", "garble", "short"}
  BY DEF Damaged
<1>4. ASSUME NEW n \in Int, NEW c \in Int, Reply(n, c), n # r.len \/ c # r.cksum
      PROVE  Grows(2) /\ faults' = faults /\ ~(Queue'[1] = r.len /\ Queue'[2] = r.cksum)
  <2>1. faults' = faults /\ Grows(2) /\ Queue'[QLen + 1] = n /\ Queue'[QLen + 2] = c
    BY <1>2, <1>4, ReplyIs
  <2>2. QLen + 1 = 1 /\ QLen + 2 = 2
    OBVIOUS
  <2>3. Queue'[1] = n /\ Queue'[2] = c
    BY <2>1, <2>2
  <2> QED
    BY <1>4, <2>1, <2>3
<1> HIDE DEF r
<1>5. CASE PiAccept
  BY <1>3, <1>5 DEF PiAccept, HasLine
<1>6. CASE PiMisread
  <2>1. Reply(r.len - 1, r.cksum)
    BY <1>3, <1>6 DEF PiMisread
  <2>2. r.len - 1 \in Int /\ r.cksum \in Int /\ r.len - 1 # r.len
    BY <1>1
  <2> QED
    BY <1>4, <2>1, <2>2 DEF r
<1>7. CASE PiNak
  <2>0. w27' \in Int /\ 255 - w27' \in Int
    <3>1. w27' \in Byte
      BY <1>7, LinePi DEF LineInv, PiStep
    <3> QED
      BY <3>1 DEF Byte
  <2>1. 255 - w27' # r.cksum
    <3>1. w27' = w27 \/ w27' \in Residuals \/ w27' = r.cksum
      BY <1>3, <1>7 DEF PiNak
    <3>2. 255 - r.cksum # r.cksum
      BY <1>1
    <3> QED
      BY <1>1, <3>1, <3>2
  <2> DEFINE n == IF Head(h2p).fault = "drop" THEN r.len - 1 ELSE r.len
  <2>2. Reply(n, 255 - w27')
    BY <1>3, <1>7 DEF PiNak
  <2>3. n \in Int
    BY <1>1
  <2> HIDE DEF n
  <2> QED
    BY <1>4, <2>0, <2>1, <2>2, <2>3 DEF r
<1>8. CASE PiShort
  <2>1. Reply(10, w27) /\ w27 \in Int
    BY <1>8 DEF PiShort, LineInv, Byte
  <2> QED
    BY <1>1, <1>4, <2>1 DEF r
<1> QED
  BY <1>5, <1>6, <1>7, <1>8

LEMMA GreetingPi ==
  ASSUME Sound, CountInv, LineInv, Greeting, PiStep \/ StealByte
  PROVE  Greeting'
<1>1. CASE PiStart
  BY <1>1, PiNeeds DEF Greeting
<1>2. CASE PiGlitch
  BY <1>2, PiNeeds, FaultSpends DEF Greeting
<1>3. CASE StealByte
  <2>1. pi = "loop" /\ UNCHANGED << pi, x24, w27, h2p >>
    BY <1>3, PiNeeds DEF Greeting
  <2> QED
    BY <2>1 DEF Greeting
<1> QED
  BY <1>1, <1>2, <1>3, PiNeeds DEF PiStep, Greeting

\* The queue when nothing is added or removed.
LEMMA QueueSame ==
  ASSUME UNCHANGED << ack, p2h >>
  PROVE  QLen' = QLen /\ Queue' = Queue
  BY DEF QLen, Queue

LEMMA RebootingPi ==
  ASSUME Sound, CountInv, LineInv, NEW k \in Nat, Rebooting(k), PiStep \/ StealByte
  PROVE  Rebooting(k)' /\ (Grows(1) \/ Grows(2))
<1>0. Spent /\ h2p = << >> /\ ((pi = "start" /\ QLen = k) \/ (pi = "loop" /\ Greets(k)))
  BY DEF Rebooting
<1>1. PiStart
  BY <1>0, PiNeeds DEF PiStep
<1>2. pi = "start" /\ QLen = k /\ pi' = "loop" /\ h2p' = << >> /\ Spent'
  BY <1>0, <1>1, PiNeeds DEF Spent
<1>3. \/ Grows(1) /\ Queue'[QLen + 1] = 82
      \/ Grows(2) /\ Queue'[QLen + 1] = 13 /\ Queue'[QLen + 2] = 82
  BY <1>1, StartIsGreeting
<1>4. Greets(k)'
  BY <1>2, <1>3 DEF Greets, Grows
<1> QED
  BY <1>2, <1>3, <1>4 DEF Rebooting

LEMMA SendingPi ==
  ASSUME Sound, CountInv, LineInv, Sending, PiStep \/ StealByte
  PROVE  Sending'
<1>1. CASE Rebooting(0)
  BY <1>1, RebootingPi DEF Sending
<1>2. CASE Clean(i) /\ h2p = << >>
  <2>1. pi = "loop" /\ QLen = 0
    BY <1>2 DEF Clean
  <2>2. p2h = << >>
    BY <2>1, QueueType
  <2>3. PiGlitch
    BY <1>2, <2>1, <2>2, PiNeeds DEF PiStep
  <2>4. Spent' /\ pi' = "start" /\ h2p' = << >> /\ QLen' = QLen
    BY <2>3, PiNeeds, FaultSpends, QueueSame
  <2> QED
    BY <2>1, <2>4 DEF Sending, Rebooting
<1> QED
  BY <1>1, <1>2 DEF Sending

\* The chainloader starts over, or the kernel has what was sent.
LEMMA BootingPi ==
  ASSUME Sound, CountInv, LineInv, Booting, PiStep \/ StealByte
  PROVE  Booting'
<1>1. CASE PiStart \/ PiGlitch
  BY <1>1, PiNeeds DEF Booting
<1>2. CASE PiJump \/ StealByte
  BY <1>2, PiNeeds DEF Booting, Right
<1> QED
  BY <1>1, <1>2, PiNeeds DEF PiStep, Booting

LEMMA UnderwayPi ==
  ASSUME Sound, CountInv, LineInv, i \in 1..NRec, Underway, PiStep \/ StealByte
  PROVE  Answered' \/ Doomed'
<1> DEFINE r == Records[i]
           l == [rec |-> r, fault |-> "intact"]
<1>0. /\ pi = "loop" /\ QLen = 0 /\ Applied(i - 1)
      /\ h2p = << l >> /\ i' = i /\ ack' = ack
  BY PiNeeds DEF Underway, Clean
<1>1. p2h = << >> /\ h2p # << >> /\ Head(h2p) = l /\ Tail(h2p) = << >>
  BY <1>0, QueueType
<1>2. Head(h2p).rec = r /\ Head(h2p).fault = "intact"
  BY <1>1
<1>3. PiAccept \/ PiGlitch
  <2>1. ~PiMisread /\ ~PiNak /\ ~PiShort
    BY <1>2 DEF PiMisread, PiNak, PiShort, HasLine
  <2> QED
    BY <1>0, <1>1, <2>1, PiNeeds DEF PiStep
<1>4. r.len \in Int /\ r.cksum \in Int
  BY AnswersDiffer
<1> HIDE DEF r, l
<1>5. CASE PiGlitch
  <2>1. Spent' /\ pi' = "start" /\ QLen' = 0
    BY <1>0, <1>5, PiNeeds, FaultSpends, QueueSame
  <2> QED
    BY <2>1 DEF Doomed
<1>6. CASE PiAccept
  <2>1. Apply(r, r.data) /\ w27' = r.cksum /\ Reply(r.len, r.cksum) /\ h2p' = << >>
    BY <1>1, <1>2, <1>6 DEF PiAccept
  <2>2. Applied(i)' /\ pi' = (IF i = NRec THEN "jump" ELSE pi)
    <3>1. Mapped /\ Apply(Records[i], Records[i].data)
      BY <2>1 DEF Sound, r
    <3>2. \A k \in 1..NRec : Applied(k - 1) /\ Apply(Records[k], Records[k].data)
             => Applied(k)' /\ pi' = (IF k = NRec THEN "jump" ELSE pi)
      BY <3>1, AppliedNext
    <3>3. \A k : k = i' => (Applied(k)' <=> Applied(i)')
      BY DEF Applied
    <3> QED
      BY <1>0, <3>1, <3>2, <3>3
  <2>3. i < NRec \/ i = NRec
    BY LoadFacts DEF Sound
  <2>4. CASE faults' = faults /\ Grows(2) /\ Queue'[QLen + 1] = r.len /\ Queue'[QLen + 2] = r.cksum
    <3>1. QLen' = 2 /\ Queue'[1] = r.len /\ Queue'[2] = r.cksum
      BY <1>0, <2>4 DEF Grows
    <3>2. Good'
      BY <1>0, <3>1 DEF Good, r
    <3> QED
      BY <1>0, <2>1, <2>2, <2>3, <3>1, <3>2 DEF Answered, r
  <2>5. CASE faults' = faults + 1 /\ Grows(1)
    <3>1. QLen' = 1 /\ Spent'
      BY <1>0, <2>5, FaultSpends DEF Grows
    <3> QED
      BY <1>0, <2>1, <2>2, <3>1 DEF Doomed
  <2> QED
    BY <1>0, <1>4, <2>1, <2>4, <2>5, ReplyIs
<1> QED
  BY <1>3, <1>5, <1>6

\* The two bytes of the answer stay where they are.
LEMMA GoodGrows ==
  ASSUME CountInv, LineInv, i' = i, NEW n \in Nat, Grows(n)
  PROVE  /\ Good => Good'
         /\ QLen >= 2 /\ ~Good => QLen' >= 2 /\ ~Good'
         /\ QLen = 1 /\ Queue[1] # Records[i].len /\ n > 0 => QLen' >= 2 /\ ~Good'
<1>1. QLen \in Nat /\ QLen' = QLen + n /\ \A k \in 1..QLen : Queue'[k] = Queue[k]
  BY QueueType DEF Grows
<1>2. QLen >= 2 => Queue'[1] = Queue[1] /\ Queue'[2] = Queue[2] /\ QLen' >= 2
  BY <1>1
<1>3. QLen = 1 => Queue'[1] = Queue[1]
  BY <1>1
<1>4. QLen = 1 /\ n > 0 => QLen' >= 2
  BY <1>1
<1> QED
  BY <1>2, <1>3, <1>4 DEF Good

LEMMA AnsweredPi ==
  ASSUME Sound, CountInv, LineInv, i \in 1..NRec, Answered, PiStep \/ StealByte
  PROVE  Answered' \/ Doomed'
<1>0. Good /\ h2p = << >> /\ i' = i /\ ack' = ack /\ QLen \in Nat
  BY PiNeeds, QueueType DEF Answered
<1>1. CASE Rebooting(2)
  <2>1. Rebooting(2)' /\ (Grows(1) \/ Grows(2))
    BY <1>1, RebootingPi
  <2>2. Good'
    BY <1>0, <2>1, GoodGrows
  <2> QED
    BY <2>1, <2>2 DEF Answered, Rebooting
<1>2. CASE QLen = 2 /\ Applied(i) /\ (pi = "loop" \/ (pi = "jump" /\ i = NRec))
  <2>1. CASE PiJump
    <3>1. Grows(1) /\ Queue'[QLen + 1] = 66 /\ i = NRec
      BY <1>2, <2>1, JumpIs, PiNeeds
    <3>2. QLen' = 3 /\ Queue'[3] = 66
      BY <1>2, <3>1 DEF Grows
    <3>3. Good'
      BY <1>0, <3>1, GoodGrows
    <3>4. Applied(i)' /\ pi' = "kernel" /\ h2p' = << >>
      BY <1>0, <1>2, <2>1, PiNeeds DEF Applied
    <3> QED
      BY <1>0, <3>1, <3>2, <3>3, <3>4 DEF Answered
  <2>2. CASE PiGlitch
    <3>1. Spent' /\ h2p' = << >> /\ pi' = "start" /\ QLen' = 2 /\ Queue' = Queue
      BY <1>2, <2>2, PiNeeds, FaultSpends, QueueSame
    <3>2. Rebooting(2)' /\ Good'
      BY <1>0, <1>2, <3>1 DEF Rebooting, Good
    <3> QED
      BY <3>1, <3>2 DEF Answered
  <2>3. CASE StealByte
    <3>1. Spent' /\ UNCHANGED << pi, h2p >> /\ p2h # << >> /\ p2h' = Tail(p2h)
      BY <2>3, PiNeeds, FaultSpends
    <3>2. QLen' = 1
      BY <1>0, <1>2, <3>1, QueueSteal
    <3> QED
      BY <1>0, <1>2, <3>1, <3>2 DEF Doomed
  <2> QED
    BY <1>0, <1>2, <2>1, <2>2, <2>3, PiNeeds DEF PiStep
<1>3. CASE QLen = 3 /\ Queue[3] = 66 /\ pi = "kernel" /\ i = NRec
  <2>1. StealByte
    BY <1>3, PiNeeds DEF PiStep
  <2>2. Spent' /\ p2h # << >> /\ p2h' = Tail(p2h)
    BY <2>1, PiNeeds, FaultSpends
  <2>3. /\ QLen' = QLen - 1
        /\ \A k \in 1..(QLen - 1) : Queue'[k] = IF k <= Len(ack) THEN Queue[k] ELSE Queue[k + 1]
    BY <1>0, <2>2, QueueSteal
  <2>4. Len(ack) \in {0, 1}
    BY QueueType
  <2>5. QLen' = 2 /\ Queue'[2] = 66
    <3>0. ASSUME NEW a \in {0, 1} PROVE ~(2 <= a)
      BY <3>0
    <3>1. 2 \in 1..(QLen - 1) /\ ~(2 <= Len(ack)) /\ QLen - 1 = 2 /\ 2 + 1 = 3
      <4>1. ~(2 <= Len(ack))
        BY <2>4, <3>0
      <4>2. QLen - 1 = 2 /\ 2 + 1 = 3 /\ 2 \in 1..2
        BY <1>3
      <4> QED
        BY <4>1, <4>2
    <3>2. Queue'[2] = Queue[2 + 1]
      BY <2>3, <3>1
    <3> QED
      BY <1>3, <2>3, <3>1, <3>2
  <2>6. Records[i].cksum = 255
    BY <1>3, LoadFacts DEF Sound
  <2>7. QLen' >= 2 /\ ~Good'
    BY <1>0, <2>5, <2>6 DEF Good
  <2> QED
    BY <2>2, <2>7 DEF Doomed
<1> QED
  BY <1>1, <1>2, <1>3 DEF Answered

\* A step of the Pi that may happen when nothing more goes wrong prints something.
LEMMA PiPrints ==
  ASSUME CountInv, LineInv, Spent, PiStep
  PROVE  /\ Grows(1) \/ Grows(2)
         /\ Spent' /\ i' = i
<1>0. ack' = ack /\ i' = i /\ ~PiGlitch /\ ~(faults < MaxFaults)
  BY PiNeeds, HexLoadAssumption DEF PiStep, Spent, LineInv
<1>1. ASSUME NEW n \in Int, NEW c \in Int, Reply(n, c) PROVE Grows(2) /\ Spent'
  BY <1>0, <1>1, ReplyIs DEF Spent
<1>2. CASE PiStart
  BY <1>0, <1>2, StartIsGreeting, PiNeeds DEF Spent
<1>3. CASE PiJump
  BY <1>0, <1>3, JumpIs, PiNeeds DEF Spent
<1>4. CASE PiAccept
  <2> DEFINE rec == Head(h2p).rec
  <2>1. h2p # << >> /\ Reply(rec.len, rec.cksum)
    BY <1>4 DEF PiAccept, HasLine
  <2>2. rec.len \in Int /\ rec.cksum \in Int
    BY <2>1, LineHead, RecIs
  <2> HIDE DEF rec
  <2> QED
    BY <1>0, <1>1, <2>1, <2>2
<1>5. CASE PiMisread
  <2> DEFINE rec == Head(h2p).rec
  <2>1. h2p # << >> /\ Reply(rec.len - 1, rec.cksum)
    BY <1>5 DEF PiMisread, HasLine
  <2>2. rec.len - 1 \in Int /\ rec.cksum \in Int
    BY <2>1, LineHead, RecIs
  <2> HIDE DEF rec
  <2> QED
    BY <1>0, <1>1, <2>1, <2>2
<1>6. CASE PiNak
  <2> DEFINE l == Head(h2p)
             n == IF l.fault = "drop" THEN l.rec.len - 1 ELSE l.rec.len
  <2>1. h2p # << >> /\ Reply(n, 255 - w27')
    BY <1>6 DEF PiNak, HasLine
  <2>2. n \in Int
    BY <2>1, LineHead, RecIs
  <2>3. 255 - w27' \in Int
    <3>1. w27' \in Byte
      BY LinePi DEF LineInv
    <3> QED
      BY <3>1 DEF Byte
  <2> HIDE DEF n
  <2> QED
    BY <1>0, <1>1, <2>1, <2>2, <2>3
<1>7. CASE PiShort
  <2>1. Reply(10, w27) /\ 10 \in Int /\ w27 \in Int
    BY <1>7 DEF PiShort, LineInv, Byte
  <2> QED
    BY <1>0, <1>1, <2>1
<1> QED
  BY <1>0, <1>2, <1>3, <1>4, <1>5, <1>6, <1>7 DEF PiStep

LEMMA DoomedPi ==
  ASSUME Sound, CountInv, LineInv, i \in 1..NRec, Doomed, PiStep \/ StealByte
  PROVE  Doomed'
<1>0. Spent /\ PiStep
  BY PiNeeds DEF Doomed
<1>1. (Grows(1) \/ Grows(2)) /\ Spent' /\ i' = i
  BY <1>0, PiPrints
<1>2. QLen \in Nat /\ (Grows(1) => QLen' = QLen + 1) /\ (Grows(2) => QLen' = QLen + 2)
  BY QueueType DEF Grows
<1>3. CASE QLen >= 2 /\ ~Good
  <2>1. QLen' >= 2 /\ ~Good'
    BY <1>1, <1>3, GoodGrows
  <2> QED
    BY <1>1, <2>1 DEF Doomed
<1>4. CASE QLen = 1 /\ Queue[1] # Records[i].len
  <2>1. QLen' >= 2 /\ ~Good'
    BY <1>1, <1>4, GoodGrows
  <2> QED
    BY <1>1, <2>1 DEF Doomed
<1>5. CASE h2p = << >> /\ pi = "loop"
  BY <1>0, <1>5, PiNeeds DEF PiStep
<1>6. CASE QLen = 1 /\ pi = "jump" /\ i = NRec
  <2>1. PiJump
    BY <1>0, <1>6, PiNeeds DEF PiStep
  <2>2. QLen' = 2 /\ Queue'[2] = 66
    BY <1>6, <2>1, JumpIs DEF Grows
  <2>3. Records[i].cksum = 255
    BY <1>6, LoadFacts DEF Sound
  <2>4. QLen' >= 2 /\ ~Good'
    BY <1>1, <2>2, <2>3 DEF Good
  <2> QED
    BY <1>1, <2>4 DEF Doomed
<1>7. CASE QLen = 0 /\ pi = "start"
  <2>0. Records[i].len # 82 /\ ~(Records[i].len = 13 /\ Records[i].cksum = 82)
    BY AnswersDiffer
  <2>1. PiStart
    BY <1>0, <1>7, PiNeeds DEF PiStep
  <2>2. \/ Grows(1) /\ Queue'[1] = 82
        \/ Grows(2) /\ Queue'[1] = 13 /\ Queue'[2] = 82
    BY <1>7, <2>1, StartIsGreeting
  <2>3. CASE Grows(1) /\ Queue'[1] = 82
    BY <1>1, <1>2, <1>7, <2>0, <2>3 DEF Doomed
  <2>4. CASE Grows(2) /\ Queue'[1] = 13 /\ Queue'[2] = 82
    <3>1. QLen' >= 2 /\ ~Good'
      BY <1>1, <1>2, <1>7, <2>0, <2>4 DEF Good
    <3> QED
      BY <1>1, <3>1 DEF Doomed
  <2> QED
    BY <2>2, <2>3, <2>4
<1>8. CASE QLen = 0 /\ pi = "loop" /\ Damaged
  <2>1. PiAccept \/ PiMisread \/ PiNak \/ PiShort
    BY <1>0, <1>8, PiNeeds DEF PiStep
  <2>2. Grows(2) /\ ~(Queue'[1] = Records[i].len /\ Queue'[2] = Records[i].cksum)
    BY <1>0, <1>8, <2>1, DamagedReply
  <2>3. QLen' >= 2 /\ ~Good'
    BY <1>1, <1>2, <1>8, <2>2 DEF Good
  <2> QED
    BY <1>1, <2>3 DEF Doomed
<1> QED
  BY <1>3, <1>4, <1>5, <1>6, <1>7, <1>8 DEF Doomed

\* Nothing the Pi does, and nothing that goes wrong, breaks the promise.
LEMMA PromisePi ==
  ASSUME Sound, CountInv, LineInv, PromiseInv, BootLast', PiStep \/ StealByte
  PROVE  PromiseInv'
<1>1. i' = i /\ phase' = phase /\ ack' = ack /\ verdict' = verdict
  BY PiNeeds
<1>2. phase = "ack" => i \in 1..NRec
  BY DEF CountInv, NRec
<1>3. verdict = "booted" => pi' = "kernel" /\ Right' = Cells
  <2> SUFFICES ASSUME verdict = "booted" PROVE pi' = "kernel" /\ Right' = Cells
    OBVIOUS
  <2>1. pi = "kernel" /\ Right = Cells
    BY DEF PromiseInv
  <2>2. StealByte
    BY <2>1, PiNeeds DEF PiStep
  <2> QED
    BY <2>1, <2>2, PiNeeds DEF Right
<1>4. phase \in {"ready", "flush"} => Greeting'
  BY GreetingPi DEF PromiseInv
<1>5. phase = "send" => Sending'
  BY SendingPi DEF PromiseInv
<1>6. phase = "ack" => (Underway \/ Answered \/ Doomed)'
  BY <1>2, UnderwayPi, AnsweredPi, DoomedPi DEF PromiseInv
<1>7. phase = "boot" => Booting'
  BY BootingPi DEF PromiseInv
<1> QED
  BY <1>1, <1>3, <1>4, <1>5, <1>6, <1>7 DEF PromiseInv

LEMMA PromiseInit == Init => PromiseInv
<1> SUFFICES ASSUME Init PROVE PromiseInv
  OBVIOUS
<1>1. BootLast
  BY BootsIs, LineInit DEF Init, BootLast, LineInv
<1> QED
  BY <1>1 DEF Init, PromiseInv, Flashing

\* The host gives up, or is not on the line.
LEMMA PromiseAway ==
  ASSUME Sound, CountInv, LineInv, PromiseInv, BootLast',
         phase' \in {"idle", "sweep", "reset", "console"}, ack' = << >>, UNCHANGED << pi, mem >>,
         phase' \in {"sweep", "reset"} => verdict' = "none",
         verdict' \in {"none", "failed", verdict}
  PROVE  PromiseInv'
  BY DEF PromiseInv, Flashing, Right

LEMMA PromiseReturn1 ==
  ASSUME Sound, CountInv, LineInv, PromiseInv, BootLast', Return1, UNCHANGED << pi, mem >>
  PROVE  PromiseInv'
  BY PromiseAway DEF Return1

LEMMA PromiseReady ==
  ASSUME Sound, CountInv, LineInv, PromiseInv, BootLast', DtrReset \/ WaitReady
  PROVE  PromiseInv'
<1>1. CASE DtrReset
  <2>1. Greeting'
    BY <1>1 DEF DtrReset, Greeting
  <2>2. phase = "reset" /\ phase' = "ready" /\ ack' = ack /\ verdict' = verdict
    BY <1>1 DEF DtrReset
  <2>3. ack = << >> /\ verdict = "none"
    BY <2>2 DEF PromiseInv, Flashing
  <2> QED
    BY <2>1, <2>2, <2>3 DEF PromiseInv
<1>2. CASE WaitReady
  <2>1. phase = "ready" /\ UNCHANGED << pi, x24, w27, mem, h2p, faults >>
    BY <1>2 DEF WaitReady, ReadLine, piVars
  <2>2. ack = << >> /\ verdict = "none" /\ Greeting
    BY <2>1 DEF PromiseInv, Flashing
  <2>3. CASE phase' \in {"ready", "flush"} /\ p2h # << >> /\ UNCHANGED << ack, verdict >>
    <3>1. Greeting'
      BY <2>1, <2>2, <2>3 DEF Greeting, Spent
    <3> QED
      BY <2>2, <2>3, <3>1 DEF PromiseInv
  <2>4. CASE phase' = "ready" /\ UNCHANGED << ack, verdict, p2h >>
    <3>1. Greeting'
      BY <2>1, <2>2, <2>4 DEF Greeting, Spent
    <3> QED
      BY <2>2, <2>4, <3>1 DEF PromiseInv
  <2>5. CASE Return1
    BY <2>1, <2>5, PromiseReturn1
  <2> QED
    BY <1>2, <2>1, <2>3, <2>4, <2>5 DEF WaitReady, ReadLine, hostVars
<1> QED
  BY <1>1, <1>2

LEMMA PromiseFlush ==
  ASSUME Sound, CountInv, LineInv, PromiseInv, BootLast', FlushForRecords
  PROVE  PromiseInv'
<1>1. /\ phase = "flush" /\ phase' = "send" /\ p2h' = << >>
      /\ UNCHANGED << i, ack, verdict, pi, x24, w27, mem, h2p, faults >>
  BY DEF FlushForRecords, piVars
<1>2. ack = << >> /\ verdict = "none" /\ Greeting /\ i = 1
  BY <1>1 DEF PromiseInv, Flashing, CountInv
<1>3. QLen' = 0
  BY <1>1, <1>2 DEF QLen
<1>4. CASE pi = "loop"
  <2>1. Applied(0)' /\ Before(1)'
    <3>1. x24 = 0 /\ w27 \in Residuals \union {0}
      BY <1>2, <1>4 DEF Greeting
    <3>2. Applied(0)
      BY <3>1, AppliedNone DEF Sound
    <3> QED
      BY <1>1, <3>1, <3>2 DEF Applied, Before
  <2>2. Clean(1)'
    BY <1>1, <1>3, <1>4, <2>1 DEF Clean
  <2>3. Sending'
    BY <1>1, <1>2, <2>2 DEF Sending, Greeting
  <2> QED
    BY <1>1, <1>2, <2>3 DEF PromiseInv
<1>5. CASE pi = "start"
  <2>1. Rebooting(0)'
    BY <1>1, <1>2, <1>3, <1>5 DEF Rebooting, Greeting, Spent
  <2> QED
    BY <1>1, <1>2, <2>1 DEF PromiseInv, Sending
<1> QED
  BY <1>2, <1>4, <1>5 DEF Greeting

LEMMA PromiseSend ==
  ASSUME Sound, CountInv, LineInv, PromiseInv, BootLast', SendRecord
  PROVE  PromiseInv'
<1> DEFINE r == Records[i]
<1>1. /\ phase = "send" /\ phase' = "ack" /\ ack' = << >>
      /\ UNCHANGED << i, verdict, pi, x24, w27, mem, p2h >>
  BY DEF SendRecord, piVars
<1>2. ack = << >> /\ verdict = "none" /\ Sending /\ i \in 1..NRec /\ records[i] = r
  BY <1>1 DEF PromiseInv, Flashing, CountInv, NRec
<1>3. QLen' = QLen /\ Queue' = Queue /\ UNCHANGED ack
  BY <1>1, <1>2, QueueSame
<1>4. PICK f \in {"intact"} \union (IF faults < MaxFaults THEN Faults ELSE {}) :
        h2p' = h2p \o OnTheWire(r, f) /\ faults' = IF f = "intact" THEN faults ELSE faults + 1
  BY <1>2 DEF SendRecord
<1>5. CASE Clean(i) /\ h2p = << >>
  <2>0. h2p' = OnTheWire(r, f)
    <3>1. r \in REC
      BY <1>2, LoadFacts DEF Sound
    <3>2. OnTheWire(r, f) \in Seq(LINES)
      BY <3>1, WireLines
    <3>3. ASSUME NEW q \in Seq(LINES) PROVE << >> \o q = q
      OBVIOUS
    <3> QED
      BY <1>4, <1>5, <3>2, <3>3
  <2>1. h2p' = OnTheWire(r, f) /\ pi' = "loop" /\ QLen' = 0 /\ Before(i)'
    BY <1>1, <1>3, <1>5, <2>0 DEF Clean, Before
  <2>2. CASE f = "intact"
    <3>1. h2p' = << [rec |-> Records[i], fault |-> "intact"] >>
      BY <2>1, <2>2 DEF OnTheWire
    <3>2. Applied(i - 1)'
      BY <1>1, <1>5 DEF Clean, Applied
    <3>3. Underway'
      BY <1>1, <2>1, <3>1, <3>2 DEF Underway, Clean
    <3> QED
      BY <1>1, <1>2, <3>3 DEF PromiseInv
  <2>3. CASE f # "intact"
    <3>1. Spent' /\ f \in {"drop", "colon", "garble", "short", "cut", "lost"}
      BY <1>4, <2>3, FaultSpends, HexLoadAssumption
    <3>2. CASE f = "lost"
      <4>1. h2p' = << >>
        BY <2>1, <3>2 DEF OnTheWire
      <4>2. Doomed'
        BY <2>1, <3>1, <4>1 DEF Doomed
      <4> QED
        BY <1>1, <1>2, <4>2 DEF PromiseInv
    <3>3. CASE f # "lost"
      <4> DEFINE g == IF f = "cut" THEN "drop" ELSE f
                 l == [rec |-> Records[i], fault |-> g]
      <4>1. h2p' # << >> /\ Head(h2p') = l
        <5>1. CASE f = "cut"
          BY <2>1, <5>1 DEF OnTheWire
        <5>2. CASE f # "cut"
          BY <2>1, <3>3, <5>2 DEF OnTheWire
        <5> QED
          BY <5>1, <5>2
      <4>2. Head(h2p').rec = Records[i] /\ Head(h2p').fault \in {"drop", "colon", "garble", "short"}
        BY <3>1, <3>3, <4>1
      <4>3. Damaged'
        BY <1>1, <2>1, <4>1, <4>2 DEF Damaged
      <4>4. Doomed'
        BY <2>1, <3>1, <4>3 DEF Doomed
      <4> QED
        BY <1>1, <1>2, <4>4 DEF PromiseInv
    <3> QED
      BY <3>2, <3>3
  <2> QED
    BY <2>2, <2>3
<1>6. CASE Rebooting(0)
  <2>0. Records[i].len # 82 /\ ~(Records[i].len = 13 /\ Records[i].cksum = 82)
    BY <1>2, AnswersDiffer
  <2>1. Spent /\ ~(faults < MaxFaults)
    BY <1>6, HexLoadAssumption DEF Rebooting, Spent, LineInv
  <2>2. Spent'
    BY <1>4, <2>1 DEF Spent
  <2>3. CASE pi = "start" /\ QLen = 0
    BY <1>1, <1>2, <1>3, <2>2, <2>3 DEF PromiseInv, Doomed
  <2>4. CASE QLen = 1 /\ Queue[1] = 82
    BY <1>1, <1>2, <1>3, <2>0, <2>2, <2>4 DEF PromiseInv, Doomed
  <2>5. CASE QLen = 2 /\ Queue[1] = 13 /\ Queue[2] = 82
    <3>1. QLen' >= 2 /\ ~Good'
      BY <1>1, <1>3, <2>0, <2>5 DEF Good
    <3> QED
      BY <1>1, <1>2, <2>2, <3>1 DEF PromiseInv, Doomed
  <2> QED
    BY <1>6, <2>3, <2>4, <2>5 DEF Rebooting, Greets
<1> QED
  BY <1>2, <1>5, <1>6 DEF Sending

\* A byte of the answer is read: the queue is the same.
LEMMA PromiseByte ==
  ASSUME Sound, CountInv, LineInv, PromiseInv, BootLast', ReadAck,
         phase' = "ack", ack' = Append(ack, Head(p2h).byte), UNCHANGED << i, verdict >>
  PROVE  PromiseInv'
<1>1. phase = "ack" /\ p2h # << >> /\ p2h' = Tail(p2h) /\ UNCHANGED << pi, x24, w27, mem, h2p, faults >>
  BY DEF ReadAck, piVars
<1>2. verdict = "none" /\ (Answered \/ Doomed) /\ QLen \in Nat /\ QLen # 0
  BY <1>1, QueueType DEF PromiseInv, Flashing, Underway, Clean
<1>3. Grows(0)
  BY <1>1, QueueRead
<1>4. QLen' = QLen /\ \A k \in 1..QLen : Queue'[k] = Queue[k]
  BY <1>2, <1>3 DEF Grows
<1>5. QLen = 1 => Queue'[1] = Queue[1]
  BY <1>4
<1>6. QLen >= 2 => (Good' <=> Good)
  BY <1>2, <1>4 DEF Good
<1>7. CASE Answered
  <2>1. Good' /\ QLen >= 2
    BY <1>6, <1>7 DEF Answered, Good
  <2>2. QLen >= 3 => Queue'[3] = Queue[3]
    BY <1>2, <1>4
  <2>3. QLen >= 4 => Queue'[4] = Queue[4]
    BY <1>2, <1>4
  <2>4. Greets(2) => Greets(2)'
    BY <1>4, <2>2, <2>3 DEF Greets
  <2>5. Rebooting(2) => Rebooting(2)'
    BY <1>1, <1>4, <2>4 DEF Rebooting, Spent
  <2>6. Applied(i) => Applied(i)'
    BY <1>1 DEF Applied
  <2>7. Answered'
    BY <1>1, <1>4, <1>7, <2>1, <2>2, <2>5, <2>6 DEF Answered
  <2> QED
    BY <1>2, <2>7 DEF PromiseInv
<1>8. CASE Doomed
  <2>1. Doomed'
    BY <1>1, <1>2, <1>4, <1>5, <1>6, <1>8 DEF Doomed, Spent
  <2> QED
    BY <1>2, <2>1 DEF PromiseInv
<1> QED
  BY <1>2, <1>7, <1>8

\* The answer is the one for the record: what follows it is a greeting, BOOT or nothing.
LEMMA PromiseNext ==
  ASSUME Sound, CountInv, LineInv, PromiseInv, BootLast', ReadAck, Len(ack) = 1, Good,
         ack' = << >>, i' = i + 1, phase' = (IF i = NRec THEN "boot" ELSE "send"), UNCHANGED verdict
  PROVE  PromiseInv'
<1>1. phase = "ack" /\ p2h # << >> /\ p2h' = Tail(p2h) /\ UNCHANGED << pi, x24, w27, mem, h2p, faults >>
  BY DEF ReadAck, piVars
<1>2. verdict = "none" /\ i \in 1..NRec /\ NRec \in Nat
  BY <1>1, LoadFacts DEF PromiseInv, Flashing, CountInv, NRec, Sound
<1>3. /\ QLen >= 2 /\ QLen' = QLen - 2 /\ QLen \in Nat
      /\ \A k \in 1..(QLen - 2) : Queue'[k] = Queue[k + 2]
  BY <1>1, QueueJudge, QueueType
<1>4. Answered
  BY <1>1, <1>3 DEF PromiseInv, Underway, Clean, Doomed
<1>5. h2p' = << >>
  BY <1>1, <1>4 DEF Answered
<1>6. CASE phase' = "boot"
  <2>1. i = NRec
    BY <1>6
  <2>2. pi \in {"jump", "kernel"} => Right = Cells
    <3>1. pi \in {"jump", "kernel"} => Applied(NRec)
      BY <1>4, <2>1 DEF Answered, Rebooting
    <3> QED
      BY <3>1, AppliedAll DEF Sound
  <2>3. Booting'
    BY <1>1, <1>5, <2>2 DEF Booting, Right
  <2> QED
    BY <1>2, <1>6, <2>3 DEF PromiseInv
<1>7. CASE phase' = "send"
  <2>0. i # NRec
    BY <1>7
  <2>1. CASE QLen = 2 /\ Applied(i) /\ pi = "loop" /\ w27 = Records[i].cksum
    <3>1. i' - 1 = i /\ i' # 1
      BY <1>2
    <3>2. x24' = Bases[i' - 1] /\ \A j \in 1..(i' - 1) : \A a \in Span(j) : mem'[a] = Want[a]
      BY <1>1, <2>1, <3>1 DEF Applied
    <3>3. w27' = Records[i' - 1].cksum
      BY <1>1, <2>1, <3>1
    <3>4. Applied(i - 1)' /\ Before(i)'
      BY <3>1, <3>2, <3>3 DEF Applied, Before
    <3>5. Clean(i)' /\ h2p' = << >>
      BY <1>1, <1>3, <1>5, <2>1, <3>4 DEF Clean
    <3> QED
      BY <1>2, <1>7, <3>5 DEF PromiseInv, Sending
  <2>2. CASE Rebooting(2)
    <3>1. Rebooting(0)'
      <4>1. CASE pi = "start" /\ QLen = 2
        BY <1>1, <1>3, <1>5, <2>2, <4>1 DEF Rebooting, Spent
      <4>2. CASE pi = "loop" /\ QLen = 3 /\ Queue[3] = 82
        <5>1. QLen' = 1 /\ Queue'[1] = 82
          BY <1>3, <4>2
        <5> QED
          BY <1>1, <1>5, <2>2, <4>2, <5>1 DEF Rebooting, Spent, Greets
      <4>3. CASE pi = "loop" /\ QLen = 4 /\ Queue[3] = 13 /\ Queue[4] = 82
        <5>1. QLen' = 2 /\ Queue'[1] = 13 /\ Queue'[2] = 82
          BY <1>3, <4>3
        <5> QED
          BY <1>1, <1>5, <2>2, <4>3, <5>1 DEF Rebooting, Spent, Greets
      <4> QED
        BY <2>2, <4>1, <4>2, <4>3 DEF Rebooting, Greets
    <3> QED
      BY <1>2, <1>7, <3>1 DEF PromiseInv, Sending
  <2> QED
    BY <1>4, <2>0, <2>1, <2>2 DEF Answered
<1> QED
  BY <1>6, <1>7

LEMMA PromiseReadAck ==
  ASSUME Sound, CountInv, LineInv, PromiseInv, BootLast', ReadAck
  PROVE  PromiseInv'
<1> DEFINE a == Append(ack, Head(p2h).byte)
<1>1. /\ phase = "ack" /\ p2h # << >> /\ UNCHANGED << pi, mem >>
      /\ records[i] = Records[i] /\ Len(records) = NRec
  BY DEF ReadAck, piVars, CountInv, NRec
<1>2. Len(ack) \in {0, 1} /\ ack \in Seq(Int) /\ Len(a) = Len(ack) + 1
  <2>1. Len(ack) \in {0, 1} /\ ack \in Seq(Int)
    BY QueueType DEF CountInv
  <2>2. ASSUME NEW b PROVE Len(Append(ack, b)) = Len(ack) + 1
    BY <2>1
  <2> QED
    BY <2>1, <2>2
<1>3. Len(ack) = 1 => (AckGood(a, Records[i]) <=> Good)
  <2> SUFFICES ASSUME Len(ack) = 1 PROVE AckGood(a, Records[i]) <=> Good
    OBVIOUS
  <2>1. a[1] = Queue[1] /\ a[2] = Queue[2]
    BY <1>1, QueueFirst
  <2>2. QLen >= 2
    <3>1. Len(p2h) \in Nat /\ Len(p2h) # 0 /\ QLen = 1 + Len(p2h)
      BY <1>1, QueueType DEF QLen
    <3> QED
      BY <3>1
  <2> QED
    BY <2>1, <2>2 DEF AckGood, Good
<1>4. \/ Len(a) < 2 /\ ack' = a /\ UNCHANGED << phase, i, verdict >>
      \/ /\ Len(a) = 2 /\ AckGood(a, records[i]) /\ ack' = << >> /\ i' = i + 1
         /\ phase' = (IF i = Len(records) THEN "boot" ELSE "send") /\ UNCHANGED verdict
      \/ Return1
  BY DEF ReadAck
<1> HIDE DEF a
<1>5. CASE ack' = a /\ UNCHANGED << phase, i, verdict >>
  BY <1>1, <1>5, PromiseByte DEF a
<1>6. CASE /\ Len(a) = 2 /\ AckGood(a, records[i]) /\ ack' = << >> /\ i' = i + 1
           /\ phase' = (IF i = Len(records) THEN "boot" ELSE "send") /\ UNCHANGED verdict
  <2>1. Len(ack) = 1
    <3>1. ASSUME NEW n \in {0, 1}, n + 1 = 2 PROVE n = 1
      BY <3>1
    <3> QED
      BY <1>2, <1>6, <3>1, Zenon
  <2>2. Good
    BY <1>1, <1>3, <1>6, <2>1
  <2> QED
    BY <1>1, <1>6, <2>1, <2>2, PromiseNext
<1>7. CASE Return1
  BY <1>1, <1>7, PromiseReturn1
<1> QED
  BY <1>4, <1>5, <1>6, <1>7

\* BOOT is read: the Pi is in the kernel, and had taken every record.
LEMMA PromiseWaitBoot ==
  ASSUME Sound, CountInv, LineInv, PromiseInv, BootLast', WaitBoot
  PROVE  /\ PromiseInv'
         /\ verdict' = "booted" => verdict = "none" /\ Right = Cells
<1>1. phase = "boot" /\ UNCHANGED << pi, mem, h2p >>
  BY DEF WaitBoot, ReadLine, piVars
<1>2. ack = << >> /\ verdict = "none" /\ Booting
  BY <1>1 DEF PromiseInv, Flashing
<1>3. CASE /\ p2h # << >> /\ Head(p2h).line = "BOOT"
           /\ phase' = "console" /\ verdict' = "booted" /\ UNCHANGED ack
  <2>1. Boots(p2h)
    BY <1>3, BootsIs DEF LineInv
  <2>2. pi = "kernel" /\ Right = Cells
    BY <1>2, <2>1 DEF PromiseInv, BootLast, Booting
  <2> QED
    BY <1>1, <1>2, <1>3, <2>2 DEF PromiseInv, Flashing, Right
<1>4. CASE UNCHANGED << phase, ack, verdict >>
  <2>1. Booting'
    BY <1>1, <1>2 DEF Booting, Right
  <2> QED
    BY <1>1, <1>2, <1>4, <2>1 DEF PromiseInv
<1>5. CASE Return1
  <2>1. verdict' # "booted"
    BY <1>5 DEF Return1
  <2> QED
    BY <1>1, <1>5, <2>1, PromiseReturn1
<1> QED
  BY <1>3, <1>4, <1>5 DEF WaitBoot, ReadLine, hostVars

LEMMA PromiseStep ==
  ASSUME Sound, CountInv, LineInv, PromiseInv, [Next]_vars, ~PiSlip
  PROVE  PromiseInv'
<1>0. BootLast'
  BY BootLastStep DEF PromiseInv
<1>1. CASE PiStep \/ StealByte
  BY <1>0, <1>1, PromisePi
<1>2. CASE DtrReset \/ WaitReady
  BY <1>0, <1>2, PromiseReady
<1>3. CASE FlushForRecords
  BY <1>0, <1>3, PromiseFlush
<1>4. CASE SendRecord
  BY <1>0, <1>4, PromiseSend
<1>5. CASE ReadAck
  BY <1>0, <1>5, PromiseReadAck
<1>6. CASE WaitBoot
  BY <1>0, <1>6, PromiseWaitBoot
<1>7. CASE AckTimeout \/ Abort
  <2>1. Return1 /\ UNCHANGED << pi, mem >>
    BY <1>7 DEF AckTimeout, Abort, piVars
  <2> QED
    BY <1>0, <2>1, PromiseReturn1
<1>8. CASE Start \/ OpenSerial \/ ConsoleEnds \/ KillStaleCheck \/ KillStaleKill \/ ProcChange
  <2>1. phase \in {"idle", "console", "sweep"} /\ UNCHANGED << pi, mem, ack >>
    BY <1>8 DEF Start, OpenSerial, ConsoleEnds, KillStaleCheck, KillStaleKill, ProcChange,
       piVars, hostVars
  <2>2. ack' = << >> /\ (phase = "sweep" => verdict = "none")
    BY <2>1 DEF PromiseInv
  <2>3. phase' \in {"idle", "sweep", "reset"} /\ verdict' \in {"none", "failed", verdict}
    BY <1>8 DEF Start, OpenSerial, ConsoleEnds, KillStaleCheck, KillStaleKill, ProcChange, hostVars
  <2>4. phase' \in {"sweep", "reset"} => verdict' = "none"
    BY <1>8, <2>2 DEF Start, OpenSerial, ConsoleEnds, KillStaleCheck, KillStaleKill, ProcChange, hostVars
  <2> QED
    BY <1>0, <2>1, <2>2, <2>3, <2>4, PromiseAway
<1>9. CASE UNCHANGED vars
  <2>1. UNCHANGED << phase, i, ack, verdict, pi, x24, w27, mem, h2p, p2h, faults >>
    BY <1>9 DEF vars, hostVars, piVars
  <2>2. QLen' = QLen /\ Queue' = Queue /\ Right' = Right
    BY <2>1, QueueSame DEF Right
  <2>3. (Greeting' <=> Greeting) /\ (Booting' <=> Booting) /\ (Spent' <=> Spent) /\ (Good' <=> Good)
    BY <2>1, <2>2 DEF Greeting, Booting, Spent, Good
  <2>4. (Applied(i)' <=> Applied(i)) /\ (Applied(i - 1)' <=> Applied(i - 1)) /\ (Before(i)' <=> Before(i))
    BY <2>1 DEF Applied, Before
  <2>5. (Clean(i)' <=> Clean(i)) /\ (Damaged' <=> Damaged)
    BY <2>1, <2>2, <2>4 DEF Clean, Damaged
  <2>6. (Rebooting(0)' <=> Rebooting(0)) /\ (Rebooting(2)' <=> Rebooting(2))
    BY <2>1, <2>2, <2>3 DEF Rebooting, Greets
  <2>7. (Sending' <=> Sending) /\ (Underway' <=> Underway)
    BY <2>1, <2>5, <2>6 DEF Sending, Underway
  <2>8. (Answered' <=> Answered) /\ (Doomed' <=> Doomed)
    BY <2>1, <2>2, <2>3, <2>4, <2>5, <2>6 DEF Answered, Doomed
  <2> QED
    BY <1>0, <2>1, <2>2, <2>3, <2>7, <2>8 DEF PromiseInv
<1> QED
  BY <1>1, <1>2, <1>3, <1>4, <1>5, <1>6, <1>7, <1>8, <1>9 DEF Next, HostStep, PiStep

-----------------------------------------------------------------------------
(* An attempt in which a garbled line was taken for a record. *)

\* What is left of the promise then.
LooseInv ==
  /\ BootLast
  /\ phase # "ack" => ack = << >>
  /\ phase \in Flashing \union {"sweep"} => verdict = "none"
  /\ verdict = "booted" => pi = "kernel"

HeldInv == LooseInv /\ SlipInv /\ (slipped = FALSE => PromiseInv)

LEMMA LooseStep ==
  ASSUME CountInv, LineInv, LooseInv, [Next]_vars
  PROVE  LooseInv'
<1>0. BootLast'
  BY BootLastStep DEF LooseInv
<1>1. CASE PiStep \/ PiSlip \/ StealByte
  <2>1. UNCHANGED << phase, ack, verdict >>
    BY <1>1, PiElsewhere DEF hostVars
  <2>2. ASSUME verdict = "booted" PROVE pi' = "kernel"
    <3>1. pi = "kernel"
      BY <2>2 DEF LooseInv
    <3>2. ~PiSlip
      BY <3>1, SlipIs
    <3>3. StealByte
      BY <1>1, <3>1, <3>2, PiNeeds DEF PiStep
    <3> QED
      BY <3>1, <3>3, PiNeeds
  <2> QED
    BY <1>0, <2>1, <2>2 DEF LooseInv
<1>2. CASE DtrReset
  BY <1>0, <1>2 DEF DtrReset, LooseInv, Flashing
<1>3. CASE WaitBoot
  <2>1. phase = "boot" /\ UNCHANGED pi
    BY <1>3 DEF WaitBoot, ReadLine, piVars
  <2>2. CASE p2h # << >> /\ Head(p2h).line = "BOOT" /\ phase' = "console" /\ verdict' = "booted" /\ UNCHANGED ack
    <3>1. Boots(p2h)
      BY <2>2, BootsIs DEF LineInv
    <3>2. pi = "kernel"
      BY <3>1 DEF LooseInv, BootLast
    <3> QED
      BY <1>0, <2>1, <2>2, <3>2 DEF LooseInv, Flashing
  <2>3. CASE UNCHANGED << phase, ack, verdict >>
    BY <1>0, <2>1, <2>3 DEF LooseInv
  <2>4. CASE Return1
    BY <1>0, <2>1, <2>4 DEF LooseInv, Return1, Flashing
  <2> QED
    BY <1>3, <2>2, <2>3, <2>4 DEF WaitBoot, ReadLine, hostVars
<1>4. CASE WaitReady
  <2>1. phase = "ready" /\ UNCHANGED pi
    BY <1>4 DEF WaitReady, ReadLine, piVars
  <2>2. CASE phase' \in {"ready", "flush"} /\ UNCHANGED << ack, verdict >>
    BY <1>0, <2>1, <2>2 DEF LooseInv, Flashing
  <2>3. CASE Return1
    BY <1>0, <2>1, <2>3 DEF LooseInv, Return1, Flashing
  <2> QED
    BY <1>4, <2>1, <2>2, <2>3 DEF WaitReady, ReadLine, hostVars
<1>5. CASE ReadAck
  <2>1. phase = "ack" /\ UNCHANGED pi
    BY <1>5 DEF ReadAck, piVars
  <2>2. \/ UNCHANGED << phase, verdict >>
        \/ phase' \in {"boot", "send"} /\ ack' = << >> /\ UNCHANGED verdict
        \/ Return1
    BY <1>5 DEF ReadAck
  <2> QED
    BY <1>0, <2>1, <2>2 DEF LooseInv, Return1, Flashing
<1>6. CASE AckTimeout \/ Abort
  BY <1>0, <1>6 DEF AckTimeout, Abort, Return1, LooseInv, Flashing, piVars
<1>7. CASE FlushForRecords \/ SendRecord
  BY <1>0, <1>7 DEF FlushForRecords, SendRecord, LooseInv, Flashing, piVars
<1>8. CASE Start \/ OpenSerial \/ ConsoleEnds \/ KillStaleCheck \/ KillStaleKill \/ ProcChange
  BY <1>0, <1>8 DEF Start, OpenSerial, ConsoleEnds, KillStaleCheck, KillStaleKill, ProcChange,
     LooseInv, Flashing, piVars, hostVars
<1>9. CASE UNCHANGED vars
  BY <1>0, <1>9 DEF LooseInv, vars, hostVars, piVars
<1> QED
  BY <1>1, <1>2, <1>3, <1>4, <1>5, <1>6, <1>7, <1>8, <1>9 DEF Next, HostStep, PiStep

\* A reset starts the promise anew.
LEMMA PromiseReset ==
  ASSUME CountInv, LineInv, LooseInv, BootLast', DtrReset
  PROVE  PromiseInv'
<1>1. Greeting'
  BY DEF DtrReset, Greeting
<1>2. phase = "reset" /\ phase' = "ready" /\ ack' = ack /\ verdict' = verdict
  BY DEF DtrReset
<1>3. ack = << >> /\ verdict = "none"
  BY <1>2 DEF LooseInv, Flashing
<1> QED
  BY <1>1, <1>2, <1>3 DEF PromiseInv

LEMMA HeldInit == Init => HeldInv
<1> SUFFICES ASSUME Init PROVE HeldInv
  OBVIOUS
<1>1. PromiseInv
  BY PromiseInit
<1>2. LooseInv
  BY <1>1 DEF PromiseInv, LooseInv
<1>3. SlipInv
  BY DEF Init, SlipInv
<1> QED
  BY <1>1, <1>2, <1>3 DEF HeldInv

LEMMA HeldStep ==
  ASSUME Sound, CountInv, LineInv, HeldInv, [Next]_vars
  PROVE  HeldInv'
<1>1. LooseInv' /\ SlipInv'
  BY LooseStep, SlipKept DEF HeldInv
<1>2. CASE DtrReset
  BY <1>1, <1>2, PromiseReset DEF HeldInv, LooseInv
<1>3. CASE PiSlip
  BY <1>1, <1>3, SlipStep DEF HeldInv
<1>4. CASE ~DtrReset /\ ~PiSlip
  <2>1. slipped' = slipped
    BY <1>4, SlipStep
  <2>2. slipped = FALSE => PromiseInv'
    BY <1>4, PromiseStep DEF HeldInv
  <2> QED
    BY <1>1, <2>1, <2>2 DEF HeldInv
<1> QED
  BY <1>2, <1>3, <1>4

-----------------------------------------------------------------------------
(* Every step is a step of Flash, or none. *)

LEMMA FlashInit == Init => Promise!Init
  BY DEF Init, Promise!Init, Right, Seen

\* Without slips.
LEMMA FlashCareful ==
  ASSUME Sound, CountInv, LineInv, PromiseInv, [Next]_vars, ~PiSlip,
         Seen = Right, Seen' = Right'
  PROVE  [Promise!Next]_<< verdict, Seen >>
<1> USE DEF Promise!Next, Promise!Begin, Promise!Load, Promise!Fail, Promise!Succeed
<1>1. Right' \in SUBSET Cells /\ (mem' = mem => Right' = Right)
  BY DEF Right
<1>2. CASE PiAccept \/ PiMisread
  <2>1. pi = "loop" /\ verdict' = verdict
    BY <1>2, PiNeeds DEF PiStep
  <2>2. verdict # "booted"
    BY <2>1 DEF PromiseInv
  <2> QED
    BY <1>1, <2>1, <2>2
<1>3. CASE PiStart \/ PiNak \/ PiShort \/ PiJump \/ PiGlitch \/ StealByte
  <2>1. mem' = mem /\ verdict' = verdict
    BY <1>3, PiNeeds DEF PiStep, PiStart, PiNak, PiShort, PiJump, PiGlitch, StealByte, piVars
  <2> QED
    BY <1>1, <2>1
<1>4. CASE Start
  BY <1>1, <1>4 DEF Start, piVars
<1>5. CASE WaitBoot
  <2>1. BootLast'
    BY BootLastStep DEF PromiseInv
  <2>2. verdict' = "booted" => verdict = "none" /\ Right = Cells
    BY <1>5, <2>1, PromiseWaitBoot
  <2>3. verdict = "none" /\ mem' = mem /\ verdict' \in {"none", "failed", "booted"}
    BY <1>5 DEF WaitBoot, ReadLine, Return1, hostVars, piVars, PromiseInv, Flashing
  <2> QED
    BY <1>1, <2>2, <2>3
<1>6. CASE DtrReset \/ WaitReady \/ FlushForRecords \/ SendRecord \/ ReadAck \/ AckTimeout \/ Abort
           \/ OpenSerial
  <2>1. mem' = mem /\ verdict' \in {verdict, "failed"} /\ phase \in Flashing \union {"sweep"}
    BY <1>6 DEF DtrReset, WaitReady, FlushForRecords, SendRecord, ReadAck, AckTimeout, Abort,
       OpenSerial, ReadLine, Return1, hostVars, piVars, Flashing
  <2>2. verdict = "none"
    BY <2>1 DEF PromiseInv
  <2> QED
    BY <1>1, <2>1, <2>2
<1>7. CASE ConsoleEnds \/ KillStaleCheck \/ KillStaleKill \/ ProcChange \/ UNCHANGED vars
  <2>1. mem' = mem /\ verdict' = verdict
    BY <1>7 DEF ConsoleEnds, KillStaleCheck, KillStaleKill, ProcChange, vars, hostVars, piVars
  <2> QED
    BY <1>1, <2>1
<1> QED
  BY <1>2, <1>3, <1>4, <1>5, <1>6, <1>7 DEF Next, HostStep

LEMMA VerdictStep ==
  ASSUME CountInv, LineInv, LooseInv, [Next]_vars
  PROVE  \/ verdict' = verdict \/ verdict' = "none"
         \/ verdict = "none" /\ verdict' \in {"failed", "booted"}
<1>1. CASE PiStep \/ PiSlip \/ StealByte
  BY <1>1, PiElsewhere DEF hostVars
<1>2. CASE \/ DtrReset \/ WaitReady \/ FlushForRecords \/ SendRecord \/ ReadAck \/ AckTimeout \/ Abort
           \/ OpenSerial \/ WaitBoot
  <2>1. verdict' \in {verdict, "failed", "booted"} /\ phase \in Flashing \union {"sweep"}
    BY <1>2 DEF DtrReset, WaitReady, FlushForRecords, SendRecord, ReadAck, AckTimeout, Abort,
       OpenSerial, WaitBoot, ReadLine, Return1, hostVars, Flashing
  <2>2. verdict = "none"
    BY <2>1 DEF LooseInv
  <2> QED
    BY <2>1, <2>2
<1>3. CASE Start \/ ConsoleEnds \/ KillStaleCheck \/ KillStaleKill \/ ProcChange \/ UNCHANGED vars
  BY <1>3 DEF Start, ConsoleEnds, KillStaleCheck, KillStaleKill, ProcChange, vars, hostVars
<1> QED
  BY <1>1, <1>2, <1>3 DEF Next, HostStep, PiStep

LEMMA FlashStep ==
  ASSUME Sound, CountInv, LineInv, HeldInv, [Next]_vars
  PROVE  [Promise!Next]_<< verdict, Seen >>
<1>0. LooseInv /\ slipped \in BOOLEAN /\ (slipped = FALSE => PromiseInv)
  BY DEF HeldInv, SlipInv
<1>1. Seen' \in SUBSET Cells
  BY DEF Seen, Right
<1>2. CASE PiSlip
  <2>1. verdict' = verdict /\ verdict # "booted"
    BY <1>0, <1>2, PiElsewhere, SlipIs DEF hostVars, LooseInv
  <2> QED
    BY <1>1, <2>1 DEF Promise!Next, Promise!Load
<1>3. CASE DtrReset
  <2>1. verdict' = verdict /\ verdict # "booted"
    BY <1>0, <1>3 DEF DtrReset, LooseInv, Flashing
  <2> QED
    BY <1>1, <2>1 DEF Promise!Next, Promise!Load
<1>4. CASE ~PiSlip /\ ~DtrReset /\ slipped = FALSE
  <2>1. slipped' = FALSE
    BY <1>4, SlipStep
  <2>2. Seen = Right /\ Seen' = Right'
    BY <1>4, <2>1 DEF Seen
  <2> QED
    BY <1>0, <1>4, <2>2, FlashCareful
<1>5. CASE ~PiSlip /\ ~DtrReset /\ slipped = TRUE
  <2>1. slipped' = TRUE
    BY <1>5, SlipStep
  <2>2. Seen = Cells /\ Seen' = Cells
    BY <1>5, <2>1 DEF Seen
  <2> QED
    BY <1>0, <2>2, VerdictStep DEF Promise!Next, Promise!Begin, Promise!Fail, Promise!Succeed
<1> QED
  BY <1>0, <1>2, <1>3, <1>4, <1>5

\* FlashedWhole, and more: what is said of a flash that was reported is true
\* of it, whatever is lost, damaged, stolen or reset once on the way, unless a
\* garbled line summed to zero (slipped).  For every list of payloads, chunk
\* size and process tree: the protocol of hw_send.py and the chainloader
\* implements Flash.
THEOREM Implements == Sound => (Spec => KeepsPromise)
<1>0. SUFFICES ASSUME Sound PROVE Spec => KeepsPromise
  OBVIOUS
<1>1. Init => CountInv /\ LineInv /\ HeldInv
  BY CountInit, LineInit, HeldInit
<1>2. (CountInv /\ LineInv /\ HeldInv) /\ [Next]_vars => (CountInv /\ LineInv /\ HeldInv)'
  BY <1>0, CountStep, LineStep, HeldStep
<1>3. (CountInv /\ LineInv /\ HeldInv) /\ [Next]_vars => [Promise!Next]_<< verdict, Seen >>
  BY <1>0, FlashStep
<1>4. Init => Promise!Init
  BY FlashInit
<1> QED
  BY <1>1, <1>2, <1>3, <1>4, PTL DEF Spec, KeepsPromise, Promise!Spec
=============================================================================
