-------------------------- MODULE BuildGatesProofs --------------------------
(***************************************************************************)
(* The build's gates for every file, table and site: a network.conf that   *)
(* the linter accepts is one the Pi boots with, a transition table that    *)
(* the tools accept is the one its rows describe, a packaged image serves  *)
(* its site, and a tcp_fsa_table the vector suite passes is the source's   *)
(* as far as a vector can tell, however many edits, states, events and     *)
(* files there are.                                                        *)
(***************************************************************************)
EXTENDS BuildGates, FiniteSetTheorems, FunctionTheorems, WellFoundedInduction, TLAPS

-----------------------------------------------------------------------------
(* network.conf. *)

Rcs == {"ok", "E_MAGIC", "E_LINE", "E_KEY", "E_DUP", "E_VALUE", "E_REQ"}

Values == {Absent, "a", "b", "yes", "no", "bad", "lenient"}

LINTER == [at : {"magic", "body", "end"}, error : BOOLEAN, config : [ALL_KEYS -> Values]]
PARSER == [at : {"magic", "body", "end"}, rc : Rcs, seen : SUBSET ALL_KEYS,
           config : [ALL_KEYS -> Values]]

\* Linter m and parser p are at the same point of the file and have taken
\* the same of it.
Agree(m, p) ==
    /\ p.rc = "ok" /\ p.at = m.at /\ p.config = m.config
    /\ p.seen = {k \in ALL_KEYS : m.config[k] # Absent}

\* The parser p has all that the linter m has taken, and needs no more.
Took(m, p) ==
    /\ p.rc = "ok" /\ p.config = m.config
    /\ p.at # "magic" /\ RequiredSeen(p)

\* After a quirk, or after the linter's first error, nothing is claimed.
ConfInv ==
    /\ linter \in LINTER /\ parser \in PARSER /\ held \in Lines \cup {NoLine}
    /\ linter.error => linter.at = "end"
    /\ held # NoLine => quirks # {}
    /\ quirks = {} /\ ~linter.error /\ ~ended => Agree(linter, parser)
    /\ quirks = {} /\ ~linter.error /\ ended => Took(linter, parser)

\* Types of the linter's and the parser's steps.
LEMMA ErrorTyped ==
    ASSUME NEW m \in LINTER
    PROVE  /\ LintError(m) \in LINTER
           /\ LintError(m).error = TRUE /\ LintError(m).at = "end"
  BY DEF LintError, LINTER, NoConf, Values

LEMMA FailsTyped ==
    ASSUME NEW p \in PARSER, NEW rc \in Rcs
    PROVE  PiFails(p, rc) \in PARSER
  BY DEF PiFails, PARSER, NoConf, Values, Rcs

LEMMA LineTyped ==
    ASSUME NEW l \in Lines
    PROVE  /\ l.kind \in {"blank", "magic", "noeq", "unknown", "kv"}
           /\ l.kind = "kv" => l.key \in ALL_KEYS /\ l.value \in Values \ {Absent}
           /\ l.kind # "kv" => l.value # "lenient"
  BY DEF Lines, Values, Absent, Good

LEMMA LinesHave ==
    /\ Bare("noeq") \in Lines /\ Bare("unknown") \in Lines /\ Bare("blank") \in Lines
    /\ \A f \in Lines : f.kind = "kv" => [f EXCEPT !.value = "bad"] \in Lines
<1>1. Bare("noeq") \in Lines /\ Bare("unknown") \in Lines /\ Bare("blank") \in Lines
  BY DEF Bare, Lines
<1>2. ASSUME NEW f \in Lines, f.kind = "kv" PROVE [f EXCEPT !.value = "bad"] \in Lines
  <2>1. PICK k \in ALL_KEYS :
          f \in [kind : {"kv"}, key : {k}, value : Good(k) \cup {"bad", "lenient"}]
    BY <1>2 DEF Lines
  <2>2. [f EXCEPT !.value = "bad"]
          \in [kind : {"kv"}, key : {k}, value : Good(k) \cup {"bad", "lenient"}]
    BY <2>1
  <2> QED
    BY <2>2 DEF Lines
<1> QED
  BY <1>1, <1>2

\* The two tests for the required keys.
LEMMA RequiredAgree ==
    ASSUME NEW m \in LINTER, NEW p \in PARSER, Agree(m, p)
    PROVE  RequiredSeen(p) <=> _required_collected(m.config)
  BY DEF Agree, RequiredSeen, _required_collected, Required, DHCP_RELAXED_REQUIRED,
         REQUIRED_KEYS, ALL_KEYS

LEMMA AtEnd ==
    ASSUME NEW m \in LINTER, NEW p \in PARSER
    PROVE  /\ [m EXCEPT !.at = "end"] \in LINTER /\ [p EXCEPT !.at = "end"] \in PARSER
           /\ [m EXCEPT !.at = "body"] \in LINTER /\ [p EXCEPT !.at = "body"] \in PARSER
           /\ [m EXCEPT !.at = "end"].error = m.error
           /\ [m EXCEPT !.at = "body"].error = m.error
           /\ Agree(m, p) => /\ Agree([m EXCEPT !.at = "end"], [p EXCEPT !.at = "end"])
                             /\ Agree([m EXCEPT !.at = "body"], [p EXCEPT !.at = "body"])
  BY DEF LINTER, PARSER, Agree

\* A key is stored by both.
LEMMA Stores ==
    ASSUME NEW m \in LINTER, NEW p \in PARSER, NEW k \in ALL_KEYS,
           NEW v \in Values \ {Absent}
    PROVE  /\ [m EXCEPT !.config[k] = v] \in LINTER
           /\ [m EXCEPT !.config[k] = v].error = m.error
           /\ [m EXCEPT !.config[k] = v].at = m.at
           /\ [p EXCEPT !.seen = @ \cup {k}, !.config[k] = v] \in PARSER
           /\ Agree(m, p) => Agree([m EXCEPT !.config[k] = v],
                                   [p EXCEPT !.seen = @ \cup {k}, !.config[k] = v])
<1> DEFINE c == [m.config EXCEPT ![k] = v]
           d == [p.config EXCEPT ![k] = v]
           s == p.seen \cup {k}
<1>1. c \in [ALL_KEYS -> Values] /\ d \in [ALL_KEYS -> Values] /\ s \in SUBSET ALL_KEYS
  BY DEF LINTER, PARSER
<1>2. /\ [m EXCEPT !.config[k] = v] = [m EXCEPT !.config = c]
      /\ [p EXCEPT !.seen = @ \cup {k}, !.config[k] = v] = [p EXCEPT !.seen = s, !.config = d]
  BY DEF LINTER, PARSER
<1>3. Agree(m, p) => d = c /\ s = {j \in ALL_KEYS : c[j] # Absent}
  BY DEF Agree, LINTER, PARSER
<1> HIDE DEF c, d, s
<1>4. /\ [m EXCEPT !.config = c] \in LINTER
      /\ [m EXCEPT !.config = c].error = m.error /\ [m EXCEPT !.config = c].at = m.at
      /\ [m EXCEPT !.config = c].config = c
  BY <1>1 DEF LINTER
<1>5. /\ [p EXCEPT !.seen = s, !.config = d] \in PARSER
      /\ [p EXCEPT !.seen = s, !.config = d].rc = p.rc
      /\ [p EXCEPT !.seen = s, !.config = d].at = p.at
      /\ [p EXCEPT !.seen = s, !.config = d].seen = s
      /\ [p EXCEPT !.seen = s, !.config = d].config = d
  BY <1>1 DEF PARSER
<1>6. Agree(m, p) => Agree([m EXCEPT !.config = c], [p EXCEPT !.seen = s, !.config = d])
  BY <1>3, <1>4, <1>5 DEF Agree
<1> QED
  BY <1>2, <1>4, <1>5, <1>6

\* What a line does to the linter: nothing, an error, the start or the end
\* of the body, or a value.
LEMMA LintLineIs ==
    ASSUME linter \in LINTER, linter.error => linter.at = "end", NEW l \in Lines
    PROVE  /\ LintLine(l) \in LINTER
           /\ LintLine(l).error => LintLine(l).at = "end"
<1>1. /\ LintError(linter) \in LINTER
      /\ LintError(linter).error = TRUE /\ LintError(linter).at = "end"
  BY ErrorTyped
<1>2. /\ [linter EXCEPT !.at = "body"] \in LINTER
      /\ [linter EXCEPT !.at = "body"].error = linter.error
      /\ [linter EXCEPT !.at = "end"] \in LINTER
      /\ [linter EXCEPT !.at = "end"].at = "end"
  BY DEF LINTER
<1>3. linter.at \in {"magic", "body", "end"}
  BY DEF LINTER
<1>4. CASE linter.at = "magic"
  <2>1. LintLine(l) = _check_magic(linter, l)
    BY <1>4 DEF LintLine
  <2>2. LintLine(l) \in {linter, [linter EXCEPT !.at = "body"], LintError(linter)}
    BY <2>1 DEF _check_magic
  <2> QED
    BY <1>1, <1>2, <1>4, <2>2
<1>5. CASE linter.at = "body"
  <2>1. LintLine(l) = _parse_line(linter, l)
    BY <1>5 DEF LintLine
  <2>2. CASE l.kind = "kv" /\ linter.config[l.key] = Absent /\ _validate_value(l)
    <3> DEFINE m == [linter EXCEPT !.config[l.key] = l.value]
    <3>1. LintLine(l) = m
      BY <2>1, <2>2 DEF _parse_line
    <3>2. l.key \in ALL_KEYS /\ l.value \in Values \ {Absent}
      BY <2>2, LineTyped
    <3>3. m \in LINTER /\ m.error = linter.error /\ m.at = linter.at
      BY <3>2, Stores DEF LINTER
    <3> QED
      BY <1>5, <3>1, <3>3
  <2>3. CASE ~(l.kind = "kv" /\ linter.config[l.key] = Absent /\ _validate_value(l))
    <3>1. LintLine(l) \in {linter, [linter EXCEPT !.at = "end"], LintError(linter)}
      BY <2>1, <2>3, LineTyped DEF _parse_line
    <3> QED
      BY <1>1, <1>2, <1>5, <3>1
  <2> QED
    BY <2>2, <2>3
<1>6. CASE linter.at = "end"
  BY <1>6 DEF LintLine
<1> QED
  BY <1>3, <1>4, <1>5, <1>6

LEMMA PiLineIs ==
    ASSUME parser \in PARSER, NEW l \in Lines
    PROVE  PiLine(l) \in PARSER
<1>1. /\ PiFails(parser, "E_MAGIC") \in PARSER /\ PiFails(parser, "E_LINE") \in PARSER
      /\ PiFails(parser, "E_KEY") \in PARSER /\ PiFails(parser, "E_DUP") \in PARSER
      /\ PiFails(parser, "E_VALUE") \in PARSER
  BY FailsTyped DEF Rcs
<1>2. /\ [parser EXCEPT !.at = "body"] \in PARSER
      /\ [parser EXCEPT !.at = "end"] \in PARSER
  BY DEF PARSER
<1>3. parser.at \in {"magic", "body", "end"}
  BY DEF PARSER
<1>4. CASE parser.at = "magic"
  <2>1. PiLine(l) = asm_check_magic(parser, l)
    BY <1>4 DEF PiLine
  <2>2. \/ PiLine(l) = parser \/ PiLine(l) = [parser EXCEPT !.at = "body"]
        \/ PiLine(l) = PiFails(parser, "E_MAGIC")
    BY <2>1 DEF asm_check_magic
  <2> QED
    BY <1>1, <1>2, <2>2
<1>5. CASE parser.at = "body"
  <2>1. PiLine(l) = asm_parse_line(parser, l)
    BY <1>5 DEF PiLine
  <2>2. CASE l.kind = "kv" /\ l.key \notin parser.seen /\ l.value \in Good(l.key)
    <3> DEFINE q == [parser EXCEPT !.seen = @ \cup {l.key}, !.config[l.key] = l.value]
    <3>1. PiLine(l) = q
      BY <2>1, <2>2 DEF asm_parse_line
    <3>2. l.key \in ALL_KEYS /\ l.value \in Values \ {Absent}
      BY <2>2, LineTyped
    <3>3. q \in PARSER
      <4>1. NoConf \in [ALL_KEYS -> Values]
        BY DEF NoConf, Values
      <4>2. \E m : m \in LINTER
        <5>1. [at |-> "end", error |-> FALSE, config |-> NoConf] \in LINTER
          BY <4>1 DEF LINTER
        <5> QED
          BY <5>1
      <4> QED
        BY <3>2, <4>2, Stores
    <3> QED
      BY <3>1, <3>3
  <2>3. CASE ~(l.kind = "kv" /\ l.key \notin parser.seen /\ l.value \in Good(l.key))
    <3>1. \/ PiLine(l) = parser \/ PiLine(l) = [parser EXCEPT !.at = "end"]
          \/ PiLine(l) = PiFails(parser, "E_LINE") \/ PiLine(l) = PiFails(parser, "E_KEY")
          \/ PiLine(l) = PiFails(parser, "E_DUP") \/ PiLine(l) = PiFails(parser, "E_VALUE")
      BY <2>1, <2>3, LineTyped DEF asm_parse_line
    <3> QED
      BY <1>1, <1>2, <3>1
  <2> QED
    BY <2>2, <2>3
<1>6. CASE parser.at = "end"
  BY <1>6 DEF PiLine
<1> QED
  BY <1>3, <1>4, <1>5, <1>6

LEMMA PiFinishIs ==
    ASSUME NEW p \in PARSER
    PROVE  PiFinish(p) \in PARSER
<1>1. PiFails(p, "E_MAGIC") \in PARSER /\ PiFails(p, "E_REQ") \in PARSER
  BY FailsTyped DEF Rcs
<1>2. [p EXCEPT !.at = "end"] \in PARSER
  BY DEF PARSER
<1>3. p.at \in {"magic", "body", "end"}
  BY DEF PARSER
<1>4. \/ PiFinish(p) = p \/ PiFinish(p) = [p EXCEPT !.at = "end"]
      \/ PiFinish(p) = PiFails(p, "E_MAGIC") \/ PiFinish(p) = PiFails(p, "E_REQ")
  BY <1>3 DEF PiFinish
<1> QED
  BY <1>1, <1>2, <1>4

\* A line that has no quirk is read alike, unless the linter refuses it.
LEMMA LineAgree ==
    ASSUME linter \in LINTER, parser \in PARSER, Agree(linter, parser), ~linter.error,
           "bom" \notin quirks, NEW l \in Lines,
           l.value # "lenient" \/ linter.at = "end",
           ~LintLine(l).error
    PROVE  Agree(LintLine(l), PiLine(l))
<1>1. /\ LintError(linter).error = TRUE
      /\ linter.at \in {"magic", "body", "end"} /\ parser.at = linter.at
  BY ErrorTyped DEF LINTER, Agree
<1>2. /\ Agree([linter EXCEPT !.at = "body"], [parser EXCEPT !.at = "body"])
      /\ Agree([linter EXCEPT !.at = "end"], [parser EXCEPT !.at = "end"])
  BY DEF Agree, LINTER, PARSER
<1>3. CASE linter.at = "magic"
  <2>1. LintLine(l) = _check_magic(linter, l) /\ PiLine(l) = asm_check_magic(parser, l)
    BY <1>1, <1>3 DEF LintLine, PiLine
  <2>2. l.kind \in {"blank", "magic"}
    BY <1>1, <2>1 DEF _check_magic
  <2>3. \/ LintLine(l) = linter /\ PiLine(l) = parser
        \/ /\ LintLine(l) = [linter EXCEPT !.at = "body"]
           /\ PiLine(l) = [parser EXCEPT !.at = "body"]
    BY <2>1, <2>2 DEF _check_magic, asm_check_magic
  <2> QED
    BY <1>2, <2>3
<1>4. CASE linter.at = "body"
  <2>1. LintLine(l) = _parse_line(linter, l) /\ PiLine(l) = asm_parse_line(parser, l)
    BY <1>1, <1>4 DEF LintLine, PiLine
  <2>2. CASE l.kind = "kv"
    <3>1. linter.config[l.key] = Absent /\ _validate_value(l)
      BY <1>1, <2>1, <2>2 DEF _parse_line
    <3>2. l.key \in ALL_KEYS /\ l.value \in Values \ {Absent}
      BY <2>2, LineTyped
    <3>3. l.key \notin parser.seen
      BY <3>1, <3>2 DEF Agree
    <3>4. l.value \in Good(l.key)
      BY <1>4, <3>1 DEF _validate_value
    <3>5. /\ LintLine(l) = [linter EXCEPT !.config[l.key] = l.value]
          /\ PiLine(l) = [parser EXCEPT !.seen = @ \cup {l.key}, !.config[l.key] = l.value]
      BY <2>1, <2>2, <3>1, <3>3, <3>4 DEF _parse_line, asm_parse_line
    <3>6. Agree([linter EXCEPT !.config[l.key] = l.value],
                [parser EXCEPT !.seen = @ \cup {l.key}, !.config[l.key] = l.value])
      BY <3>2, Stores
    <3> QED
      BY <3>5, <3>6
  <2>3. CASE l.kind = "unknown"
    <3>1. _required_collected(linter.config)
      BY <1>1, <2>1, <2>3 DEF _parse_line
    <3>2. RequiredSeen(parser)
      BY <3>1, RequiredAgree
    <3>3. LintLine(l) = [linter EXCEPT !.at = "end"] /\ PiLine(l) = [parser EXCEPT !.at = "end"]
      BY <2>1, <2>3, <3>1, <3>2 DEF _parse_line, asm_parse_line
    <3> QED
      BY <1>2, <3>3
  <2>4. CASE l.kind \in {"blank", "magic"}
    BY <2>1, <2>4 DEF _parse_line, asm_parse_line
  <2>5. l.kind # "noeq"
    BY <1>1, <2>1 DEF _parse_line
  <2> QED
    BY <2>2, <2>3, <2>4, <2>5, LineTyped
<1>5. CASE linter.at = "end"
  BY <1>1, <1>5 DEF LintLine, PiLine
<1> QED
  BY <1>1, <1>3, <1>4, <1>5

LEMMA CheckRequiredIs ==
    ASSUME NEW m \in LINTER
    PROVE  /\ _check_required(m) \in LINTER
           /\ _check_required(m).at = "end"
           /\ ~_check_required(m).error => /\ ~m.error /\ m.at # "magic"
                                           /\ _required_collected(m.config)
                                           /\ _check_required(m).config = m.config
<1>1. /\ LintError(m) \in LINTER
      /\ LintError(m).error = TRUE /\ LintError(m).at = "end"
  BY ErrorTyped
<1> DEFINE e == [m EXCEPT !.at = "end"]
<1>2. e \in LINTER /\ e.at = "end" /\ e.config = m.config /\ e.error = m.error
  BY DEF LINTER
<1>3. IF ~m.error /\ m.at # "magic" /\ _required_collected(m.config)
      THEN _check_required(m) = e ELSE _check_required(m) = LintError(m)
  BY DEF _check_required
<1> HIDE DEF e
<1> QED
  BY <1>1, <1>2, <1>3

\* A parser that has all it needs passes harmless lines and the end of the text.
LEMMA TookPasses ==
    ASSUME NEW m \in LINTER, parser \in PARSER, Took(m, parser)
    PROVE  /\ Took(m, PiFinish(parser))
           /\ \A l \in Lines : Harmless(l) => Took(m, PiLine(l))
<1> DEFINE e == [parser EXCEPT !.at = "end"]
<1>1. /\ e.rc = parser.rc /\ e.config = parser.config /\ e.seen = parser.seen
      /\ e.at = "end"
  BY DEF PARSER
<1> HIDE DEF e
<1>2. Took(m, e)
  BY <1>1 DEF Took, RequiredSeen
<1>3. parser.at \in {"body", "end"} /\ RequiredSeen(parser)
  BY DEF Took, PARSER
<1>4. PiFinish(parser) = parser \/ PiFinish(parser) = e
  BY <1>3 DEF PiFinish, e
<1>5. ASSUME NEW l \in Lines, Harmless(l) PROVE PiLine(l) = parser \/ PiLine(l) = e
  <2>1. CASE parser.at = "end"
    BY <2>1 DEF PiLine
  <2>2. CASE parser.at = "body"
    <3>1. PiLine(l) = asm_parse_line(parser, l)
      BY <2>2 DEF PiLine
    <3> QED
      BY <1>3, <1>5, <3>1 DEF asm_parse_line, Harmless, e
  <2> QED
    BY <1>3, <2>1, <2>2
<1> QED
  BY <1>2, <1>4, <1>5

\* A parser that agrees with a linter whose file is whole.
LEMMA AgreeTook ==
    ASSUME NEW m \in LINTER, NEW p \in PARSER, Agree(m, p), m.at # "magic",
           _required_collected(m.config)
    PROVE  Took(m, p)
  BY RequiredAgree DEF Agree, Took

LEMMA ReadLineOK ==
    ASSUME ConfInv, NEW l \in Lines, ReadConfLine(l)
    PROVE  ConfInv'
<1>1. /\ ~ended /\ ended' = ended /\ held' = held
      /\ linter' = LintLine(l) /\ parser' = PiLine(l) /\ held = NoLine
      /\ quirks' = IF l.value = "lenient" /\ linter.at # "end"
                   THEN quirks \cup {"lenient"} ELSE quirks
  BY DEF ReadConfLine, Reading
<1>2. /\ linter' \in LINTER /\ parser' \in PARSER
      /\ linter'.error => linter'.at = "end"
  <2>1. linter \in LINTER /\ parser \in PARSER /\ (linter.error => linter.at = "end")
    BY DEF ConfInv
  <2>2. /\ LintLine(l) \in LINTER /\ (LintLine(l).error => LintLine(l).at = "end")
        /\ PiLine(l) \in PARSER
    BY <2>1, LintLineIs, PiLineIs
  <2> QED
    BY <1>1, <2>2
<1>3. quirks' = {} /\ ~linter'.error => Agree(linter', parser')
  <2>1. SUFFICES ASSUME quirks' = {}, ~LintLine(l).error
                 PROVE  Agree(LintLine(l), PiLine(l))
    BY <1>1
  <2>2. quirks = {} /\ (l.value # "lenient" \/ linter.at = "end")
    BY <1>1, <2>1
  <2>3. ~linter.error
    BY DEF ReadConfLine, Reading
  <2> QED
    BY <1>1, <2>1, <2>2, <2>3, LineAgree DEF ConfInv
<1> QED
  BY <1>1, <1>2, <1>3 DEF ConfInv

\* A step with a quirk keeps the types, and no more is claimed.
LEMMA QuirkOK ==
    ASSUME ConfInv, NEW l \in Lines, linter' = LintLine(l), parser' \in PARSER,
           held' \in Lines \cup {NoLine}, quirks' # {}
    PROVE  ConfInv'
<1>1. /\ LintLine(l) \in LINTER
      /\ LintLine(l).error => LintLine(l).at = "end"
  BY LintLineIs DEF ConfInv
<1> QED
  BY <1>1 DEF ConfInv

LEMMA ReadQuirkOK ==
    ASSUME ConfInv, NEW l \in Lines,
           ReadBlanks(l) \/ ReadHigh(l) \/ ReadCr(l) \/ ReadJoined(l) \/ ReadCut(l)
    PROVE  ConfInv'
<1>1. /\ linter' = LintLine(l) /\ quirks' # {}
      /\ held' \in Lines \cup {NoLine}
  <2>1. /\ linter' = LintLine(l)
        /\ held' = held \/ held' = l \/ held' = NoLine
    BY DEF ReadBlanks, ReadHigh, ReadCr, ReadJoined, ReadCut
  <2>2. \A q : Quirk(q) => quirks' # {}
    BY DEF Quirk
  <2>3. quirks' # {}
    BY <2>2 DEF ReadBlanks, ReadHigh, ReadCr, ReadJoined, ReadCut, ConfInv
  <2> QED
    BY <2>1, <2>3 DEF ConfInv
<1>2. parser \in PARSER /\ \A p \in Lines : PiLine(p) \in PARSER
  BY PiLineIs DEF ConfInv
<1>3. CASE ReadBlanks(l)
  BY <1>1, <1>2, <1>3, LinesHave, QuirkOK DEF ReadBlanks
<1>4. CASE ReadHigh(l)
  <2> DEFINE q == [parser EXCEPT !.at = "body"]
  <2>1. q \in PARSER
    BY <1>2 DEF PARSER
  <2> HIDE DEF q
  <2>2. /\ PiFails(parser, "E_MAGIC") \in PARSER /\ PiFails(q, "E_LINE") \in PARSER
        /\ PiFails(q, "E_KEY") \in PARSER /\ [q EXCEPT !.at = "end"] \in PARSER
    BY <1>2, <2>1, FailsTyped DEF Rcs, PARSER
  <2>3. \A p \in {Bare("noeq"), Bare("unknown")} : asm_parse_line(q, p) \in PARSER
    BY <2>2 DEF asm_parse_line, Bare
  <2>4. parser' \in PARSER
    BY <1>4, <2>2, <2>3 DEF ReadHigh, q
  <2> QED
    BY <1>1, <2>4, QuirkOK
<1>5. CASE ReadCr(l)
  BY <1>1, <1>2, <1>5, QuirkOK DEF ReadCr
<1>6. CASE ReadJoined(l)
  <2>1. held \in Lines
    BY <1>6 DEF ReadJoined, ConfInv
  <2>2. Joined(held, l) \subseteq Lines
    BY <2>1, LinesHave, LineTyped DEF Joined
  <2> QED
    BY <1>1, <1>2, <1>6, <2>2, QuirkOK DEF ReadJoined
<1>7. CASE ReadCut(l)
  <2>1. PICK p \in SameKey(l) \cup {Bare("blank"), Bare("noeq")} :
          parser' = PiFinish(PiLine(p))
    BY <1>7 DEF ReadCut
  <2>2. PiLine(p) \in PARSER
    BY <1>2, LinesHave DEF SameKey
  <2>3. parser' \in PARSER
    BY <2>1, <2>2, PiFinishIs
  <2> QED
    BY <1>1, <2>3, QuirkOK
<1> QED
  BY <1>3, <1>4, <1>5, <1>6, <1>7

\* The file ends: the parser has what the linter has, be the last line ended
\* by a newline or not, unless the RAM changes that line.
LEMMA EndOK ==
    ASSUME ConfInv, NEW l \in Lines, EndOfConf(l)
    PROVE  ConfInv'
<1> DEFINE m == LintLine(l)
<1>1. /\ ~ended /\ ended' = TRUE /\ linter' = _check_required(m) /\ held' = held
      /\ linter \in LINTER /\ parser \in PARSER /\ held = NoLine /\ ~linter.error
  BY DEF EndOfConf, Reading, ConfInv
<1>2. m \in LINTER
  BY LintLineIs DEF ConfInv
<1>3. PICK p \in Lines :
        /\ parser' = PiLine(p)
        /\ quirks' = CASE parser.at = "end" -> quirks
                       [] p # l /\ ~(l.kind = "blank" /\ Harmless(p)) -> quirks \cup {"tail"}
                       [] p.value = "lenient" -> quirks \cup {"lenient"}
                       [] OTHER -> quirks
  BY DEF EndOfConf, SameKey
<1>4. parser' \in PARSER
  BY <1>1, <1>3, PiLineIs
<1> HIDE DEF m
<1>5. /\ linter' \in LINTER /\ linter'.at = "end"
      /\ ~linter'.error => /\ ~m.error /\ m.at # "magic" /\ _required_collected(m.config)
                           /\ linter'.config = m.config
  BY <1>1, <1>2, CheckRequiredIs
<1>6. ASSUME quirks' = {}, ~linter'.error PROVE Took(m, parser')
  <2>1. /\ quirks = {}
        /\ \/ parser.at = "end"
           \/ p = l /\ p.value # "lenient"
           \/ l.kind = "blank" /\ Harmless(p)
    BY <1>3, <1>6
  <2>2. Agree(linter, parser)
    BY <1>1, <2>1 DEF ConfInv
  <2>3. CASE parser.at = "end"
    <3>1. linter.at = "end" /\ m = linter /\ parser' = parser
      BY <1>3, <2>2, <2>3 DEF Agree, LintLine, PiLine, m
    <3> QED
      BY <1>1, <1>5, <1>6, <2>2, <3>1, AgreeTook
  <2>4. CASE p = l /\ p.value # "lenient"
    <3>1. Agree(m, PiLine(l))
      BY <1>1, <1>5, <1>6, <2>1, <2>2, <2>4, LineAgree DEF m
    <3> QED
      BY <1>2, <1>3, <1>4, <1>5, <1>6, <2>4, <3>1, AgreeTook
  <2>5. CASE l.kind = "blank" /\ Harmless(p)
    <3>1. m = linter
      BY <1>1, <2>5 DEF LintLine, _check_magic, _parse_line, LINTER, m
    <3>2. Took(linter, parser)
      BY <1>1, <1>5, <1>6, <2>2, <3>1, AgreeTook
    <3> QED
      BY <1>1, <1>3, <2>5, <3>1, <3>2, TookPasses
  <2> QED
    BY <2>1, <2>3, <2>4, <2>5
<1>7. quirks' = {} /\ ~linter'.error => Took(linter', parser')
  BY <1>5, <1>6 DEF Took
<1> QED
  BY <1>1, <1>4, <1>5, <1>7 DEF ConfInv

LEMMA RamOK ==
    ASSUME ConfInv, RamStops \/ \E l \in Lines : RamLine(l)
    PROVE  ConfInv'
<1>1. /\ ended /\ UNCHANGED <<linter, held, ended>> /\ ~linter.error
      /\ linter \in LINTER /\ parser \in PARSER
  BY DEF RamStops, RamLine, Booting, ConfInv
<1>2. /\ parser' \in PARSER
      /\ quirks' = {} => quirks = {}
  BY <1>1, PiLineIs, PiFinishIs DEF RamStops, RamLine
<1>3. quirks' = {} => Took(linter, parser')
  <2> SUFFICES ASSUME quirks' = {} PROVE Took(linter, parser')
    OBVIOUS
  <2>1. Took(linter, parser)
    BY <1>1, <1>2 DEF ConfInv
  <2>2. CASE RamStops
    BY <1>1, <2>1, <2>2, TookPasses DEF RamStops
  <2>3. ASSUME NEW l \in Lines, RamLine(l) PROVE Took(linter, parser')
    <3>1. parser' = PiLine(l) /\ Harmless(l)
      BY <2>3 DEF RamLine
    <3> QED
      BY <1>1, <2>1, <3>1, TookPasses
  <2> QED
    BY <2>2, <2>3
<1> QED
  BY <1>1, <1>2, <1>3 DEF ConfInv, Took

LEMMA ConfInitOK == ASSUME ConfInit PROVE ConfInv
<1>1. NoConf \in [ALL_KEYS -> Values] /\ {k \in ALL_KEYS : NoConf[k] # Absent} = {}
  BY DEF NoConf, Values
<1>2. /\ linter \in LINTER /\ linter.at = "magic" /\ linter.error = FALSE
      /\ linter.config = NoConf
  BY <1>1 DEF ConfInit, LINTER
<1>3. /\ parser \in PARSER /\ parser.at = "magic" /\ parser.rc = "ok" /\ parser.seen = {}
      /\ parser.config = NoConf
  BY <1>1 DEF ConfInit, PARSER, Rcs
<1>4. ended = FALSE /\ held = NoLine
  BY DEF ConfInit
<1> QED
  BY <1>1, <1>2, <1>3, <1>4 DEF ConfInv, Agree

-----------------------------------------------------------------------------
(* The transition tables. *)

ROW  == [state : S \cup {"unknown"}, event : E \cup {"unknown"},
         next : S \cup {NONE, "unknown"},
         handler : ElfHandlers \cup {NONE, "odd", "gone"}]
CELL == [next : S \cup {NONE}, handler : ElfHandlers \cup {NONE}]

Verified == IF tool = "dhcp" THEN _validate ELSE http_main

\* What the tools said is true of the rows and the cells as they are now.
TabInv ==
    /\ rows \in Seq(ROW)
    /\ cells \in [_EXPECTED_CELLS -> CELL]
    /\ lint = "ok" => _lint
    /\ verify = "ok" => Verified

LEMMA CellsFinite ==
    /\ IsFiniteSet(_EXPECTED_CELLS)
    /\ Cardinality(_EXPECTED_CELLS) \in Nat
    /\ \A n \in Nat : IsFiniteSet(1 .. n) /\ Cardinality(1 .. n) = n
<1>1. IsFiniteSet(_EXPECTED_CELLS)
  BY FsaAssumption, FS_Product DEF _EXPECTED_CELLS
<1>2. Cardinality(_EXPECTED_CELLS) \in Nat
  BY <1>1, FS_CardinalityType
<1>3. ASSUME NEW n \in Nat PROVE IsFiniteSet(1 .. n) /\ Cardinality(1 .. n) = n
  BY FS_Interval
<1> QED
  BY <1>1, <1>2, <1>3

\* The order in which the first rows are written has every cell.
LEMMA OrderIs ==
    LET order == SetToSeq(_EXPECTED_CELLS)
    IN  /\ order \in [1 .. Cardinality(_EXPECTED_CELLS) -> _EXPECTED_CELLS]
        /\ \A c \in _EXPECTED_CELLS :
              \E i \in 1 .. Cardinality(_EXPECTED_CELLS) : order[i] = c
<1> DEFINE T == _EXPECTED_CELLS
           n == Cardinality(T)
           order == SetToSeq(T)
<1>1. IsFiniteSet(T) /\ n \in Nat /\ IsFiniteSet(1 .. n) /\ Cardinality(1 .. n) = n
  BY CellsFinite
<1> HIDE DEF T
<1>2. ExistsBijection(1 .. n, T)
  BY <1>1, FS_SameCardinalityBij
<1>3. \E f \in [1 .. n -> T] : IsInjective(f)
  BY <1>2 DEF ExistsBijection, Bijection, Injection
<1>4. order \in [1 .. n -> T] /\ IsInjective(order)
  BY <1>3 DEF SetToSeq
<1>5. order \in Injection(1 .. n, T)
  BY <1>4 DEF Injection
<1> HIDE DEF order
<1>6. order \in Surjection(1 .. n, T)
  BY <1>1, <1>5, FS_Injection
<1> QED
  BY <1>4, <1>6 DEF Surjection, order, T

LEMMA TabInitOK == ASSUME TabInit PROVE TabInv
<1> DEFINE order == SetToSeq(_EXPECTED_CELLS)
           n == Cardinality(_EXPECTED_CELLS)
           some == CHOOSE s \in S : TRUE
           row(i) == [state |-> order[i][1], event |-> order[i][2],
                      next |-> IF i = 1 THEN some ELSE NONE,
                      handler |-> CASE i = 1 -> "h_a"
                                    [] i = 2 -> PANIC_HANDLER
                                    [] OTHER -> NONE]
<1>1. /\ order \in [1 .. n -> _EXPECTED_CELLS] /\ n \in Nat
      /\ \A c \in _EXPECTED_CELLS : \E i \in 1 .. n : order[i] = c
  BY OrderIs, CellsFinite
<1>2. Len(order) = n
  BY <1>1
<1>3. rows = [i \in 1 .. n |-> row(i)]
  BY <1>2 DEF TabInit
<1>4. ASSUME NEW i \in 1 .. n
      PROVE  /\ row(i) \in ROW /\ Key(row(i)) = order[i]
             /\ CellOf(row(i)) \in CELL
  <2>1. /\ order[i] \in S \X E /\ S # {}
    BY <1>1 DEF _EXPECTED_CELLS
  <2>2. some \in S
    BY <2>1
  <2>3. /\ order[i][1] \in S /\ order[i][2] \in E /\ order[i] = <<order[i][1], order[i][2]>>
    BY <2>1
  <2> HIDE DEF order, some
  <2> QED
    BY <2>2, <2>3 DEF ROW, CELL, Key, CellOf, ElfHandlers, PANIC_HANDLER
<1> HIDE DEF order, n, row, some
<1>5. rows \in Seq(ROW) /\ DOMAIN rows = 1 .. n
  BY <1>1, <1>3, <1>4
<1>6. ASSUME NEW c \in _EXPECTED_CELLS
      PROVE  CellOf(rows[CHOOSE i \in DOMAIN rows : Key(rows[i]) = c]) \in CELL
  <2>1. \E i \in DOMAIN rows : Key(rows[i]) = c
    BY <1>1, <1>3, <1>4, <1>5
  <2>2. PICK j \in DOMAIN rows : j = CHOOSE i \in DOMAIN rows : Key(rows[i]) = c
    BY <2>1
  <2>3. CellOf(rows[j]) \in CELL
    BY <1>3, <1>4, <1>5
  <2> QED
    BY <2>2, <2>3
<1>7. cells = [c \in _EXPECTED_CELLS |->
                 CellOf(rows[CHOOSE i \in DOMAIN rows : Key(rows[i]) = c])]
  BY DEF TabInit
<1>8. cells \in [_EXPECTED_CELLS -> CELL]
  BY <1>6, <1>7
<1> QED
  BY <1>5, <1>8 DEF TabInv, TabInit

\* _lint looks at the rows, the verifiers at rows, cells and the machine.
LEMMA LintSame ==
    ASSUME rows' = rows
    PROVE  _lint' = _lint
  BY DEF _lint, _check_state_event, _check_shape, _check_consistency,
         _check_completeness, Seen, Key

LEMMA VerifiedSame ==
    ASSUME rows' = rows, cells' = cells, tool' = tool
    PROVE  Verified' = Verified
  BY DEF Verified, _validate, http_main, _validate_row, _check_next, _check_handler, Key

LEMMA EditRowOK == ASSUME TabInv, EditRow PROVE TabInv'
<1>1. lint' = "none" /\ verify' = "none" /\ cells' = cells
  BY DEF EditRow, Edited
<1>2. rows' \in Seq(ROW)
  <2>0. rows \in Seq(ROW)
    BY DEF TabInv
  <2>1. PICK i \in DOMAIN rows :
          \/ \E s \in S \cup {"unknown"} : rows' = [rows EXCEPT ![i].state = s]
          \/ \E e \in E \cup {"unknown"} : rows' = [rows EXCEPT ![i].event = e]
          \/ \E s \in S \cup {NONE, "unknown"} : rows' = [rows EXCEPT ![i].next = s]
          \/ \E h \in ElfHandlers \cup {NONE, "odd", "gone"} :
                rows' = [rows EXCEPT ![i].handler = h]
          \/ rows' = Append(rows, rows[i])
          \/ rows' = RemoveAt(rows, i)
    BY DEF EditRow
  <2>2. rows[i] \in ROW /\ i \in 1 .. Len(rows)
    BY <2>0
  <2>3. ASSUME NEW r \in ROW, rows' = [rows EXCEPT ![i] = r] PROVE rows' \in Seq(ROW)
    BY <2>0, <2>2, <2>3
  <2>4. CASE \E s \in S \cup {"unknown"} : rows' = [rows EXCEPT ![i].state = s]
    <3>1. PICK s \in S \cup {"unknown"} : rows' = [rows EXCEPT ![i].state = s]
      BY <2>4
    <3>2. [rows[i] EXCEPT !.state = s] \in ROW
      BY <2>2 DEF ROW
    <3> QED
      BY <2>3, <3>1, <3>2
  <2>5. CASE \E e \in E \cup {"unknown"} : rows' = [rows EXCEPT ![i].event = e]
    <3>1. PICK e \in E \cup {"unknown"} : rows' = [rows EXCEPT ![i].event = e]
      BY <2>5
    <3>2. [rows[i] EXCEPT !.event = e] \in ROW
      BY <2>2 DEF ROW
    <3> QED
      BY <2>3, <3>1, <3>2
  <2>6. CASE \E s \in S \cup {NONE, "unknown"} : rows' = [rows EXCEPT ![i].next = s]
    <3>1. PICK s \in S \cup {NONE, "unknown"} : rows' = [rows EXCEPT ![i].next = s]
      BY <2>6
    <3>2. [rows[i] EXCEPT !.next = s] \in ROW
      BY <2>2 DEF ROW
    <3> QED
      BY <2>3, <3>1, <3>2
  <2>7. CASE \E h \in ElfHandlers \cup {NONE, "odd", "gone"} :
                rows' = [rows EXCEPT ![i].handler = h]
    <3>1. PICK h \in ElfHandlers \cup {NONE, "odd", "gone"} :
             rows' = [rows EXCEPT ![i].handler = h]
      BY <2>7
    <3>2. [rows[i] EXCEPT !.handler = h] \in ROW
      BY <2>2 DEF ROW
    <3> QED
      BY <2>3, <3>1, <3>2
  <2>8. CASE rows' = Append(rows, rows[i])
    BY <2>0, <2>2, <2>8
  <2>9. CASE rows' = RemoveAt(rows, i)
    <3>1. /\ SubSeq(rows, 1, i - 1) \in Seq(ROW)
          /\ SubSeq(rows, i + 1, Len(rows)) \in Seq(ROW)
      BY <2>0, <2>2
    <3> QED
      BY <2>9, <3>1 DEF RemoveAt
  <2> QED
    BY <2>1, <2>4, <2>5, <2>6, <2>7, <2>8, <2>9
<1> QED
  BY <1>1, <1>2 DEF TabInv

LEMMA EditCellOK == ASSUME TabInv, EditCell PROVE TabInv'
<1>1. verify' = "none" /\ rows' = rows /\ lint' = lint
  BY DEF EditCell, Edited
<1>2. cells' \in [_EXPECTED_CELLS -> CELL]
  <2>0. cells \in [_EXPECTED_CELLS -> CELL]
    BY DEF TabInv
  <2>1. PICK c \in _EXPECTED_CELLS :
          \/ \E s \in S \cup {NONE} : cells' = [cells EXCEPT ![c].next = s]
          \/ \E h \in ElfHandlers \cup {NONE} : cells' = [cells EXCEPT ![c].handler = h]
    BY DEF EditCell
  <2>2. cells[c] \in CELL
    BY <2>0
  <2>3. ASSUME NEW k \in CELL, cells' = [cells EXCEPT ![c] = k]
        PROVE  cells' \in [_EXPECTED_CELLS -> CELL]
    BY <2>0, <2>3
  <2>4. CASE \E s \in S \cup {NONE} : cells' = [cells EXCEPT ![c].next = s]
    <3>1. PICK s \in S \cup {NONE} : cells' = [cells EXCEPT ![c].next = s]
      BY <2>4
    <3>2. [cells[c] EXCEPT !.next = s] \in CELL
      BY <2>2 DEF CELL
    <3> QED
      BY <2>3, <3>1, <3>2
  <2>5. CASE \E h \in ElfHandlers \cup {NONE} : cells' = [cells EXCEPT ![c].handler = h]
    <3>1. PICK h \in ElfHandlers \cup {NONE} : cells' = [cells EXCEPT ![c].handler = h]
      BY <2>5
    <3>2. [cells[c] EXCEPT !.handler = h] \in CELL
      BY <2>2 DEF CELL
    <3> QED
      BY <2>3, <3>1, <3>2
  <2> QED
    BY <2>1, <2>4, <2>5
<1> QED
  BY <1>1, <1>2, LintSame DEF TabInv

LEMMA ToolsOK == ASSUME TabInv, Lint \/ Verify PROVE TabInv'
<1>1. rows' = rows /\ cells' = cells /\ tool' = tool
  BY DEF Lint, Verify
<1>2. _lint' = _lint /\ Verified' = Verified
  BY <1>1, LintSame, VerifiedSame
<1>3. (lint' = "ok" => _lint) /\ (verify' = "ok" => Verified)
  <2>1. CASE Lint
    BY <2>1 DEF Lint, TabInv
  <2>2. CASE Verify
    BY <2>2 DEF Verify, TabInv, Verified
  <2> QED
    BY <2>1, <2>2
<1> QED
  BY <1>1, <1>2, <1>3 DEF TabInv

\* Rows without a repeated key: a key has one row.
LEMMA OneRow ==
    ASSUME rows \in Seq(ROW), \A j \in DOMAIN rows : Key(rows[j]) \notin Seen(j),
           NEW c, NEW i \in DOMAIN rows, Key(rows[i]) = c
    PROVE  {j \in DOMAIN rows : Key(rows[j]) = c} = {i}
<1>1. DOMAIN rows = 1 .. Len(rows) /\ Len(rows) \in Nat
  OBVIOUS
<1>2. ASSUME NEW j \in DOMAIN rows, Key(rows[j]) = c PROVE j = i
  <2>1. CASE i < j
    <3>1. i \in 1 .. j - 1
      BY <1>1, <2>1
    <3>2. Key(rows[j]) \in Seen(j)
      BY <1>2, <3>1 DEF Seen
    <3> QED
      BY <3>2
  <2>2. CASE j < i
    <3>1. j \in 1 .. i - 1
      BY <1>1, <2>2
    <3>2. Key(rows[i]) \in Seen(i)
      BY <1>2, <3>1 DEF Seen
    <3> QED
      BY <3>2
  <2> QED
    BY <1>1, <2>1, <2>2
<1> QED
  BY <1>2

\* As many rows as cells, all of them of cells, none twice: every cell has
\* one, by counting.
LEMMA EveryCell ==
    ASSUME rows \in Seq(ROW), \A j \in DOMAIN rows : Key(rows[j]) \notin Seen(j),
           Len(rows) = Cardinality(_EXPECTED_CELLS),
           \A j \in DOMAIN rows : Key(rows[j]) \in _EXPECTED_CELLS
    PROVE  \A c \in _EXPECTED_CELLS : \E i \in DOMAIN rows : Key(rows[i]) = c
<1> DEFINE T == _EXPECTED_CELLS
           n == Len(rows)
           f == [j \in 1 .. n |-> Key(rows[j])]
<1>1. /\ IsFiniteSet(T) /\ n \in Nat /\ DOMAIN rows = 1 .. n
      /\ Cardinality(1 .. n) = Cardinality(T) /\ IsFiniteSet(1 .. n)
  BY CellsFinite
<1>2. \A j \in 1 .. n : Key(rows[j]) \in T
  BY <1>1
<1>3. \A i, j \in 1 .. n : Key(rows[i]) = Key(rows[j]) => i = j
  BY <1>1, OneRow
<1> HIDE DEF T, n
<1>4. f \in Injection(1 .. n, T)
  BY <1>2, <1>3 DEF Injection, IsInjective
<1>5. f \in Surjection(1 .. n, T)
  <2> HIDE DEF f
  <2> QED
    BY <1>1, <1>4, FS_Injection
<1>6. \A c \in T : \E i \in 1 .. n : f[i] = c
  BY <1>5 DEF Surjection
<1> QED
  BY <1>1, <1>6 DEF T

LEMMA TablesAgree == ASSUME TabInv PROVE VerifiedTableAgrees
<1> DEFINE RowsOf(c) == {i \in DOMAIN rows : Key(rows[i]) = c}
<1>0. rows \in Seq(ROW) /\ cells \in [_EXPECTED_CELLS -> CELL]
  BY DEF TabInv
<1>1. ASSUME tool = "dhcp", lint = "ok", verify = "ok", NEW c \in _EXPECTED_CELLS
      PROVE  \E i \in DOMAIN rows : RowsOf(c) = {i} /\ cells[c] = CellOf(rows[i])
  <2>1. _lint /\ _validate
    BY <1>1 DEF TabInv, Verified
  <2>2. \A j \in DOMAIN rows : Key(rows[j]) \notin Seen(j)
    BY <2>1 DEF _lint
  <2>3. \E j \in 1 .. (Len(rows) + 1) - 1 : Key(rows[j]) = c
    BY <2>1 DEF _lint, _check_completeness, Seen
  <2>4. PICK i \in DOMAIN rows : Key(rows[i]) = c
    BY <1>0, <2>3
  <2>5. RowsOf(c) = {i}
    BY <1>0, <2>2, <2>4, OneRow
  <2>6. cells[c].next = rows[i].next /\ cells[c].handler = rows[i].handler
    BY <2>1, <2>4 DEF _validate, _validate_row, _check_next, _check_handler
  <2>7. cells[c] = CellOf(rows[i])
    <3>1. cells[c] \in CELL
      BY <1>0
    <3> QED
      BY <2>6, <3>1 DEF CellOf, CELL
  <2> QED
    BY <2>5, <2>7
<1>2. ASSUME tool = "http", verify = "ok",
             \A j \in DOMAIN rows : Key(rows[j]) \notin Seen(j),
             NEW c \in _EXPECTED_CELLS
      PROVE  \E i \in DOMAIN rows :
                /\ RowsOf(c) = {i}
                /\ cells[c].handler = rows[i].handler
                /\ rows[i].next \in {NONE, cells[c].next}
  <2>1. http_main
    BY <1>2 DEF TabInv, Verified
  <2>2. /\ Len(rows) = Cardinality(_EXPECTED_CELLS)
        /\ \A j \in DOMAIN rows : Key(rows[j]) \in _EXPECTED_CELLS
    BY <2>1 DEF http_main, Key, _EXPECTED_CELLS
  <2>3. PICK i \in DOMAIN rows : Key(rows[i]) = c
    BY <1>0, <1>2, <2>2, EveryCell
  <2>4. RowsOf(c) = {i}
    BY <1>0, <1>2, <2>3, OneRow
  <2>5. /\ cells[c].handler = rows[i].handler
        /\ rows[i].next \in {NONE, cells[c].next}
    BY <2>1, <2>3 DEF http_main, _check_handler
  <2> QED
    BY <2>4, <2>5
<1> QED
  BY <1>1, <1>2 DEF VerifiedTableAgrees

-----------------------------------------------------------------------------
(* Induction and recursion over the naturals. *)

\* Induction over the naturals, with the set of those it holds for.
LEMMA SetInduction ==
  ASSUME NEW P, 0 \in P, \A n \in Nat : n \in P => n + 1 \in P
  PROVE  Nat \subseteq P
<1> SUFFICES ASSUME Nat \ P # {} PROVE FALSE
  OBVIOUS
<1>1. \E x \in Nat \ P : \A y \in Nat \ P : ~(y < x)
  <2>1. PICK x \in Nat \ P : \A y \in Nat \ P : ~(<<y, x>> \in OpToRel(<, Nat))
    BY NatLessThanWellFounded, WFMin, Nat \ P \subseteq Nat
  <2>2. \A y \in Nat \ P : ~(y < x)
    BY <2>1 DEF OpToRel
  <2> QED
    BY <2>2
<1>2. PICK x \in Nat \ P : \A y \in Nat \ P : ~(y < x)
  BY <1>1
<1>3. x # 0 /\ x - 1 \in Nat /\ x - 1 < x
  BY <1>2
<1>4. x - 1 \in P
  BY <1>2, <1>3
<1> QED
  BY <1>2, <1>3, <1>4

\* The same up to m.
LEMMA UpTo ==
  ASSUME NEW m \in Nat, NEW P, 0 \in P, \A n \in 1..m : n - 1 \in P => n \in P
  PROVE  0..m \subseteq P
<1> DEFINE Q == {n \in Nat : n <= m => n \in P}
<1>1. 0 \in Q
  OBVIOUS
<1>2. ASSUME NEW n \in Nat, n \in Q PROVE n + 1 \in Q
  <2> SUFFICES ASSUME n + 1 <= m PROVE n + 1 \in P
    OBVIOUS
  <2>1. n + 1 \in 1..m /\ (n + 1) - 1 = n /\ n \in P
    BY <1>2
  <2> QED
    BY <2>1
<1>3. Nat \subseteq Q
  <2> HIDE DEF Q
  <2> QED
    BY <1>1, <1>2, SetInduction
<1> QED
  BY <1>3

\* g has the first value b, and F[n] makes its n-th of the one before.
Iterates(g, V, b, m, F) ==
  g \in [0..m -> V] /\ g[0] = b /\ \A n \in 1..m : g[n] = F[n][g[n - 1]]

\* There is such a function whatever the steps are.
LEMMA Recursion ==
  ASSUME NEW V, NEW b \in V, NEW m \in Nat, NEW F \in [1..m -> [V -> V]]
  PROVE  \E g : Iterates(g, V, b, m, F)
<1> DEFINE Upto(n, g) == /\ g \in [0..m -> V] /\ g[0] = b
                         /\ \A k \in 1..n : g[k] = F[k][g[k - 1]]
           P == {n \in 0..m : \E g \in [0..m -> V] : Upto(n, g)}
<1>1. 0 \in P
  <2> DEFINE h == [n \in 0..m |-> b]
  <2>1. h \in [0..m -> V] /\ Upto(0, h)
    OBVIOUS
  <2>2. \E x \in [0..m -> V] : Upto(0, x)
    <3> HIDE DEF h, Upto
    <3> QED
      BY <2>1
  <2> QED
    BY <2>2
<1>2. ASSUME NEW n \in 1..m, n - 1 \in P PROVE n \in P
  <2>1. PICK g \in [0..m -> V] : Upto(n - 1, g)
    BY <1>2
  <2> DEFINE h == [k \in 0..m |-> IF k = n THEN F[n][g[n - 1]] ELSE g[k]]
  <2>2. n - 1 \in 0..m /\ g[n - 1] \in V /\ F[n][g[n - 1]] \in V
    BY <2>1
  <2>3. h \in [0..m -> V] /\ h[0] = b
    BY <2>1, <2>2
  <2>4. ASSUME NEW k \in 1..n PROVE h[k] = F[k][h[k - 1]]
    <3>1. CASE k = n
      <4>1. h[n] = F[n][g[n - 1]] /\ h[n - 1] = g[n - 1]
        BY <2>2
      <4> QED
        BY <3>1, <4>1
    <3>2. CASE k # n
      <4>1. k \in 1..(n - 1) /\ k \in 0..m /\ k - 1 \in 0..m /\ k - 1 # n
        BY <3>2
      <4>2. h[k] = g[k] /\ h[k - 1] = g[k - 1]
        BY <3>2, <4>1
      <4>3. g[k] = F[k][g[k - 1]]
        BY <2>1, <4>1
      <4> QED
        BY <4>2, <4>3
    <3> QED
      BY <3>1, <3>2
  <2>5. Upto(n, h)
    BY <2>3, <2>4
  <2>6. \E x \in [0..m -> V] : Upto(n, x)
    <3> HIDE DEF h, Upto
    <3> QED
      BY <2>3, <2>5
  <2> QED
    BY <2>6
<1>3. 0..m \subseteq P
  <2> HIDE DEF P
  <2> QED
    BY <1>1, <1>2, UpTo
<1>4. m \in P
  <2> HIDE DEF P
  <2> QED
    BY <1>3
<1>5. PICK g \in [0..m -> V] : Upto(m, g)
  BY <1>4
<1>6. Iterates(g, V, b, m, F)
  BY <1>5 DEF Iterates
<1> QED
  BY <1>6

-----------------------------------------------------------------------------
(* The slab that mk_appliance.py builds, for any routes. *)

TOKEN == {"path", "len", "body", "other"} \X Nat
ROUTE == {r \in [path : Seq(TOKEN), body : Seq(TOKEN)] : Len(r.path) > 0}
ENTRY == [path_off : Nat, path_len : Nat, hdr_off : Nat, body_off : Nat, body_len : Nat]
SLAB  == [entries : Seq(ENTRY), content : Seq(TOKEN)]

\* s lies in c behind the first off tokens.
Lies(c, off, s) ==
    off \in Nat /\ off + Len(s) <= Len(c) /\ \A k \in 1..Len(s) : c[off + k] = s[k]

\* Entry e tells where in c route r is, and neither its header nor its body
\* is at offset zero, which would mean that there is none.
Located(c, e, r) ==
    /\ Lies(c, e.path_off, r.path) /\ e.path_len = Len(r.path)
    /\ Lies(c, e.hdr_off, build_header(r.body)) /\ e.hdr_off > 0
    /\ Lies(c, e.body_off, r.body) /\ e.body_off > 0 /\ e.body_len = Len(r.body)

\* What lies in c still lies there when something follows it.
LEMMA LiesOn ==
    ASSUME NEW c \in Seq(TOKEN), NEW d \in Seq(TOKEN), NEW off, NEW s \in Seq(TOKEN), Lies(c, off, s)
    PROVE  Lies(c \o d, off, s)
<1>1. /\ Len(c) \in Nat /\ Len(d) \in Nat /\ Len(c \o d) = Len(c) + Len(d) /\ Len(s) \in Nat
      /\ \A n \in 1..Len(c) : (c \o d)[n] = c[n]
  OBVIOUS
<1> DEFINE q == c \o d
<1> HIDE DEF q
<1>2. off \in Nat /\ off + Len(s) <= Len(c) /\ \A k \in 1..Len(s) : c[off + k] = s[k]
  BY DEF Lies
<1>3. ASSUME NEW k \in 1..Len(s) PROVE q[off + k] = s[k]
  <2>1. off + k \in 1..Len(c)
    BY <1>1, <1>2
  <2> QED
    BY <1>1, <1>2, <2>1 DEF q
<1>4. off + Len(s) <= Len(q)
  BY <1>1, <1>2 DEF q
<1> QED
  BY <1>2, <1>3, <1>4 DEF Lies, q

\* What follows c lies behind it.
LEMMA LiesNew ==
    ASSUME NEW c \in Seq(TOKEN), NEW s \in Seq(TOKEN)
    PROVE  Lies(c \o s, Len(c), s)
<1>1. /\ Len(c) \in Nat /\ Len(s) \in Nat /\ Len(c \o s) = Len(c) + Len(s)
      /\ \A k \in 1..Len(s) : (c \o s)[Len(c) + k] = s[k]
  OBVIOUS
<1> QED
  BY <1>1 DEF Lies

LEMMA HeaderIs ==
    ASSUME NEW body \in Seq(TOKEN)
    PROVE  build_header(body) \in Seq(TOKEN) /\ Len(build_header(body)) = 1
<1>1. Len(body) \in Nat
  OBVIOUS
<1>2. ASSUME NEW n \in Nat PROVE <<"len", n>> \in TOKEN
  BY DEF TOKEN
<1>3. ASSUME NEW t \in TOKEN PROVE <<t>> \in Seq(TOKEN) /\ Len(<<t>>) = 1
  OBVIOUS
<1> QED
  BY <1>1, <1>2, <1>3 DEF build_header

LEMMA ConcatIs ==
    ASSUME NEW c \in Seq(TOKEN), NEW d \in Seq(TOKEN)
    PROVE  c \o d \in Seq(TOKEN) /\ Len(c \o d) = Len(c) + Len(d) /\ Len(c) \in Nat /\ Len(d) \in Nat
  OBVIOUS

\* What one turn of build_slab adds.
LEMMA EmitIs ==
    ASSUME NEW b \in SLAB, NEW r \in ROUTE
    PROVE  LET d == EmitRoute(b, r)
               m == Len(b.entries)
           IN  /\ d \in SLAB /\ Len(d.entries) = m + 1
               /\ Located(d.content, d.entries[m + 1], r)
               /\ \A n \in 1..m : d.entries[n] = b.entries[n]
               /\ \A off : \A s \in Seq(TOKEN) : Lies(b.content, off, s) => Lies(d.content, off, s)
<1> DEFINE d   == EmitRoute(b, r)
           m   == Len(b.entries)
           c   == b.content
           p   == r.path
           h   == build_header(r.body)
           y   == r.body
           off == Len(c)
           e   == [path_off |-> off, path_len |-> Len(p), hdr_off |-> off + Len(p),
                   body_off |-> off + Len(p) + 1, body_len |-> Len(y)]
<1>1. c \in Seq(TOKEN) /\ b.entries \in Seq(ENTRY) /\ p \in Seq(TOKEN) /\ y \in Seq(TOKEN) /\ Len(p) > 0
  BY DEF SLAB, ROUTE
<1>2. h \in Seq(TOKEN) /\ Len(h) = 1
  BY <1>1, HeaderIs
<1>3. d = [entries |-> Append(b.entries, e), content |-> ((c \o p) \o h) \o y]
  BY DEF EmitRoute
<1>4. d.entries = Append(b.entries, e) /\ d.content = ((c \o p) \o h) \o y
  <2>1. ASSUME NEW x, NEW z
        PROVE  [entries |-> x, content |-> z].entries = x /\ [entries |-> x, content |-> z].content = z
    OBVIOUS
  <2> HIDE DEF d, e
  <2> QED
    BY <1>3, <2>1
<1> HIDE DEF c, p, h, y
<1>5. off \in Nat /\ Len(p) \in Nat /\ Len(y) \in Nat /\ m \in Nat
  BY <1>1
<1>6. e \in ENTRY
  <2>1. ASSUME NEW u \in Nat, NEW v \in Nat, NEW w \in Nat, NEW x \in Nat, NEW z \in Nat
        PROVE  [path_off |-> u, path_len |-> v, hdr_off |-> w, body_off |-> x, body_len |-> z] \in ENTRY
    BY DEF ENTRY
  <2>2. off + Len(p) \in Nat /\ off + Len(p) + 1 \in Nat
    BY <1>5
  <2> QED
    BY <1>5, <2>1, <2>2
<1> HIDE DEF e
<1>7. /\ Append(b.entries, e) \in Seq(ENTRY) /\ Len(Append(b.entries, e)) = m + 1
      /\ Append(b.entries, e)[m + 1] = e /\ \A n \in 1..m : Append(b.entries, e)[n] = b.entries[n]
  BY <1>1, <1>6
<1>8. /\ c \o p \in Seq(TOKEN) /\ Len(c \o p) = off + Len(p)
      /\ (c \o p) \o h \in Seq(TOKEN) /\ Len((c \o p) \o h) = off + Len(p) + 1
      /\ ((c \o p) \o h) \o y \in Seq(TOKEN)
  <2>1. c \o p \in Seq(TOKEN) /\ Len(c \o p) = off + Len(p)
    BY <1>1, ConcatIs
  <2>2. (c \o p) \o h \in Seq(TOKEN) /\ Len((c \o p) \o h) = Len(c \o p) + 1
    BY <1>2, <2>1, ConcatIs
  <2>3. ((c \o p) \o h) \o y \in Seq(TOKEN)
    BY <1>1, <2>2, ConcatIs
  <2> QED
    BY <2>1, <2>2, <2>3
<1>9. d \in SLAB
  BY <1>3, <1>7, <1>8 DEF SLAB
<1>10. \A o : \A s \in Seq(TOKEN) :
         /\ Lies(c, o, s) => Lies(((c \o p) \o h) \o y, o, s)
         /\ Lies(c \o p, o, s) => Lies(((c \o p) \o h) \o y, o, s)
         /\ Lies((c \o p) \o h, o, s) => Lies(((c \o p) \o h) \o y, o, s)
  <2> TAKE o
  <2> TAKE s \in Seq(TOKEN)
  <2>1. Lies((c \o p) \o h, o, s) => Lies(((c \o p) \o h) \o y, o, s)
    BY <1>1, <1>8, LiesOn
  <2>2. Lies(c \o p, o, s) => Lies((c \o p) \o h, o, s)
    BY <1>2, <1>8, LiesOn
  <2>3. Lies(c, o, s) => Lies(c \o p, o, s)
    BY <1>1, LiesOn
  <2> QED
    BY <2>1, <2>2, <2>3
<1>11. Located(d.content, e, r)
  <2>1. Lies(d.content, off, p)
    BY <1>1, <1>4, <1>10, LiesNew
  <2>2. Lies(d.content, off + Len(p), h)
    BY <1>2, <1>4, <1>8, <1>10, LiesNew
  <2>3. Lies(d.content, off + Len(p) + 1, y)
    BY <1>1, <1>4, <1>8, LiesNew
  <2>4. off + Len(p) > 0 /\ off + Len(p) + 1 > 0
    BY <1>1, <1>5
  <2> QED
    BY <2>1, <2>2, <2>3, <2>4 DEF Located, e, p, h, y
<1> QED
  BY <1>4, <1>7, <1>9, <1>10, <1>11 DEF c

\* build_slab turn by turn.
Turned(u, routes) == u[0] = NoImage /\ \A n \in 1..Len(routes) : u[n] = EmitRoute(u[n - 1], routes[n])

LEMMA EmptySlab == NoImage \in SLAB /\ Len(NoImage.entries) = 0
  BY DEF NoImage, SLAB

\* build_slab is such a walk over the routes.
LEMMA BuildIs ==
    ASSUME NEW routes \in Seq(ROUTE)
    PROVE  \E u : Turned(u, routes) /\ build_slab(routes) = u[Len(routes)]
<1> DEFINE m == Len(routes)
           F == [n \in 1..m |-> [q \in SLAB |-> EmitRoute(q, routes[n])]]
           Rec(f) == f = [n \in 0..m |-> IF n = 0 THEN NoImage ELSE EmitRoute(f[n - 1], routes[n])]
           u == CHOOSE f : Rec(f)
<1>1. m \in Nat /\ NoImage \in SLAB /\ \A n \in 1..m : routes[n] \in ROUTE
  BY EmptySlab
<1>2. ASSUME NEW n \in 1..m, NEW q \in SLAB PROVE EmitRoute(q, routes[n]) \in SLAB
  BY <1>1, EmitIs
<1>3. F \in [1..m -> [SLAB -> SLAB]]
  BY <1>2
<1> HIDE DEF F, m
<1>4. PICK g : Iterates(g, SLAB, NoImage, m, F)
  BY <1>1, <1>3, Recursion, Zenon
<1>5. ASSUME NEW n \in 1..m PROVE g[n] = EmitRoute(g[n - 1], routes[n])
  <2>1. g[n - 1] \in SLAB /\ g[n] = F[n][g[n - 1]]
    BY <1>1, <1>4 DEF Iterates
  <2> QED
    BY <2>1 DEF F
<1>6. Rec(g)
  BY <1>1, <1>4, <1>5 DEF Iterates
<1>7. Rec(u)
  BY <1>6
<1>8. build_slab(routes) = u[m]
  BY DEF build_slab, m
<1> HIDE DEF u
<1>9. u[0] = NoImage
  <2>1. 0 \in 0..m
    BY <1>1
  <2> QED
    BY <1>7, <2>1
<1>10. ASSUME NEW n \in 1..m PROVE u[n] = EmitRoute(u[n - 1], routes[n])
  <2>1. n \in 0..m /\ n # 0
    BY <1>1
  <2> QED
    BY <1>7, <2>1
<1>11. Turned(u, routes)
  BY <1>9, <1>10 DEF Turned, m
<1> QED
  BY <1>8, <1>11 DEF m

\* A route stays where it is when the content grows.
LEMMA LocatedOn ==
    ASSUME NEW c, NEW d, NEW e, NEW r \in ROUTE, Located(c, e, r),
           \A off : \A s \in Seq(TOKEN) : Lies(c, off, s) => Lies(d, off, s)
    PROVE  Located(d, e, r)
<1>1. r.path \in Seq(TOKEN) /\ r.body \in Seq(TOKEN) /\ build_header(r.body) \in Seq(TOKEN)
  BY HeaderIs DEF ROUTE
<1> QED
  BY <1>1 DEF Located

\* The slab has an entry for every route, which tells where it is.
LEMMA SlabIs ==
    ASSUME NEW routes \in Seq(ROUTE)
    PROVE  LET b == build_slab(routes)
           IN  /\ b \in SLAB /\ Len(b.entries) = Len(routes)
               /\ \A n \in 1..Len(routes) : Located(b.content, b.entries[n], routes[n])
<1> DEFINE m == Len(routes)
<1>1. m \in Nat /\ \A n \in 1..m : routes[n] \in ROUTE
  OBVIOUS
<1>2. PICK u : Turned(u, routes) /\ build_slab(routes) = u[m]
  BY BuildIs
<1> DEFINE Done(k) == /\ u[k] \in SLAB /\ Len(u[k].entries) = k
                      /\ \A n \in 1..k : Located(u[k].content, u[k].entries[n], routes[n])
           P == {k \in 0..m : Done(k)}
<1> HIDE DEF m
<1>3. 0 \in P
  <2>1. Done(0)
    BY <1>2, EmptySlab DEF Turned
  <2> QED
    BY <1>1, <2>1
<1>4. ASSUME NEW k \in 1..m, k - 1 \in P PROVE k \in P
  <2> DEFINE b == u[k - 1]
             d == u[k]
             r == routes[k]
  <2>1. b \in SLAB /\ Len(b.entries) = k - 1 /\ r \in ROUTE /\ (k - 1) + 1 = k
        /\ \A n \in 1..(k - 1) : Located(b.content, b.entries[n], routes[n])
    BY <1>1, <1>4
  <2>2. d = EmitRoute(b, r)
    BY <1>2 DEF Turned, m
  <2> HIDE DEF b, d, r
  <2>3. /\ d \in SLAB /\ Len(d.entries) = (k - 1) + 1
        /\ Located(d.content, d.entries[(k - 1) + 1], r)
        /\ \A n \in 1..(k - 1) : d.entries[n] = b.entries[n]
        /\ \A off : \A s \in Seq(TOKEN) : Lies(b.content, off, s) => Lies(d.content, off, s)
    BY <2>1, <2>2, EmitIs
  <2>4. ASSUME NEW n \in 1..k PROVE Located(d.content, d.entries[n], routes[n])
    <3>1. CASE n = k
      BY <2>1, <2>3, <3>1 DEF r
    <3>2. CASE n # k
      <4>1. n \in 1..(k - 1) /\ routes[n] \in ROUTE
        BY <1>1, <3>2
      <4>2. Located(b.content, d.entries[n], routes[n])
        BY <2>1, <2>3, <4>1
      <4> QED
        BY <2>3, <4>1, <4>2, LocatedOn
    <3> QED
      BY <3>1, <3>2
  <2>5. Done(k)
    BY <2>1, <2>3, <2>4 DEF d
  <2> QED
    BY <1>1, <2>5
<1>5. 0..m \subseteq P
  <2> HIDE DEF P
  <2> QED
    BY <1>1, <1>3, <1>4, UpTo
<1>6. Done(m)
  BY <1>1, <1>5
<1> QED
  BY <1>2, <1>6 DEF m

-----------------------------------------------------------------------------
(* The routes that collect_routes finds. *)

SiteOK == site \in [Files -> [kind : {"absent", "skipped", "file", "long"}, body : Seq(TOKEN)]]

FileRoute(f) == [path |-> PathOf(f), body |-> Body(f)]
RootRoute(f) == [path |-> Root, body |-> Body(f)]

\* File f is published by route r.
Gives(r, f) == Regular(f) /\ (r = FileRoute(f) \/ (f = IndexFile /\ r = RootRoute(f)))

In(r, q) == \E n \in 1..Len(q) : q[n] = r

\* What a concatenation holds.
LEMMA InConcat ==
    ASSUME NEW p \in Seq(ROUTE), NEW q \in Seq(ROUTE)
    PROVE  p \o q \in Seq(ROUTE) /\ \A r : In(r, p \o q) <=> In(r, p) \/ In(r, q)
<1> DEFINE t == p \o q
<1>1. /\ Len(p) \in Nat /\ Len(q) \in Nat /\ Len(t) = Len(p) + Len(q) /\ t \in Seq(ROUTE)
      /\ \A n \in 1..Len(p) : t[n] = p[n]
      /\ \A n \in 1..Len(q) : t[Len(p) + n] = q[n]
  OBVIOUS
<1> HIDE DEF t
<1>2. ASSUME NEW r, In(r, t) PROVE In(r, p) \/ In(r, q)
  <2>1. PICK n \in 1..Len(t) : t[n] = r
    BY <1>2 DEF In
  <2>2. CASE n \in 1..Len(p)
    BY <1>1, <2>1, <2>2 DEF In
  <2>3. CASE n \notin 1..Len(p)
    <3>1. n - Len(p) \in 1..Len(q) /\ Len(p) + (n - Len(p)) = n
      BY <1>1, <2>3
    <3>2. q[n - Len(p)] = r
      BY <1>1, <2>1, <3>1
    <3> QED
      BY <3>1, <3>2 DEF In
  <2> QED
    BY <2>2, <2>3
<1>3. ASSUME NEW r, In(r, p) PROVE In(r, t)
  <2>1. PICK n \in 1..Len(p) : p[n] = r
    BY <1>3 DEF In
  <2>2. n \in 1..Len(t)
    BY <1>1
  <2> QED
    BY <1>1, <2>1, <2>2 DEF In
<1>4. ASSUME NEW r, In(r, q) PROVE In(r, t)
  <2>1. PICK n \in 1..Len(q) : q[n] = r
    BY <1>4 DEF In
  <2>2. Len(p) + n \in 1..Len(t)
    BY <1>1
  <2> QED
    BY <1>1, <2>1, <2>2 DEF In
<1> QED
  BY <1>1, <1>2, <1>3, <1>4 DEF t

LEMMA InOne ==
    ASSUME NEW x \in ROUTE
    PROVE  <<x>> \in Seq(ROUTE) /\ \A r : In(r, <<x>>) <=> r = x
  BY DEF In

LEMMA InNone == <<>> \in Seq(ROUTE) /\ \A r : ~In(r, <<>>)
  BY DEF In

\* Every file has its own path, and none has that of the root.
LEMMA PathsAre ==
    ASSUME NEW f \in Nat
    PROVE  /\ Root \in Seq(TOKEN) /\ Len(Root) = 1
           /\ PathOf(f) \in Seq(TOKEN) /\ Len(PathOf(f)) = 2
           /\ \A g \in Nat : PathOf(f) = PathOf(g) => f = g
           /\ PathOf(f) # Root
<1>1. <<"path", 0>> \in TOKEN /\ <<"path", f>> \in TOKEN
  BY DEF TOKEN
<1>2. ASSUME NEW a \in TOKEN, NEW b \in TOKEN
      PROVE  /\ <<a>> \in Seq(TOKEN) /\ Len(<<a>>) = 1
             /\ <<a, b>> \in Seq(TOKEN) /\ Len(<<a, b>>) = 2
  OBVIOUS
<1>3. Root \in Seq(TOKEN) /\ Len(Root) = 1 /\ PathOf(f) \in Seq(TOKEN) /\ Len(PathOf(f)) = 2
  BY <1>1, <1>2 DEF Root, PathOf
<1>4. ASSUME NEW g \in Nat, PathOf(f) = PathOf(g) PROVE f = g
  BY <1>4 DEF PathOf
<1> QED
  BY <1>3, <1>4

\* A name adds its routes and no others.
LEMMA RoutesOfIs ==
    ASSUME SiteOK, NEW f \in Files
    PROVE  RoutesOf(f) \in Seq(ROUTE) /\ \A r : In(r, RoutesOf(f)) <=> Gives(r, f)
<1>1. f \in Nat /\ Body(f) \in Seq(TOKEN)
  BY DEF SiteOK, Files, Body
<1>2. FileRoute(f) \in ROUTE /\ RootRoute(f) \in ROUTE
  <2>1. ASSUME NEW p \in Seq(TOKEN), NEW y \in Seq(TOKEN), Len(p) > 0
        PROVE  [path |-> p, body |-> y] \in ROUTE
    BY <2>1 DEF ROUTE
  <2>2. PathOf(f) \in Seq(TOKEN) /\ Len(PathOf(f)) > 0 /\ Root \in Seq(TOKEN) /\ Len(Root) > 0
    <3>1. PathOf(f) \in Seq(TOKEN) /\ Len(PathOf(f)) = 2 /\ Root \in Seq(TOKEN) /\ Len(Root) = 1
      BY <1>1, PathsAre, Zenon
    <3>2. \A n : n = 1 \/ n = 2 => n > 0
      OBVIOUS
    <3> QED
      BY <3>1, <3>2, Zenon
  <2> QED
    BY <1>1, <2>1, <2>2, Zenon DEF FileRoute, RootRoute
<1>3. CASE ~Regular(f)
  <2>1. RoutesOf(f) = <<>>
    BY <1>3 DEF RoutesOf
  <2> QED
    BY <1>3, <2>1, InNone DEF Gives
<1>4. CASE Regular(f) /\ f # IndexFile
  <2>1. RoutesOf(f) = <<FileRoute(f)>> \o <<>>
    BY <1>4 DEF RoutesOf, FileRoute
  <2> QED
    BY <1>2, <1>4, <2>1, InOne, InNone, InConcat DEF Gives
<1>5. CASE Regular(f) /\ f = IndexFile
  <2>1. RoutesOf(f) = <<FileRoute(f)>> \o <<RootRoute(f)>>
    BY <1>5 DEF RoutesOf, FileRoute, RootRoute
  <2>2. /\ <<FileRoute(f)>> \in Seq(ROUTE) /\ \A r : In(r, <<FileRoute(f)>>) <=> r = FileRoute(f)
        /\ <<RootRoute(f)>> \in Seq(ROUTE) /\ \A r : In(r, <<RootRoute(f)>>) <=> r = RootRoute(f)
    BY <1>2, InOne
  <2>3. /\ RoutesOf(f) \in Seq(ROUTE)
        /\ \A r : In(r, RoutesOf(f)) <=> r = FileRoute(f) \/ r = RootRoute(f)
    <3> DEFINE p == <<FileRoute(f)>>
               q == <<RootRoute(f)>>
    <3>1. p \in Seq(ROUTE) /\ q \in Seq(ROUTE)
      BY <2>2
    <3> HIDE DEF p, q
    <3>2. p \o q \in Seq(ROUTE) /\ \A r : In(r, p \o q) <=> In(r, p) \/ In(r, q)
      BY <3>1, InConcat
    <3> QED
      BY <2>1, <2>2, <3>2, Zenon DEF p, q
  <2> QED
    BY <1>5, <2>3, Zenon DEF Gives
<1> QED
  BY <1>3, <1>4, <1>5

\* collect_routes name by name.
Collected(u) == u[0] = <<>> /\ \A n \in 1..NumFiles : u[n] = u[n - 1] \o RoutesOf(n)

\* collect_routes is such a walk over the names.
LEMMA CollectIs ==
    ASSUME SiteOK
    PROVE  \E u : Collected(u) /\ collect_routes = u[NumFiles]
<1> DEFINE m == NumFiles
           V == Seq(ROUTE)
           F == [n \in 1..m |-> [q \in V |-> q \o RoutesOf(n)]]
           Rec(f) == f = [n \in 0..m |-> IF n = 0 THEN <<>> ELSE f[n - 1] \o RoutesOf(n)]
           u == CHOOSE f : Rec(f)
<1>1. m \in Nat /\ <<>> \in V
  BY ApplianceAssumption, InNone
<1>2. ASSUME NEW n \in 1..m, NEW q \in V PROVE q \o RoutesOf(n) \in V
  BY RoutesOfIs, InConcat DEF Files
<1> HIDE DEF V
<1>3. F \in [1..m -> [V -> V]]
  BY <1>2
<1> HIDE DEF F, m
<1>4. PICK g : Iterates(g, V, <<>>, m, F)
  BY <1>1, <1>3, Recursion, Zenon
<1>5. ASSUME NEW n \in 1..m PROVE g[n] = g[n - 1] \o RoutesOf(n)
  <2>1. g[n - 1] \in V /\ g[n] = F[n][g[n - 1]]
    BY <1>1, <1>4 DEF Iterates
  <2> QED
    BY <2>1 DEF F
<1>6. Rec(g)
  BY <1>1, <1>4, <1>5 DEF Iterates
<1>7. Rec(u)
  BY <1>6
<1>8. collect_routes = u[m]
  BY DEF collect_routes, m
<1> HIDE DEF u
<1>9. u[0] = <<>>
  <2>1. 0 \in 0..m
    BY <1>1
  <2> QED
    BY <1>7, <2>1
<1>10. ASSUME NEW n \in 1..m PROVE u[n] = u[n - 1] \o RoutesOf(n)
  <2>1. n \in 0..m /\ n # 0
    BY <1>1
  <2> QED
    BY <1>7, <2>1
<1>11. Collected(u)
  BY <1>9, <1>10 DEF Collected, m
<1> QED
  BY <1>8, <1>11 DEF m

\* collect_routes returns the routes of every regular file and no others.
LEMMA RoutesAre ==
    ASSUME SiteOK
    PROVE  /\ collect_routes \in Seq(ROUTE)
           /\ \A r : In(r, collect_routes) <=> \E f \in Files : Gives(r, f)
<1> DEFINE m == NumFiles
<1>1. m \in Nat
  BY ApplianceAssumption
<1>2. PICK u : Collected(u) /\ collect_routes = u[m]
  BY CollectIs
<1> DEFINE Done(k) == u[k] \in Seq(ROUTE) /\ \A r : In(r, u[k]) <=> \E f \in 1..k : Gives(r, f)
           P == {k \in 0..m : Done(k)}
<1>3. 0 \in P
  <2>1. Done(0)
    BY <1>2, InNone DEF Collected
  <2> QED
    BY <1>1, <2>1
<1>4. ASSUME NEW k \in 1..m, k - 1 \in P PROVE k \in P
  <2>1. Done(k - 1) /\ u[k] = u[k - 1] \o RoutesOf(k)
    BY <1>2, <1>4 DEF Collected
  <2>2. RoutesOf(k) \in Seq(ROUTE) /\ \A r : In(r, RoutesOf(k)) <=> Gives(r, k)
    BY RoutesOfIs DEF Files
  <2>3. u[k] \in Seq(ROUTE) /\ \A r : In(r, u[k]) <=> In(r, u[k - 1]) \/ In(r, RoutesOf(k))
    BY <2>1, <2>2, InConcat
  <2>4. \A f : f \in 1..k <=> f \in 1..(k - 1) \/ f = k
    BY <1>1
  <2>5. \A r : In(r, u[k]) <=> (\E f \in 1..(k - 1) : Gives(r, f)) \/ Gives(r, k)
    BY <2>1, <2>2, <2>3
  <2>6. \A r : In(r, u[k]) <=> \E f \in 1..k : Gives(r, f)
    BY <2>4, <2>5, Zenon
  <2>7. Done(k)
    BY <2>3, <2>6
  <2> QED
    BY <1>1, <2>7
<1>5. 0..m \subseteq P
  <2> HIDE DEF P
  <2> QED
    BY <1>1, <1>3, <1>4, UpTo
<1>6. Done(m)
  BY <1>1, <1>5
<1> QED
  BY <1>2, <1>6 DEF Files

-----------------------------------------------------------------------------
(* What a booted image serves. *)

Base == SlabAddr + ContentOff(knobs.kernelRoutes)

\* The routes are those of the site, each some number of times.
Publishes(routes) ==
    routes \in Seq(ROUTE) /\ \A r : In(r, routes) <=> \E f \in Files : Gives(r, f)

\* Entry e is what http_appliance_init makes of one that is located.
Pointed(c, e, r, base) ==
    \E o : /\ Located(c, o, r)
           /\ e.path_off = base + o.path_off /\ e.path_len = o.path_len
           /\ e.hdr_off = base + o.hdr_off
           /\ e.body_off = base + o.body_off /\ e.body_len = o.body_len

Holds(routes) ==
    /\ image \in SLAB /\ Len(image.entries) = Len(routes)
    /\ \A n \in 1..Len(routes) : Located(image.content, image.entries[n], routes[n])

Offers(routes) ==
    /\ image.content \in Seq(TOKEN) /\ DOMAIN image.entries = 1..Len(routes)
    /\ \A n \in 1..Len(routes) : Pointed(image.content, image.entries[n], routes[n], Base)

KnobsOK == knobs.kernelRoutes \in Nat /\ knobs.routes \in Nat

\* With equal MAX_ROUTES the kernel finds the content where the packager
\* put it.
LEMMA MemoryIs ==
    ASSUME KnobsOK, knobs.kernelRoutes = knobs.routes, image.content \in Seq(TOKEN),
           NEW off, NEW s \in Seq(TOKEN), Lies(image.content, off, s)
    PROVE  Memory(Base + off, Len(s)) = s
<1> DEFINE c == image.content
           start == SlabAddr + ContentOff(knobs.routes)
           a == Base + off
<1>1. Base = start /\ start \in Nat
  BY DEF Base, KnobsOK, SlabAddr, ContentOff, RoutesOff
<1>2. Memory(a, Len(s)) = [i \in 1..Len(s) |->
        IF a + i - start \in DOMAIN c THEN c[a + i - start] ELSE <<"other", 0>>]
  BY DEF Memory
<1>3. /\ off \in Nat /\ off + Len(s) <= Len(c) /\ \A k \in 1..Len(s) : c[off + k] = s[k]
      /\ Len(s) \in Nat /\ Len(c) \in Nat /\ DOMAIN c = 1..Len(c)
  BY DEF Lies
<1> HIDE DEF c, start
<1>4. ASSUME NEW i \in 1..Len(s)
      PROVE  (IF a + i - start \in DOMAIN c THEN c[a + i - start] ELSE <<"other", 0>>) = s[i]
  <2>1. a + i - start = off + i /\ off + i \in 1..Len(c)
    BY <1>1, <1>3
  <2> QED
    BY <1>3, <2>1
<1>5. [i \in 1..Len(s) |->
        IF a + i - start \in DOMAIN c THEN c[a + i - start] ELSE <<"other", 0>>]
      = [i \in 1..Len(s) |-> s[i]]
  BY <1>4
<1>6. s = [i \in 1..Len(s) |-> s[i]]
  OBVIOUS
<1> QED
  BY <1>2, <1>5, <1>6

\* An entry leads to its path, header and body.
LEMMA EntryReads ==
    ASSUME KnobsOK, knobs.kernelRoutes = knobs.routes, image.content \in Seq(TOKEN),
           NEW r \in ROUTE, NEW e, Pointed(image.content, e, r, Base)
    PROVE  /\ e.path_len = Len(r.path) /\ Memory(e.path_off, e.path_len) = r.path
           /\ Memory(e.hdr_off, 1) = build_header(r.body)
           /\ Memory(e.body_off, e.body_len) = r.body
<1>1. PICK o : /\ Located(image.content, o, r)
               /\ e.path_off = Base + o.path_off /\ e.path_len = o.path_len
               /\ e.hdr_off = Base + o.hdr_off
               /\ e.body_off = Base + o.body_off /\ e.body_len = o.body_len
  BY DEF Pointed
<1>2. /\ r.path \in Seq(TOKEN) /\ r.body \in Seq(TOKEN)
      /\ build_header(r.body) \in Seq(TOKEN) /\ Len(build_header(r.body)) = 1
  BY HeaderIs DEF ROUTE
<1>3. /\ Lies(image.content, o.path_off, r.path) /\ o.path_len = Len(r.path)
      /\ Lies(image.content, o.hdr_off, build_header(r.body))
      /\ Lies(image.content, o.body_off, r.body) /\ o.body_len = Len(r.body)
  BY <1>1 DEF Located
<1>4. /\ Memory(Base + o.path_off, Len(r.path)) = r.path
      /\ Memory(Base + o.hdr_off, Len(build_header(r.body))) = build_header(r.body)
      /\ Memory(Base + o.body_off, Len(r.body)) = r.body
  BY <1>2, <1>3, MemoryIs
<1> QED
  BY <1>1, <1>2, <1>3, <1>4, Zenon

\* A set of naturals that is not empty has a least one.
LEMMA LeastOf ==
    ASSUME NEW H, H \subseteq Nat, H # {}
    PROVE  \E i \in H : \A j \in H : i <= j
<1>1. PICK x \in H : \A y \in H : ~(<<y, x>> \in OpToRel(<, Nat))
  BY NatLessThanWellFounded, WFMin
<1>2. \A y \in H : ~(y < x)
  BY <1>1 DEF OpToRel
<1>3. \A y \in H : x <= y
  BY <1>2
<1> QED
  BY <1>3

\* http_match_uri finds a route of that path if there is one.
LEMMA MatchIs ==
    ASSUME KnobsOK, knobs.kernelRoutes = knobs.routes,
           NEW routes \in Seq(ROUTE), Offers(routes), NEW uri
    PROVE  LET i == http_match_uri(uri)
           IN  /\ i # 0 => i \in 1..Len(routes) /\ routes[i].path = uri
               /\ (\E n \in 1..Len(routes) : routes[n].path = uri) => i # 0
<1> DEFINE Hit(i) == LET e == image.entries[i] IN
                     e.path_len = Len(uri) /\ Memory(e.path_off, e.path_len) = uri
           hits == {i \in DOMAIN image.entries : Hit(i)}
           i == http_match_uri(uri)
<1>1. i = IF hits = {} THEN 0 ELSE CHOOSE n \in hits : \A j \in hits : n <= j
  BY DEF http_match_uri
<1>2. ASSUME NEW n \in 1..Len(routes) PROVE Hit(n) <=> routes[n].path = uri
  <2>1. routes[n] \in ROUTE /\ Pointed(image.content, image.entries[n], routes[n], Base)
        /\ image.content \in Seq(TOKEN)
    BY DEF Offers
  <2>2. LET e == image.entries[n] IN
        e.path_len = Len(routes[n].path) /\ Memory(e.path_off, e.path_len) = routes[n].path
    BY <2>1, EntryReads
  <2> QED
    BY <2>2, Zenon
<1>3. DOMAIN image.entries = 1..Len(routes) /\ Len(routes) \in Nat
  BY DEF Offers
<1>4. hits \subseteq 1..Len(routes) /\ hits \subseteq Nat
      /\ \A n \in 1..Len(routes) : n \in hits <=> routes[n].path = uri
  BY <1>2, <1>3
<1> HIDE DEF hits, i
<1>5. CASE hits = {}
  BY <1>1, <1>4, <1>5 DEF i
<1>6. CASE hits # {}
  <2>1. \E n \in hits : \A j \in hits : n <= j
    BY <1>4, <1>6, LeastOf
  <2>2. i \in hits
    BY <1>1, <1>6, <2>1
  <2>3. i \in 1..Len(routes) /\ routes[i].path = uri /\ i # 0
    BY <1>3, <1>4, <2>2
  <2> QED
    BY <2>3 DEF i
<1> QED
  BY <1>5, <1>6 DEF i

\* What is served is the body of a route of that path.
LEMMA Served ==
    ASSUME KnobsOK, knobs.kernelRoutes = knobs.routes, NEW routes, Publishes(routes),
           Offers(routes), NEW uri, NEW r, In(r, routes), r.path = uri,
           \A q : In(q, routes) /\ q.path = uri => q.body = r.body
    PROVE  Serves(uri, r.body)
<1> DEFINE i == http_match_uri(uri)
<1>1. routes \in Seq(ROUTE)
  BY DEF Publishes
<1>2. \E n \in 1..Len(routes) : routes[n].path = uri
  BY DEF In
<1>3. i # 0 /\ i \in 1..Len(routes) /\ routes[i].path = uri
  BY <1>1, <1>2, MatchIs
<1> HIDE DEF i
<1>4. In(routes[i], routes)
  BY <1>3 DEF In
<1>5. routes[i].body = r.body /\ routes[i] \in ROUTE
  BY <1>1, <1>3, <1>4
<1>6. image.content \in Seq(TOKEN) /\ Pointed(image.content, image.entries[i], routes[i], Base)
  BY <1>3 DEF Offers
<1>7. LET e == image.entries[i]
      IN  /\ Memory(e.hdr_off, 1) = build_header(r.body)
          /\ Memory(e.body_off, e.body_len) = r.body
  BY <1>5, <1>6, EntryReads
<1> QED
  BY <1>3, <1>7 DEF Serves, i

\* Nothing is found for a path that no route has.
LEMMA Unserved ==
    ASSUME KnobsOK, knobs.kernelRoutes = knobs.routes, NEW routes, Publishes(routes),
           Offers(routes), NEW uri, \A q : In(q, routes) => q.path # uri
    PROVE  http_match_uri(uri) = 0
<1> DEFINE i == http_match_uri(uri)
<1>1. routes \in Seq(ROUTE)
  BY DEF Publishes
<1>2. i # 0 => i \in 1..Len(routes) /\ routes[i].path = uri
  BY <1>1, MatchIs
<1> HIDE DEF i
<1>3. i # 0 => In(routes[i], routes)
  BY <1>2 DEF In
<1> QED
  BY <1>2, <1>3 DEF i

\* A route tells by its path which file gave it.
LEMMA GivenPaths ==
    ASSUME NEW r, NEW g \in Files, Gives(r, g)
    PROVE  /\ Regular(g) /\ r.body = Body(g)
           /\ \A f \in Files : r.path = PathOf(f) => f = g
           /\ r.path = Root => g = IndexFile
<1>1. \A f \in Files : f \in Nat
  BY DEF Files
<1>2. ASSUME NEW p, NEW y PROVE [path |-> p, body |-> y].path = p /\ [path |-> p, body |-> y].body = y
  OBVIOUS
<1>3. CASE r = FileRoute(g)
  <2>1. r.path = PathOf(g) /\ r.body = Body(g) /\ Regular(g)
    BY <1>2, <1>3 DEF FileRoute, Gives
  <2>2. PathOf(g) # Root
    BY <1>1, PathsAre, Zenon
  <2>3. \A f \in Files : PathOf(g) = PathOf(f) => f = g
    BY <1>1, PathsAre, Zenon
  <2> QED
    BY <2>1, <2>2, <2>3, Zenon
<1>4. CASE g = IndexFile /\ r = RootRoute(g)
  <2>1. r.path = Root /\ r.body = Body(g) /\ Regular(g)
    BY <1>2, <1>4 DEF RootRoute, Gives
  <2>2. \A f \in Files : PathOf(f) # Root
    BY <1>1, PathsAre, Zenon
  <2> QED
    BY <1>4, <2>1, <2>2, Zenon
<1> QED
  BY <1>3, <1>4 DEF Gives

\* A booted image serves the site, and nothing that was skipped.
LEMMA AllServed ==
    ASSUME KnobsOK, knobs.kernelRoutes = knobs.routes, NEW routes, Publishes(routes), Offers(routes)
    PROVE  /\ \A f \in Files : IF Regular(f) THEN Serves(PathOf(f), Body(f))
                               ELSE http_match_uri(PathOf(f)) = 0
           /\ IF Regular(IndexFile) THEN Serves(Root, Body(IndexFile))
              ELSE http_match_uri(Root) = 0
<1>1. IndexFile \in Files
  BY ApplianceAssumption DEF Files
<1>2. ASSUME NEW q, In(q, routes)
      PROVE  \E g \in Files : /\ Regular(g) /\ q.body = Body(g)
                              /\ \A f \in Files : q.path = PathOf(f) => f = g
                              /\ q.path = Root => g = IndexFile
  <2>1. PICK g \in Files : Gives(q, g)
    BY <1>2 DEF Publishes
  <2> QED
    BY <2>1, GivenPaths
<1>3. ASSUME NEW f \in Files, Regular(f) PROVE Serves(PathOf(f), Body(f))
  <2> DEFINE r == FileRoute(f)
  <2>1. r.path = PathOf(f) /\ r.body = Body(f)
    BY DEF FileRoute
  <2>2. Gives(r, f)
    BY <1>3 DEF Gives
  <2>3. In(r, routes)
    BY <2>2 DEF Publishes
  <2> HIDE DEF r
  <2>4. \A q : In(q, routes) /\ q.path = PathOf(f) => q.body = r.body
    BY <1>2, <2>1, Zenon
  <2>5. Serves(PathOf(f), r.body)
    BY <2>1, <2>3, <2>4, Served
  <2> QED
    BY <2>1, <2>5
<1>4. ASSUME NEW f \in Files, ~Regular(f) PROVE http_match_uri(PathOf(f)) = 0
  <2>1. \A q : In(q, routes) => q.path # PathOf(f)
    BY <1>2, <1>4, Zenon
  <2> QED
    BY <2>1, Unserved
<1>5. ASSUME Regular(IndexFile) PROVE Serves(Root, Body(IndexFile))
  <2> DEFINE r == RootRoute(IndexFile)
  <2>1. r.path = Root /\ r.body = Body(IndexFile)
    BY DEF RootRoute
  <2>2. Gives(r, IndexFile)
    BY <1>5 DEF Gives
  <2>3. In(r, routes)
    BY <1>1, <2>2 DEF Publishes
  <2> HIDE DEF r
  <2>4. \A q : In(q, routes) /\ q.path = Root => q.body = r.body
    BY <1>2, <2>1, Zenon
  <2>5. Serves(Root, r.body)
    BY <2>1, <2>3, <2>4, Served
  <2> QED
    BY <2>1, <2>5
<1>6. ASSUME ~Regular(IndexFile) PROVE http_match_uri(Root) = 0
  <2>1. \A q : In(q, routes) => q.path # Root
    BY <1>2, <1>6, Zenon
  <2> QED
    BY <2>1, Unserved
<1> QED
  BY <1>3, <1>4, <1>5, <1>6

\* What packager and boot have made of the site so far.
AppInv ==
    /\ SiteOK /\ KnobsOK
    /\ stage = "packaged" => \E routes : Publishes(routes) /\ Holds(routes)
    /\ stage = "booted" => \E routes : Publishes(routes) /\ Offers(routes)

LEMMA AppStart == AppInit => AppInv
<1> SUFFICES ASSUME AppInit PROVE AppInv
  OBVIOUS
<1>1. KnobsOK
  BY ApplianceAssumption DEF AppInit, KnobsOK
<1>2. SiteOK
  <2>1. <<>> \in Seq(TOKEN)
    OBVIOUS
  <2> QED
    BY <2>1 DEF AppInit, SiteOK
<1> QED
  BY <1>1, <1>2 DEF AppInit, AppInv

\* The routes of a site that does not change.
LEMMA PublishesOn ==
    ASSUME UNCHANGED site, NEW routes, Publishes(routes)
    PROVE  Publishes(routes)'
  BY DEF Publishes, Gives, Regular, Body, FileRoute, RootRoute

LEMMA AddFileApp == AppInv /\ AddFile => AppInv'
<1> SUFFICES ASSUME AppInv, AddFile PROVE AppInv'
  OBVIOUS
<1>1. stage' = "edit" /\ KnobsOK'
  BY DEF AppInv, AddFile, KnobsOK
<1>2. SiteOK'
  <2>1. PICK f \in Files :
           \/ site' = [site EXCEPT ![f].kind = "skipped"]
           \/ site' = [site EXCEPT ![f].kind = "long"]
           \/ \E n \in 0..MaxBody :
                 site' = [site EXCEPT ![f] =
                            [kind |-> "file", body |-> [i \in 1..n |-> <<"body", f>>]]]
    BY DEF AddFile
  <2>2. CASE site' = [site EXCEPT ![f].kind = "skipped"]
    BY <2>2 DEF AppInv, SiteOK
  <2>3. CASE site' = [site EXCEPT ![f].kind = "long"]
    BY <2>3 DEF AppInv, SiteOK
  <2>4. CASE \E n \in 0..MaxBody :
                site' = [site EXCEPT ![f] =
                           [kind |-> "file", body |-> [i \in 1..n |-> <<"body", f>>]]]
    <3>1. PICK n \in 0..MaxBody :
             site' = [site EXCEPT ![f] =
                        [kind |-> "file", body |-> [i \in 1..n |-> <<"body", f>>]]]
      BY <2>4
    <3> DEFINE y == [i \in 1..n |-> <<"body", f>>]
    <3>2. <<"body", f>> \in TOKEN /\ n \in Nat
      BY ApplianceAssumption DEF TOKEN, Files
    <3>3. ASSUME NEW t \in TOKEN PROVE [i \in 1..n |-> t] \in Seq(TOKEN)
      BY <3>2
    <3>4. y \in Seq(TOKEN)
      BY <3>2, <3>3
    <3> HIDE DEF y
    <3>5. [kind |-> "file", body |-> y] \in [kind : {"absent", "skipped", "file", "long"}, body : Seq(TOKEN)]
      BY <3>4
    <3>6. site' = [site EXCEPT ![f] = [kind |-> "file", body |-> y]]
      BY <3>1 DEF y
    <3> QED
      BY <3>5, <3>6 DEF AppInv, SiteOK
  <2> QED
    BY <2>1, <2>2, <2>3, <2>4
<1> QED
  BY <1>1, <1>2 DEF AppInv

LEMMA PackageApp == AppInv /\ package => AppInv'
<1> SUFFICES ASSUME AppInv, package PROVE AppInv'
  OBVIOUS
<1>1. SiteOK /\ KnobsOK /\ SiteOK' /\ KnobsOK' /\ UNCHANGED site
  BY DEF AppInv, package, SiteOK, KnobsOK
<1>2. stage' \in {"packaged", "refused"} /\ (stage' = "packaged" => image' = build_slab(collect_routes))
  BY DEF package
<1>3. ASSUME stage' = "packaged" PROVE \E routes : Publishes(routes)' /\ Holds(routes)'
  <2> DEFINE q == collect_routes
             b == build_slab(q)
  <2>1. Publishes(q)
    BY <1>1, RoutesAre DEF Publishes
  <2>2. q \in Seq(ROUTE) /\ image' = b
    BY <1>2, <1>3, <2>1 DEF Publishes
  <2> HIDE DEF q
  <2>3. /\ b \in SLAB /\ Len(b.entries) = Len(q)
        /\ \A n \in 1..Len(q) : Located(b.content, b.entries[n], q[n])
    BY <2>2, SlabIs
  <2> HIDE DEF b
  <2>4. PICK w : w = q
    OBVIOUS
  <2>5. Publishes(w)
    BY <2>1, <2>4
  <2>6. Publishes(w)'
    BY <1>1, <2>5, PublishesOn
  <2>7. Holds(w)'
    BY <2>2, <2>3, <2>4 DEF Holds
  <2> QED
    BY <2>6, <2>7
<1> QED
  BY <1>1, <1>2, <1>3 DEF AppInv

LEMMA BootApp == AppInv /\ http_appliance_init => AppInv'
<1> SUFFICES ASSUME AppInv, http_appliance_init PROVE AppInv'
  OBVIOUS
<1>1. SiteOK' /\ KnobsOK' /\ KnobsOK /\ UNCHANGED <<site, knobs>> /\ stage' = "booted"
  BY DEF AppInv, http_appliance_init, SiteOK, KnobsOK
<1>2. PICK routes : Publishes(routes) /\ Holds(routes)
  BY DEF AppInv, http_appliance_init
<1> DEFINE old == image.entries
<1>3. /\ image \in SLAB /\ Len(old) = Len(routes)
      /\ \A n \in 1..Len(routes) : Located(image.content, old[n], routes[n])
  BY <1>2 DEF Holds
<1>4. old \in Seq(ENTRY) /\ image.content \in Seq(TOKEN) /\ DOMAIN old = 1..Len(routes)
      /\ image = [entries |-> old, content |-> image.content]
  BY <1>3 DEF SLAB
<1>5. image' = [image EXCEPT !.entries =
                  [i \in DOMAIN old |-> PatchEntry(old[i], Base)]]
  BY DEF http_appliance_init, Base
<1> HIDE DEF old
<1>6. /\ image'.content = image.content
      /\ image'.entries = [i \in DOMAIN old |-> PatchEntry(old[i], Base)]
  BY <1>4, <1>5
<1>7. ASSUME NEW n \in 1..Len(routes)
      PROVE  Pointed(image.content, image'.entries[n], routes[n], Base)
  <2> DEFINE o == old[n]
             e == image'.entries[n]
  <2>1. o \in ENTRY /\ Located(image.content, o, routes[n])
    BY <1>3, <1>4
  <2>2. e = PatchEntry(o, Base)
    BY <1>4, <1>6
  <2> HIDE DEF o, e
  <2>3. o.hdr_off # 0 /\ o.body_off # 0
    BY <2>1 DEF Located, ENTRY
  <2>4. /\ e.path_off = Base + o.path_off /\ e.path_len = o.path_len /\ e.body_len = o.body_len
        /\ e.hdr_off = Base + o.hdr_off /\ e.body_off = Base + o.body_off
    BY <2>1, <2>2, <2>3 DEF ENTRY, PatchEntry
  <2> QED
    BY <2>1, <2>4 DEF Pointed, e
<1>8. Base' = Base
  BY <1>1 DEF Base
<1>9. Offers(routes)'
  BY <1>4, <1>6, <1>7, <1>8 DEF Offers
<1>10. Publishes(routes)'
  BY <1>1, <1>2, PublishesOn
<1> QED
  BY <1>1, <1>9, <1>10 DEF AppInv

LEMMA AppStep == AppInv /\ [AppNext]_appVars => AppInv'
<1>1. AppInv /\ UNCHANGED appVars => AppInv'
  <2> SUFFICES ASSUME AppInv, UNCHANGED appVars PROVE AppInv'
    OBVIOUS
  <2>1. UNCHANGED site /\ UNCHANGED image /\ UNCHANGED knobs /\ UNCHANGED stage
    BY DEF appVars
  <2>2. SiteOK' /\ KnobsOK'
    BY <2>1 DEF AppInv, SiteOK, KnobsOK
  <2>3. ASSUME NEW q PROVE (Holds(q) => Holds(q)') /\ (Offers(q) => Offers(q)')
    BY <2>1 DEF Holds, Offers, Base
  <2> QED
    BY <2>1, <2>2, <2>3, PublishesOn DEF AppInv
<1> QED
  BY <1>1, AddFileApp, PackageApp, BootApp DEF AppNext

LEMMA AppServes == AppInv => PackagedServes
<1> SUFFICES ASSUME AppInv, stage = "booted", knobs.kernelRoutes = knobs.routes
             PROVE  /\ \A f \in Files : IF Regular(f) THEN Serves(PathOf(f), Body(f))
                                        ELSE http_match_uri(PathOf(f)) = 0
                    /\ IF Regular(IndexFile) THEN Serves(Root, Body(IndexFile))
                       ELSE http_match_uri(Root) = 0
  BY DEF PackagedServes
<1>1. KnobsOK /\ \E routes : Publishes(routes) /\ Offers(routes)
  BY DEF AppInv
<1> QED
  BY <1>1, AllServed

-----------------------------------------------------------------------------
(* tcp_fsa_table and its suite: the rows. *)

HANDLERS == {"none", "listen_syn", "synrcvd_ack", "conn_close", "drop", "estab_ack",
             "estab_fin", "lastack_ack", "finwait1_ack", "closing_ack", "finwait1_fin",
             "finwait2_fin", "timewait_fin"}

AckHandlers == {"synrcvd_ack", "drop", "estab_ack", "lastack_ack", "finwait1_ack", "closing_ack"}

FinRows == {<<"ESTABLISHED", "CLOSE_WAIT", "estab_fin">>, <<"FIN_WAIT_1", "CLOSING", "finwait1_fin">>,
            <<"FIN_WAIT_2", "TIME_WAIT", "finwait2_fin">>, <<"TIME_WAIT", "TIME_WAIT", "timewait_fin">>}
FinStates == {"ESTABLISHED", "FIN_WAIT_1", "FIN_WAIT_2", "TIME_WAIT"}

\* What the rows have in common, event by event.
RowOK(s, e, n, h) ==
    \/ e = "RST" /\ s \in Connected /\ n = "CLOSED" /\ h = "conn_close"
    \/ e = "SYN" /\ s = "LISTEN" /\ n = "LISTEN" /\ h = "listen_syn"
    \/ e = "ACK" /\ s \in Connected /\ n \in CONN_STATES /\ h \in AckHandlers
    \/ e = "FIN" /\ <<s, n, h>> \in FinRows

\* The rows, and for which states and events there is one.
LEMMA RowsAre ==
    /\ \A r \in tcp_fsa_rows : RowOK(r[1], r[2], r[3], r[4])
    /\ \A s \in Connected : \A e \in {"RST", "ACK"} : \E r \in tcp_fsa_rows : r[1] = s /\ r[2] = e
    /\ \A s \in FinStates : \E r \in tcp_fsa_rows : r[1] = s /\ r[2] = "FIN"
    /\ \E r \in tcp_fsa_rows : r[1] = "LISTEN" /\ r[2] = "SYN"
<1>1. \A r \in tcp_fsa_rows : RowOK(r[1], r[2], r[3], r[4])
  BY DEF tcp_fsa_rows, RowOK, Connected, CONN_STATES, AckHandlers, FinRows
<1>2. ASSUME NEW s \in Connected, NEW e \in {"RST", "ACK"}
      PROVE  \E r \in tcp_fsa_rows : r[1] = s /\ r[2] = e
  BY DEF tcp_fsa_rows, Connected, CONN_STATES
<1>3. ASSUME NEW s \in FinStates PROVE \E r \in tcp_fsa_rows : r[1] = s /\ r[2] = "FIN"
  BY DEF tcp_fsa_rows, FinStates
<1>4. \E r \in tcp_fsa_rows : r[1] = "LISTEN" /\ r[2] = "SYN"
  BY DEF tcp_fsa_rows
<1> QED
  BY <1>1, <1>2, <1>3, <1>4

\* A cell has its row, or is empty.
LEMMA EntryIs ==
    ASSUME NEW s \in CONN_STATES, NEW e \in Events
    PROVE  LET entry == tcp_fsa_table[<<s, e>>]
           IN  IF \E r \in tcp_fsa_rows : r[1] = s /\ r[2] = e
               THEN entry.handler # "none" /\ RowOK(s, e, entry.next, entry.handler)
               ELSE entry = NoEntry
<1> DEFINE c == <<s, e>>
           entry == tcp_fsa_table[<<s, e>>]
           At(r) == <<r[1], r[2]>> = c
<1>1. \A r : At(r) <=> r[1] = s /\ r[2] = e
  OBVIOUS
<1>2. c \in CONN_STATES \X Events
  OBVIOUS
<1>3. entry = IF \E r \in tcp_fsa_rows : At(r)
              THEN LET r == CHOOSE r \in tcp_fsa_rows : At(r)
                   IN  [next |-> r[3], handler |-> r[4]]
              ELSE NoEntry
  BY <1>2 DEF tcp_fsa_table, TableOf
<1> HIDE DEF entry, At
<1>4. CASE \E r \in tcp_fsa_rows : At(r)
  <2> DEFINE r == CHOOSE r \in tcp_fsa_rows : At(r)
  <2>1. r \in tcp_fsa_rows /\ At(r)
    BY <1>4
  <2>2. entry = [next |-> r[3], handler |-> r[4]]
    BY <1>3, <1>4
  <2> HIDE DEF r
  <2>3. entry.next = r[3] /\ entry.handler = r[4] /\ r[1] = s /\ r[2] = e
    BY <1>1, <2>1, <2>2
  <2>4. RowOK(s, e, entry.next, entry.handler)
    BY <2>1, <2>3, RowsAre
  <2>5. entry.handler # "none"
    BY <2>4 DEF RowOK, AckHandlers, FinRows
  <2> QED
    BY <1>1, <1>4, <2>4, <2>5 DEF entry
<1>5. CASE ~\E r \in tcp_fsa_rows : At(r)
  BY <1>1, <1>3, <1>5 DEF entry
<1> QED
  BY <1>4, <1>5

\* The table cell by cell.
LEMMA CellIs ==
    ASSUME NEW s \in CONN_STATES, NEW e \in Events
    PROVE  LET entry == tcp_fsa_table[<<s, e>>]
               some  == \/ e \in {"RST", "ACK"} /\ s \in Connected
                        \/ e = "FIN" /\ s \in FinStates
                        \/ e = "SYN" /\ s = "LISTEN"
           IN  /\ some => entry.handler # "none" /\ RowOK(s, e, entry.next, entry.handler)
               /\ ~some => entry = NoEntry
               /\ entry \in [next : CONN_STATES, handler : HANDLERS]
<1> DEFINE entry == tcp_fsa_table[<<s, e>>]
           some  == \/ e \in {"RST", "ACK"} /\ s \in Connected
                    \/ e = "FIN" /\ s \in FinStates
                    \/ e = "SYN" /\ s = "LISTEN"
           row   == \E r \in tcp_fsa_rows : r[1] = s /\ r[2] = e
<1>1. some => row
  BY RowsAre
<1>2. IF row THEN entry.handler # "none" /\ RowOK(s, e, entry.next, entry.handler) ELSE entry = NoEntry
  BY EntryIs
<1>3. row => some
  <2>1. ASSUME NEW n, NEW h, RowOK(s, e, n, h) PROVE some
    BY <2>1 DEF RowOK, FinRows, FinStates
  <2> QED
    BY <1>2, <2>1
<1>4. row => entry \in [next : CONN_STATES, handler : HANDLERS]
  <2> SUFFICES ASSUME row PROVE entry \in [next : CONN_STATES, handler : HANDLERS]
    OBVIOUS
  <2>1. PICK r \in tcp_fsa_rows : <<r[1], r[2]>> = <<s, e>>
    OBVIOUS
  <2>2. \E x, y : entry = [next |-> x, handler |-> y]
    BY <2>1 DEF tcp_fsa_table, TableOf
  <2>3. PICK x, y : entry = [next |-> x, handler |-> y]
    BY <2>2
  <2> HIDE DEF entry
  <2>4. entry.next = x /\ entry.handler = y
    BY <2>3
  <2>5. x \in CONN_STATES /\ y \in HANDLERS
    BY <1>2, <2>4 DEF RowOK, FinRows, AckHandlers, HANDLERS, CONN_STATES
  <2> QED
    BY <2>3, <2>5
<1>5. ~row => entry \in [next : CONN_STATES, handler : HANDLERS]
  BY <1>2 DEF NoEntry, CONN_STATES, HANDLERS
<1> QED
  BY <1>1, <1>2, <1>3, <1>4, <1>5

-----------------------------------------------------------------------------
(* tcp_handle and the oracle on one vector. *)

\* The connection of an exact match in state s, and the flags of a segment
\* by its event.
Seeded(s) == [state |-> s, una |-> PRE_SND_UNA, nxt |-> PRE_SND_NXT,
              rcv |-> PRE_RCV_NXT, rxlen |-> 0]
FlagsOf(e) == CASE e = "RST" -> {"RST"} [] e = "SYN" -> {"SYN"}
                [] e = "SYNACK" -> {"SYN", "ACK"} [] e = "FIN" -> {"FIN", "ACK"}
                [] e = "ACK" -> {"ACK"}

\* What a handler that fails leaves.
LEMMA FailsHas ==
    ASSUME NEW c
    PROVE  Fails(c).failed = TRUE /\ Fails(c).conn = c
  BY DEF Fails, Silent, Replies

\* .Ltcp_no_conn and rst_result agree.
LEMMA NoConnIs ==
    ASSUME NEW c, NEW seg, NEW state, NEW g, g = NoConn(c, seg), NEW x, x = rst_result(seg, state)
    PROVE  /\ g.ret = x.ret /\ g.flags = x.flags /\ g.seq = x.seq /\ g.ack = x.ack
           /\ g.conn = c
           /\ x.state = state /\ x.rcv = PRE_RCV_NXT /\ x.rxlen = 0 /\ x.una = PRE_SND_UNA
           /\ "RST" \in seg.flags => x.ret = 0
           /\ "RST" \notin seg.flags => x.ret = 54 /\ "RST" \in x.flags
<1>1. CASE "RST" \in seg.flags
  BY <1>1 DEF NoConn, rst_result, Silent, Replies, Expect
<1>2. CASE "RST" \notin seg.flags /\ "ACK" \in seg.flags
  BY <1>2 DEF NoConn, rst_result, Replies, Expect
<1>3. CASE "RST" \notin seg.flags /\ "ACK" \notin seg.flags
  BY <1>3 DEF NoConn, rst_result, Replies, Expect
<1> QED
  BY <1>1, <1>2, <1>3

\* Step 7 of the oracle, handler by handler.
LEMMA SaysIs ==
    ASSUME NEW entry, NEW seg
    PROVE  /\ entry.handler \in {"conn_close", "drop", "lastack_ack", "finwait1_ack", "closing_ack"} =>
                HandlerSays(entry, seg) = Quiet(entry.next, PRE_RCV_NXT, 0, PRE_SND_UNA)
           /\ entry.handler = "synrcvd_ack" =>
                HandlerSays(entry, seg) = Quiet(entry.next, PRE_RCV_NXT, 0, PRE_SND_NXT)
           /\ entry.handler = "estab_ack" =>
                HandlerSays(entry, seg) =
                  CASE seg.len = 0 -> Quiet(entry.next, PRE_RCV_NXT, 0, PRE_SND_NXT)
                    [] seg.len > 0 /\ seg.seq = PRE_RCV_NXT ->
                          Acks(entry.next, PRE_RCV_NXT + 5, 5, PRE_SND_NXT)
                    [] OTHER -> Acks(entry.next, PRE_RCV_NXT, 0, PRE_SND_NXT)
           /\ entry.handler = "estab_fin" =>
                HandlerSays(entry, seg) =
                  Acks(entry.next, PRE_RCV_NXT + seg.len + 1, seg.len, PRE_SND_UNA)
           /\ entry.handler = "finwait1_fin" =>
                HandlerSays(entry, seg) =
                  Acks(IF "ACK" \in seg.flags /\ seg.ack = PRE_SND_NXT
                       THEN "TIME_WAIT" ELSE entry.next, PRE_RCV_NXT + 1, 0, PRE_SND_UNA)
           /\ entry.handler = "finwait2_fin" =>
                HandlerSays(entry, seg) = Acks(entry.next, PRE_RCV_NXT + 1, 0, PRE_SND_UNA)
           /\ entry.handler = "timewait_fin" =>
                HandlerSays(entry, seg) = Acks(entry.next, PRE_RCV_NXT, 0, PRE_SND_UNA)
           /\ entry.handler = "listen_syn" =>
                HandlerSays(entry, seg) =
                  Expect(62, {"SYN", "ACK"}, ISN, seg.seq + 1, "SYN_RCVD", 0, 0, 0)
  BY DEF HandlerSays

\* A connection as Seeded but for these.
Left(n, una, rcv, rxlen) ==
    [state |-> n, una |-> una, nxt |-> PRE_SND_NXT, rcv |-> rcv, rxlen |-> rxlen]

\* Assignments to two of its fields.
Taking(c, x, y) == [c EXCEPT !.rcv = x, !.rxlen = y]
Moving(c, x, y) == [c EXCEPT !.rcv = x, !.state = y]

\* Data taken, and a FIN counted on the way to another state.
LEMMA LeftData ==
    ASSUME NEW n, NEW una, NEW rcv, NEW rxlen, NEW x, NEW y
    PROVE  Taking(Left(n, una, rcv, rxlen), x, y) = Left(n, una, x, y)
<1> DEFINE c == Left(n, una, rcv, rxlen)
<1>1. [c EXCEPT !.rcv = x] = Left(n, una, x, rxlen)
  BY DEF Left
<1>2. [Left(n, una, x, rxlen) EXCEPT !.rxlen = y] = Left(n, una, x, y)
  BY DEF Left
<1> HIDE DEF c
<1>3. [c EXCEPT !.rcv = x, !.rxlen = y] = [[c EXCEPT !.rcv = x] EXCEPT !.rxlen = y]
  OBVIOUS
<1>4. [[c EXCEPT !.rcv = x] EXCEPT !.rxlen = y] = Left(n, una, x, y)
  BY <1>1, <1>2, Zenon
<1>5. [c EXCEPT !.rcv = x, !.rxlen = y] = Left(n, una, x, y)
  BY <1>3, <1>4, Zenon
<1> QED
  BY <1>5, Zenon DEF c, Taking

LEMMA LeftMoved ==
    ASSUME NEW n, NEW una, NEW rcv, NEW rxlen, NEW x, NEW y
    PROVE  Moving(Left(n, una, rcv, rxlen), x, y) = Left(y, una, x, rxlen)
<1> DEFINE c == Left(n, una, rcv, rxlen)
<1>1. [c EXCEPT !.rcv = x] = Left(n, una, x, rxlen)
  BY DEF Left
<1>2. [Left(n, una, x, rxlen) EXCEPT !.state = y] = Left(y, una, x, rxlen)
  BY DEF Left
<1> HIDE DEF c
<1>3. [c EXCEPT !.rcv = x, !.state = y] = [[c EXCEPT !.rcv = x] EXCEPT !.state = y]
  OBVIOUS
<1>4. [[c EXCEPT !.rcv = x] EXCEPT !.state = y] = Left(y, una, x, rxlen)
  BY <1>1, <1>2, Zenon
<1>5. [c EXCEPT !.rcv = x, !.state = y] = Left(y, una, x, rxlen)
  BY <1>3, <1>4, Zenon
<1> QED
  BY <1>5, Zenon DEF c, Moving

LEMMA SeededIs == \A s : Seeded(s) = Left(s, PRE_SND_UNA, PRE_RCV_NXT, 0)
  BY DEF Seeded, Left

\* The reply it gets.
LEMMA AcksNowIs ==
    ASSUME NEW n, NEW una, NEW rcv, NEW rxlen
    PROVE  AcksNow(Left(n, una, rcv, rxlen)) =
             Replies(Left(n, una, rcv, rxlen), 54, {"ACK"}, PRE_SND_NXT, rcv)
  BY DEF AcksNow, Left

\* Handler and oracle agree on reply and connection.
Agrees(g, x) ==
    /\ g.ret = x.ret /\ g.flags = x.flags /\ g.seq = x.seq /\ g.ack = x.ack
    /\ g.conn.state = x.state /\ g.conn.rcv = x.rcv /\ g.conn.rxlen = x.rxlen
    /\ g.conn.una = x.una /\ g.failed = FALSE

\* Silence and bare ACKs mean the same to both.
LEMMA AgreeOn ==
    ASSUME NEW n, NEW una, NEW rcv, NEW rxlen
    PROVE  /\ Agrees(Silent(Left(n, una, rcv, rxlen)), Quiet(n, rcv, rxlen, una))
           /\ Agrees(AcksNow(Left(n, una, rcv, rxlen)), Acks(n, rcv, rxlen, una))
<1> DEFINE c == Left(n, una, rcv, rxlen)
<1>1. c.state = n /\ c.una = una /\ c.rcv = rcv /\ c.rxlen = rxlen /\ c.nxt = PRE_SND_NXT
  BY DEF Left
<1>2. AcksNow(c) = Replies(c, 54, {"ACK"}, PRE_SND_NXT, rcv)
  BY AcksNowIs
<1> HIDE DEF c
<1>3. Agrees(Silent(c), Quiet(n, rcv, rxlen, una))
  BY <1>1 DEF Agrees, Silent, Replies, Quiet, Expect
<1>4. Agrees(Replies(c, 54, {"ACK"}, PRE_SND_NXT, rcv), Acks(n, rcv, rxlen, una))
  BY <1>1 DEF Agrees, Replies, Acks, Expect
<1> QED
  BY <1>2, <1>3, <1>4, Zenon DEF c

\* A segment of event e on an exact match.
ExactSeg(seg, e) ==
    /\ seg.flags = FlagsOf(e)
    /\ seg.ack = IF "ACK" \in FlagsOf(e) THEN PRE_SND_NXT ELSE 0
    /\ \/ seg.len = 0 /\ seg.seq = 1
       \/ seg.len = 5 /\ seg.seq = PRE_RCV_NXT
       \/ e = "ACK" /\ seg.len = 5 /\ seg.seq \in {0, 999}

\* The flags of each event are classified as that event.
LEMMA FlagsAre ==
    /\ FlagsOf("RST") = {"RST"} /\ FlagsOf("SYN") = {"SYN"} /\ FlagsOf("SYNACK") = {"SYN", "ACK"}
    /\ FlagsOf("FIN") = {"FIN", "ACK"} /\ FlagsOf("ACK") = {"ACK"}
    /\ \A e \in Events : classify_event(FlagsOf(e)) = e
    /\ classify_event({}) = "unclassifiable"
<1>1. /\ FlagsOf("RST") = {"RST"} /\ FlagsOf("SYN") = {"SYN"} /\ FlagsOf("SYNACK") = {"SYN", "ACK"}
      /\ FlagsOf("FIN") = {"FIN", "ACK"} /\ FlagsOf("ACK") = {"ACK"}
  BY DEF FlagsOf
<1>2. classify_event({"RST"}) = "RST"
  BY DEF classify_event
<1>3. classify_event({"SYN"}) = "SYN"
  BY DEF classify_event
<1>4. classify_event({"SYN", "ACK"}) = "SYNACK"
  BY DEF classify_event
<1>5. classify_event({"FIN", "ACK"}) = "FIN"
  BY DEF classify_event
<1>6. classify_event({"ACK"}) = "ACK"
  BY DEF classify_event
<1>7. classify_event({}) = "unclassifiable"
  BY DEF classify_event
<1>8. ASSUME NEW e \in Events PROVE classify_event(FlagsOf(e)) = e
  BY <1>1, <1>2, <1>3, <1>4, <1>5, <1>6 DEF Events
<1> QED
  BY <1>1, <1>7, <1>8

\* All that is used of the numbers.
LEMMA NumbersAre ==
    PRE_SND_UNA \in Nat /\ PRE_SND_UNA > 0 /\ PRE_SND_NXT = PRE_SND_UNA + 1 /\ PRE_RCV_NXT = 2
  BY SMT DEF PRE_SND_UNA, PRE_SND_NXT, PRE_RCV_NXT, ISN

\* Every handler does to a seeded connection what the oracle expects of it.
LEMMA HandlesRight ==
    ASSUME NEW s, NEW e \in {"RST", "ACK", "FIN"}, NEW entry, RowOK(s, e, entry.next, entry.handler),
           NEW seg, ExactSeg(seg, e)
    PROVE  Agrees(Handle(entry.handler, Seeded(entry.next), seg), HandlerSays(entry, seg))
<1> DEFINE n == entry.next
           h == entry.handler
           c == Left(n, PRE_SND_UNA, PRE_RCV_NXT, 0)
           x == HandlerSays(entry, seg)
<1>1. Seeded(n) = c
  BY SeededIs
<1>2. c.state = n /\ c.una = PRE_SND_UNA /\ c.nxt = PRE_SND_NXT /\ c.rcv = PRE_RCV_NXT /\ c.rxlen = 0
  BY DEF Left
<1>21. ASSUME NEW z PROVE [c EXCEPT !.una = z] = Left(n, z, PRE_RCV_NXT, 0)
  BY DEF Left
<1>22. ASSUME NEW z PROVE [c EXCEPT !.rcv = z] = Left(n, PRE_SND_UNA, z, 0)
  BY DEF Left
<1>23. ASSUME NEW z, NEW w PROVE [c EXCEPT !.rcv = z, !.rxlen = w] = Left(n, PRE_SND_UNA, z, w)
  <2>1. Taking(c, z, w) = Left(n, PRE_SND_UNA, z, w)
    BY LeftData
  <2> QED
    BY <2>1, Zenon DEF Taking
<1>24. ASSUME NEW z, NEW w PROVE [c EXCEPT !.rcv = z, !.state = w] = Left(w, PRE_SND_UNA, z, 0)
  <2>1. Moving(c, z, w) = Left(w, PRE_SND_UNA, z, 0)
    BY LeftMoved
  <2> QED
    BY <2>1, Zenon DEF Moving
<1>3. /\ \A z : [c EXCEPT !.una = z] = Left(n, z, PRE_RCV_NXT, 0)
      /\ \A z : [c EXCEPT !.rcv = z] = Left(n, PRE_SND_UNA, z, 0)
      /\ \A z, w : [c EXCEPT !.rcv = z, !.rxlen = w] = Left(n, PRE_SND_UNA, z, w)
      /\ \A z, w : [c EXCEPT !.rcv = z, !.state = w] = Left(w, PRE_SND_UNA, z, 0)
  BY <1>21, <1>22, <1>23, <1>24, Zenon
<1>13. /\ [c EXCEPT !.rcv = @ + 1] = Left(n, PRE_SND_UNA, PRE_RCV_NXT + 1, 0)
       /\ \A z : [c EXCEPT !.rcv = @ + 1, !.state = z] = Left(z, PRE_SND_UNA, PRE_RCV_NXT + 1, 0)
  <2> HIDE DEF c
  <2> QED
    <3>1. [c EXCEPT !.rcv = c.rcv + 1] = Left(n, PRE_SND_UNA, c.rcv + 1, 0)
      BY <1>3, Zenon
    <3>2. \A z : [c EXCEPT !.rcv = c.rcv + 1, !.state = z] = Left(z, PRE_SND_UNA, c.rcv + 1, 0)
      BY <1>3, Zenon
    <3> QED
      BY <1>2, <3>1, <3>2
<1> HIDE DEF c
<1>4. CASE h \in {"conn_close", "drop"}
  <2>1. Handle(h, c, seg) = Silent(c)
    BY <1>4 DEF Handle
  <2>2. x = Quiet(n, PRE_RCV_NXT, 0, PRE_SND_UNA)
    BY <1>4, SaysIs, Zenon
  <2>3. Agrees(Silent(c), Quiet(n, PRE_RCV_NXT, 0, PRE_SND_UNA))
    BY AgreeOn, Zenon DEF c
  <2> QED
    BY <1>1, <2>1, <2>2, <2>3, Zenon
<1>5. CASE h \in {"lastack_ack", "finwait1_ack", "closing_ack"}
  <2>1. e = "ACK"
    BY <1>5 DEF RowOK, FinRows
  <2>2. seg.ack = c.nxt
    BY <1>2, <2>1, FlagsAre DEF ExactSeg
  <2>3. ASSUME NEW z PROVE FinAcked(c, seg, z) = Silent(c)
    BY <1>2, <2>2, NumbersAre DEF FinAcked
  <2>4. Handle(h, c, seg) = Silent(c)
    BY <1>5, <2>3 DEF Handle
  <2>5. x = Quiet(n, PRE_RCV_NXT, 0, PRE_SND_UNA)
    BY <1>5, SaysIs, Zenon
  <2>6. Agrees(Silent(c), Quiet(n, PRE_RCV_NXT, 0, PRE_SND_UNA))
    BY AgreeOn, Zenon DEF c
  <2> QED
    BY <1>1, <2>4, <2>5, <2>6, Zenon
<1>6. CASE h = "synrcvd_ack"
  <2>1. e = "ACK"
    BY <1>6 DEF RowOK, FinRows
  <2>2. seg.ack = c.nxt
    BY <1>2, <2>1, FlagsAre DEF ExactSeg
  <2>3. Handle(h, c, seg) = Silent([c EXCEPT !.una = c.nxt])
    BY <1>6, <2>2 DEF Handle
  <2>4. [c EXCEPT !.una = c.nxt] = Left(n, PRE_SND_NXT, PRE_RCV_NXT, 0)
    BY <1>2, <1>3, Zenon
  <2>5. x = Quiet(n, PRE_RCV_NXT, 0, PRE_SND_NXT)
    BY <1>6, SaysIs, Zenon
  <2>6. Agrees(Silent(Left(n, PRE_SND_NXT, PRE_RCV_NXT, 0)), Quiet(n, PRE_RCV_NXT, 0, PRE_SND_NXT))
    BY AgreeOn, Zenon
  <2> QED
    BY <1>1, <2>3, <2>4, <2>5, <2>6, Zenon
<1>7. CASE h = "estab_ack"
  <2>1. e = "ACK"
    BY <1>7 DEF RowOK, FinRows
  <2> DEFINE a == Left(n, PRE_SND_NXT, PRE_RCV_NXT, 0)
  <2>2. seg.ack = PRE_SND_NXT
    BY <2>1, FlagsAre DEF ExactSeg
  <2>3. c.una < seg.ack /\ seg.ack <= c.nxt
    BY <1>2, <2>2, NumbersAre
  <2>4. [c EXCEPT !.una = seg.ack] = a
    BY <1>3, <2>2, Zenon
  <2>5. a.rcv = PRE_RCV_NXT /\ a.rxlen = 0
    BY DEF Left
  <2>6. WithData(a, seg) = Left(n, PRE_SND_NXT, PRE_RCV_NXT + seg.len, 0 + seg.len)
    <3>1. ASSUME NEW z, NEW w PROVE [a EXCEPT !.rcv = z, !.rxlen = w] = Left(n, PRE_SND_NXT, z, w)
      <4>1. Taking(a, z, w) = Left(n, PRE_SND_NXT, z, w)
        BY LeftData
      <4> QED
        BY <4>1, Zenon DEF Taking
    <3> HIDE DEF a
    <3> QED
      BY <2>5, <3>1, Zenon DEF WithData
  <2> HIDE DEF a
  <2>7. EstabAck(c, seg) = CASE seg.len = 0 -> Silent(a)
                             [] seg.len > 0 /\ Fits(a, seg) -> AcksNow(WithData(a, seg))
                             [] seg.len > 0 /\ seg.seq # a.rcv -> AcksNow(a)
                             [] OTHER -> Silent(a)
    BY <2>3, <2>4 DEF EstabAck
  <2>8. Handle(h, c, seg) = EstabAck(c, seg)
    BY <1>7 DEF Handle
  <2>9. x = CASE seg.len = 0 -> Quiet(n, PRE_RCV_NXT, 0, PRE_SND_NXT)
              [] seg.len > 0 /\ seg.seq = PRE_RCV_NXT ->
                    Acks(n, PRE_RCV_NXT + 5, 5, PRE_SND_NXT)
              [] OTHER -> Acks(n, PRE_RCV_NXT, 0, PRE_SND_NXT)
    BY <1>7, SaysIs, Zenon
  <2> HIDE DEF x
  <2>10. CASE seg.len = 0
    <3>1. EstabAck(c, seg) = Silent(a)
      BY <2>7, <2>10
    <3>2. x = Quiet(n, PRE_RCV_NXT, 0, PRE_SND_NXT)
      BY <2>9, <2>10
    <3> QED
      BY <1>1, <2>8, <3>1, <3>2, AgreeOn, Zenon DEF a, x
  <2>11. CASE seg.len = 5 /\ seg.seq = PRE_RCV_NXT
    <3>1. Fits(a, seg)
      BY <2>5, <2>11 DEF Fits, RXBUF
    <3>2. 0 + seg.len = 5 /\ seg.len # 0 /\ seg.len > 0
      BY <2>11
    <3>3. WithData(a, seg) = Left(n, PRE_SND_NXT, PRE_RCV_NXT + 5, 5)
      BY <2>6, <2>11, <3>2, Zenon
    <3>9. seg.seq = a.rcv
      BY <2>5, <2>11
    <3>4. EstabAck(c, seg) = AcksNow(WithData(a, seg))
      BY <2>7, <3>1, <3>2, <3>9
    <3>5. x = Acks(n, PRE_RCV_NXT + 5, 5, PRE_SND_NXT)
      BY <2>9, <2>11, <3>2
    <3> QED
      BY <1>1, <2>8, <3>3, <3>4, <3>5, AgreeOn, Zenon DEF x
  <2>12. CASE seg.len = 5 /\ seg.seq \in {0, 999}
    <3>1. ~Fits(a, seg) /\ seg.seq # a.rcv /\ seg.seq # PRE_RCV_NXT
      BY <2>5, <2>12, NumbersAre DEF Fits
    <3>2. seg.len # 0 /\ seg.len > 0
      BY <2>12
    <3>3. EstabAck(c, seg) = AcksNow(a)
      BY <2>7, <3>1, <3>2
    <3>4. x = Acks(n, PRE_RCV_NXT, 0, PRE_SND_NXT)
      BY <2>9, <3>1, <3>2
    <3> QED
      BY <1>1, <2>8, <3>3, <3>4, AgreeOn, Zenon DEF a, x
  <2> QED
    BY <2>10, <2>11, <2>12 DEF ExactSeg
<1>8. CASE h = "estab_fin"
  <2>1. e = "FIN"
    BY <1>8 DEF RowOK, AckHandlers
  <2>2. Handle(h, c, seg) = EstabFin(c, seg)
    BY <1>8 DEF Handle
  <2>3. x = Acks(n, PRE_RCV_NXT + seg.len + 1, seg.len, PRE_SND_UNA)
    BY <1>8, SaysIs, Zenon
  <2> HIDE DEF x
  <2>4. CASE seg.len = 0
    <3>1. EstabFin(c, seg) = AcksNow([c EXCEPT !.rcv = @ + 1])
      BY <2>4 DEF EstabFin
    <3>2. PRE_RCV_NXT + seg.len + 1 = PRE_RCV_NXT + 1
      BY <2>4, NumbersAre
    <3>3. x = Acks(n, PRE_RCV_NXT + 1, 0, PRE_SND_UNA)
      BY <2>3, <2>4, <3>2, Zenon
    <3>4. Agrees(AcksNow(Left(n, PRE_SND_UNA, PRE_RCV_NXT + 1, 0)), Acks(n, PRE_RCV_NXT + 1, 0, PRE_SND_UNA))
      BY AgreeOn, Zenon
    <3> QED
      BY <1>1, <1>13, <2>2, <3>1, <3>3, <3>4, Zenon DEF x
  <2>5. CASE seg.len = 5 /\ seg.seq = PRE_RCV_NXT
    <3>1. Fits(c, seg)
      BY <1>2, <2>5 DEF Fits, RXBUF
    <3>2. 0 + seg.len = 5 /\ seg.len # 0 /\ seg.len > 0
      BY <2>5
    <3> DEFINE w == Left(n, PRE_SND_UNA, PRE_RCV_NXT + 5, 5)
    <3>3. WithData(c, seg) = w
      <4>1. WithData(c, seg) = [c EXCEPT !.rcv = PRE_RCV_NXT + 5, !.rxlen = 5]
        BY <1>2, <2>5 DEF WithData
      <4> QED
        BY <1>3, <4>1, Zenon
    <3>4. w.rcv = PRE_RCV_NXT + 5 /\ \A z : [w EXCEPT !.rcv = z] = Left(n, PRE_SND_UNA, z, 5)
      <4>1. w.rcv = PRE_RCV_NXT + 5
        BY DEF Left
      <4>2. ASSUME NEW z PROVE [w EXCEPT !.rcv = z] = Left(n, PRE_SND_UNA, z, 5)
        BY DEF Left
      <4> QED
        BY <4>1, <4>2, Zenon
    <3> HIDE DEF w
    <3>5. [w EXCEPT !.rcv = @ + 1] = Left(n, PRE_SND_UNA, PRE_RCV_NXT + 5 + 1, 5)
      BY <3>4, Zenon
    <3>6. EstabFin(c, seg) = AcksNow([WithData(c, seg) EXCEPT !.rcv = @ + 1])
      BY <3>1, <3>2 DEF EstabFin
    <3>7. EstabFin(c, seg) = AcksNow(Left(n, PRE_SND_UNA, PRE_RCV_NXT + 5 + 1, 5))
      BY <3>3, <3>5, <3>6, Zenon
    <3>8. x = Acks(n, PRE_RCV_NXT + 5 + 1, 5, PRE_SND_UNA)
      BY <2>3, <2>5, Zenon
    <3> QED
      BY <1>1, <2>2, <3>7, <3>8, AgreeOn, Zenon DEF x
  <2> QED
    BY <2>1, <2>4, <2>5 DEF ExactSeg
<1>9. CASE h = "finwait1_fin"
  <2>1. e = "FIN"
    BY <1>9 DEF RowOK, AckHandlers
  <2>2. "ACK" \in seg.flags /\ seg.ack = PRE_SND_NXT
    BY <2>1, FlagsAre DEF ExactSeg
  <2>3. FinWait1Fin(c, seg) = AcksNow([c EXCEPT !.rcv = @ + 1, !.state = "TIME_WAIT"])
    BY <1>2, <2>2 DEF FinWait1Fin
  <2>4. Handle(h, c, seg) = AcksNow(Left("TIME_WAIT", PRE_SND_UNA, PRE_RCV_NXT + 1, 0))
    <3>1. Handle(h, c, seg) = FinWait1Fin(c, seg)
      BY <1>9 DEF Handle
    <3> QED
      BY <1>13, <2>3, <3>1, Zenon
  <2>5. x = Acks("TIME_WAIT", PRE_RCV_NXT + 1, 0, PRE_SND_UNA)
    BY <1>9, <2>2, SaysIs, Zenon
  <2> QED
    BY <1>1, <2>4, <2>5, AgreeOn, Zenon
<1>10. CASE h = "finwait2_fin"
  <2>1. Handle(h, c, seg) = AcksNow(Left(n, PRE_SND_UNA, PRE_RCV_NXT + 1, 0))
    <3>1. Handle(h, c, seg) = AcksNow([c EXCEPT !.rcv = @ + 1])
      BY <1>10 DEF Handle
    <3> QED
      BY <1>13, <3>1, Zenon
  <2>2. x = Acks(n, PRE_RCV_NXT + 1, 0, PRE_SND_UNA)
    BY <1>10, SaysIs, Zenon
  <2> QED
    BY <1>1, <2>1, <2>2, AgreeOn, Zenon
<1>11. CASE h = "timewait_fin"
  <2>1. Handle(h, c, seg) = AcksNow(c)
    BY <1>11 DEF Handle
  <2>2. x = Acks(n, PRE_RCV_NXT, 0, PRE_SND_UNA)
    BY <1>11, SaysIs, Zenon
  <2> QED
    BY <1>1, <2>1, <2>2, AgreeOn, Zenon DEF c
<1> QED
  BY <1>4, <1>5, <1>6, <1>7, <1>8, <1>9, <1>10, <1>11 DEF RowOK, AckHandlers, FinRows

\* The two tables have the same rows.
LEMMA SameTable == FSA_TABLE = tcp_fsa_table
  BY Zenon DEF FSA_TABLE, tcp_fsa_table, tcp_fsa_rows

\* The name a vector gives the flags of an event.
NameOf(e) == IF e = "FIN" THEN "FIN_ACK" ELSE e

\* The flags of a vector are those of an event, or none at all.
LEMMA FlagsBy ==
    /\ \A e \in Events : FLAGS[NameOf(e)] = FlagsOf(e) /\ NameOf(e) \in DOMAIN FLAGS
    /\ FLAGS["NONE"] = {}
    /\ \A f \in DOMAIN FLAGS : f # "NONE" => \E e \in Events : f = NameOf(e) /\ FLAGS[f] = FlagsOf(e)
<1>1. /\ FLAGS["RST"] = {"RST"} /\ FLAGS["SYN"] = {"SYN"} /\ FLAGS["SYNACK"] = {"SYN", "ACK"}
      /\ FLAGS["FIN_ACK"] = {"FIN", "ACK"} /\ FLAGS["ACK"] = {"ACK"} /\ FLAGS["NONE"] = {}
      /\ DOMAIN FLAGS = {"RST", "SYN", "SYNACK", "FIN_ACK", "ACK", "NONE"}
  BY DEF FLAGS
<1>2. ASSUME NEW e \in Events PROVE FLAGS[NameOf(e)] = FlagsOf(e) /\ NameOf(e) \in DOMAIN FLAGS
  BY <1>1, FlagsAre DEF Events, NameOf
<1>3. ASSUME NEW f \in DOMAIN FLAGS, f # "NONE"
      PROVE  \E e \in Events : f = NameOf(e) /\ FLAGS[f] = FlagsOf(e)
  <2>1. \E e \in Events : f = NameOf(e)
    BY <1>1, <1>3 DEF Events, NameOf
  <2> QED
    BY <1>2, <2>1
<1> QED
  BY <1>1, <1>2, <1>3

\* The fields of a vector's segment.
LEMMA SegmentHas ==
    ASSUME NEW v
    PROVE  LET seg == build_frame_v2(v)
           IN  /\ seg.flags = FLAGS[v.flags]
               /\ v.payload = "none" => seg.seq = 1 /\ seg.len = 0
               /\ v.payload = "some" => seg.seq = PRE_RCV_NXT /\ seg.len = 5
               /\ v.payload = "bad_seq" => seg.seq = 999 /\ seg.len = 5
               /\ v.payload = "dup_seq" => seg.seq = 0 /\ seg.len = 5
               /\ seg.ack = IF v.match = "exact" /\ "ACK" \in FLAGS[v.flags] THEN PRE_SND_NXT ELSE 0
               /\ v.header = "valid" /\ v.cksum = "valid" => seg.sound
               /\ ~(v.header = "valid" /\ v.cksum = "valid") => ~seg.sound
<1> DEFINE seg == build_frame_v2(v)
           valid == v.header = "valid" /\ v.cksum = "valid"
<1>1. /\ seg.flags = FLAGS[v.flags]
      /\ v.payload = "none" => seg.seq = 1 /\ seg.len = 0
      /\ v.payload = "some" => seg.seq = PRE_RCV_NXT /\ seg.len = 5
      /\ v.payload = "bad_seq" => seg.seq = 999 /\ seg.len = 5
      /\ v.payload = "dup_seq" => seg.seq = 0 /\ seg.len = 5
      /\ seg.ack = IF v.match = "exact" /\ "ACK" \in FLAGS[v.flags] THEN PRE_SND_NXT ELSE 0
  BY DEF build_frame_v2
<1>2. \A f, q, a, l : \A b \in BOOLEAN :
         [flags |-> f, seq |-> q, ack |-> a, len |-> l, sound |-> b].sound = b
  OBVIOUS
<1>3. seg.sound = valid
  <2>1. valid \in BOOLEAN
    OBVIOUS
  <2> QED
    BY <1>2, <2>1, Zenon DEF build_frame_v2
<1>4. (valid => seg.sound) /\ (~valid => ~seg.sound)
  BY <1>3, Zenon
<1> QED
  BY <1>1, <1>4, Zenon

\* What the suite takes its vectors from.
LEMMA VectorIs ==
    ASSUME NEW v \in generate_all_combos
    PROVE  /\ v \in Combos
           /\ ~(v.header = "valid" /\ v.cksum = "valid") => v.match = "no_match"
           /\ v.header = "valid" /\ v.cksum = "valid" =>
                /\ v.match = "exact" => v.conn \in Connected
                /\ v.payload \in {"bad_seq", "dup_seq"} => v.flags = "ACK" /\ v.match = "exact"
  BY DEF generate_all_combos, is_valid_combo, Canonical, Combos

\* An exact match comes to the table, but for a RST whose number is not next.
LEMMA OnExact ==
    ASSUME NEW t, NEW v, v.match = "exact", v.conn \in Connected, v.header = "valid", v.cksum = "valid",
           NEW e \in Events, FLAGS[v.flags] = FlagsOf(e),
           v.payload \in {"none", "some", "bad_seq", "dup_seq"},
           v.payload \in {"bad_seq", "dup_seq"} => e = "ACK",
           e = "RST" => v.payload = "some"
    PROVE  LET seg   == build_frame_v2(v)
               entry == FSA_TABLE[<<v.conn, e>>]
           IN  /\ ExactSeg(seg, e)
               /\ tcp_handle(t, v) = Lookup(t, Seeded(v.conn), seg, e)
               /\ oracle(v) = IF entry.handler = "none" THEN rst_result(seg, v.conn)
                              ELSE HandlerSays(entry, seg)
<1> DEFINE seg == build_frame_v2(v)
           c == Seeded(v.conn)
<1>1. /\ seg.flags = FlagsOf(e) /\ seg.sound
      /\ seg.ack = IF "ACK" \in FlagsOf(e) THEN PRE_SND_NXT ELSE 0
      /\ v.payload = "none" => seg.seq = 1 /\ seg.len = 0
      /\ v.payload = "some" => seg.seq = PRE_RCV_NXT /\ seg.len = 5
      /\ v.payload = "bad_seq" => seg.seq = 999 /\ seg.len = 5
      /\ v.payload = "dup_seq" => seg.seq = 0 /\ seg.len = 5
  BY SegmentHas
<1> HIDE DEF seg
<1>2. ExactSeg(seg, e)
  BY <1>1 DEF ExactSeg
<1>3. classify_event(seg.flags) = e
  BY <1>1, FlagsAre
<1>4. e # "unclassifiable"
  BY DEF Events
<1>5. make_entry(v) = c
  BY DEF make_entry, Seeded
<1>6. c.state = v.conn /\ c.rcv = PRE_RCV_NXT /\ c.state # "LISTEN"
  BY DEF Seeded, Connected
<1>7. e = "RST" => seg.seq = PRE_RCV_NXT
  BY <1>1
<1> HIDE DEF c
<1>8. Dispatch(t, c, seg) = Lookup(t, c, seg, e)
  BY <1>3, <1>4, <1>6, <1>7 DEF Dispatch
<1>9. tcp_handle(t, v) = Dispatch(t, c, seg)
  BY <1>1, <1>5 DEF tcp_handle, seg
<1>10. oracle(v) = IF FSA_TABLE[<<v.conn, e>>].handler = "none" THEN rst_result(seg, v.conn)
                   ELSE HandlerSays(FSA_TABLE[<<v.conn, e>>], seg)
  <2>1. ~(e = "RST" /\ (seg.seq < PRE_RCV_NXT \/ seg.seq - PRE_RCV_NXT >= RXBUF))
    BY <1>7, NumbersAre DEF RXBUF
  <2> QED
    BY <1>1, <1>3, <1>4, <2>1 DEF oracle, seg
<1> QED
  BY <1>2, <1>8, <1>9, <1>10 DEF seg, c

-----------------------------------------------------------------------------
(* The table of the source passes. *)

Undone(c, s) == [c EXCEPT !.state = s]

\* What Lookup makes, g, of a cell's handler, h, and of what that leaves, done.
LookedUp(g, h, done, c, s, seg) ==
    /\ h = "none" => g = NoConn(c, seg)
    /\ h # "none" /\ done.failed = FALSE => g = done
    /\ h # "none" /\ done.failed = TRUE => g = NoConn(Undone(done.conn, s), seg)

\* .Ltcp_fsa_lookup in these terms.
LEMMA LookupIs ==
    ASSUME NEW t, NEW c, NEW seg, NEW e
    PROVE  LookedUp(Lookup(t, c, seg, e), t[<<c.state, e>>].handler,
                    Handle(t[<<c.state, e>>].handler, Undone(c, t[<<c.state, e>>].next), seg),
                    c, c.state, seg)
<1> DEFINE entry == t[<<c.state, e>>]
           done == Handle(entry.handler, [c EXCEPT !.state = entry.next], seg)
           g == Lookup(t, c, seg, e)
<1>1. g = CASE entry.handler = "none" -> NoConn(c, seg)
            [] entry.handler # "none" /\ ~done.failed -> done
            [] OTHER -> NoConn([done.conn EXCEPT !.state = c.state], seg)
  BY Zenon DEF Lookup
<1> HIDE DEF entry, done, g
<1>2. entry.handler = "none" => g = NoConn(c, seg)
  BY <1>1
<1>3. entry.handler # "none" /\ done.failed = FALSE => g = done
  BY <1>1
<1>4. entry.handler # "none" /\ done.failed = TRUE => g = NoConn([done.conn EXCEPT !.state = c.state], seg)
  BY <1>1
<1>5. LookedUp(g, entry.handler, done, c, c.state, seg)
  BY <1>2, <1>3, <1>4, Zenon DEF LookedUp, Undone
<1>6. done = Handle(entry.handler, Undone(c, entry.next), seg)
  BY Zenon DEF done, Undone
<1> QED
  BY <1>5, <1>6, Zenon DEF entry, g

\* What Lookup runs on a seeded connection.
Ran(t, s, seg, e) == Handle(t[<<s, e>>].handler, Seeded(t[<<s, e>>].next), seg)

LEMMA LookupSeeded ==
    ASSUME NEW t, NEW s, NEW seg, NEW e
    PROVE  LookedUp(Lookup(t, Seeded(s), seg, e), t[<<s, e>>].handler, Ran(t, s, seg, e),
                    Seeded(s), s, seg)
<1> DEFINE c == Seeded(s)
           n == t[<<s, e>>].next
<1>1. c.state = s
  BY DEF Seeded
<1> HIDE DEF n
<1>2. Undone(c, n) = Seeded(n)
  BY DEF Seeded, Undone
<1> HIDE DEF c
<1>3. LookedUp(Lookup(t, c, seg, e), t[<<c.state, e>>].handler,
               Handle(t[<<c.state, e>>].handler, Undone(c, t[<<c.state, e>>].next), seg),
               c, c.state, seg)
  BY LookupIs, Zenon
<1>4. LookedUp(Lookup(t, c, seg, e), t[<<s, e>>].handler, Handle(t[<<s, e>>].handler, Seeded(n), seg),
               c, s, seg)
  BY <1>1, <1>2, <1>3, Zenon DEF n
<1> QED
  BY <1>4, Zenon DEF c, n, Ran

LEMMA LookupListener ==
    ASSUME NEW t, NEW seg, NEW e
    PROVE  LookedUp(Lookup(t, Listener, seg, e), t[<<"LISTEN", e>>].handler,
                    Handle(t[<<"LISTEN", e>>].handler, Undone(Listener, t[<<"LISTEN", e>>].next), seg),
                    Listener, "LISTEN", seg)
<1>1. Listener.state = "LISTEN"
  BY DEF Listener
<1> QED
  BY <1>1, LookupIs, Zenon

\* What an exact match needs to pass.
LEMMA PassesIf ==
    ASSUME NEW t, NEW v, v.match = "exact", Agrees(tcp_handle(t, v), oracle(v))
    PROVE  Passes(t, v)
  BY DEF Agrees, Passes

\* The source passes on a connection that is there, but for a RST to drop.
LEMMA ExactPasses ==
    ASSUME NEW v, v.match = "exact", v.conn \in Connected, v.header = "valid", v.cksum = "valid",
           NEW e \in Events, FLAGS[v.flags] = FlagsOf(e),
           v.payload \in {"none", "some", "bad_seq", "dup_seq"},
           v.payload \in {"bad_seq", "dup_seq"} => e = "ACK",
           e = "RST" => v.payload = "some"
    PROVE  Passes(tcp_fsa_table, v)
<1> DEFINE t == tcp_fsa_table
           seg == build_frame_v2(v)
           entry == t[<<v.conn, e>>]
           got == tcp_handle(t, v)
           expected == oracle(v)
<1>1. /\ ExactSeg(seg, e)
      /\ got = Lookup(t, Seeded(v.conn), seg, e)
      /\ expected = IF entry.handler = "none" THEN rst_result(seg, v.conn) ELSE HandlerSays(entry, seg)
  BY OnExact, SameTable
<1>2. v.conn \in CONN_STATES
  BY DEF Connected
<1> DEFINE done == Ran(t, v.conn, seg, e)
<1>5. /\ entry.handler = "none" => got = NoConn(Seeded(v.conn), seg)
      /\ entry.handler # "none" /\ done.failed = FALSE => got = done
  <2>1. LookedUp(got, entry.handler, done, Seeded(v.conn), v.conn, seg)
    BY <1>1, LookupSeeded, Zenon
  <2> HIDE DEF entry, done, got, seg, t
  <2> QED
    BY <2>1, Zenon DEF LookedUp
<1>6. done = Handle(entry.handler, Seeded(entry.next), seg)
  BY Zenon DEF Ran
<1>3. CASE entry.handler = "none"
  <2>1. got = NoConn(Seeded(v.conn), seg) /\ expected = rst_result(seg, v.conn)
    BY <1>1, <1>3, <1>5, Zenon
  <2>2. /\ got.ret = expected.ret /\ got.flags = expected.flags /\ got.seq = expected.seq
        /\ got.ack = expected.ack /\ got.conn = Seeded(v.conn)
        /\ expected.state = v.conn /\ expected.rcv = PRE_RCV_NXT /\ expected.rxlen = 0
        /\ expected.una = PRE_SND_UNA
    <3> HIDE DEF got, expected, seg
    <3> QED
      BY <2>1, NoConnIs
  <2>3. LET c == Seeded(v.conn)
        IN  c.state = v.conn /\ c.rcv = PRE_RCV_NXT /\ c.rxlen = 0 /\ c.una = PRE_SND_UNA
    BY DEF Seeded
  <2> HIDE DEF got, expected
  <2> QED
    BY <2>2, <2>3 DEF Passes, got, expected
<1>4. CASE entry.handler # "none"
  <2>1. RowOK(v.conn, e, entry.next, entry.handler) /\ e \in {"RST", "ACK", "FIN"}
    <3>1. RowOK(v.conn, e, entry.next, entry.handler)
      BY <1>2, <1>4, CellIs DEF NoEntry
    <3>2. v.conn # "LISTEN"
      BY DEF Connected
    <3> QED
      BY <3>1, <3>2 DEF RowOK
  <2>2. Agrees(done, HandlerSays(entry, seg))
    BY <1>1, <1>6, <2>1, HandlesRight, Zenon
  <2>3. done.failed = FALSE
    BY <2>2, Zenon DEF Agrees
  <2>4. got = done
    BY <1>4, <1>5, <2>3, Zenon
  <2>5. Agrees(got, expected)
    BY <1>1, <1>4, <2>2, <2>4, Zenon
  <2> QED
    BY <2>5, PassesIf
<1> QED
  BY <1>3, <1>4

\* A segment that only the listener takes comes to its row.
LEMMA OnListen ==
    ASSUME NEW t, NEW v, v.match = "listen_only", v.header = "valid", v.cksum = "valid",
           NEW e \in Events, e # "RST", FLAGS[v.flags] = FlagsOf(e)
    PROVE  LET seg   == build_frame_v2(v)
               entry == FSA_TABLE[<<"LISTEN", e>>]
           IN  /\ seg.flags = FlagsOf(e) /\ seg.ack = 0
               /\ tcp_handle(t, v) = Lookup(t, Listener, seg, e)
               /\ oracle(v) = IF entry.handler = "none" THEN rst_result(seg, "LISTEN")
                              ELSE HandlerSays(entry, seg)
<1> DEFINE seg == build_frame_v2(v)
<1>1. seg.flags = FlagsOf(e) /\ seg.sound /\ seg.ack = 0
  BY SegmentHas
<1> HIDE DEF seg
<1>2. classify_event(seg.flags) = e
  BY <1>1, FlagsAre
<1>3. e # "unclassifiable"
  BY DEF Events
<1>4. make_entry(v) = Listener
  BY DEF make_entry
<1>5. Dispatch(t, Listener, seg) = Lookup(t, Listener, seg, e)
  BY <1>2, <1>3 DEF Dispatch
<1>6. tcp_handle(t, v) = Dispatch(t, Listener, seg)
  BY <1>1, <1>4 DEF tcp_handle, seg
<1>7. oracle(v) = IF FSA_TABLE[<<"LISTEN", e>>].handler = "none" THEN rst_result(seg, "LISTEN")
                  ELSE HandlerSays(FSA_TABLE[<<"LISTEN", e>>], seg)
  BY <1>1, <1>2, <1>3 DEF oracle, seg
<1> QED
  BY <1>1, <1>5, <1>6, <1>7 DEF seg

\* The source passes on the listener.
LEMMA ListenPasses ==
    ASSUME NEW v, v.match = "listen_only", v.header = "valid", v.cksum = "valid",
           NEW e \in Events, FLAGS[v.flags] = FlagsOf(e)
    PROVE  Passes(tcp_fsa_table, v)
<1> DEFINE t == tcp_fsa_table
           seg == build_frame_v2(v)
           entry == t[<<"LISTEN", e>>]
           got == tcp_handle(t, v)
           expected == oracle(v)
<1>1. Listener.state = "LISTEN"
  BY DEF Listener
<1>2. "LISTEN" \in CONN_STATES /\ "LISTEN" \notin Connected /\ "LISTEN" \notin FinStates
  BY DEF CONN_STATES, Connected, FinStates
<1>3. CASE e # "RST" /\ e # "SYN"
  <2>1. entry.handler = "none"
    BY <1>2, <1>3, CellIs DEF NoEntry
  <2>2. got = Lookup(t, Listener, seg, e) /\ expected = rst_result(seg, "LISTEN")
    BY <1>3, <2>1, OnListen, SameTable
  <2>3. got = NoConn(Listener, seg)
    BY <2>1, <2>2, LookupListener, Zenon DEF LookedUp
  <2>4. /\ got.ret = expected.ret /\ got.flags = expected.flags /\ got.seq = expected.seq
        /\ got.ack = expected.ack /\ got.conn = Listener /\ expected.state = "LISTEN"
    <3> HIDE DEF got, expected, seg
    <3> QED
      BY <2>2, <2>3, NoConnIs
  <2> HIDE DEF got, expected
  <2> QED
    BY <1>1, <2>4 DEF Passes, got, expected
<1>4. CASE e = "RST"
  <2>1. entry.handler = "none"
    BY <1>2, <1>4, CellIs DEF NoEntry
  <2>2. seg.flags = {"RST"} /\ seg.sound
    BY <1>4, SegmentHas, FlagsAre
  <2>3. make_entry(v) = Listener
    BY DEF make_entry
  <2>4. classify_event({"RST"}) = "RST"
    BY FlagsAre DEF Events
  <2> HIDE DEF seg
  <2>5. Dispatch(t, Listener, seg) = Silent(Listener)
    BY <1>1, <2>2, <2>4 DEF Dispatch
  <2>6. got = Silent(Listener)
    BY <2>2, <2>3, <2>5 DEF tcp_handle, seg
  <2>7. expected = rst_result(seg, "LISTEN")
    BY <1>4, <2>1, <2>2, <2>4, SameTable DEF oracle, seg
  <2>8. expected.ret = 0 /\ expected.state = "LISTEN"
    <3>1. "RST" \in seg.flags
      BY <2>2
    <3> HIDE DEF expected
    <3> QED
      BY <2>7, <3>1, NoConnIs
  <2>9. got.ret = 0 /\ got.conn = Listener
    BY <2>6 DEF Silent, Replies
  <2> HIDE DEF got, expected
  <2> QED
    BY <1>1, <2>8, <2>9 DEF Passes, got, expected
<1>5. CASE e = "SYN"
  <2>1. entry.handler = "listen_syn" /\ entry.next = "LISTEN"
    BY <1>2, <1>5, CellIs DEF RowOK
  <2>2. got = Lookup(t, Listener, seg, e) /\ expected = HandlerSays(entry, seg)
    BY <1>5, <2>1, OnListen, SameTable
  <2>3. expected = Expect(62, {"SYN", "ACK"}, ISN, seg.seq + 1, "SYN_RCVD", 0, 0, 0)
    BY <2>1, <2>2, SaysIs, Zenon
  <2>4. Undone(Listener, "LISTEN") = Listener
    BY DEF Undone, Listener
  <2> DEFINE done == Handle("listen_syn", Listener, seg)
  <2>5. /\ done.ret = 62 /\ done.flags = {"SYN", "ACK"} /\ done.seq = ISN /\ done.ack = seg.seq + 1
        /\ done.conn = Listener /\ done.spawned = TRUE /\ done.failed = FALSE
    <3> HIDE DEF seg
    <3> QED
      BY DEF Handle, Replies
  <2>6. got = done
    <3>1. LookedUp(got, entry.handler, done, Listener, "LISTEN", seg)
      BY <2>1, <2>2, <2>4, LookupListener, Zenon
    <3> QED
      BY <2>1, <2>5, <3>1, Zenon DEF LookedUp
  <2>7. /\ expected.ret = 62 /\ expected.flags = {"SYN", "ACK"} /\ expected.seq = ISN
        /\ expected.ack = seg.seq + 1 /\ expected.state = "SYN_RCVD"
    <3> HIDE DEF expected, seg
    <3> QED
      BY <2>3 DEF Expect
  <2> HIDE DEF got, expected, done
  <2> QED
    BY <1>1, <2>5, <2>6, <2>7 DEF Passes, got, expected
<1> QED
  BY <1>3, <1>4, <1>5

\* The suite is green on the table of the source.
LEMMA SourcePasses == \A v \in generate_all_combos : Passes(tcp_fsa_table, v)
<1> SUFFICES ASSUME NEW v \in generate_all_combos PROVE Passes(tcp_fsa_table, v)
  OBVIOUS
<1> DEFINE t == tcp_fsa_table
           seg == build_frame_v2(v)
           got == tcp_handle(t, v)
           expected == oracle(v)
           valid == v.header = "valid" /\ v.cksum = "valid"
<1>1. /\ v.flags \in DOMAIN FLAGS /\ v.match \in {"exact", "listen_only", "no_match"}
      /\ v.payload \in {"none", "some", "bad_seq", "dup_seq"}
  BY VectorIs DEF Combos
<1>2. CASE v.match = "no_match"
  <2>1. CASE valid
    <3>1. seg.sound
      BY <2>1, SegmentHas
    <3>2. got = NoConn(make_entry(v), seg)
      BY <1>2, <3>1 DEF tcp_handle
    <3>3. expected = rst_result(seg, v.conn)
      BY <1>2, <3>1 DEF oracle
    <3>4. /\ got.ret = expected.ret /\ got.flags = expected.flags /\ got.seq = expected.seq
          /\ got.ack = expected.ack
      <4> HIDE DEF got, expected, seg
      <4> QED
        BY <3>2, <3>3, NoConnIs
    <3> HIDE DEF got, expected
    <3> QED
      BY <1>2, <3>4 DEF Passes, got, expected
  <2>2. CASE ~valid
    <3>1. ~seg.sound
      BY <2>2, SegmentHas
    <3>2. got = Silent(make_entry(v))
      BY <3>1 DEF tcp_handle
    <3>3. expected = Quiet(v.conn, 0, 0, 0)
      BY <3>1 DEF oracle
    <3> HIDE DEF got, expected
    <3>4. got.ret = 0 /\ expected.ret = 0
      BY <3>2, <3>3 DEF Silent, Replies, Quiet, Expect
    <3> QED
      BY <1>2, <3>4 DEF Passes, got, expected
  <2> QED
    BY <2>1, <2>2
<1>3. CASE v.match # "no_match" /\ v.flags = "NONE"
  <2>1. valid
    BY <1>3, VectorIs
  <2>2. seg.sound /\ seg.flags = {}
    BY <1>3, <2>1, SegmentHas, FlagsBy
  <2> DEFINE s == IF v.match = "listen_only" THEN "LISTEN" ELSE v.conn
             c == make_entry(v)
  <2>3. c.state = s
    BY <1>1, <1>3 DEF make_entry, Listener
  <2>4. v.match = "exact" => c.rcv = PRE_RCV_NXT /\ c.rxlen = 0 /\ c.una = PRE_SND_UNA
    BY DEF make_entry
  <2>5. classify_event({}) = "unclassifiable"
    BY FlagsAre
  <2> HIDE DEF seg, c
  <2>6. Dispatch(t, c, seg) = NoConn(c, seg)
    BY <2>2, <2>5 DEF Dispatch
  <2>7. got = NoConn(c, seg)
    BY <1>3, <2>2, <2>6 DEF tcp_handle, seg, c
  <2>8. expected = rst_result(seg, s)
    BY <1>3, <2>2, <2>5 DEF oracle, seg
  <2> HIDE DEF got, expected, s
  <2>9. /\ got.ret = expected.ret /\ got.flags = expected.flags /\ got.seq = expected.seq
        /\ got.ack = expected.ack /\ got.conn = c /\ expected.state = s
        /\ expected.rcv = PRE_RCV_NXT /\ expected.rxlen = 0 /\ expected.una = PRE_SND_UNA
    BY <2>7, <2>8, NoConnIs
  <2>10. expected.state # "SYN_RCVD" \/ v.match # "listen_only"
    BY <2>9 DEF s
  <2> QED
    BY <1>3, <2>3, <2>4, <2>9, <2>10 DEF Passes, got, expected
<1>4. CASE v.match # "no_match" /\ v.flags # "NONE"
  <2>1. valid
    BY <1>4, VectorIs
  <2>2. PICK e \in Events : v.flags = NameOf(e) /\ FLAGS[v.flags] = FlagsOf(e)
    BY <1>1, <1>4, FlagsBy
  <2>3. CASE v.match = "listen_only"
    BY <2>1, <2>2, <2>3, ListenPasses
  <2>4. CASE v.match = "exact"
    <3>1. /\ v.conn \in Connected
          /\ v.payload \in {"bad_seq", "dup_seq"} => e = "ACK"
      BY <2>1, <2>2, <2>4, VectorIs DEF NameOf
    <3>2. CASE e = "RST" => v.payload = "some"
      BY <1>1, <2>1, <2>2, <2>4, <3>1, <3>2, ExactPasses
    <3>3. CASE e = "RST" /\ v.payload # "some"
      <4>1. v.payload = "none"
        BY <1>1, <3>1, <3>3
      <4>2. seg.seq = 1 /\ seg.flags = {"RST"} /\ seg.sound
        BY <2>1, <2>2, <3>3, <4>1, SegmentHas, FlagsAre
      <4>3. classify_event({"RST"}) = "RST"
        BY FlagsAre DEF Events
      <4> DEFINE c == Seeded(v.conn)
      <4>4. make_entry(v) = c
        BY <2>4 DEF make_entry, Seeded
      <4>5. c.state = v.conn /\ c.rcv = PRE_RCV_NXT /\ c.rxlen = 0 /\ c.una = PRE_SND_UNA
        BY DEF Seeded
      <4>6. c.state # "LISTEN"
        BY <3>1, <4>5 DEF Connected
      <4> HIDE DEF seg, c
      <4>7. Dispatch(t, c, seg) = Silent(c)
        <5>1. seg.seq # c.rcv /\ ~(seg.seq >= c.rcv)
          BY <4>2, <4>5, NumbersAre
        <5> QED
          BY <4>2, <4>3, <4>6, <5>1 DEF Dispatch
      <4>8. got = Silent(c)
        BY <2>4, <4>2, <4>4, <4>7 DEF tcp_handle, seg
      <4>9. expected = Quiet(v.conn, PRE_RCV_NXT, 0, PRE_SND_UNA)
        <5>1. seg.seq < PRE_RCV_NXT
          BY <4>2, NumbersAre
        <5> QED
          BY <2>4, <4>2, <4>3, <5>1 DEF oracle, seg
      <4> HIDE DEF got, expected
      <4>10. /\ got.ret = 0 /\ got.conn = c /\ expected.ret = 0 /\ expected.state = v.conn
             /\ expected.rcv = PRE_RCV_NXT /\ expected.rxlen = 0 /\ expected.una = PRE_SND_UNA
        BY <4>8, <4>9 DEF Silent, Replies, Quiet, Expect
      <4> QED
        BY <2>4, <4>5, <4>10 DEF Passes, got, expected
    <3> QED
      BY <3>2, <3>3
  <2> QED
    BY <1>1, <1>4, <2>3, <2>4
<1> QED
  BY <1>2, <1>3, <1>4

-----------------------------------------------------------------------------
(* A cell that differs is seen. *)

\* What any handler can leave of a connection seeded in state n, but for
\* the one that fails.
Leaves(g, h, n, seg) ==
    /\ g.failed = FALSE
    /\ \/ /\ g.ret = 0
          /\ \/ g.conn.state = n
             \/ seg.ack = 0 /\ g.conn.state \in {"LAST_ACK", "FIN_WAIT_1", "CLOSING"}
       \/ /\ g.ret = 54 /\ g.flags = {"ACK"}
          /\ seg.len = 0 /\ h # "finwait1_fin" => g.conn.state = n
          /\ h = "finwait1_fin" /\ "ACK" \in seg.flags /\ seg.ack = PRE_SND_NXT =>
                g.conn.state = "TIME_WAIT"
       \/ g.ret = 62 /\ g.flags = {"SYN", "ACK"} /\ g.conn.state = n

\* The two ways a handler ends.
LEMMA SilentLeaves ==
    ASSUME NEW c, NEW h, NEW n, NEW seg,
           c.state = n \/ (seg.ack = 0 /\ c.state \in {"LAST_ACK", "FIN_WAIT_1", "CLOSING"})
    PROVE  Leaves(Silent(c), h, n, seg)
  BY DEF Leaves, Silent, Replies

LEMMA AckLeaves ==
    ASSUME NEW c, NEW h, NEW n, NEW seg,
           seg.len = 0 /\ h # "finwait1_fin" => c.state = n,
           h = "finwait1_fin" /\ "ACK" \in seg.flags /\ seg.ack = PRE_SND_NXT => c.state = "TIME_WAIT"
    PROVE  Leaves(AcksNow(c), h, n, seg)
  BY DEF Leaves, AcksNow, Replies

\* Whatever handler an edit puts into a cell.
LEMMA HandleLeaves ==
    ASSUME NEW h \in HANDLERS, h # "none", NEW n, NEW seg, seg.ack \in {0, PRE_SND_NXT},
           NEW g, g = Handle(h, Seeded(n), seg)
    PROVE  \/ h = "synrcvd_ack" /\ seg.ack = 0 /\ g = Fails(Seeded("SYN_RCVD"))
           \/ Leaves(g, h, n, seg)
<1> DEFINE c == Seeded(n)
<1>1. c.state = n /\ c.una = PRE_SND_UNA /\ c.nxt = PRE_SND_NXT /\ c.rcv = PRE_RCV_NXT /\ c.rxlen = 0
  BY DEF Seeded
<1>2. ASSUME NEW z PROVE [c EXCEPT !.una = z].state = n
  BY DEF Seeded
<1>3. ASSUME NEW z PROVE [c EXCEPT !.rcv = z].state = n
  BY DEF Seeded
<1>4. ASSUME NEW z PROVE [c EXCEPT !.state = z].state = z /\ [c EXCEPT !.state = z] = Seeded(z)
  BY DEF Seeded
<1>5. ASSUME NEW z, NEW w PROVE Moving(c, z, w).state = w
  <2>1. Moving(c, z, w) = Left(w, PRE_SND_UNA, z, 0)
    BY LeftMoved, SeededIs
  <2> QED
    BY <2>1 DEF Left
<1> HIDE DEF c
<1>6. g = Handle(h, c, seg)
  BY Zenon DEF c
<1>7. CASE h = "listen_syn"
  <2>1. g = [Replies(c, 62, {"SYN", "ACK"}, ISN, seg.seq + 1) EXCEPT !.spawned = TRUE]
    BY <1>6, <1>7 DEF Handle
  <2>2. g.failed = FALSE /\ g.ret = 62 /\ g.flags = {"SYN", "ACK"} /\ g.conn = c
    BY <2>1 DEF Replies
  <2> QED
    BY <1>1, <2>2 DEF Leaves
<1>8. CASE h = "synrcvd_ack"
  <2>1. CASE seg.ack = c.nxt
    <3>1. g = Silent([c EXCEPT !.una = c.nxt])
      BY <1>6, <1>8, <2>1 DEF Handle
    <3>2. [c EXCEPT !.una = c.nxt].state = n
      BY <1>2, Zenon
    <3> QED
      BY <3>1, <3>2, SilentLeaves, Zenon
  <2>2. CASE seg.ack # c.nxt
    <3>1. g = Fails([c EXCEPT !.state = "SYN_RCVD"])
      BY <1>6, <1>8, <2>2 DEF Handle
    <3>2. [c EXCEPT !.state = "SYN_RCVD"] = Seeded("SYN_RCVD")
      BY <1>4, Zenon
    <3>3. seg.ack = 0
      BY <1>1, <2>2
    <3> QED
      BY <1>8, <3>1, <3>2, <3>3, Zenon
  <2> QED
    BY <2>1, <2>2
<1>9. CASE h \in {"conn_close", "drop"}
  <2>1. g = Silent(c)
    BY <1>6, <1>9 DEF Handle
  <2> QED
    BY <1>1, <2>1, SilentLeaves, Zenon
<1>10. CASE h = "estab_ack"
  <2> DEFINE a == IF c.una < seg.ack /\ seg.ack <= c.nxt THEN [c EXCEPT !.una = seg.ack] ELSE c
  <2>1. a.state = n
    <3>1. [c EXCEPT !.una = seg.ack].state = n
      BY <1>2, Zenon
    <3> QED
      BY <1>1, <3>1, Zenon
  <2>2. g = EstabAck(c, seg)
    BY <1>6, <1>10 DEF Handle
  <2> HIDE DEF a
  <2>3. EstabAck(c, seg) = CASE seg.len = 0 -> Silent(a)
                             [] seg.len > 0 /\ Fits(a, seg) -> AcksNow(WithData(a, seg))
                             [] seg.len > 0 /\ seg.seq # a.rcv -> AcksNow(a)
                             [] OTHER -> Silent(a)
    BY Zenon DEF EstabAck, a
  <2>4. Leaves(Silent(a), h, n, seg)
    BY <2>1, SilentLeaves, Zenon
  <2>5. Leaves(AcksNow(a), h, n, seg)
    BY <1>10, <2>1, AckLeaves
  <2>6. seg.len # 0 => Leaves(AcksNow(WithData(a, seg)), h, n, seg)
    BY <1>10, AckLeaves
  <2> DEFINE w == AcksNow(WithData(a, seg))
             q == AcksNow(a)
             r == Silent(a)
             f == Fits(a, seg)
  <2>7. g = CASE seg.len = 0 -> r
              [] seg.len > 0 /\ f -> w
              [] seg.len > 0 /\ seg.seq # a.rcv -> q
              [] OTHER -> r
    BY <2>2, <2>3, Zenon
  <2>8. Leaves(r, h, n, seg) /\ Leaves(q, h, n, seg) /\ (seg.len # 0 => Leaves(w, h, n, seg))
    BY <2>4, <2>5, <2>6, Zenon
  <2>9. f => seg.seq = a.rcv
    BY DEF Fits
  <2> HIDE DEF w, q, r, f
  <2>10. CASE seg.len = 0
    BY <2>7, <2>8, <2>10
  <2>11. CASE seg.len # 0
    BY <2>7, <2>8, <2>9, <2>11
  <2> QED
    BY <2>10, <2>11
<1>11. CASE h = "estab_fin"
  <2>1. g = EstabFin(c, seg)
    BY <1>6, <1>11 DEF Handle
  <2>2. CASE seg.len = 0
    <3>1. g = AcksNow([c EXCEPT !.rcv = c.rcv + 1])
      BY <2>1, <2>2 DEF EstabFin
    <3>2. [c EXCEPT !.rcv = c.rcv + 1].state = n
      BY <1>3, Zenon
    <3> QED
      BY <1>11, <3>1, <3>2, AckLeaves, Zenon
  <2>3. CASE seg.len # 0
    <3>1. \E d : g = AcksNow(d)
      BY <2>1, <2>3 DEF EstabFin
    <3>2. PICK d : g = AcksNow(d)
      BY <3>1
    <3> QED
      BY <1>11, <2>3, <3>2, AckLeaves, Zenon
  <2> QED
    BY <2>2, <2>3
<1>12. CASE h \in {"lastack_ack", "finwait1_ack", "closing_ack"}
  <2> DEFINE z == CASE h = "lastack_ack" -> "LAST_ACK" [] h = "finwait1_ack" -> "FIN_WAIT_1"
                    [] h = "closing_ack" -> "CLOSING"
  <2>1. g = FinAcked(c, seg, z)
    BY <1>6, <1>12 DEF Handle
  <2>2. z \in {"LAST_ACK", "FIN_WAIT_1", "CLOSING"}
    BY <1>12
  <2> HIDE DEF z
  <2>3. CASE seg.ack = c.nxt
    <3>1. g = Silent(c)
      BY <1>1, <2>1, <2>3, NumbersAre DEF FinAcked
    <3> QED
      BY <1>1, <3>1, SilentLeaves, Zenon
  <2>4. CASE seg.ack # c.nxt
    <3>1. seg.ack = 0
      BY <1>1, <2>4
    <3>2. g = Silent([c EXCEPT !.state = z])
      BY <1>1, <2>1, <2>4, <3>1, NumbersAre DEF FinAcked
    <3>3. [c EXCEPT !.state = z].state = z
      BY <1>4, Zenon
    <3> QED
      BY <2>2, <3>1, <3>2, <3>3, SilentLeaves, Zenon
  <2> QED
    BY <2>3, <2>4
<1>13. CASE h = "finwait1_fin"
  <2> DEFINE z == IF "ACK" \in seg.flags /\ seg.ack = c.nxt THEN "TIME_WAIT" ELSE c.state
             d == Moving(c, c.rcv + 1, z)
  <2>1. g = FinWait1Fin(c, seg)
    BY <1>6, <1>13 DEF Handle
  <2>2. g = AcksNow([c EXCEPT !.rcv = c.rcv + 1, !.state = z])
    BY <2>1 DEF FinWait1Fin
  <2>3. g = AcksNow(d)
    BY <2>2, Zenon DEF Moving
  <2>4. d.state = z
    BY <1>5, Zenon
  <2> HIDE DEF d
  <2>5. "ACK" \in seg.flags /\ seg.ack = PRE_SND_NXT => z = "TIME_WAIT"
    BY <1>1
  <2> HIDE DEF z
  <2> QED
    BY <1>13, <2>3, <2>4, <2>5, AckLeaves
<1>14. CASE h = "finwait2_fin"
  <2>1. g = AcksNow([c EXCEPT !.rcv = c.rcv + 1])
    BY <1>6, <1>14 DEF Handle
  <2>2. [c EXCEPT !.rcv = c.rcv + 1].state = n
    BY <1>3, Zenon
  <2> QED
    BY <1>14, <2>1, <2>2, AckLeaves, Zenon
<1>15. CASE h = "timewait_fin"
  <2>1. g = AcksNow(c)
    BY <1>6, <1>15 DEF Handle
  <2> QED
    BY <1>1, <1>15, <2>1, AckLeaves, Zenon
<1> QED
  BY <1>7, <1>8, <1>9, <1>10, <1>11, <1>12, <1>13, <1>14, <1>15 DEF HANDLERS

\* What SuitePinsTable says of one cell.
Pinned(t, c) ==
    LET was == tcp_fsa_table[c] IN
    IF was.handler = "none"
    THEN t[c].handler = "none" \/ Refuses(c, t[c].handler)
    ELSE t[c].handler # "none" /\ SeenTarget(c, t[c]) = SeenTarget(c, was)

Tables == [CONN_STATES \X Events -> [next : CONN_STATES, handler : HANDLERS]]

Wants(x, s, e, was) ==
    /\ x.state = SeenTarget(<<s, e>>, was)
    /\ e \in {"RST", "ACK"} => x.ret = 0
    /\ e = "FIN" => x.ret = 54 /\ x.flags = {"ACK"}

\* What the oracle expects of a row on an exact match without data, or of a
\* RST with data.
LEMMA RowSays ==
    ASSUME NEW s, NEW e \in {"RST", "ACK", "FIN"}, NEW was, RowOK(s, e, was.next, was.handler),
           NEW seg, ExactSeg(seg, e), e # "RST" => seg.len = 0
    PROVE  Wants(HandlerSays(was, seg), s, e, was)
<1> DEFINE x == HandlerSays(was, seg)
           n == was.next
           h == was.handler
<1>1. h # "finwait1_fin" \/ e # "FIN" => SeenTarget(<<s, e>>, was) = n
  BY DEF SeenTarget
<1>2. ASSUME NEW a, NEW b, NEW c, NEW d
      PROVE  /\ Quiet(a, b, c, d).state = a /\ Quiet(a, b, c, d).ret = 0
             /\ Acks(a, b, c, d).state = a /\ Acks(a, b, c, d).ret = 54
             /\ Acks(a, b, c, d).flags = {"ACK"}
  BY DEF Quiet, Acks, Expect
<1>6. SUFFICES /\ x.state = SeenTarget(<<s, e>>, was)
               /\ e \in {"RST", "ACK"} => x.ret = 0
               /\ e = "FIN" => x.ret = 54 /\ x.flags = {"ACK"}
  BY DEF Wants
<1> HIDE DEF x
<1>3. CASE e = "RST"
  <2>1. h = "conn_close"
    BY <1>3 DEF RowOK
  <2>2. x = Quiet(n, PRE_RCV_NXT, 0, PRE_SND_UNA)
    BY <2>1, SaysIs, Zenon DEF x
  <2> QED
    BY <1>1, <1>2, <1>3, <2>2
<1>4. CASE e = "ACK"
  <2>1. h \in AckHandlers /\ h # "finwait1_fin"
    BY <1>4 DEF RowOK, AckHandlers
  <2>2. CASE h \in {"drop", "lastack_ack", "finwait1_ack", "closing_ack"}
    <3>1. x = Quiet(n, PRE_RCV_NXT, 0, PRE_SND_UNA)
      BY <2>2, SaysIs, Zenon DEF x
    <3> QED
      BY <1>1, <1>2, <1>4, <3>1
  <2>3. CASE h = "synrcvd_ack"
    <3>1. x = Quiet(n, PRE_RCV_NXT, 0, PRE_SND_NXT)
      BY <2>3, SaysIs, Zenon DEF x
    <3> QED
      BY <1>1, <1>2, <1>4, <3>1
  <2>4. CASE h = "estab_ack"
    <3>1. x = CASE seg.len = 0 -> Quiet(n, PRE_RCV_NXT, 0, PRE_SND_NXT)
                [] seg.len > 0 /\ seg.seq = PRE_RCV_NXT -> Acks(n, PRE_RCV_NXT + 5, 5, PRE_SND_NXT)
                [] OTHER -> Acks(n, PRE_RCV_NXT, 0, PRE_SND_NXT)
      BY <2>4, SaysIs, Zenon DEF x
    <3>2. x = Quiet(n, PRE_RCV_NXT, 0, PRE_SND_NXT)
      BY <1>4, <3>1
    <3> QED
      BY <1>1, <1>2, <1>4, <3>2
  <2> QED
    BY <2>1, <2>2, <2>3, <2>4 DEF AckHandlers
<1>5. CASE e = "FIN"
  <2>1. h \in {"estab_fin", "finwait1_fin", "finwait2_fin", "timewait_fin"}
    BY <1>5 DEF RowOK, FinRows
  <2>2. CASE h = "finwait1_fin"
    <3>1. "ACK" \in seg.flags /\ seg.ack = PRE_SND_NXT
      BY <1>5, FlagsAre DEF ExactSeg
    <3>2. x = Acks("TIME_WAIT", PRE_RCV_NXT + 1, 0, PRE_SND_UNA)
      BY <2>2, <3>1, SaysIs, Zenon DEF x
    <3>3. SeenTarget(<<s, e>>, was) = "TIME_WAIT"
      BY <1>5, <2>2 DEF SeenTarget
    <3> QED
      BY <1>2, <1>5, <3>2, <3>3
  <2>3. CASE h # "finwait1_fin"
    <3>1. h = "estab_fin" => x = Acks(n, PRE_RCV_NXT + seg.len + 1, seg.len, PRE_SND_UNA)
      BY SaysIs, Zenon DEF x
    <3>2. h = "finwait2_fin" => x = Acks(n, PRE_RCV_NXT + 1, 0, PRE_SND_UNA)
      BY SaysIs, Zenon DEF x
    <3>3. h = "timewait_fin" => x = Acks(n, PRE_RCV_NXT, 0, PRE_SND_UNA)
      BY SaysIs, Zenon DEF x
    <3> QED
      BY <1>1, <1>2, <1>5, <2>1, <2>3, <3>1, <3>2, <3>3
  <2> QED
    BY <2>2, <2>3
<1> QED
  BY <1>3, <1>4, <1>5

\* A cell of a connected state: one vector tells.
LEMMA ExactPinned ==
    ASSUME NEW t \in Tables, \A v \in generate_all_combos : Passes(t, v),
           NEW s \in Connected, NEW e \in Events
    PROVE  Pinned(t, <<s, e>>)
<1> DEFINE v == [conn |-> s, flags |-> NameOf(e), match |-> "exact",
                 payload |-> IF e = "RST" THEN "some" ELSE "none",
                 cksum |-> "valid", header |-> "valid"]
           seg == build_frame_v2(v)
           entry == t[<<s, e>>]
           was == tcp_fsa_table[<<s, e>>]
           got == tcp_handle(t, v)
           x == oracle(v)
           done == Ran(t, s, seg, e)
<1>1. s \in CONN_STATES /\ s # "LISTEN" /\ s # "CLOSED"
  BY DEF Connected
<1>2. /\ v.conn = s /\ v.flags = NameOf(e) /\ v.match = "exact" /\ v.cksum = "valid" /\ v.header = "valid"
      /\ e = "RST" => v.payload = "some"
      /\ e # "RST" => v.payload = "none"
      /\ v.payload \in {"none", "some"}
  OBVIOUS
<1>3. NameOf(e) \in DOMAIN FLAGS /\ FLAGS[NameOf(e)] = FlagsOf(e)
  BY FlagsBy
<1>4. v \in Combos
  BY <1>1, <1>3 DEF Combos
<1> HIDE DEF v
<1>5. v \in generate_all_combos
  BY <1>2, <1>4 DEF generate_all_combos, is_valid_combo
<1>6. Passes(t, v)
  BY <1>5
<1>7. /\ got.ret = x.ret
      /\ got.ret # 0 => got.flags = x.flags
      /\ got.conn.state = x.state
  <2> HIDE DEF got, x
  <2> QED
    BY <1>2, <1>6 DEF Passes, got, x
<1>8. /\ ExactSeg(seg, e)
      /\ got = Lookup(t, Seeded(s), seg, e)
      /\ x = IF was.handler = "none" THEN rst_result(seg, s) ELSE HandlerSays(was, seg)
  BY <1>2, <1>3, OnExact, SameTable
<1>9. e # "RST" => seg.len = 0
  BY <1>2, SegmentHas
<1>10. LookedUp(got, entry.handler, done, Seeded(s), s, seg)
  BY <1>8, LookupSeeded, Zenon
<1>11. done = Handle(entry.handler, Seeded(entry.next), seg)
  BY Zenon DEF Ran
<1>12. entry.handler \in HANDLERS
  BY <1>1 DEF Tables
<1>13. /\ seg.flags = FlagsOf(e)
       /\ e \in {"RST", "SYN"} => seg.ack = 0
       /\ e \in {"SYNACK", "FIN", "ACK"} => seg.ack = PRE_SND_NXT /\ "ACK" \in seg.flags
       /\ e # "RST" => "RST" \notin seg.flags
       /\ e = "RST" => "RST" \in seg.flags
  BY <1>8, FlagsAre DEF ExactSeg, Events
<1>14. seg.ack \in {0, PRE_SND_NXT}
  BY <1>13 DEF Events
<1> HIDE DEF seg, entry, was, got, x, done
<1>15. entry.handler # "none" =>
          \/ entry.handler = "synrcvd_ack" /\ seg.ack = 0 /\ done = Fails(Seeded("SYN_RCVD"))
          \/ Leaves(done, entry.handler, entry.next, seg)
  BY <1>11, <1>12, <1>14, HandleLeaves
<1>16. entry.handler # "none" /\ Leaves(done, entry.handler, entry.next, seg) =>
          got = done /\ Leaves(got, entry.handler, entry.next, seg)
  BY <1>10, Zenon DEF LookedUp, Leaves
<1>17. CASE was.handler = "none"
  <2>1. e # "RST"
    BY <1>1, <1>17, CellIs DEF was
  <2>2. x.ret = 54 /\ "RST" \in x.flags
    BY <1>8, <1>13, <1>17, <2>1, NoConnIs
  <2>3. got.ret = 54 /\ "RST" \in got.flags
    BY <1>7, <2>2
  <2>4. ~Leaves(got, entry.handler, entry.next, seg)
    BY <2>3 DEF Leaves
  <2>5. CASE entry.handler # "none"
    <3>1. entry.handler = "synrcvd_ack" /\ seg.ack = 0
      BY <1>15, <1>16, <2>4, <2>5, Zenon
    <3>2. e = "SYN"
      BY <1>13, <2>1, <3>1, NumbersAre DEF Events
    <3> QED
      BY <1>17, <3>1, <3>2 DEF Pinned, Refuses, entry, was
  <2> QED
    BY <1>17, <2>5 DEF Pinned, entry, was
<1>18. CASE was.handler # "none"
  <2>1. RowOK(s, e, was.next, was.handler)
    BY <1>1, <1>18, CellIs DEF NoEntry, was
  <2>2. e \in {"RST", "ACK", "FIN"}
    BY <1>1, <2>1 DEF RowOK
  <2>3. x = HandlerSays(was, seg)
    BY <1>8, <1>18, Zenon
  <2>4. /\ x.state = SeenTarget(<<s, e>>, was)
        /\ e \in {"RST", "ACK"} => x.ret = 0
        /\ e = "FIN" => x.ret = 54 /\ x.flags = {"ACK"}
    <3>1. Wants(x, s, e, was)
      BY <1>8, <1>9, <2>1, <2>2, <2>3, RowSays, Zenon
    <3> QED
      BY <3>1, Zenon DEF Wants
  <2>5. e = "RST" => x.state = "CLOSED"
    BY <2>1, <2>4 DEF RowOK, SeenTarget
  <2>6. Seeded(s).state = s
    BY DEF Seeded
  <2>7. entry.handler # "none"
    <3> SUFFICES ASSUME entry.handler = "none" PROVE FALSE
      OBVIOUS
    <3>1. got = NoConn(Seeded(s), seg)
      BY <1>10, Zenon DEF LookedUp
    <3>2. /\ "RST" \notin seg.flags => got.ret = 54 /\ "RST" \in got.flags
          /\ got.conn = Seeded(s)
      <4> DEFINE y == rst_result(seg, s)
      <4>1. y = rst_result(seg, s)
        OBVIOUS
      <4> HIDE DEF y
      <4> QED
        BY <3>1, <4>1, NoConnIs
    <3>3. CASE e = "RST"
      BY <1>1, <1>7, <2>5, <2>6, <3>2, <3>3
    <3>4. CASE e # "RST"
      BY <1>7, <1>13, <2>2, <2>4, <3>2, <3>4
    <3> QED
      BY <3>3, <3>4
  <2>8. Leaves(got, entry.handler, entry.next, seg)
    <3> SUFFICES ASSUME ~Leaves(got, entry.handler, entry.next, seg) PROVE FALSE
      OBVIOUS
    <3>1. entry.handler = "synrcvd_ack" /\ seg.ack = 0 /\ done = Fails(Seeded("SYN_RCVD"))
      BY <1>15, <1>16, <2>7, Zenon
    <3>2. e = "RST"
      BY <1>13, <2>2, <3>1, NumbersAre
    <3>3. done.failed = TRUE /\ done.conn = Seeded("SYN_RCVD")
      BY <3>1, FailsHas, Zenon
    <3>4. got = NoConn(Undone(done.conn, s), seg)
      BY <1>10, <2>7, <3>3, Zenon DEF LookedUp
    <3>5. Undone(Seeded("SYN_RCVD"), s) = Seeded(s)
      BY DEF Undone, Seeded
    <3>6. got = NoConn(Seeded(s), seg)
      BY <3>3, <3>4, <3>5, Zenon
    <3>7. got.conn = Seeded(s)
      <4> DEFINE y == rst_result(seg, s)
      <4>1. y = rst_result(seg, s)
        OBVIOUS
      <4> HIDE DEF y
      <4> QED
        BY <3>6, <4>1, NoConnIs
    <3> QED
      BY <1>1, <1>7, <2>5, <2>6, <3>2, <3>7
  <2>9. SeenTarget(<<s, e>>, entry) = SeenTarget(<<s, e>>, was)
    <3>1. CASE e = "FIN"
      <4>1. /\ got.ret = 54
            /\ entry.handler # "finwait1_fin" => got.conn.state = entry.next
            /\ entry.handler = "finwait1_fin" => got.conn.state = "TIME_WAIT"
        BY <1>7, <1>9, <1>13, <2>4, <2>8, <3>1, NumbersAre DEF Leaves
      <4>2. SeenTarget(<<s, e>>, entry) = got.conn.state
        BY <3>1, <4>1 DEF SeenTarget
      <4> QED
        BY <1>7, <2>4, <4>2
    <3>2. CASE e = "ACK"
      <4>1. got.ret = 0 /\ seg.ack # 0
        BY <1>7, <1>13, <2>4, <3>2, NumbersAre
      <4>2. got.conn.state = entry.next
        BY <4>1, <2>8 DEF Leaves
      <4>3. SeenTarget(<<s, e>>, entry) = entry.next
        BY <3>2 DEF SeenTarget
      <4> QED
        BY <1>7, <2>4, <4>2, <4>3
    <3>3. CASE e = "RST"
      <4>1. got.ret = 0 /\ got.conn.state = "CLOSED"
        BY <1>7, <2>4, <2>5, <3>3
      <4>2. got.conn.state = entry.next
        BY <4>1, <2>8 DEF Leaves
      <4>3. SeenTarget(<<s, e>>, entry) = entry.next
        BY <3>3 DEF SeenTarget
      <4> QED
        BY <1>7, <2>4, <4>2, <4>3
    <3> QED
      BY <2>2, <3>1, <3>2, <3>3
  <2> QED
    BY <1>18, <2>7, <2>9 DEF Pinned, entry, was
<1> QED
  BY <1>17, <1>18

\* What any handler makes of the listener.
Listens(g, h, c) ==
    /\ g.failed = FALSE
    /\ \/ h = "listen_syn" /\ g.ret = 62 /\ g.flags = {"SYN", "ACK"} /\ g.conn = c
       \/ h # "listen_syn" /\ g.ret = 0
       \/ h # "listen_syn" /\ g.ret = 54 /\ g.flags = {"ACK"}

\* The same for the listener.
LEMMA HandleListens ==
    ASSUME NEW h \in HANDLERS, h # "none", NEW c, c.nxt = 0, NEW seg, seg.ack = 0
    PROVE  Listens(Handle(h, c, seg), h, c)
<1> DEFINE g == Handle(h, c, seg)
<1>1. ASSUME NEW d, h # "listen_syn"
      PROVE  Listens(Silent(d), h, c) /\ Listens(AcksNow(d), h, c)
  BY <1>1 DEF Listens, Silent, AcksNow, Replies
<1>2. CASE h = "listen_syn"
  <2>1. g = [Replies(c, 62, {"SYN", "ACK"}, ISN, seg.seq + 1) EXCEPT !.spawned = TRUE]
    BY <1>2 DEF Handle
  <2> HIDE DEF g
  <2>2. g.failed = FALSE /\ g.ret = 62 /\ g.flags = {"SYN", "ACK"} /\ g.conn = c
    BY <2>1 DEF Replies
  <2> QED
    BY <1>2, <2>2 DEF Listens, g
<1>3. CASE h = "synrcvd_ack"
  <2>1. g = Silent([c EXCEPT !.una = c.nxt])
    BY <1>3 DEF Handle
  <2> QED
    BY <1>1, <1>3, <2>1, Zenon
<1>4. CASE h \in {"conn_close", "drop"}
  <2>1. g = Silent(c)
    BY <1>4 DEF Handle
  <2> QED
    BY <1>1, <1>4, <2>1, Zenon
<1>5. CASE h = "estab_ack"
  <2> DEFINE a == IF c.una < seg.ack /\ seg.ack <= c.nxt THEN [c EXCEPT !.una = seg.ack] ELSE c
             w == AcksNow(WithData(a, seg))
             q == AcksNow(a)
             r == Silent(a)
             f == Fits(a, seg)
             m == seg.seq # a.rcv
  <2>1. g = EstabAck(c, seg)
    BY <1>5 DEF Handle
  <2>2. g = CASE seg.len = 0 -> r
              [] seg.len > 0 /\ f -> w
              [] seg.len > 0 /\ m -> q
              [] OTHER -> r
    BY <2>1, Zenon DEF EstabAck
  <2>3. Listens(r, h, c) /\ Listens(q, h, c) /\ Listens(w, h, c)
    BY <1>1, <1>5, Zenon
  <2>4. f => ~m
    BY DEF Fits
  <2> HIDE DEF g, a, w, q, r, f, m
  <2>5. Listens(g, h, c)
    BY <2>2, <2>3, <2>4
  <2> QED
    BY <2>5, Zenon DEF g
<1>6. CASE h = "estab_fin"
  <2>1. g = EstabFin(c, seg)
    BY <1>6 DEF Handle
  <2>2. \E d : g = AcksNow(d)
    BY <2>1 DEF EstabFin
  <2> QED
    BY <1>1, <1>6, <2>2, Zenon
<1>7. CASE h \in {"lastack_ack", "finwait1_ack", "closing_ack"}
  <2>1. \E z : g = FinAcked(c, seg, z)
    BY <1>7 DEF Handle
  <2>2. g = Silent(c)
    BY <2>1 DEF FinAcked
  <2> QED
    BY <1>1, <1>7, <2>2, Zenon
<1>8. CASE h = "finwait1_fin"
  <2>1. g = FinWait1Fin(c, seg)
    BY <1>8 DEF Handle
  <2>2. \E d : g = AcksNow(d)
    BY <2>1, Zenon DEF FinWait1Fin
  <2> QED
    BY <1>1, <1>8, <2>2, Zenon
<1>9. CASE h \in {"finwait2_fin", "timewait_fin"}
  <2>1. \E d : g = AcksNow(d)
    BY <1>9 DEF Handle
  <2> QED
    BY <1>1, <1>9, <2>1, Zenon
<1> QED
  BY <1>2, <1>3, <1>4, <1>5, <1>6, <1>7, <1>8, <1>9 DEF HANDLERS

\* A cell of the listener.
LEMMA ListenPinned ==
    ASSUME NEW t \in Tables, \A v \in generate_all_combos : Passes(t, v), NEW e \in Events, e # "RST"
    PROVE  Pinned(t, <<"LISTEN", e>>)
<1> DEFINE v == [conn |-> "LISTEN", flags |-> NameOf(e), match |-> "listen_only",
                 payload |-> "none", cksum |-> "valid", header |-> "valid"]
           seg == build_frame_v2(v)
           entry == t[<<"LISTEN", e>>]
           was == tcp_fsa_table[<<"LISTEN", e>>]
           got == tcp_handle(t, v)
           x == oracle(v)
           c == Undone(Listener, entry.next)
           done == Handle(entry.handler, c, seg)
<1>1. "LISTEN" \in CONN_STATES /\ "LISTEN" \notin Connected /\ "LISTEN" \notin FinStates
  BY DEF CONN_STATES, Connected, FinStates
<1>2. /\ v.conn = "LISTEN" /\ v.flags = NameOf(e) /\ v.match = "listen_only" /\ v.payload = "none"
      /\ v.cksum = "valid" /\ v.header = "valid"
  OBVIOUS
<1>3. NameOf(e) \in DOMAIN FLAGS /\ FLAGS[NameOf(e)] = FlagsOf(e)
  BY FlagsBy
<1>4. v \in Combos
  BY <1>1, <1>3 DEF Combos
<1> HIDE DEF v
<1>5. v \in generate_all_combos
  BY <1>2, <1>4 DEF generate_all_combos, is_valid_combo
<1>6. Passes(t, v)
  BY <1>5
<1>7. /\ got.ret = x.ret
      /\ got.ret # 0 => got.flags = x.flags
      /\ x.state = "SYN_RCVD" => got.conn.state = "LISTEN"
  <2> HIDE DEF got, x
  <2> QED
    BY <1>2, <1>6 DEF Passes, got, x
<1>8. /\ seg.flags = FlagsOf(e) /\ seg.ack = 0
      /\ got = Lookup(t, Listener, seg, e)
      /\ x = IF was.handler = "none" THEN rst_result(seg, "LISTEN") ELSE HandlerSays(was, seg)
  BY <1>2, <1>3, OnListen, SameTable
<1>9. LookedUp(got, entry.handler, done, Listener, "LISTEN", seg)
  BY <1>8, LookupListener, Zenon
<1>10. c.nxt = 0 /\ c.state = entry.next
  <2> HIDE DEF entry
  <2> QED
    BY DEF Undone, Listener
<1>11. entry.handler \in HANDLERS
  BY <1>1 DEF Tables
<1>12. "RST" \notin seg.flags
  BY <1>8, FlagsAre DEF Events
<1> HIDE DEF seg, entry, c
<1>13. entry.handler # "none" => Listens(done, entry.handler, c)
  BY <1>8, <1>10, <1>11, HandleListens, Zenon
<1> HIDE DEF was, got, x, done
<1>14. entry.handler # "none" => Listens(got, entry.handler, c)
  BY <1>9, <1>13, Zenon DEF LookedUp, Listens
<1>15. ASSUME entry.handler = "none" PROVE got.ret = 54 /\ "RST" \in got.flags
  <2>1. got = NoConn(Listener, seg)
    BY <1>9, <1>15, Zenon DEF LookedUp
  <2> DEFINE y == rst_result(seg, "LISTEN")
  <2>2. y = rst_result(seg, "LISTEN")
    OBVIOUS
  <2> HIDE DEF y
  <2> QED
    BY <1>12, <2>1, <2>2, NoConnIs
<1>16. CASE e # "SYN"
  <2>1. was.handler = "none"
    BY <1>1, <1>16, CellIs DEF NoEntry, was
  <2>2. x.ret = 54 /\ "RST" \in x.flags
    BY <1>8, <1>12, <2>1, NoConnIs
  <2>3. ~Listens(got, entry.handler, c)
    BY <1>7, <2>2 DEF Listens
  <2> QED
    BY <1>14, <2>1, <2>3, Zenon DEF Pinned, entry, was
<1>17. CASE e = "SYN"
  <2>1. was.handler = "listen_syn" /\ was.next = "LISTEN"
    BY <1>1, <1>17, CellIs DEF RowOK, was
  <2>2. x = HandlerSays(was, seg)
    BY <1>8, <2>1
  <2>3. x = Expect(62, {"SYN", "ACK"}, ISN, seg.seq + 1, "SYN_RCVD", 0, 0, 0)
    BY <2>1, <2>2, SaysIs, Zenon
  <2>4. x.ret = 62 /\ x.state = "SYN_RCVD"
    BY <2>3 DEF Expect
  <2>5. entry.handler # "none"
    BY <1>7, <1>15, <2>4
  <2>6. got.conn = c
    BY <1>7, <1>14, <2>4, <2>5 DEF Listens
  <2>7. entry.next = "LISTEN"
    BY <1>7, <1>10, <2>4, <2>6
  <2>8. SeenTarget(<<"LISTEN", e>>, entry) = entry.next /\ SeenTarget(<<"LISTEN", e>>, was) = was.next
    BY <1>17 DEF SeenTarget
  <2> QED
    BY <2>1, <2>5, <2>7, <2>8 DEF Pinned, entry, was
<1> QED
  BY <1>16, <1>17

\* Every cell that a segment reaches.
LEMMA GreenPins ==
    ASSUME NEW t \in Tables, \A v \in generate_all_combos : Passes(t, v),
           NEW c \in (CONN_STATES \X Events) \ Dead
    PROVE  Pinned(t, c)
<1>1. PICK s \in CONN_STATES, e \in Events : c = <<s, e>>
  OBVIOUS
<1>2. s # "CLOSED" /\ (s = "LISTEN" => e # "RST")
  BY <1>1 DEF Dead
<1>3. CASE s = "LISTEN"
  BY <1>1, <1>2, <1>3, ListenPinned
<1>4. CASE s # "LISTEN"
  <2>1. s \in Connected
    BY <1>2, <1>4 DEF Connected
  <2> QED
    BY <1>1, <2>1, ExactPinned
<1> QED
  BY <1>3, <1>4

-----------------------------------------------------------------------------
(* The suite over any number of edits. *)

AllPass(t) == \A v \in generate_all_combos : Passes(t, v)

TcpInv ==
    /\ table \in Tables
    /\ suite = "red" => ~AllPass(table)
    /\ suite = "green" => AllPass(table)

\* The table of the source, and what an edit may put into it.
LEMMA SourceTyped == tcp_fsa_table \in Tables /\ Handlers \subseteq HANDLERS
<1>1. ASSUME NEW c \in CONN_STATES \X Events
      PROVE  tcp_fsa_table[c] \in [next : CONN_STATES, handler : HANDLERS]
  <2>1. PICK s \in CONN_STATES, e \in Events : c = <<s, e>>
    OBVIOUS
  <2> QED
    BY <2>1, CellIs
<1>2. tcp_fsa_table = [c \in CONN_STATES \X Events |-> tcp_fsa_table[c]]
  BY DEF tcp_fsa_table, TableOf
<1>3. tcp_fsa_table \in Tables
  BY <1>1, <1>2, Zenon DEF Tables
<1>4. Handlers \subseteq HANDLERS
  BY <1>1 DEF Handlers
<1> QED
  BY <1>3, <1>4

LEMMA TcpStart == TcpInit => TcpInv
  BY SourceTyped DEF TcpInit, TcpInv

LEMMA EditTyped ==
    ASSUME NEW t \in Tables, NEW c \in CONN_STATES \X Events
    PROVE  /\ \A s \in CONN_STATES : [t EXCEPT ![c].next = s] \in Tables
           /\ \A h \in Handlers : [t EXCEPT ![c].handler = h] \in Tables
<1>1. t[c] \in [next : CONN_STATES, handler : HANDLERS]
  BY DEF Tables
<1>2. ASSUME NEW s \in CONN_STATES PROVE [t EXCEPT ![c].next = s] \in Tables
  <2>1. [t[c] EXCEPT !.next = s] \in [next : CONN_STATES, handler : HANDLERS]
    BY <1>1
  <2> QED
    BY <2>1 DEF Tables
<1>3. ASSUME NEW h \in Handlers PROVE [t EXCEPT ![c].handler = h] \in Tables
  <2>1. h \in HANDLERS
    BY SourceTyped
  <2>2. [t[c] EXCEPT !.handler = h] \in [next : CONN_STATES, handler : HANDLERS]
    BY <1>1, <2>1
  <2> QED
    BY <2>2 DEF Tables
<1> QED
  BY <1>2, <1>3

LEMMA TcpStep == TcpInv /\ [TcpNext]_tcpVars => TcpInv'
<1> SUFFICES ASSUME TcpInv, [TcpNext]_tcpVars PROVE TcpInv'
  OBVIOUS
<1>1. CASE EditTable
  <2>1. table' \in Tables
    BY <1>1, EditTyped DEF EditTable, TcpInv
  <2>2. suite' = "none"
    BY <1>1 DEF EditTable
  <2> QED
    BY <2>1, <2>2 DEF TcpInv
<1>2. CASE RunSuite
  <2>1. table' = table /\ suite' = IF AllPass(table) THEN "green" ELSE "red"
    BY <1>2, Zenon DEF RunSuite, AllPass
  <2>2. AllPass(table') <=> AllPass(table)
    BY <2>1, Zenon
  <2> QED
    BY <2>1, <2>2 DEF TcpInv
<1>3. CASE UNCHANGED tcpVars
  <2>1. table' = table /\ suite' = suite
    BY <1>3 DEF tcpVars
  <2> QED
    BY <2>1, Zenon DEF TcpInv
<1> QED
  BY <1>1, <1>2, <1>3 DEF TcpNext

LEMMA TcpPins == TcpInv => SuitePinsTable
<1> SUFFICES ASSUME TcpInv PROVE SuitePinsTable
  OBVIOUS
<1>1. suite = "red" => table # tcp_fsa_table
  BY SourcePasses, Zenon DEF TcpInv, AllPass
<1>2. ASSUME suite = "green", NEW c \in (CONN_STATES \X Events) \ Dead PROVE Pinned(table, c)
  BY <1>2, GreenPins DEF TcpInv, AllPass
<1> QED
  BY <1>1, <1>2, Zenon DEF SuitePinsTable, Pinned

-----------------------------------------------------------------------------
(* The gates together. *)

\* The inductive invariant.
IInv == TcpInv /\ ConfInv /\ TabInv /\ AppInv

LEMMA NextOK == ASSUME IInv, [Next]_vars PROVE IInv'
<1>1. UNCHANGED confVars => ConfInv'
  BY DEF IInv, ConfInv, confVars, Agree, Took
<1>2. UNCHANGED tabVars => TabInv'
  <2>1. SUFFICES ASSUME UNCHANGED tabVars PROVE TabInv'
    OBVIOUS
  <2>2. /\ rows' = rows /\ cells' = cells /\ tool' = tool /\ lint' = lint
        /\ verify' = verify
    BY <2>1 DEF tabVars
  <2> QED
    BY <2>2, LintSame, VerifiedSame DEF IInv, TabInv
<1>3. UNCHANGED appVars => AppInv'
  BY AppStep DEF IInv
<1>9. UNCHANGED tcpVars => TcpInv'
  BY TcpStep DEF IInv
<1>4. CASE TcpNext /\ UNCHANGED <<gate, tabVars, confVars, appVars>>
  BY <1>1, <1>2, <1>4, <1>3, TcpStep DEF IInv
<1>5. CASE TabNext /\ UNCHANGED <<gate, tcpVars, confVars, appVars>>
  BY <1>1, <1>5, <1>3, <1>9, EditRowOK, EditCellOK, ToolsOK DEF IInv, TabNext
<1>6. CASE ConfNext /\ UNCHANGED <<gate, tcpVars, tabVars, appVars>>
  BY <1>2, <1>6, <1>3, <1>9, ReadLineOK, ReadQuirkOK, EndOK, RamOK
  DEF IInv, ConfNext
<1>7. CASE AppNext /\ UNCHANGED <<gate, tcpVars, tabVars, confVars>>
  BY <1>1, <1>2, <1>7, <1>9, AppStep DEF IInv
<1>8. CASE UNCHANGED vars
  BY <1>1, <1>2, <1>8, <1>3, <1>9 DEF IInv, vars
<1> QED
  BY <1>4, <1>5, <1>6, <1>7, <1>8 DEF Next

\* The inductive invariant holds in every reachable state.
THEOREM Invariance == Spec => []IInv
<1>1. Init => IInv
  BY TcpStart, ConfInitOK, TabInitOK, AppStart DEF Init, IInv
<1> QED
  BY <1>1, NextOK, PTL DEF Spec

\* tcp_fsa_table as it is passes the vector suite, and a table that passes,
\* however often and wherever it was edited, has in every cell a segment can
\* reach a transition that the vectors cannot tell from the source's: every
\* such cell has a vector of tcp_oracle.py of its own.
THEOREM SuiteSafe == Spec => []SuitePinsTable
<1>1. IInv => SuitePinsTable
  BY TcpPins DEF IInv
<1> QED
  BY <1>1, Invariance, PTL

\* A network.conf of up to 4096 bytes and without a quirk (see NetworkConf) that
\* lint_network_conf.py accepts is one config_parse boots with, and with the
\* values the linter saw, however many lines it has, whether or not its last
\* line ends with a newline, and whatever harmless text follows it in RAM.
THEOREM ConfSafe == Spec => []ShippedBoots
<1>1. IInv => ShippedBoots
  BY DEF IInv, ConfInv, Took, ShippedBoots
<1> QED
  BY <1>1, Invariance, PTL

\* A table that lint and verifier accept is the one its rows describe, after
\* any number of edits and for any states and events.
THEOREM TablesSafe == Spec => []VerifiedTableAgrees
<1>1. IInv => VerifiedTableAgrees
  BY TablesAgree DEF IInv
<1> QED
  BY <1>1, Invariance, PTL

\* A packaged image serves every file of the site as it is, and nothing that
\* was skipped, whatever the number of files, the bodies and the sizes of
\* the slab: build_slab, http_appliance_init and http_match_uri agree on
\* where path, header and body are as long as MAX_ROUTES is the same.
THEOREM ApplianceSafe == Spec => []PackagedServes
<1>1. IInv => PackagedServes
  BY AppServes DEF IInv
<1> QED
  BY <1>1, Invariance, PTL
=============================================================================
