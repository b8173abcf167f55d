---------------------------- MODULE NetworkConf ----------------------------
(***************************************************************************)
(* network.conf is read twice: scripts/lint_network_conf.py accepts it     *)
(* when the SD card is made (mk_sd.sh ships it only then), and             *)
(* config_parse of lib/config_parser.S reads it on the Pi out of 4096      *)
(* bytes of RAM, with whatever the RAM holds behind the file.  Both read   *)
(* it in one pass, so the model reads line after line with both of them.   *)
(*                                                                         *)
(* A line is what is left of it once comments and blanks are cut.  A value *)
(* is good ("a", "b"; "yes" and "no" for dhcp), bad, or lenient: one that  *)
(* Python's int() accepts and the assembly does not ("+f" in a mac).       *)
(*                                                                         *)
(* Some files the two do not read alike; each has a quirk:                 *)
(*   bom      a byte order mark, which only the linter skips               *)
(*   lenient  a lenient value                                              *)
(*   blanks   white space that only Python's strip() knows (NBSP, FF)      *)
(*   high     a byte above 0x7E on or before the magic line                *)
(*   cr       a lone CR: a newline to read_text, a blank to the assembly   *)
(*   cut      a NUL in the file, or more than 4096 bytes                   *)
(*   tail     text in RAM that changes the last line, or adds one          *)
(***************************************************************************)
EXTENDS Integers

REQUIRED_KEYS == {"ip", "netmask", "gateway", "hostname"}
OPTIONAL_KEYS == {"ntp_server", "mac", "dhcp"}
ALL_KEYS == REQUIRED_KEYS \cup OPTIONAL_KEYS
DHCP_RELAXED_REQUIRED == {"hostname"}

CONSTANT Varied     \* the keys of which two good values are told apart

Good(key) == IF key = "dhcp" THEN {"yes", "no"}
             ELSE IF key \in Varied THEN {"a", "b"} ELSE {"a"}

Lines ==
    [kind : {"blank", "magic", "noeq", "unknown"}, key : {"-"}, value : {"-"}]
    \cup UNION {[kind : {"kv"}, key : {k}, value : Good(k) \cup {"bad", "lenient"}]
                : k \in ALL_KEYS}

Bare(kind) == [kind |-> kind, key |-> "-", value |-> "-"]
NoLine == Bare("none")

Absent == "absent"
NoConf == [k \in ALL_KEYS |-> Absent]

VARIABLES
    linter,     \* lint's progress: at, error, config
    parser,     \* config_parse's: at, rc, seen, config
    held,       \* what the parser's line begins with, before a lone CR
    quirks,     \* history: what the file has that the two read differently
    ended       \* the file has been read; the parser goes on with the RAM

confVars == <<linter, parser, held, quirks, ended>>

\* at: the magic is still awaited, the body is read, or reading is over.
ConfInit ==
    /\ linter = [at |-> "magic", error |-> FALSE, config |-> NoConf]
    /\ parser = [at |-> "magic", rc |-> "ok", seen |-> {}, config |-> NoConf]
    /\ held = NoLine
    /\ quirks \in {{}, {"bom"}}
    /\ ended = FALSE

-----------------------------------------------------------------------------
(* lint_network_conf.py *)

\* One error is enough: what is read after it no longer matters.
LintError(m) == [m EXCEPT !.error = TRUE, !.at = "end", !.config = NoConf]

_check_magic(m, l) ==
    CASE l.kind = "blank" -> m
      [] l.kind = "magic" -> [m EXCEPT !.at = "body"]
      [] OTHER -> LintError(m)

_validate_value(l) == l.value \in Good(l.key) \cup {"lenient"}

\* Keys that must be there, as far as the file says by now.
Required(config) ==
    IF config["dhcp"] = "yes" THEN DHCP_RELAXED_REQUIRED ELSE REQUIRED_KEYS
_required_collected(config) ==
    \A k \in Required(config) : config[k] # Absent

\* A line of the body.  A second magic line is a comment.
\* Mutant: a repeated key overwrites.
_parse_line_over(m, l) ==
    CASE l.kind \in {"blank", "magic"} -> m
      [] l.kind = "noeq" -> LintError(m)
      [] l.kind = "unknown" -> IF _required_collected(m.config)
                               THEN [m EXCEPT !.at = "end"] ELSE LintError(m)
      [] l.kind = "kv" -> IF _validate_value(l)
                          THEN [m EXCEPT !.config[l.key] = l.value]
                          ELSE LintError(m)
_parse_line(m, l) ==
    CASE l.kind \in {"blank", "magic"} -> m
      [] l.kind = "noeq" -> LintError(m)
      [] l.kind = "unknown" -> IF _required_collected(m.config)
                               THEN [m EXCEPT !.at = "end"] ELSE LintError(m)
      [] l.kind = "kv" -> IF m.config[l.key] = Absent /\ _validate_value(l)
                          THEN [m EXCEPT !.config[l.key] = l.value]
                          ELSE LintError(m)

LintLine(l) ==
    CASE linter.at = "magic" -> _check_magic(linter, l)
      [] linter.at = "body"  -> _parse_line(linter, l)
      [] linter.at = "end"   -> linter

_check_required(m) ==
    IF ~m.error /\ m.at # "magic" /\ _required_collected(m.config)
    THEN [m EXCEPT !.at = "end"] ELSE LintError(m)

-----------------------------------------------------------------------------
(* config_parse *)

\* What was stored before an error is not used.
PiFails(p, rc) ==
    [at |-> "end", rc |-> rc, seen |-> {}, config |-> NoConf]

\* net_dhcp is set by the dhcp line alone.
RequiredSeen(p) ==
    (IF p.config["dhcp"] = "yes" THEN {"hostname"} ELSE REQUIRED_KEYS)
        \subseteq p.seen

\* A BOM is read as the end of the line, which is then not the magic.
asm_check_magic(p, l) ==
    CASE "bom" \in quirks -> PiFails(p, "E_MAGIC")
      [] "bom" \notin quirks /\ l.kind = "blank" -> p
      [] "bom" \notin quirks /\ l.kind = "magic" -> [p EXCEPT !.at = "body"]
      [] OTHER -> PiFails(p, "E_MAGIC")

\* Any error but a soft end of file is final.
asm_parse_line(p, l) ==
    CASE l.kind \in {"blank", "magic"} -> p
      [] l.kind = "noeq" -> PiFails(p, "E_LINE")
      [] l.kind = "unknown" -> IF RequiredSeen(p) THEN [p EXCEPT !.at = "end"]
                               ELSE PiFails(p, "E_KEY")
      [] l.kind = "kv" /\ l.key \in p.seen -> PiFails(p, "E_DUP")
      [] l.kind = "kv" /\ l.key \notin p.seen ->
            IF l.value \in Good(l.key)
            THEN [p EXCEPT !.seen = @ \cup {l.key}, !.config[l.key] = l.value]
            ELSE PiFails(p, "E_VALUE")

PiLine(l) ==
    CASE parser.at = "magic" -> asm_check_magic(parser, l)
      [] parser.at = "body"  -> asm_parse_line(parser, l)
      [] parser.at = "end"   -> parser

\* .Lcp_finish
PiFinish(p) ==
    CASE p.at = "end"   -> p
      [] p.at = "magic" -> PiFails(p, "E_MAGIC")
      [] p.at = "body"  -> IF RequiredSeen(p) THEN [p EXCEPT !.at = "end"]
                           ELSE PiFails(p, "E_REQ")

-----------------------------------------------------------------------------
(* A line of the file, read by both.  A file has at most one quirk besides *)
(* bad values: that is enough to end what is claimed of it.                *)

\* A file with an error goes onto no card: there is nothing more to compare.
Reading == ~ended /\ ~linter.error
Booting == ended /\ ~linter.error /\ parser.at # "end"

ReadConfLine(l) ==
    /\ Reading /\ held = NoLine
    /\ linter' = LintLine(l)
    /\ parser' = PiLine(l)
    /\ quirks' = IF l.value = "lenient" /\ linter.at # "end"
                 THEN quirks \cup {"lenient"} ELSE quirks
    /\ UNCHANGED <<held, ended>>

Quirk(q) == Reading /\ held = NoLine /\ quirks = {} /\ linter.at # "end" /\ quirks' = {q}

\* To the assembly such white space is a part of the key, the value or the
\* line, so what the linter cuts is still there.
ReadBlanks(l) ==
    /\ Quirk("blanks")
    /\ linter' = LintLine(l)
    /\ \E p \in {Bare("noeq"), Bare("unknown")}
                \cup {k \in Lines : k.kind = "kv" /\ k.key = l.key /\ k.value = "bad"} :
          parser' = PiLine(p)
    /\ UNCHANGED <<held, ended>>

\* The scan for the magic stops at the byte: a blank line is then the end of
\* the file, and what follows the magic is left to be read as a line.
ReadHigh(l) ==
    /\ Quirk("high") /\ parser.at = "magic" /\ l.kind \in {"blank", "magic"}
    /\ linter' = LintLine(l)
    /\ IF l.kind = "blank"
       THEN parser' = PiFails(parser, "E_MAGIC")
       ELSE \E p \in {Bare("noeq"), Bare("unknown")} :
               parser' = asm_parse_line([parser EXCEPT !.at = "body"], p)
    /\ UNCHANGED <<held, ended>>

\* A line that ends in a lone CR: the linter has read it, the parser has not.
ReadCr(l) ==
    /\ Quirk("cr")
    /\ linter' = LintLine(l)
    /\ held' = l
    /\ UNCHANGED <<parser, ended>>

\* What the assembly makes of two lines with a CR between them: a comment
\* goes on, the blank before a line is cut, and a value runs into the next line.
Joined(f, l) ==
    CASE f.kind = "blank" -> {f, l}
      [] f.kind \in {"magic", "kv"} /\ l.kind = "blank" -> {f}
      [] f.kind = "magic" /\ l.kind # "blank" ->
            IF parser.at = "magic" THEN {Bare("noeq")} ELSE {f}
      [] f.kind = "kv" /\ l.kind # "blank" -> {[f EXCEPT !.value = "bad"]}
      [] f.kind \in {"noeq", "unknown"} -> {Bare("noeq"), Bare("unknown")}

ReadJoined(l) ==
    /\ Reading /\ held # NoLine
    /\ linter' = LintLine(l)
    /\ \E p \in Joined(held, l) : parser' = PiLine(p)
    /\ held' = NoLine
    /\ UNCHANGED <<quirks, ended>>

SameKey(l) == {p \in Lines : p.kind = l.kind /\ p.key = l.key}

\* The parser's text ends within the line, or before it.
ReadCut(l) ==
    /\ Quirk("cut")
    /\ linter' = LintLine(l)
    /\ \E p \in SameKey(l) \cup {Bare("blank"), Bare("noeq")} :
          parser' = PiFinish(PiLine(p))
    /\ UNCHANGED <<held, ended>>

\* What a RAM line must be for a parser that has all it needs to pass it.
Harmless(p) == p.kind \in {"blank", "magic", "unknown"}

\* The file's last line, which is blank when the file ends with a newline.
\* Up to the next newline what the RAM holds is joined to it, which changes
\* the value at most: the linter refuses a last line without a "=" anyway.
EndOfConf(l) ==
    /\ Reading /\ held = NoLine
    /\ ended' = TRUE
    /\ linter' = _check_required(LintLine(l))
    /\ \E p \in IF l.kind = "blank" THEN Lines ELSE SameKey(l) :
          /\ p = l \/ quirks = {}
          /\ parser' = PiLine(p)
          /\ quirks' = CASE parser.at = "end" -> quirks
                         [] p # l /\ ~(l.kind = "blank" /\ Harmless(p)) -> quirks \cup {"tail"}
                         [] p.value = "lenient" -> quirks \cup {"lenient"}
                         [] OTHER -> quirks
    /\ UNCHANGED held

RamLine(l) ==
    /\ Booting
    /\ Harmless(l) \/ quirks = {}
    /\ parser' = PiLine(l)
    /\ quirks' = IF Harmless(l) THEN quirks ELSE quirks \cup {"tail"}
    /\ UNCHANGED <<linter, held, ended>>

\* A NUL or 0xFF byte in RAM, or the 4096th byte.
RamStops ==
    /\ Booting
    /\ parser' = PiFinish(parser)
    /\ UNCHANGED <<linter, held, quirks, ended>>

ConfNext ==
    \/ RamStops
    \/ \E l \in Lines :
          \/ ReadConfLine(l) \/ ReadBlanks(l) \/ ReadHigh(l) \/ ReadCr(l)
          \/ ReadJoined(l) \/ ReadCut(l) \/ EndOfConf(l) \/ RamLine(l)

\* A file the linter lets onto the card is one the Pi boots with, and with
\* the configuration the linter printed, whatever harmless text the RAM holds
\* behind it: the only files for which that may fail have a quirk.
ShippedBoots ==
    ended /\ parser.at = "end" /\ ~linter.error /\ quirks = {} =>
        parser.rc = "ok" /\ parser.config = linter.config

\* The same of every file ("asm-parser <-> linter lockstep").  Does not hold:
\* see the README, Known disagreements.
Lockstep ==
    ended /\ parser.at = "end" /\ ~linter.error =>
        parser.rc = "ok" /\ parser.config = linter.config
=============================================================================
