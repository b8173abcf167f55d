----------------------------- MODULE FsaTables -----------------------------
(***************************************************************************)
(* The transition tables of the DHCP client and of the HTTP output machine *)
(* are written twice, as rows of a .tsv specification and as cells in      *)
(* .rodata.  scripts/verify_dhcp_fsa_table.py and verify_fsa_table.py      *)
(* compare the two in the linked ELF, scripts/lint_dhcp_fsa_vectors.py     *)
(* checks the DHCP rows by themselves.  Authors edit rows and cells a      *)
(* field at a time.                                                        *)
(*                                                                         *)
(* A handler is its symbol; "gone" is a name of the right shape that the   *)
(* ELF does not define, "odd" one without the h_ prefix.                   *)
(***************************************************************************)
EXTENDS Integers, Sequences, SequencesExt

CONSTANTS
    Tools,          \* which machine: a subset of {"dhcp", "http"}
    S, E,           \* its states and its events
    MaxRowEdits     \* bound: edits of the rows and the cells

ASSUME FsaAssumption == IsFiniteSet(S) /\ IsFiniteSet(E)

VARIABLES
    tool,
    rows,           \* the significant lines of the .tsv
    cells,          \* the compiled table
    edits,
    lint,           \* what the tools said of these rows and cells:
    verify          \* "none", "ok" or "bad"

tabVars == <<tool, rows, cells, edits, lint, verify>>

NONE == "NONE"
PANIC_HANDLER == "h_panic_d"
ElfHandlers == {"h_a", "h_b", PANIC_HANDLER}     \* symbols of the ELF
_EXPECTED_CELLS == S \X E

Key(r) == <<r.state, r.event>>

\* lib/dhcp_fsa.S: an empty cell holds NEXT_NONE and no handler.  One of
\* lib/http_fsa.S holds next state 0; NONE stands for it too, since nothing
\* looks at the next state of a cell whose row has none.
CellOf(r) == [next |-> r.next, handler |-> r.handler]

\* Rows and cells that agree: every machine starts from such a pair.
TabInit ==
    /\ tool \in Tools
    /\ LET order == SetToSeq(_EXPECTED_CELLS)
           some  == CHOOSE s \in S : TRUE
       IN  rows = [i \in 1 .. Len(order) |->
                     [state |-> order[i][1], event |-> order[i][2],
                      next |-> IF i = 1 THEN some ELSE NONE,
                      handler |-> CASE i = 1 -> "h_a"
                                    [] i = 2 -> PANIC_HANDLER
                                    [] OTHER -> NONE]]
    /\ cells = [c \in _EXPECTED_CELLS |->
                  CellOf(rows[CHOOSE i \in DOMAIN rows : Key(rows[i]) = c])]
    /\ edits = 0
    /\ lint = "none"
    /\ verify = "none"

Edited ==
    /\ edits < MaxRowEdits
    /\ edits' = edits + 1
    /\ verify' = "none"
    /\ UNCHANGED tool

EditRow ==
    /\ Edited
    /\ \E i \in DOMAIN rows :
          \/ \E s \in S \cup {"unknown"} : rows' = [rows EXCEPT ![i].state = s]
          \/ \E e \in E \cup {"unknown"} : rows' = [rows EXCEPT ![i].event = e]
          \/ \E s \in S \cup {NONE, "unknown"} :
                rows' = [rows EXCEPT ![i].next = s]
          \/ \E h \in ElfHandlers \cup {NONE, "odd", "gone"} :
                rows' = [rows EXCEPT ![i].handler = h]
          \/ rows' = Append(rows, rows[i])
          \/ rows' = RemoveAt(rows, i)
    /\ lint' = "none"
    /\ UNCHANGED cells

EditCell ==
    /\ Edited
    /\ \E c \in _EXPECTED_CELLS :
          \/ \E s \in S \cup {NONE} : cells' = [cells EXCEPT ![c].next = s]
          \/ \E h \in ElfHandlers \cup {NONE} :
                cells' = [cells EXCEPT ![c].handler = h]
    /\ UNCHANGED <<rows, lint>>

-----------------------------------------------------------------------------
(* lint_dhcp_fsa_vectors.py *)

_check_state_event(r) == r.state \in S /\ r.event \in E

_check_shape(r) == r.next \in S \cup {NONE} /\ r.handler # "odd"

_check_consistency(r) ==
    /\ r.next = NONE => r.handler \in {NONE, PANIC_HANDLER}
    /\ r.next # NONE => r.handler \notin {NONE, PANIC_HANDLER}

\* The pairs that are seen before row i.
Seen(i) == {Key(rows[j]) : j \in 1 .. i - 1}

_check_completeness == _EXPECTED_CELLS \subseteq Seen(Len(rows) + 1)

_lint ==
    /\ \A i \in DOMAIN rows : /\ _check_state_event(rows[i])
                              /\ _check_shape(rows[i])
                              /\ _check_consistency(rows[i])
                              /\ Key(rows[i]) \notin Seen(i)
    /\ _check_completeness

Lint ==
    /\ tool = "dhcp"
    /\ lint = "none"
    /\ lint' = IF _lint THEN "ok" ELSE "bad"
    /\ UNCHANGED <<tool, rows, cells, edits, verify>>

-----------------------------------------------------------------------------
(* verify_dhcp_fsa_table.py and verify_fsa_table.py *)

\* Mutant: NONE is taken for "don't care", as the other verifier does.
_check_next_any(r) == r.next = NONE \/ cells[Key(r)].next = r.next
_check_next(r) == cells[Key(r)].next = r.next

\* A handler the ELF does not have is reported.
_check_handler(r) ==
    /\ r.handler \in ElfHandlers \cup {NONE}
    /\ cells[Key(r)].handler = r.handler

_validate_row(r) ==
    /\ r.state \in S /\ r.event \in E
    /\ _check_next(r) /\ _check_handler(r)

_validate ==
    /\ Len(rows) = Cardinality(_EXPECTED_CELLS)
    /\ \A i \in DOMAIN rows : _validate_row(rows[i])

\* main of verify_fsa_table.py; an unknown NextState ends it with a KeyError.
http_main ==
    /\ Len(rows) = Cardinality(_EXPECTED_CELLS)
    /\ \A i \in DOMAIN rows :
          /\ rows[i].state \in S /\ rows[i].event \in E
          /\ _check_handler(rows[i])
          /\ rows[i].next # NONE => cells[Key(rows[i])].next = rows[i].next

Verify ==
    /\ verify = "none"
    /\ verify' = IF IF tool = "dhcp" THEN _validate ELSE http_main
                 THEN "ok" ELSE "bad"
    /\ UNCHANGED <<tool, rows, cells, edits, lint>>

TabNext == EditRow \/ EditCell \/ Lint \/ Verify

\* What the two tools say together is that the machine in the ELF is the one
\* specified: each cell has the one row that describes it.  The HTTP
\* verifier has no lint before it, so it takes rows that are free of
\* duplicates for the same conclusion, and says nothing of NextState where
\* the row says NONE.
VerifiedTableAgrees ==
    LET RowsOf(c) == {i \in DOMAIN rows : Key(rows[i]) = c}
    IN  /\ tool = "dhcp" /\ lint = "ok" /\ verify = "ok" =>
              \A c \in _EXPECTED_CELLS :
                 \E i \in DOMAIN rows : RowsOf(c) = {i}
                                        /\ cells[c] = CellOf(rows[i])
        /\ tool = "http" /\ verify = "ok"
              /\ (\A i \in DOMAIN rows : Key(rows[i]) \notin Seen(i)) =>
              \A c \in _EXPECTED_CELLS :
                 \E i \in DOMAIN rows :
                    /\ RowsOf(c) = {i}
                    /\ cells[c].handler = rows[i].handler
                    /\ rows[i].next \in {NONE, cells[c].next}
=============================================================================
