------------------------------- MODULE Flash --------------------------------
(***************************************************************************)
(* What flashing a kernel over the serial line promises.                   *)
(*                                                                         *)
(* Cells is the set of memory cells the payloads occupy, right the subset  *)
(* that holds the byte it should.  While nothing is promised any cell may  *)
(* change; the verdict "booted" is given only when every cell is right,    *)
(* and from then on, until the next attempt, no cell changes.              *)
(***************************************************************************)
CONSTANT Cells

VARIABLES verdict, right

Init == verdict = "none" /\ right \in SUBSET Cells

Begin == verdict' = "none" /\ UNCHANGED right

Load ==
  /\ verdict # "booted"
  /\ right' \in SUBSET Cells
  /\ UNCHANGED verdict

Fail ==
  /\ verdict = "none"
  /\ verdict' = "failed"
  /\ UNCHANGED right

Succeed ==
  /\ verdict = "none"
  /\ right = Cells
  /\ verdict' = "booted"
  /\ UNCHANGED right

Next == Begin \/ Load \/ Fail \/ Succeed

Spec == Init /\ [][Next]_<<verdict, right>>
=============================================================================
