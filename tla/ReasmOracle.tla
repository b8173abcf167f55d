---------------------------- MODULE ReasmOracle ----------------------------
(***************************************************************************)
(* scripts/reasm_oracle.py: the reference the reassembly test vectors are  *)
(* computed with.  It predicts what ip_reasm_input does with one fragment  *)
(* from what the fragment's slot holds.  A bitmap is the set of its bits,  *)
(* an offset the multiple of Unit bytes the IP header carries.             *)
(***************************************************************************)
EXTENDS Integers

CONSTANTS
    Unit,           \* bytes a bitmap bit stands for (8)
    BufSize,        \* REASM_BUF_SIZE
    FrameBytes      \* ETH_FRAME_MAX - ETH_HDR_LEN - IP_HDR_MIN

EMPTY_BITMAP == {}

make_bitmap(start, end) == start \div Unit .. (end - 1) \div Unit

bitmap_all_set(bm, total) ==
    0 .. (total + Unit - 1) \div Unit - 1 \subseteq bm

\* What the oracle returns: the reason and the slot afterwards.
Predicts(reason, active, last, total, bm) ==
    [reason |-> reason, active |-> active, last |-> last, total |-> total,
     bits |-> bm]

\* Steps 6 to 9: the fragment is accepted by a slot that held bm.
Accepts(bm, pre_last, pre_total, off, len, mf) ==
    LET post_bm    == bm \cup make_bitmap(off, off + len)
        post_last  == pre_last \/ ~mf
        post_total == IF mf THEN pre_total ELSE off + len
    IN  IF ~(post_last /\ bitmap_all_set(post_bm, post_total))
        THEN Predicts("ok_incomplete", TRUE, post_last, post_total, post_bm)
        ELSE Predicts(IF post_total > FrameBytes
                      THEN "drop_oversized" ELSE "ok_complete",
                      FALSE, FALSE, 0, EMPTY_BITMAP)

\* pre is the slot that holds the fragment's key, or one that is not active.
oracle(pre, off, len, mf, pool_free) ==
    LET bm   == IF pre.active THEN pre.bits ELSE EMPTY_BITMAP
        Drop(reason) ==
            Predicts(reason, pre.active, pre.last, pre.total, pre.bits)
    IN  CASE len < 1 \/ off + len > BufSize      -> Drop("drop_bounds")
          [] len >= 1 /\ off + len <= BufSize /\ mf /\ len % Unit # 0
                                                 -> Drop("drop_nonaligned")
          [] OTHER ->
             CASE ~pre.active /\ ~pool_free ->
                      Predicts("drop_no_slot", TRUE, FALSE, 0, EMPTY_BITMAP)
               [] pre.active /\ bm \cap make_bitmap(off, off + len) # {} ->
                      Drop("drop_overlap")
               [] OTHER -> Accepts(bm, pre.active /\ pre.last,
                                   IF pre.active THEN pre.total ELSE 0,
                                   off, len, mf)
=============================================================================
