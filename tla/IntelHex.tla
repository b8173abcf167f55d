------------------------------ MODULE IntelHex ------------------------------
(***************************************************************************)
(* The Intel HEX records that hw_send.py sends to the serial chainloader.  *)
(*                                                                         *)
(* A record is kept as its fields; the text of it is only needed for its   *)
(* length and its checksum byte, which the two ends compare.  Record types *)
(* are the numbers of the format: 0 data, 1 end of file, 4 upper 16 bits   *)
(* of the address.                                                         *)
(***************************************************************************)
EXTENDS Integers, Sequences, SequencesExt

Data == 0
Eof  == 1
Ext  == 4

Byte == 0 .. 255
Seg  == 65536            \* what a 16-bit address field can reach

Bytes16(n) == << (n \div 256) % 256, n % 256 >>

SumOf(s) ==
  LET upto[n \in 0 .. Len(s)] == IF n = 0 THEN 0 ELSE upto[n - 1] + s[n]
  IN  upto[Len(s)]

(***************************************************************************)
(* make_hex_record: the address field keeps 16 bits, the checksum makes    *)
(* the sum of all bytes of the record zero, two characters stand for a     *)
(* byte and a colon precedes them.                                         *)
(***************************************************************************)
make_hex_record(type, address, data) ==
  LET raw == << Len(data) >> \o Bytes16(address) \o << type >> \o data
  IN  [ type |-> type, addr |-> address % Seg, data |-> data,
        cksum |-> (256 - (SumOf(raw) % 256)) % 256, len |-> 3 + 2 * Len(raw) ]

ExtRecord(upper) == make_hex_record(Ext, 0, Bytes16(upper))

\* The loop of kernel_to_hex_records: pos bytes are in records, the next one
\* belongs at offset of segment upper.
LoopStart(base) ==
  [ pos |-> 0, upper |-> (base \div Seg) % Seg, offset |-> base % Seg,
    records |-> << ExtRecord((base \div Seg) % Seg) >> ]

\* One turn: when the running offset has left the segment another address
\* record comes first and the offset starts again at 0.
LoopTurn(s, kernel, chunk_size) ==
  LET end   == IF s.pos + chunk_size < Len(kernel) THEN s.pos + chunk_size ELSE Len(kernel)
      over  == s.offset >= Seg
      upper == IF over THEN s.upper + 1 ELSE s.upper
      off   == IF over THEN 0 ELSE s.offset
  IN  [ pos     |-> end,
        upper   |-> upper,
        offset  |-> off + (end - s.pos),
        records |-> (IF over THEN Append(s.records, ExtRecord(upper)) ELSE s.records)
                    \o << make_hex_record(Data, off, SubSeq(kernel, s.pos + 1, end)) >> ]

\* As many turns as it takes: a turn moves on by a byte or more.
LoopEnd(kernel, base, chunk_size) ==
  LET turn[n \in 0 .. Len(kernel)] ==
        IF n = 0 THEN LoopStart(base)
        ELSE IF turn[n - 1].pos = Len(kernel) THEN turn[n - 1]
        ELSE LoopTurn(turn[n - 1], kernel, chunk_size)
  IN  turn[Len(kernel)]

(***************************************************************************)
(* kernel_to_hex_records: an address record, the chunks of the kernel and  *)
(* the end, unless another payload follows.                                *)
(***************************************************************************)
kernel_to_hex_records(kernel, base, chunk_size, include_eof) ==
  LoopEnd(kernel, base, chunk_size).records
    \o IF include_eof THEN << make_hex_record(Eof, 0, << >>) >> ELSE << >>
=============================================================================
