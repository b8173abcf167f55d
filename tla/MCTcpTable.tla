----------------------------- MODULE MCTcpTable -----------------------------
(* TcpTable on a small table; the constants are given in the .cfg files. *)
EXTENDS TcpTable, TLC

\* Peers are only compared with each other.
PeerSymmetry == Permutations(Peers)
=============================================================================
