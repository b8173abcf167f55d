----------------------------- MODULE MCIpReasm -----------------------------
(* IpReasm on two slots; the constants are given in the .cfg files. *)
EXTENDS IpReasm
=============================================================================
