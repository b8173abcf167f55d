--------------------------- MODULE MCNetServices ---------------------------
(* NetServices on small periods; the constants are given in the .cfg files. *)
EXTENDS NetServices
=============================================================================
