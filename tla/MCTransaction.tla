--------------------------- MODULE MCTransaction -----------------------------
(* Two threads running transaction() against one key, with other writers.     *)
EXTENDS Transaction
=============================================================================
