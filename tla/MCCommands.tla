----------------------------- MODULE MCCommands -----------------------------
(* Every method that has a signature.                                      *)
EXTENDS Commands

MCMethods == DOMAIN Signatures
=============================================================================
