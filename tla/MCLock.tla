-------------------------------- MODULE MCLock -------------------------------
(* Two threads and two Lock objects for one key, of which one has a timeout,  *)
(* on a Sentinel connection.                                                  *)
EXTENDS Lock
=============================================================================
