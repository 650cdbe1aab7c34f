------------------------- MODULE ReservedConnection --------------------------
(***************************************************************************)
(* The connection a pipeline reserves to WATCH (ReservedConnection in       *)
(* connection.rs), as both pipelines use it: the client's flag and, for the *)
(* one key the models have, what the server keeps for the connection.  A    *)
(* round trip ends "ok", "lost" (done, but the client gets an error) or     *)
(* "refused" (not done, the client gets an error).                          *)
(***************************************************************************)
Trips == {"ok", "lost", "refused"}

Connections == [watched : BOOLEAN, srv : {"none", "clean", "dirty"}]

NewConnection == [watched |-> FALSE, srv |-> "none"]

\* The server: a write to the key makes every watch on it dirty.
Dirtied(c) == [c EXCEPT !.srv = IF @ = "clean" THEN "dirty" ELSE @]

\* The server: WATCH.
Watched(s) == IF s = "dirty" THEN "dirty" ELSE "clean"

\* watch() with a key.
WatchSent(c, o) == [watched |-> c.watched \/ o = "ok",
                    srv |-> IF o = "refused" THEN c.srv ELSE Watched(c.srv)]

\* unwatch_if_needed.
Unwatched(c, o) == IF ~c.watched THEN c
                   ELSE [watched |-> o # "ok",
                         srv |-> IF o = "refused" THEN c.srv ELSE "none"]

\* What the server has watched when pipeline_exec_watched sends EXEC: it sends
\* WATCH first if keys are noted and none is set.
ExecWatch(keys, c) == IF keys /\ ~c.watched THEN Watched(c.srv) ELSE c.srv
=============================================================================
