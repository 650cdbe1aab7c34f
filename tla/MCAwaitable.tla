---------------------------- MODULE MCAwaitable ------------------------------
(* The awaitable on small instances: the code's five busy polls, one or two   *)
(* awaiting tasks and one or two observers.                                   *)
EXTENDS Awaitable
=============================================================================
