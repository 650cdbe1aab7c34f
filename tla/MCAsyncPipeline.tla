-------------------------- MODULE MCAsyncPipeline ----------------------------
(* One atransaction, two of its calls in flight at most, and other writers.   *)
EXTENDS AsyncPipeline
=============================================================================
