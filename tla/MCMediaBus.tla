----------------------------- MODULE MCMediaBus -----------------------------
(* Instances of MediaBus for TLC: where the tasks live.                     *)
EXTENDS MediaBus, TLC

CONSTANTS w1, w2, pub, near, far

\* One viewer on the worker of the publisher, one on the other worker.
MCHome == (pub :> w1) @@ (near :> w1) @@ (far :> w2)
=============================================================================
