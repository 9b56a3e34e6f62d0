---------------------------- MODULE MCRtmpPusher ----------------------------
(***************************************************************************)
(* Instances of RtmpPusher for TLC: two pushes, so that the epilogue of    *)
(* the first meets the second, and as many packets as it takes for one to  *)
(* be in the queue, one with the worker and one with an encoder.           *)
(***************************************************************************)
EXTENDS RtmpPusher

MCWorker == 1 .. MaxWorkers
=============================================================================
