---------------------------- MODULE MCFFmpegTask ----------------------------
(***************************************************************************)
(* Instances of FFmpegTask for TLC.  With three tasks, one can run, one be *)
(* queued and one be on its way through execute().                         *)
(***************************************************************************)
EXTENDS FFmpegTask
=============================================================================
