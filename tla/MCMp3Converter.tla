-------------------------- MODULE MCMp3Converter --------------------------
(***************************************************************************)
(* Instances of Mp3Converter for TLC.  With queues of one buffer, five     *)
(* samples are enough to fill both queues, to have the decoder, the        *)
(* encoder and the writer each hold one more, and to leave some to come.   *)
(***************************************************************************)
EXTENDS Mp3Converter
=============================================================================
