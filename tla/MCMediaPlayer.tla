--------------------------- MODULE MCMediaPlayer ---------------------------
(***************************************************************************)
(* MediaPlayer for TLC.  With rings of three buffers, four video packets   *)
(* take the demuxer once round the ring and back into the first buffer,    *)
(* which is where an early decoder shows; two audio packets fill the other *)
(* ring.  For liveness, rings of two buffers hold one packet each, and two *)
(* packets of each stream make everyone wait for everyone.                 *)
(***************************************************************************)
EXTENDS MediaPlayer

MCMaxPackets == [s \in Stream |-> IF s = Video THEN 4 ELSE 2]
MCFewPackets == [s \in Stream |-> 2]
=============================================================================
