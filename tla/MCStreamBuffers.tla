-------------------------- MODULE MCStreamBuffers --------------------------
(* The buffers for TLC: six words and three packets deep, packets of up to *)
(* eight words, so that one is longer than the buffer.                     *)
EXTENDS StreamBuffers
=============================================================================
