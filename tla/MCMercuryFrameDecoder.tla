---------------------- MODULE MCMercuryFrameDecoder ----------------------
(* Small instances of the frame decoder for TLC. *)
EXTENDS MercuryFrameDecoder, TLC

\* Buffers are interchangeable; frame numbers are not (they are ordered).
BufferSymmetry == Permutations(Buffers)
=============================================================================
