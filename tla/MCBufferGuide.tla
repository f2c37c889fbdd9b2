---------------------------- MODULE MCBufferGuide ----------------------------
(* Four spans: span 0, which is never written, two in the middle and the last, so
   that every kind of placement happens within a few pushes. *)
EXTENDS BufferGuide
=============================================================================
