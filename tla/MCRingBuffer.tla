---------------------------- MODULE MCRingBuffer ----------------------------
(* An instance of RingBuffer for TLC: bytes in base 4, messages of one and   *)
(* three bytes (the long one has a header of a frame in it), a ring of eight *)
(* bytes, so that every frame straddles its end in some behaviour.           *)
EXTENDS RingBuffer

MCMessages == {<<2>>, <<3, 0, 2>>}
MCFiller   == {<<>>, <<0>>}
=============================================================================
