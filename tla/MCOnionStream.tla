--------------------------- MODULE MCOnionStream ---------------------------
(* Small instances of OnionStream.  Iss is just below the modulus, so that   *)
(* every run crosses the wrap.                                              *)
EXTENDS OnionStream
=============================================================================
