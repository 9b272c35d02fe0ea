------------------------- MODULE MCChunkReassembly -------------------------
(* Two transfers of sender a, one in a long and a short chunk and one in      *)
(* three chunks, and one of sender b; x also has a chunk of a wrong size and  *)
(* one with foreign framing.                                               *)
EXTENDS ChunkReassembly, TLC

CONSTANTS x, y, z, a, b

Meta(s, n, total, id) == [sender |-> s, count |-> n, total |-> total, content_id |-> id]
MCChunkOf(k, meta, i, len) == [key |-> k, meta |-> meta, index |-> i, len |-> len]
MCChunk ==
    {MCChunkOf(x, Meta(a, 2, 4, x), 0, 3), MCChunkOf(x, Meta(a, 2, 4, x), 1, 1),
     MCChunkOf(x, Meta(a, 2, 4, x), 0, 1), MCChunkOf(x, Meta(b, 3, 4, x), 2, 1)}
    \cup {MCChunkOf(y, Meta(a, 3, 3, y), i, 1) : i \in 0..2}
    \cup {MCChunkOf(z, Meta(b, 2, 2, z), i, 1) : i \in 0..1}
=============================================================================
