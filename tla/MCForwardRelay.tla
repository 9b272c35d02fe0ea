--------------------------- MODULE MCForwardRelay ---------------------------
(* Topologies: two relays to the recipient and a ring of the sender and two   *)
(* others, so that routes loop and a frame that went round arrives at the     *)
(* hop limit; and a chain of two relays, so that every attempt takes the      *)
(* same way.  Clocks: two relays and the recipient are behind, so that an     *)
(* envelope outlives a dedup window there, one so far that it refuses a new    *)
(* envelope; or one relay is behind and the recipient ahead.               *)
EXTENDS ForwardRelay

CONSTANTS s, r1, r2, r3, r4, d

MCBatch == {[frames |-> 1, bytes |-> 1]}
BothWays(pairs) == pairs \cup {<<p[2], p[1]>> : p \in pairs}
MCLoop == BothWays({<<s, r1>>, <<r1, r2>>, <<r2, s>>,
                    <<s, r3>>, <<r3, r4>>, <<r3, d>>, <<r4, d>>})
MCChain == BothWays({<<s, r1>>, <<r1, r2>>, <<r2, d>>})
MCLoopClocks == [p \in Peer |-> CASE p = r4 -> 2 [] p \in {r1, d} -> 1 [] OTHER -> 0]
MCChainClocks == [p \in Peer |-> CASE p = r1 -> 1 [] p = d -> -1 [] OTHER -> 0]
=============================================================================
