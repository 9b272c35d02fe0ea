----------------------------- MODULE ByteStream -----------------------------
(***************************************************************************)
(* What one direction of an onion stream promises its two applications: the *)
(* reader gets the writer's bytes, each once and in order, and learns of a  *)
(* clean end only after the writer closed its half.  The end comes after    *)
(* the last byte, except on a stream that was reset at the reader's end:    *)
(* there a clean end may cut the bytes short.                               *)
(***************************************************************************)
EXTENDS Naturals, Sequences

CONSTANT Byte

VARIABLES
    input,      \* bytes written
    finished,   \* the writer closed its half
    output,     \* bytes read
    ended,      \* the reader saw a clean end of the stream
    dead,       \* the writer's end was reset or gave up
    broken      \* the reader's end was reset, or is gone

streamVars == <<input, finished, output, ended, dead, broken>>

StreamInit ==
    /\ input = <<>> /\ output = <<>>
    /\ finished = FALSE /\ ended = FALSE /\ dead = FALSE /\ broken = FALSE

WriteBytes ==
    /\ ~finished /\ ~dead
    /\ \E b \in Byte : input' = Append(input, b)
    /\ UNCHANGED <<finished, output, ended, dead, broken>>

CloseWrite ==
    /\ finished' = TRUE
    /\ UNCHANGED <<input, output, ended, dead, broken>>

\* A read takes the next bytes.
ReadBytes ==
    /\ ~ended
    /\ \E n \in Len(output)..Len(input) : output' = SubSeq(input, 1, n)
    /\ UNCHANGED <<input, finished, ended, dead, broken>>

\* The reader is told that the stream is complete.
End ==
    /\ finished
    /\ output = input \/ broken
    /\ ended' = TRUE
    /\ UNCHANGED <<input, finished, output, dead, broken>>

Die ==
    /\ dead' = TRUE
    /\ UNCHANGED <<input, finished, output, ended, broken>>
Break ==
    /\ broken' = TRUE
    /\ UNCHANGED <<input, finished, output, ended, dead>>

StreamNext == WriteBytes \/ CloseWrite \/ ReadBytes \/ End \/ Die \/ Break
StreamSpec == StreamInit /\ [][StreamNext]_streamVars
=============================================================================
