----------------------------- MODULE ByteStream -----------------------------
(***************************************************************************)
(* What an ordered Cloak stream promises the applications at its two ends, *)
(* without frames, connections, sequence numbers or buffers: the reader    *)
(* gets a prefix of what the writer's cloak_stream_write accepted, and     *)
(* end of stream only after all of it (the contract in                     *)
(* libcloak-mux/include/cloak/stream.h).  The n-th accepted byte is the    *)
(* number n.                                                               *)
(***************************************************************************)
EXTENDS Naturals, Sequences

VARIABLES accepted,   \* bytes the writer's end has taken
          finished,   \* the writer's end takes no more
          output,     \* what the reader has been given
          ended       \* the reader has been told the stream is over

vars == <<accepted, finished, output, ended>>

Init == accepted = 0 /\ finished = FALSE /\ output = << >> /\ ended = FALSE

Accept ==
    /\ ~finished
    /\ accepted' >= accepted /\ finished' \in BOOLEAN
    /\ UNCHANGED <<output, ended>>

Give ==
    /\ ~ended
    /\ \E n \in (Len(output) + 1)..accepted : output' = [i \in 1..n |-> i]
    /\ UNCHANGED <<accepted, finished, ended>>

End ==
    /\ finished /\ Len(output) = accepted
    /\ ended' = TRUE
    /\ UNCHANGED <<accepted, finished, output>>

Next == Accept \/ Give \/ End

Spec == Init /\ [][Next]_vars
=============================================================================
