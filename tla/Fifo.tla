-------------------------------- MODULE Fifo --------------------------------
(***************************************************************************)
(* What linkd and its clients take a socket for (linkd-lib, api/io.rs): a  *)
(* channel of messages, received one by one in the order sent, whose       *)
(* receiver learns of its end when there is nothing left to receive.       *)
(***************************************************************************)
EXTENDS Naturals, Sequences

CONSTANT Messages

VARIABLES
    sent,       \* the messages sent
    received,   \* the messages received
    ended       \* the receiver was told of the end

fifoVars == <<sent, received, ended>>

Init == sent = <<>> /\ received = <<>> /\ ended = FALSE

Send(m) ==
    /\ ~ended
    /\ sent' = Append(sent, m)
    /\ UNCHANGED <<received, ended>>

Receive ==
    /\ ~ended /\ Len(received) < Len(sent)
    /\ received' = Append(received, sent[Len(received) + 1])
    /\ UNCHANGED <<sent, ended>>

End ==
    /\ ~ended /\ Len(received) = Len(sent)
    /\ ended' = TRUE
    /\ UNCHANGED <<sent, received>>

Next == (\E m \in Messages : Send(m)) \/ Receive \/ End

Spec == Init /\ [][Next]_fifoVars
=============================================================================
