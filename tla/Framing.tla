------------------------------ MODULE Framing ------------------------------
(***************************************************************************)
(* Length-prefixed framing on linkd's sockets (linkd-lib, api/io.rs).  The *)
(* writer serialises a message behind a length prefix and writes it in as  *)
(* many pieces as the socket takes.  The reader's future is dropped and    *)
(* created anew at every turn of the select loop that holds it, so what it *)
(* has read so far lives in the MessageReader.  A byte is modelled by the  *)
(* message it belongs to and its place in the frame; the value of a prefix *)
(* byte does not matter, the length of the message it prefixes does.       *)
(***************************************************************************)
EXTENDS Naturals, Sequences

CONSTANTS
    Prefix,     \* bytes of a length prefix (4 in the code)
    MaxLen,     \* bound: bytes of a message
    MaxSent     \* bound: messages written

ASSUME FramingAssumption == Prefix \in Nat \ {0} /\ MaxLen \in Nat /\ MaxSent \in Nat

VARIABLES
    sent,       \* lengths of the messages written so far
    unsent,     \* bytes of the last message that are not on the socket yet
    socket,     \* bytes on the socket
    hung,       \* the writer has closed the socket
    state,      \* ReadState: [at, got], the bytes read of the present part
    reading,    \* a future of read_message is being polled
    result,     \* what the last call that returned gave
    delivered   \* the messages returned so far

framingVars == <<sent, unsent, socket, hung, state, reading, result, delivered>>

Frame(m, len) == [k \in 1 .. Prefix + len |-> [msg |-> m, at |-> k]]
NewReadState == [at |-> "ReadLen", got |-> <<>>]

Init ==
    /\ sent = <<>> /\ unsent = <<>> /\ socket = <<>> /\ hung = FALSE
    /\ state = NewReadState
    /\ reading = FALSE
    /\ result = "none"
    /\ delivered = <<>>

\* MessageWriter::serialize: prefix, headers and payload in one buffer.
Serialize(len) ==
    /\ ~hung /\ unsent = <<>> /\ Len(sent) < MaxSent
    /\ sent' = Append(sent, len)
    /\ unsent' = Frame(Len(sent) + 1, len)
    /\ UNCHANGED <<socket, hung, state, reading, result, delivered>>

\* write_message: a write takes any number of the bytes that are left.
WriteMessage(n) ==
    /\ ~hung /\ n \in 1 .. Len(unsent)
    /\ socket' = socket \o SubSeq(unsent, 1, n)
    /\ unsent' = SubSeq(unsent, n + 1, Len(unsent))
    /\ UNCHANGED <<sent, hung, state, reading, result, delivered>>

\* The writer's end of the socket is closed, perhaps within a message.
HangUp ==
    /\ ~hung
    /\ hung' = TRUE
    /\ UNCHANGED <<sent, unsent, socket, state, reading, result, delivered>>

\* A reader that starts a call with a fresh state.
CallAfresh ==
    /\ ~reading /\ result # "closed"
    /\ reading' = TRUE
    /\ state' = NewReadState
    /\ UNCHANGED <<sent, unsent, socket, hung, result, delivered>>

\* recv_request or recv_response: the new future resumes from the saved state.
Call ==
    /\ ~reading /\ result # "closed"
    /\ reading' = TRUE
    /\ UNCHANGED <<sent, unsent, socket, hung, state, result, delivered>>

\* Another arm of the select was ready and the future is dropped at its await.
Cancel ==
    /\ reading
    /\ reading' = FALSE
    /\ UNCHANGED <<sent, unsent, socket, hung, state, result, delivered>>

\* How many bytes the present part of the frame has: the prefix, or as many as
\* the prefix that was read last says.
Wanted(st) == IF st.at = "ReadLen" THEN Prefix ELSE st.len
Missing(st) == Wanted(st) - Len(st.got)

\* A read returns any number of the bytes wanted that are on the socket.
ReadSome(n) ==
    /\ reading
    /\ n \in 1 .. Missing(state) /\ n <= Len(socket)
    /\ state' = [state EXCEPT !.got = @ \o SubSeq(socket, 1, n)]
    /\ socket' = SubSeq(socket, n + 1, Len(socket))
    /\ UNCHANGED <<sent, unsent, hung, reading, result, delivered>>

\* The prefix is complete and says how long the value is.
LenRead ==
    /\ reading /\ state.at = "ReadLen" /\ Missing(state) = 0
    /\ state' = [at |-> "ReadVal", got |-> <<>>, len |-> sent[state.got[1].msg]]
    /\ UNCHANGED <<sent, unsent, socket, hung, reading, result, delivered>>

\* The value is complete: it is parsed, and an empty one fails to decode.
ValRead ==
    /\ reading /\ state.at = "ReadVal" /\ Missing(state) = 0
    /\ state' = NewReadState
    /\ reading' = FALSE
    /\ result' = IF state.got = <<>> THEN "DecodeFailed" ELSE "message"
    /\ delivered' = Append(delivered, state.got)
    /\ UNCHANGED <<sent, unsent, socket, hung>>

\* A read of no bytes: between two values it is the end of the connection, even
\* when part of a prefix was read; within a value it is an error, which
\* process_recv_request turns into DecodeFailed and the state stays as it is.
EndOfFile ==
    /\ reading /\ hung /\ socket = <<>> /\ Missing(state) > 0
    /\ reading' = FALSE
    /\ result' = IF state.at = "ReadLen" THEN "closed" ELSE "DecodeFailed"
    /\ UNCHANGED <<sent, unsent, socket, hung, state, delivered>>

Next ==
    \/ \E len \in 0 .. MaxLen : Serialize(len)
    \/ \E n \in 1 .. Prefix + MaxLen : WriteMessage(n) \/ ReadSome(n)
    \/ HangUp \/ Call \/ Cancel \/ LenRead \/ ValRead \/ EndOfFile

Spec == Init /\ [][Next]_framingVars

(***************************************************************************)
(* Properties.                                                             *)
(***************************************************************************)

\* The value of a message, behind its prefix, and the messages whose last byte is
\* on the socket.
Payload(m, len) == [k \in 1 .. len |-> [msg |-> m, at |-> Prefix + k]]

Whole == IF unsent = <<>> THEN Len(sent) ELSE Len(sent) - 1

Fifo == INSTANCE Fifo WITH
    Messages <- {Payload(m, len) : m \in 1 .. MaxSent, len \in 0 .. MaxLen},
    sent <- [m \in 1 .. Whole |-> Payload(m, sent[m])],
    received <- delivered,
    ended <- (result = "closed")

\* "Dropping the future half way through decoding will save progress": however
\* writes and reads are split and wherever calls are dropped, the framing is a
\* channel of messages.  The k-th value returned is the k-th value written, whole,
\* and the end is reported only once every message that was written whole has been
\* returned (io.rs, MessageReader::read_message).
IsFifo == Fifo!Spec
=============================================================================
