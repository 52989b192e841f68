--------------------------- MODULE GroundControl ---------------------------
(***************************************************************************)
(* Talking to a running protocol stack: the calls of `Peer` and `TinCans`  *)
(* (librad net/peer.rs, net/protocol/tincans.rs), which travel over a      *)
(* broadcast channel to the `ground_control` task (protocol/accept.rs,     *)
(* protocol/control.rs), and the life of that task: bind, accept and       *)
(* shutdown (protocol.rs, protocol/io/connections.rs, quic/endpoint.rs,    *)
(* linkd-lib/src/protocol.rs).                                             *)
(*                                                                         *)
(* The channel keeps the last `Capacity` messages. Sending to it fails     *)
(* when nobody listens, overwrites the oldest message when it is full, and *)
(* a message that is overwritten, or left when the listener is dropped,    *)
(* drops the reply handle inside.                                          *)
(***************************************************************************)
EXTENDS Naturals, Sequences, SequencesExt

CONSTANTS
    Calls,
    Capacity,       \* of the downstream channel; 16 in the code
    Replies         \* of the channel of a request-pull; 3 in the code

VARIABLES
    routine,    \* linkd's protocol routine
    shutdown,   \* TRUE once it was told to stop
    endpoint,   \* "none", "up", "closed"
    control,    \* the ground_control task: "none", "spawned", "idle", "busy"
    busy,       \* <<the call it is awaiting>>
    chan,       \* messages it has not received yet
    lagged,     \* it has missed messages since it last received one
    kind,       \* what the calls are
    call,       \* where they have got to
    unread      \* responses of a request-pull its caller has not read, with
                \* one more than `Replies` while ground_control waits for room

groundVars == <<routine, shutdown, endpoint, control, busy, chan, lagged, kind, call, unread>>

lifeVars == <<routine, shutdown, endpoint>>

\* The calls that do not wait for an answer: announce, and query, of which
\* "providers" waits for what the network makes of it.
Casts == {"announce", "providers"}

\* connected_peers, membership and stats; connect; interrogate; request_pull.
Questions == {"info", "connect", "interrogate", "request_pull"}

\* What a call that has returned was about is of no interest any more.
NoKind == "none"

Init ==
    /\ routine = "bind"
    /\ shutdown = FALSE
    /\ endpoint = "none"
    /\ control = "none"
    /\ busy = <<>>
    /\ chan = <<>>
    /\ lagged = FALSE
    /\ kind = [c \in Calls |-> NoKind]
    /\ call = [c \in Calls |-> "idle"]
    /\ unread = [c \in Calls |-> 0]

-----------------------------------------------------------------------------
(***************************************************************************)
(* The callers.                                                            *)
(***************************************************************************)

Listening == control \in {"idle", "busy"}

\* The calls return, with what they were after, or with what the caller makes
\* of a reply handle that was dropped or handed back by a failing send: an
\* empty list, a default, `None` or `Unavailable`.
Return(calls) ==
    /\ call' = [c \in Calls |-> IF c \in calls THEN "returned" ELSE call[c]]
    /\ kind' = [c \in Calls |-> IF c \in calls THEN NoKind ELSE kind[c]]

\* Handing over a message that c is waiting for an answer to, if `waits`.
Push(c, k, waits) ==
    LET full == Len(chan) = Capacity
        lost == {d \in ToSet(chan) : full /\ d = Head(chan) /\ kind[d] \in Questions}
    IN  /\ chan' = Append(IF full THEN Tail(chan) ELSE chan, c)
        /\ lagged' = (lagged \/ full)
        /\ call' = [d \in Calls |-> IF d \in lost THEN "returned"
                                     ELSE IF d # c THEN call[d]
                                     ELSE IF waits THEN "sent" ELSE "returned"]
        /\ kind' = [d \in Calls |-> IF d \in lost THEN NoKind ELSE IF d = c THEN k ELSE kind[d]]

\* Mutant: TinCans holds on to the receiving end of a new channel.
AskAlwaysHeard(c, k) ==
    /\ call[c] = "idle"
    /\ Push(c, k, TRUE)
    /\ UNCHANGED <<lifeVars, control, busy, unread>>

\* A question: with nobody listening, it is answered right away.
Ask(c, k) ==
    /\ call[c] = "idle"
    /\ IF Listening
       THEN Push(c, k, TRUE)
       ELSE Return({c}) /\ UNCHANGED <<chan, lagged>>
    /\ UNCHANGED <<lifeVars, control, busy, unread>>

ConnectedPeers(c) == Ask(c, "info")
Connect(c)        == Ask(c, "connect")
Interrogate(c)    == Ask(c, "interrogate")
RequestPull(c)    == Ask(c, "request_pull")

Announce(c) ==
    /\ call[c] = "idle"
    /\ IF Listening
       THEN Push(c, "announce", FALSE)
       ELSE Return({c}) /\ UNCHANGED <<chan, lagged>>
    /\ UNCHANGED <<lifeVars, control, busy, unread>>

\* An empty stream if the query cannot be sent.
Providers(c) ==
    /\ call[c] = "idle"
    /\ IF Listening
       THEN Push(c, "providers", TRUE)
       ELSE Return({c}) /\ UNCHANGED <<chan, lagged>>
    /\ UNCHANGED <<lifeVars, control, busy, unread>>

\* The stream of answers to a query ends with the timeout, or when the caller
\* has missed events.
ProvidersEnd(c) ==
    /\ kind[c] = "providers" /\ call[c] = "sent"
    /\ call' = [call EXCEPT ![c] = "returned"]
    /\ UNCHANGED <<lifeVars, control, busy, chan, lagged, kind, unread>>

\* RequestPull::next
ReadResponse(c) ==
    /\ unread[c] > 0
    /\ unread' = [unread EXCEPT ![c] = @ - 1]
    /\ UNCHANGED <<lifeVars, control, busy, chan, lagged, kind, call>>

-----------------------------------------------------------------------------
(***************************************************************************)
(* The ground_control task handles one message after the other.            *)
(***************************************************************************)

Subscribe ==
    /\ control = "spawned"
    /\ control' = "idle"
    /\ UNCHANGED <<lifeVars, busy, chan, lagged, kind, call, unread>>

\* RecvError::Lagged
RecvLagged ==
    /\ control = "idle" /\ lagged
    /\ lagged' = FALSE
    /\ UNCHANGED <<lifeVars, control, busy, chan, kind, call, unread>>

Recv ==
    /\ control = "idle" /\ ~lagged /\ chan # <<>>
    /\ control' = "busy"
    /\ busy' = <<Head(chan)>>
    /\ chan' = Tail(chan)
    /\ UNCHANGED <<lifeVars, lagged, kind, call, unread>>

Handled ==
    /\ control' = "idle"
    /\ busy' = <<>>
    /\ UNCHANGED <<lifeVars, chan, lagged, unread>>

\* The message is sent to all recipients.
Gossip ==
    /\ control = "busy" /\ kind[busy[1]] \in Casts
    /\ Handled
    /\ UNCHANGED <<kind, call>>

Info ==
    /\ control = "busy" /\ kind[busy[1]] = "info"
    /\ Handled
    /\ Return({busy[1]})

\* The remote peer has answered, or cannot be reached.
Interrogation ==
    /\ control = "busy" /\ kind[busy[1]] = "interrogate"
    /\ Handled
    /\ Return({busy[1]})

\* There is a connection already, one was made, or none of the addresses
\* led to the peer.
Connected ==
    /\ control = "busy" /\ kind[busy[1]] = "connect"
    /\ Handled
    /\ Return({busy[1]})

\* A response of the remote peer is passed on, or waits for room.
Response ==
    /\ control = "busy" /\ kind[busy[1]] = "request_pull"
    /\ unread[busy[1]] <= Replies
    /\ unread' = [unread EXCEPT ![busy[1]] = @ + 1]
    /\ UNCHANGED <<lifeVars, control, busy, chan, lagged, kind, call>>

ResponsesEnd ==
    /\ control = "busy" /\ kind[busy[1]] = "request_pull"
    /\ unread[busy[1]] <= Replies
    /\ Handled
    /\ Return({busy[1]})

-----------------------------------------------------------------------------
(***************************************************************************)
(* bind, accept and shutdown. The stream of incoming connections only ever *)
(* ends: none of the errors it can yield is one that `incoming` gives up   *)
(* for, so `accept` returns `Done` and the routine is over.                *)
(***************************************************************************)

Bind ==
    /\ routine = "bind"
    /\ routine' = "accept"
    /\ endpoint' = "up"
    /\ control' = "spawned"
    /\ UNCHANGED <<shutdown, busy, chan, lagged, kind, call, unread>>

BindFails ==
    /\ routine = "bind"
    /\ routine' = "sleep"
    /\ UNCHANGED <<shutdown, endpoint, control, busy, chan, lagged, kind, call, unread>>

Sleep ==
    /\ routine = "sleep"
    /\ routine' \in {"bind"} \cup (IF shutdown THEN {"stopped"} ELSE {})
    /\ UNCHANGED <<shutdown, endpoint, control, busy, chan, lagged, kind, call, unread>>

Shutdown ==
    /\ ~shutdown
    /\ shutdown' = TRUE
    /\ UNCHANGED <<routine, endpoint, control, busy, chan, lagged, kind, call, unread>>

\* stop(), that is Endpoint::close.
Stop ==
    /\ routine = "accept" /\ shutdown /\ endpoint = "up"
    /\ endpoint' = "closed"
    /\ UNCHANGED <<routine, shutdown, control, busy, chan, lagged, kind, call, unread>>

\* The socket fails and takes the endpoint with it.
EndpointLost ==
    /\ endpoint = "up"
    /\ endpoint' = "closed"
    /\ UNCHANGED <<routine, shutdown, control, busy, chan, lagged, kind, call, unread>>

\* No more incoming connections, and the endpoint is idle: the tasks are
\* dropped, with the receiver, and what the one being handled held on to.
AcceptDone ==
    /\ routine = "accept" /\ endpoint = "closed"
    /\ routine' = "stopped"
    /\ control' = "none"
    /\ Return({c \in ToSet(chan) \cup ToSet(busy) : kind[c] \in Questions})
    /\ chan' = <<>>
    /\ busy' = <<>>
    /\ lagged' = FALSE
    /\ unread' = [c \in Calls |-> IF unread[c] > Replies THEN Replies ELSE unread[c]]
    /\ UNCHANGED <<shutdown, endpoint>>

-----------------------------------------------------------------------------

Next ==
    \/ \E c \in Calls :
          \/ ConnectedPeers(c) \/ Connect(c) \/ Interrogate(c) \/ RequestPull(c)
          \/ Announce(c) \/ Providers(c) \/ ProvidersEnd(c) \/ ReadResponse(c)
    \/ Subscribe \/ RecvLagged \/ Recv \/ Gossip \/ Info \/ Interrogation \/ Connected
    \/ Response \/ ResponsesEnd
    \/ Bind \/ BindFails \/ Sleep \/ Shutdown \/ Stop \/ EndpointLost \/ AcceptDone

Spec == Init /\ [][Next]_groundVars

\* The tasks run, and callers read the responses they asked for. A remote
\* peer answers and ends its stream, or its connection times out, so that
\* whatever is awaited ends. Timers expire, and a bind succeeds some time.
Fairness ==
    /\ WF_groundVars(Subscribe) /\ WF_groundVars(RecvLagged)
    /\ WF_groundVars(Recv)
    /\ WF_groundVars(Gossip \/ Info \/ Interrogation \/ Connected) /\ SF_groundVars(ResponsesEnd)
    /\ WF_groundVars(Stop) /\ WF_groundVars(AcceptDone) /\ WF_groundVars(Sleep)
    /\ SF_groundVars(Bind)
    /\ \A c \in Calls : WF_groundVars(ProvidersEnd(c)) /\ WF_groundVars(ReadResponse(c))

FairSpec == Spec /\ Fairness

-----------------------------------------------------------------------------

\* Every call returns: with an answer, or with the default its caller takes for an
\* answer that cannot come any more. That includes a call made before anybody
\* listens, one that is overwritten in a full channel, and one that is queued
\* or in progress when the endpoint shuts down.
CallsReturn == \A c \in Calls : call[c] = "sent" ~> call[c] = "returned"

\* Told to stop, the protocol routine stops.
ShutdownStops == shutdown ~> routine = "stopped"
=============================================================================
