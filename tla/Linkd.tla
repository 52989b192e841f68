------------------------------- MODULE Linkd -------------------------------
(***************************************************************************)
(* One connection to linkd's control socket: the client library of         *)
(* linkd-lib (api/client.rs), the daemon's task for the connection         *)
(* (api/rpc.rs) and the handlers it spawns, one per request.  A request    *)
(* asks for an announcement or for a request-pull, and is fire-and-forget  *)
(* or reports progress.  Handlers answer into a bounded channel that only  *)
(* the connection's task reads, and only while it is in its select loop.   *)
(*                                                                         *)
(* Every response carries the default request id, so nothing but order     *)
(* tells the client which request a response answers.  The field "of" of a *)
(* response is not in the code: it records the request for the properties. *)
(***************************************************************************)
EXTENDS Naturals, Sequences, FiniteSets

CONSTANTS
    MaxRequests,    \* bound: requests made on the connection
    InFlight,       \* MAX_IN_FLIGHT_REQUESTS
    Buffer          \* capacity of the response channel

Requests == 1 .. MaxRequests
Modes == {"FireAndForget", "ReportProgress"}
Kinds == {"Announce", "RequestPull"}
Torn == MaxRequests + 1     \* what is left of a request cut off by its sender

VARIABLES
    client,     \* what the client is doing: at, and the last request it made
    socket,     \* the request written to the socket and not read, 0 or Torn
    replies,    \* responses written to the socket and not read
    request,    \* request[i]: mode and kind of the i-th request
    serve,      \* the connection's task: "select", "ack", "drain" or "over"
    channel,    \* the channel from the handlers to the connection's task
    handler     \* handler[i]: where the handler of the i-th request is

linkdVars == <<client, socket, replies, request, serve, channel, handler>>

Response(i, payload) == [of |-> i, payload |-> payload]

Init ==
    /\ client = [at |-> "ready", last |-> 0]
    /\ socket = 0
    /\ replies = <<>>
    /\ request = [i \in Requests |-> [mode |-> "FireAndForget", kind |-> "Announce"]]
    /\ serve = "select"
    /\ channel = <<>>
    /\ handler = [i \in Requests |-> "none"]

Running == {i \in Requests : handler[i] \notin {"none", "joined", "abandoned"}}

(***************************************************************************)
(* The client.                                                             *)
(***************************************************************************)

\* Command::execute and Command::execute_with_reply: write the request, then
\* wait for the acknowledgement.
Execute ==
    /\ client.at = "ready" /\ client.last < MaxRequests
    /\ client' = [at |-> "ack", last |-> client.last + 1]
    /\ socket' = client.last + 1
    /\ \E m \in Modes, k \in Kinds :
           request' = [request EXCEPT ![client.last + 1] = [mode |-> m, kind |-> k]]
    /\ UNCHANGED <<replies, serve, channel, handler>>

\* The first response must be the Ack, or the command fails.
ReadAck ==
    /\ client.at = "ack" /\ replies # <<>>
    /\ replies' = Tail(replies)
    /\ client' = [client EXCEPT !.at =
            IF Head(replies).payload # "Ack" THEN "failed"
            ELSE IF request[client.last].mode = "FireAndForget" THEN "ready"
            ELSE "replies"]
    /\ UNCHANGED <<socket, request, serve, channel, handler>>

\* Replies::next and process_recv.
ReadReply ==
    /\ client.at = "replies" /\ replies # <<>>
    /\ replies' = Tail(replies)
    /\ client' = [client EXCEPT !.at =
            CASE Head(replies).payload = "Ack" -> "failed"
              [] Head(replies).payload = "Progress" -> "replies"
              [] OTHER -> "ready"]
    /\ UNCHANGED <<socket, request, serve, channel, handler>>

\* The client drops the connection, whatever it was waiting for, or within the
\* write of a request.
Disconnect ==
    /\ client.at # "closed"
    /\ client' = [client EXCEPT !.at = "closed"]
    /\ socket' \in {socket} \union (IF client.at = "ready" THEN {Torn} ELSE {})
    /\ replies' = <<>>
    /\ UNCHANGED <<request, serve, channel, handler>>

(***************************************************************************)
(* The connection's task.                                                  *)
(***************************************************************************)

\* A request is read only while fewer than InFlight handlers run.  Its ack is
\* sent into the channel from inside the loop that is the channel's only
\* reader, so the task waits here while the channel is full.
RecvRequest ==
    /\ serve = "select" /\ socket \in Requests
    /\ Cardinality(Running) < InFlight
    /\ serve' = "ack"
    /\ UNCHANGED <<client, socket, replies, request, channel, handler>>

Ack ==
    /\ serve = "ack" /\ Len(channel) < Buffer
    /\ channel' = Append(channel, Response(socket, "Ack"))
    /\ handler' = [handler EXCEPT ![socket] = "start"]
    /\ socket' = 0
    /\ serve' = "select"
    /\ UNCHANGED <<client, replies, request>>

\* The response is written to the socket; writing to a client that has gone is
\* an error that is only logged.
SendResponse ==
    /\ serve = "select" /\ channel # <<>>
    /\ channel' = Tail(channel)
    /\ replies' = IF client.at = "closed" THEN <<>> ELSE Append(replies, Head(channel))
    /\ UNCHANGED <<client, socket, request, serve, handler>>

\* running_handlers.next, in the loop and after it.
Join(i) ==
    /\ serve \in {"select", "drain"} /\ handler[i] \in {"done", "silent"}
    /\ handler' = [handler EXCEPT ![i] = IF @ = "done" THEN "joined" ELSE "abandoned"]
    /\ UNCHANGED <<client, socket, replies, request, serve, channel>>

\* The socket ends between two requests, which the task sees only when it may
\* read it.  When the socket ends within a request, process_recv_request makes
\* DecodeFailed of the error and the loop ignores it: it reads the same end of
\* file again, for ever.
Closed ==
    /\ serve = "select" /\ client.at = "closed" /\ socket = 0
    /\ Cardinality(Running) < InFlight
    /\ serve' = "drain"
    /\ UNCHANGED <<client, socket, replies, request, channel, handler>>

Over ==
    /\ serve = "drain" /\ Running = {}
    /\ serve' = "over"
    /\ UNCHANGED <<client, socket, replies, request, channel, handler>>

Serve == RecvRequest \/ Ack \/ SendResponse \/ Closed \/ Over \/ (\E i \in Requests : Join(i))

(***************************************************************************)
(* The handlers.                                                           *)
(***************************************************************************)

\* A listener that reports to every client whatever mode it asked for.
TellAnyMode(i, payload, at) ==
    /\ Len(channel) < Buffer
    /\ channel' = Append(channel, Response(i, payload))
    /\ handler' = [handler EXCEPT ![i] = at]
    /\ UNCHANGED <<client, socket, replies, request, serve>>

\* Listener::progress, error and success: nothing is sent for a client that
\* only wants the ack, and the others wait for room in the channel.
Tell(i, payload, at) ==
    /\ \/ /\ request[i].mode = "FireAndForget"
          /\ UNCHANGED channel
       \/ /\ request[i].mode = "ReportProgress"
          /\ Len(channel) < Buffer
          /\ channel' = Append(channel, Response(i, payload))
    /\ handler' = [handler EXCEPT ![i] = at]
    /\ UNCHANGED <<client, socket, replies, request, serve>>

\* Listener<announce::Response>::handle: with no connected peer it says so and
\* sleeps first.
Announce(i) ==
    /\ request[i].kind = "Announce"
    /\ \/ handler[i] = "start" /\ Tell(i, "Progress", "slept")
       \/ handler[i] \in {"start", "slept"} /\ Tell(i, "Progress", "announce")
       \/ handler[i] = "announce" /\ \E p \in {"Success", "Error"} : Tell(i, p, "done")

\* Responses the asked peer sends next, with where the conversation is then:
\* handle_request reports that it authorizes, the guard's outcome, that it
\* replicates, and the result.
Responses(at) ==
    CASE at = "start" -> {<<"Progress", "authorizing">>}
      [] at = "authorizing" -> {<<"Progress", "guarded">>, <<"Error", "done">>}
      [] at = "guarded" -> {<<"Progress", "replicating">>}
      [] at = "replicating" -> {<<"Success", "done">>, <<"Error", "done">>}
      [] OTHER -> {}

\* A handler that returns without a word when it cannot reach the peer.
RequestPullQuietError(i) ==
    /\ request[i].kind = "RequestPull"
    /\ i \in Running /\ handler[i] \notin {"done", "silent"}
    /\ \/ \E r \in Responses(handler[i]) : Tell(i, r[1], r[2])
       \/ /\ handler' = [handler EXCEPT ![i] = "done"]
          /\ UNCHANGED <<client, socket, replies, request, serve, channel>>

\* Listener<request_pull::Response>::handle: the peer's responses are passed
\* on; failing to start, to connect or to receive is an error for the client.
RequestPull(i) ==
    /\ request[i].kind = "RequestPull"
    /\ i \in Running /\ handler[i] \notin {"done", "silent"}
    /\ \/ \E r \in Responses(handler[i]) : Tell(i, r[1], r[2])
       \/ Tell(i, "Error", "done")

\* The peer's stream ends before a result (its task was dropped): the while-let
\* loop falls through and nothing is sent.
StreamEnds(i) ==
    /\ request[i].kind = "RequestPull"
    /\ handler[i] \in {"start", "authorizing", "guarded", "replicating"}
    /\ handler' = [handler EXCEPT ![i] = "silent"]
    /\ UNCHANGED <<client, socket, replies, request, serve, channel>>

Handle(i) == Announce(i) \/ RequestPull(i) \/ StreamEnds(i)

Next ==
    \/ Execute \/ ReadAck \/ ReadReply \/ Disconnect
    \/ Serve
    \/ \E i \in Requests : Handle(i)

\* The runtime polls the connection's task and the spawned handlers; announcing
\* and pulling end by their own timeouts; a client that waits reads its socket.
Fairness ==
    /\ WF_linkdVars(ReadAck \/ ReadReply)
    /\ WF_linkdVars(RecvRequest)
    /\ WF_linkdVars(Ack)
    /\ SF_linkdVars(SendResponse)
    /\ WF_linkdVars(Closed)
    /\ WF_linkdVars(Over)
    /\ \A i \in Requests : SF_linkdVars(Join(i)) /\ SF_linkdVars(Handle(i))

Spec == Init /\ [][Next]_linkdVars /\ Fairness

(***************************************************************************)
(* Properties.                                                             *)
(***************************************************************************)

\* The client reads responses in order and its debug_assert compares ids that
\* are all equal: what keeps it from taking the response to an earlier request
\* for its own is that a fire-and-forget handler, which may still run, sends
\* nothing after the ack.
RepliesMatch ==
    /\ client.at # "failed"
    /\ \A k \in 1 .. Len(replies) : replies[k].of = client.last
    /\ client.at = "ready" => replies = <<>> /\ channel = <<>>

\* A client that waits is answered, unless the asked peer ended the response
\* stream without a result: then the handler returns silently and the client
\* waits for as long as it keeps the connection.
Waits(i) == client.at \in {"ack", "replies"} /\ client.last = i

IsAnswered(i) == client.at \in {"ready", "closed"} \/ handler[i] \in {"silent", "abandoned"}

Answered == \A i \in Requests : Waits(i) ~> IsAnswered(i)

\* Once the client has gone the connection's task ends: "error receiving message,
\* closing".
TaskEnds == client.at = "closed" ~> serve = "over"

\* The same for a client that does not go within a request: the handlers the
\* task waits for find room in a channel it no longer reads.
TaskEndsAfterWhole == client.at = "closed" /\ socket # Torn ~> serve = "over"
=============================================================================
