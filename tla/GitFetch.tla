------------------------------ MODULE GitFetch ------------------------------
(***************************************************************************)
(* git's pack protocol over a stream (link_git::protocol): a client asks a *)
(* peer for its refs or for a pack, and the peer answers with the help of  *)
(* a git upload-pack process, whose pipes are pumped from and to the       *)
(* stream.  The pack is read on a thread of its own, which outlives the    *)
(* future of the fetch when that is dropped.                               *)
(*                                                                         *)
(* A name is asked for with the namespace before it when the peer's git is *)
(* old; a pack is the sequence of the sizes of its chunks.                 *)
(***************************************************************************)
EXTENDS Naturals, Sequences, TLC

CONSTANTS
    Sizes,      \* the chunks of the pack
    Limits,     \* values of max_pack_bytes
    Window,     \* what the stream, and the pipe, hold
    Names       \* the refs to ask for

Versions == {"2.24", "2.33", "2.34"}

VARIABLES
    ask,        \* what the client wants, and of whom
    client, server, child,
    up, down,   \* the stream, with whether its writer has finished
    pipeIn, pipeOut

fetchVars == <<ask, client, server, child, up, down, pipeIn, pipeOut>>
pipes == <<pipeIn, pipeOut>>

Empty == [msgs |-> << >>, fin |-> FALSE]
Put(q, m) == [q EXCEPT !.msgs = Append(@, m)]
Take(q) == [q EXCEPT !.msgs = Tail(@)]
Fin(q) == [q EXCEPT !.fin = TRUE]
Ends(q) == q.msgs = << >> /\ q.fin
Has(q) == q.msgs # << >>
Msg(is) == [is |-> is, names |-> {}]

-----------------------------------------------------------------------------
(* The header *)

Headers ==
    [service : {"git-upload-pack"}, path : {"ns"}, host : {"none"}, version : {"2"}, ls : {FALSE}]
    \cup [service : {"git-upload-pack"}, path : {"ns", ""}, host : {"host", "port", "badport", "other"},
          version : {"", "1"}, ls : {TRUE}]
    \cup [service : {"git-receive-pack"}, path : {"ns"}, host : {"none"}, version : {"2"}, ls : {FALSE}]

(* Header::from_str *)
Parses(h) ==
    h.service = "git-upload-pack" /\ h.path # "" /\ h.host \notin {"badport", "other"}

ProtocolVersion(h) == CASE h.version = "2" -> 2 [] h.version = "1" -> 1 [] h.version = "" -> 0

Init ==
    /\ ask \in [header : Headers, for : {"ls", "fetch"}, git : Versions, refs : SUBSET Names,
                wants : BOOLEAN, limit : Limits]
    /\ ask.header.ls => ask.for = "ls"
    /\ ask.for = "ls" => ~ask.wants
    /\ client = [pc |-> "connected", dropped |-> FALSE, stop |-> FALSE, read |-> 0, left |-> ask.limit,
                 refs |-> {}, stored |-> FALSE]
    /\ server = [pc |-> "header", in |-> FALSE, out |-> FALSE]
    /\ child = [pc |-> "none", todo |-> << >>]
    /\ up = Empty /\ down = Empty /\ pipeIn = Empty /\ pipeOut = Empty

-----------------------------------------------------------------------------
(* The client: ls::LsRefs and fetch::Fetch, driven by git_protocol::fetch *)

Fate(pc) == client' = [client EXCEPT !.pc = pc]

(* Stateless::handshake *)
Handshake ==
    /\ client.pc = "connected"
    /\ up' = Put(up, Msg("header"))
    /\ Fate("handshake")
    /\ UNCHANGED <<ask, server, child, down, pipes>>

(* must_namespace, of ls and of fetch *)
MustNamespace(git) == git = "2.24"
MustNamespaceWantRef(git) == git \in {"2.24", "2.33"}

Namespaced(names) == {<<"ns", n>> : n \in names}
Bare(names) == {<<n>> : n \in names}

(* LsRefs::prepare_ls_refs *)
PrepareLsRefs == IF MustNamespace(ask.git) THEN Namespaced(ask.refs) ELSE Bare(ask.refs)

(* Fetch::prepare_fetch: nothing to ask for is an error. *)
PrepareFetch == ask.wants \/ ask.refs # {}

(* Fetch::negotiate *)
Negotiate == IF MustNamespaceWantRef(ask.git) THEN Namespaced(ask.refs) ELSE Bare(ask.refs)

(* The client has seen the capabilities and sends its only request. *)
Request ==
    /\ client.pc = "handshake" /\ Has(down) /\ Head(down.msgs).is = "caps"
    /\ down' = Take(down)
    /\ IF ask.for = "fetch" /\ ~PrepareFetch
       THEN Fate("failed") /\ UNCHANGED up
       ELSE /\ up' = Put(up, [is |-> ask.for,
                              names |-> IF ask.for = "ls" THEN PrepareLsRefs ELSE Negotiate])
            /\ Fate("asked")
    /\ UNCHANGED <<ask, server, child, pipes>>

(* LsRefs::prepare_fetch takes the refs; so does a legacy client. *)
TakeRefs ==
    /\ client.pc \in {"handshake", "asked"} /\ Has(down) /\ Head(down.msgs).is = "refs"
    /\ down' = Take(down)
    /\ client' = [client EXCEPT !.pc = "done", !.refs = Head(down.msgs).names]
    /\ UNCHANGED <<ask, server, child, up, pipes>>

(* Fetch::receive_pack strips the namespace that old servers leak. *)
WantedRefsAsSent(names) == names
WantedRefs(names) == {IF Len(n) = 2 THEN <<n[2]>> ELSE n : n \in names}

ReceivePack ==
    /\ client.pc = "asked" /\ Has(down) /\ Head(down.msgs).is = "wanted"
    /\ down' = Take(down)
    /\ client' = [client EXCEPT !.pc = "pack", !.refs = WantedRefs(Head(down.msgs).names)]
    /\ UNCHANGED <<ask, server, child, up, pipes>>

(* TryTake::poll_read *)
PollRead(left, size) == IF size > left THEN 0 ELSE left - size

(* Standard::write_pack: a chunk is read unless the limit is used up or    *)
(* the future was dropped; the pack is stored after its last chunk.        *)
WritePack ==
    LET i == client.read + 1 IN
    /\ client.pc = "pack" /\ Has(down)
    /\ down' = Take(down)
    /\ IF client.left = 0 \/ client.stop
       THEN Fate("failed")
       ELSE client' = [client EXCEPT !.read = i, !.left = PollRead(@, Sizes[i]),
                        !.stored = i = Len(Sizes),
                        !.pc = IF i = Len(Sizes) THEN "done" ELSE "pack"]
    /\ UNCHANGED <<ask, server, child, up, pipes>>

(* The peer has gone away: an error, wherever the client is. *)
Eof ==
    /\ client.pc \in {"handshake", "asked", "pack"} /\ Ends(down)
    /\ Fate("failed")
    /\ UNCHANGED <<ask, server, child, up, down, pipes>>

(* The future of the fetch is dropped, its thread goes on with the stream. *)
Drop ==
    /\ client.pc \in {"handshake", "asked", "pack"} /\ ~client.stop /\ ask.for = "fetch"
    /\ client' = [client EXCEPT !.stop = TRUE]
    /\ UNCHANGED <<ask, server, child, up, down, pipes>>

(* Both ends of the stream are dropped with the connection. *)
Close ==
    /\ client.pc \in {"done", "failed"} /\ ~client.dropped
    /\ client' = [client EXCEPT !.dropped = TRUE]
    /\ up' = Fin(up) /\ down' = [down EXCEPT !.msgs = << >>]
    /\ UNCHANGED <<ask, server, child, pipes>>

-----------------------------------------------------------------------------
(* The server: upload_pack *)

Exited == child.pc \in {"exited", "died"}

End(pc) ==
    /\ server' = [server EXCEPT !.pc = pc]
    /\ down' = Fin(down)
    /\ child' = IF child.pc = "none" \/ Exited THEN child ELSE [child EXCEPT !.pc = "exited", !.todo = << >>]

(* The header is read and taken apart. *)
ReadHeader ==
    /\ server.pc = "header"
    /\ \/ /\ Ends(up) /\ End("failed") /\ UNCHANGED up
       \/ /\ Has(up)
          /\ up' = Take(up)
          /\ IF ~Parses(ask.header) THEN End("failed")
             ELSE /\ server' = [server EXCEPT !.pc =
                        IF ProtocolVersion(ask.header) = 2 THEN "advertise"
                        ELSE IF ask.header.ls THEN "legacy" ELSE "spawn"]
                  /\ UNCHANGED <<child, down>>
    /\ UNCHANGED <<ask, client, pipes>>

Send(m) == IF client.dropped THEN End("failed") ELSE down' = Put(down, m)

AdvertiseCapabilities ==
    /\ server.pc = "advertise"
    /\ Send(Msg("caps"))
    /\ ~client.dropped => server' = [server EXCEPT !.pc = "spawn"] /\ UNCHANGED child
    /\ UNCHANGED <<ask, client, up, pipes>>

(* legacy::advertise_refs, its child included, and the byte it waits for. *)
AdvertiseRefs ==
    /\ server.pc = "legacy"
    /\ Send([is |-> "refs", names |-> Bare(ask.refs)])
    /\ ~client.dropped => server' = [server EXCEPT !.pc = "drain"] /\ UNCHANGED child
    /\ UNCHANGED <<ask, client, up, pipes>>

Drain ==
    /\ server.pc = "drain" /\ (Has(up) \/ up.fin)
    /\ End("done")
    /\ UNCHANGED <<ask, client, up, pipes>>

Spawn ==
    /\ server.pc = "spawn"
    /\ server' = [server EXCEPT !.pc = "join"]
    /\ child' = [child EXCEPT !.pc = "reading"]
    /\ UNCHANGED <<ask, client, up, down, pipes>>

(* A slip: what the pipe does not take any more is dropped. *)
CopyInUnchecked ==
    /\ server.pc = "join" /\ ~server.in
    /\ Has(up)
    /\ up' = Take(up) /\ pipeIn' = Put(pipeIn, Head(up.msgs))
    /\ UNCHANGED <<ask, client, server, child, down, pipeOut>>

(* copy(recv, stdin) *)
CopyIn ==
    /\ server.pc = "join" /\ ~server.in
    /\ \/ /\ Has(up) /\ Exited
          /\ End("failed") /\ UNCHANGED <<up, pipeIn>>
       \/ /\ Has(up) /\ ~Exited
          /\ up' = Take(up) /\ pipeIn' = Put(pipeIn, Head(up.msgs))
          /\ UNCHANGED <<server, child, down>>
       \/ /\ Ends(up)
          /\ server' = [server EXCEPT !.in = TRUE] /\ pipeIn' = Fin(pipeIn)
          /\ UNCHANGED <<up, child, down>>
    /\ UNCHANGED <<ask, client, pipeOut>>

(* copy(stdout, send) *)
CopyOut ==
    /\ server.pc = "join" /\ ~server.out
    /\ \/ /\ Has(pipeOut) /\ (client.dropped \/ Len(down.msgs) < Window)
          /\ pipeOut' = Take(pipeOut)
          /\ Send(Head(pipeOut.msgs))
          /\ ~client.dropped => UNCHANGED <<server, child>>
       \/ /\ Ends(pipeOut)
          /\ server' = [server EXCEPT !.out = TRUE]
          /\ UNCHANGED <<pipeOut, down, child>>
    /\ UNCHANGED <<ask, client, up, pipeIn>>

(* try_join!: all three are done. *)
Join ==
    /\ server.pc = "join" /\ server.in /\ server.out /\ Exited
    /\ End("done")
    /\ UNCHANGED <<ask, client, up, pipes>>

-----------------------------------------------------------------------------
(* git upload-pack *)

Chunks == [i \in DOMAIN Sizes |-> Msg("chunk")]

(* It reads one request and answers it; at the end of the input, it exits. *)
GitReads ==
    /\ child.pc = "reading"
    /\ \/ /\ Ends(pipeIn)
          /\ child' = [child EXCEPT !.pc = "exited"] /\ pipeOut' = Fin(pipeOut)
          /\ UNCHANGED pipeIn
       \/ /\ Has(pipeIn)
          /\ pipeIn' = Take(pipeIn)
          /\ LET r == Head(pipeIn.msgs) IN
             child' = [pc |-> "writing",
                       todo |-> IF r.is = "ls" THEN << [is |-> "refs", names |-> r.names] >>
                                ELSE << [is |-> "wanted", names |-> r.names] >> \o Chunks]
          /\ UNCHANGED pipeOut
    /\ UNCHANGED <<ask, client, server, up, down>>

GitWrites ==
    /\ child.pc = "writing" /\ child.todo # << >> /\ Len(pipeOut.msgs) < Window
    /\ pipeOut' = Put(pipeOut, Head(child.todo))
    /\ child' = [child EXCEPT !.todo = Tail(@)]
    /\ UNCHANGED <<ask, client, server, up, down, pipeIn>>

GitExits ==
    /\ child.pc = "writing" /\ child.todo = << >>
    /\ child' = [child EXCEPT !.pc = "exited"] /\ pipeOut' = Fin(pipeOut)
    /\ UNCHANGED <<ask, client, server, up, down, pipeIn>>

(* It may die at any time. *)
GitDies ==
    /\ child.pc \in {"reading", "writing"}
    /\ child' = [child EXCEPT !.pc = "died", !.todo = << >>] /\ pipeOut' = Fin(pipeOut)
    /\ UNCHANGED <<ask, client, server, up, down, pipeIn>>

Client == Handshake \/ Request \/ TakeRefs \/ ReceivePack \/ WritePack \/ Eof \/ Close
Server ==
    \/ ReadHeader \/ AdvertiseCapabilities \/ AdvertiseRefs \/ Drain
    \/ Spawn \/ CopyIn \/ CopyOut \/ Join
Git == GitReads \/ GitWrites \/ GitExits

Next == Client \/ Drop \/ Server \/ Git \/ GitDies

Spec == Init /\ [][Next]_fetchVars

(* The runtime polls what can go on, and so does the system with git. *)
FairSpec == Spec /\ WF_fetchVars(Client) /\ WF_fetchVars(Server) /\ WF_fetchVars(Git)

-----------------------------------------------------------------------------
(* Whatever is refused or dropped, and however little the stream holds,    *)
(* both ends come to their end: the thread with the pack writer of the     *)
(* client, and the future with the git process of the server (fetch.rs,    *)
(* Fetching; upload_pack.rs, try_join).  When the git process dies before  *)
(* it has answered, the server waits for the client's end of the stream    *)
(* and the client for the answer, so that case is excepted.                *)
Ended == client.dropped /\ server.pc \in {"done", "failed"} /\ (child.pc = "none" \/ Exited)
FetchEnds == <>(Ended \/ child.pc = "died")

(* A pack is stored only when all of it has come, and no more than one     *)
(* chunk above the limit; the refs a fetch reports are the ones it was     *)
(* asked for, whichever version of git serves them (fetch.rs, take.rs).    *)
Total(n) ==
    LET sum[i \in 0..Len(Sizes)] == IF i = 0 THEN 0 ELSE sum[i - 1] + Sizes[i] IN sum[n]
FetchIsWhole ==
    (ask.for = "fetch" /\ client.pc = "done") =>
        /\ client.stored /\ client.read = Len(Sizes)
        /\ Total(Len(Sizes) - 1) < ask.limit
        /\ client.refs = Bare(ask.refs)
=============================================================================
