---------------------------- MODULE Connections -----------------------------
(***************************************************************************)
(* Connections between peers: the addresses they learn of, the handshake,  *)
(* and the streams of a connection.                                        *)
(***************************************************************************)
EXTENDS Sequences, SequencesExt, FiniteSets, Integers

-----------------------------------------------------------------------------
(***************************************************************************)
(* What peers tell each other about the addresses of a peer (librad,       *)
(* protocol::info): it advertises the ones it listens on, others note the  *)
(* one they saw it at, and shuffles spread both. The lists are bounded     *)
(* (radicle-data, bounded): they are cut when filled and refused when a    *)
(* longer one is decoded. The model follows the information on one peer.   *)
(***************************************************************************)
CONSTANTS
    Nodes,          \* the peers that know, or come to know, of it
    Addrs,          \* 1..n, the addresses it has one after the other
    MaxAddrs,       \* U16
    Listening,      \* the number of addresses it listens on
    MaxHops         \* bound: infos passed on

VARIABLES
    at,             \* its present address
    active,         \* [Nodes -> info]: the active views
    passive,        \* [Nodes -> info]: the passive views
    told,           \* [Nodes -> set of addresses]: those the passive entry was told of
    refused,        \* an info was refused by its receiver
    hops

infoVars == <<at, active, passive, told, refused, hops>>

NoInfo == [known |-> FALSE, advertised |-> << >>, partial |-> FALSE, seen |-> << >>]

(* Iterator::take *)
TakeFirst(list, n) == SubSeq(list, 1, IF n < Len(list) THEN n ELSE Len(list))

(* BoundedVec *)
Singleton(v) == <<v>>

(* A slip: one less than fits. *)
ExtendFillShort(list, more) == list \o TakeFirst(more, MaxAddrs - Len(list) - 1)

ExtendFill(list, more) == list \o TakeFirst(more, MaxAddrs - Len(list))

(* Within, decoded: the length the array states is looked at first. *)
Decodes(list) == Len(list) <= MaxAddrs

(* peer_advertisement: what the endpoint listens on, of which only so many *)
(* are told.                                                               *)
Advertisement(a) == ExtendFill(<< >>, [i \in 1..Listening |-> 10 * a + i])

(* peer_info, io::connection_established: seen at the remote address; the  *)
(* advertisement is not known before a Join or a Neighbour.                *)
Info(advertised, a, partial) ==
    [known |-> TRUE, advertised |-> advertised, partial |-> partial, seen |-> Singleton(a)]

(* sequence: only a whole info may enter the passive view. *)
Sequence(info) == IF info.partial THEN NoInfo ELSE info

(* A slip: addresses known before are appended again. *)
MergedTwice(info, prev) == [info EXCEPT !.seen = ExtendFill(@, prev.seen)]

(* add_passive, for an entry that is there: what it was seen at by others  *)
(* comes first, the rest is filled with what was known.                    *)
Merged(info, prev) ==
    [info EXCEPT !.seen = ExtendFill(@, SelectSeq(prev.seen, LAMBDA a : a \notin ToSet(info.seen)))]

AddPassive(n, info) ==
    /\ passive' = [passive EXCEPT ![n] = IF @.known THEN Merged(info, @) ELSE info]
    /\ told' = [told EXCEPT ![n] = @ \cup ToSet(info.seen)]

InfoInit ==
    /\ at = 1 /\ hops = 0 /\ refused = FALSE
    /\ active = [n \in Nodes |-> NoInfo]
    /\ passive = [n \in Nodes |-> NoInfo]
    /\ told = [n \in Nodes |-> {}]

(* The peer gets another address. *)
Move == at + 1 \in Addrs /\ at' = at + 1 /\ UNCHANGED <<active, passive, told, refused, hops>>

(* add_active, on a connection or a Join or Neighbour that comes in: an    *)
(* active peer's info stays what it is.                                    *)
AddActive(n, partial) ==
    /\ ~active[n].known
    /\ active' = [active EXCEPT ![n] = Info(IF partial THEN << >> ELSE Advertisement(at), at, partial)]
    /\ passive' = [passive EXCEPT ![n] = NoInfo]
    /\ told' = [told EXCEPT ![n] = {}]
    /\ UNCHANGED <<at, refused, hops>>

(* demote: evicted if it never introduced itself. *)
Demote(n) ==
    /\ active[n].known
    /\ active' = [active EXCEPT ![n] = NoInfo]
    /\ IF Sequence(active[n]).known THEN AddPassive(n, active[n]) ELSE UNCHANGED <<passive, told>>
    /\ UNCHANGED <<at, refused, hops>>

Evict(n) ==
    /\ passive[n].known
    /\ passive' = [passive EXCEPT ![n] = NoInfo]
    /\ told' = [told EXCEPT ![n] = {}]
    /\ UNCHANGED <<at, active, refused, hops>>

(* What a node shuffles: whole infos of its view. *)
Sampled(n) == IF active[n].known THEN Sequence(active[n]) ELSE passive[n]

(* An info arrives, in a Shuffle, a ShuffleReply or the last ForwardJoin,  *)
(* at another node.                                                        *)
Receive(n, info) ==
    /\ info.known /\ hops < MaxHops /\ hops' = hops + 1
    /\ IF ~(Decodes(info.seen) /\ Decodes(info.advertised))
       THEN refused' = TRUE /\ UNCHANGED <<passive, told>>
       ELSE /\ UNCHANGED refused
            /\ IF active[n].known THEN UNCHANGED <<passive, told>> ELSE AddPassive(n, info)
    /\ UNCHANGED <<at, active>>

Shuffle(m, n) == m # n /\ Receive(n, Sampled(m))

(* The first hop of the peer's own shuffle notes the address it came from; *)
(* the last one connects to the origin in order to reply.                  *)
Stamped(origin, a) ==
    [origin EXCEPT !.seen = ExtendFill(Singleton(a), SelectSeq(@, LAMBDA b : b # a))]

ShuffleOrigin ==
    LET origin == Stamped([NoInfo EXCEPT !.known = TRUE, !.advertised = Advertisement(at)], at)
    IN /\ hops < MaxHops /\ hops' = hops + 1
       /\ refused' = (refused \/ ~(Decodes(origin.seen) /\ Decodes(origin.advertised)))
       /\ UNCHANGED <<at, active, passive, told>>

InfoNext ==
    \/ Move \/ ShuffleOrigin
    \/ \E n \in Nodes :
        \/ Demote(n) \/ Evict(n)
        \/ \E partial \in BOOLEAN : AddActive(n, partial)
        \/ \E m \in Nodes : Shuffle(m, n)

InfoSpec == InfoInit /\ [][InfoNext]_infoVars

-----------------------------------------------------------------------------
(* However infos are passed around, no peer refuses what another one sends *)
(* for its length; no address is listed twice; and as long as they fit no  *)
(* address that a passive entry was told of is forgotten (partial_view.rs, *)
(* add_passive; bounded.rs, extend_fill).                                  *)
AddressesKept ==
    /\ ~refused
    /\ \A n \in Nodes :
        /\ IsInjective(passive[n].seen)
        /\ ToSet(passive[n].seen) \subseteq told[n]
        /\ Cardinality(told[n]) <= MaxAddrs => ToSet(passive[n].seen) = told[n]

-----------------------------------------------------------------------------
(***************************************************************************)
(* Peers authenticate each other (librad, net::tls, net::x509 and          *)
(* quic::endpoint): every node signs its own certificates, whose key is    *)
(* its peer id, and replaces them once they have expired. A client dials a *)
(* peer id at an address, where some other peer may listen meanwhile.      *)
(*                                                                         *)
(* Time is counted in days: the validity of a certificate is a pair of     *)
(* dates, and it ends as its last day begins.                              *)
(***************************************************************************)
CONSTANTS
    Hosts,          \* nodes; each has one key, and so one peer id
    Network,        \* [Hosts -> the network it is configured for]
    Attempts,       \* connection attempts, several at a time
    Validity,       \* days a certificate is valid
    MaxSkew,        \* days two clocks are apart
    MaxDays         \* bound: days that pass

VARIABLES
    clock,          \* [Hosts -> the date]
    certs,          \* [Hosts -> [{"client", "server"} -> certificate held]]
    attempt         \* [Attempts -> the handshake]

tlsVars == <<clock, certs, attempt>>

(* Encoding a peer id: multibase, with a reserved byte before the key. *)
DefaultEncoding(id) == <<"z", 0, id>>

FromDefaultEncoding(s) == IF s[1] = "z" /\ s[2] = 0 THEN s[3] ELSE "none"

(* Certificate::generate: self-signed, the peer id its subject and name. *)
Generate(n) ==
    [key |-> n, subject |-> DefaultEncoding(n), name |-> DefaultEncoding(n),
     notBefore |-> clock[n], notAfter |-> clock[n] + Validity]

(* Certificate::from_der: the key and the subject are the same peer id. *)
FromDer(cert) == IF FromDefaultEncoding(cert.subject) = cert.key THEN cert.key ELSE "none"

(* webpki: valid at the date the verifier has. *)
ValidAt(cert, date) == cert.notBefore <= date /\ date < cert.notAfter

Idle == [pc |-> "idle", client |-> "none", dialed |-> "none", server |-> "none",
         scert |-> "none", ccert |-> "none", calm |-> TRUE]

(* make_client_config, make_server_config: one certificate each. *)
TlsInit ==
    /\ clock = [n \in Hosts |-> 0]
    /\ certs = [n \in Hosts |-> [role \in {"client", "server"} |-> Generate(n)]]
    /\ attempt = [a \in Attempts |-> Idle]

Running(a) == attempt[a].pc \notin {"idle", "connected", "refused"}

(* A day passes; clocks need not agree. *)
Tick(n) ==
    /\ clock[n] < MaxDays
    /\ \A m \in Hosts : clock[n] + 1 - clock[m] <= MaxSkew
    /\ clock' = [clock EXCEPT ![n] = @ + 1]
    /\ attempt' = [a \in Attempts |->
            IF Running(a) /\ n \in {attempt[a].client, attempt[a].server}
            THEN [attempt[a] EXCEPT !.calm = FALSE] ELSE attempt[a]]
    /\ UNCHANGED certs

Step(a, pc) == attempt' = [attempt EXCEPT ![a].pc = pc]

(* Endpoint::connect: not to oneself. The address is whose it is. *)
Connect(a, c, id, s) ==
    /\ attempt[a].pc \in {"idle", "connected", "refused"}
    /\ id # c
    /\ attempt' = [attempt EXCEPT ![a] =
            [Idle EXCEPT !.pc = "hello", !.client = c, !.dialed = id, !.server = s,
                         !.calm = (clock[c] = clock[s])]]
    /\ UNCHANGED <<clock, certs>>

(* A slip: a certificate is replaced the day after. *)
ExpiredLate(n, role) == clock[n] > certs[n][role].notAfter

(* CertResolver::cert: the date against the end of the validity. *)
Expired(n, role) == clock[n] >= certs[n][role].notAfter

(* alpn: the protocol name is that of the network. *)
Alpn(n) == <<"rad", Network[n]>>

(* ResolvesServerCert: the networks agree on a protocol, the name asked    *)
(* for is ours.                                                            *)
ResolveServer(a) ==
    LET t == attempt[a] s == t.server
    IN /\ t.pc = "hello"
       /\ IF Alpn(t.client) # Alpn(s) \/ FromDefaultEncoding(DefaultEncoding(t.dialed)) # s
          THEN Step(a, "refused")
          ELSE IF Expired(s, "server") THEN Step(a, "generate")
          ELSE attempt' = [attempt EXCEPT ![a].pc = "server cert", ![a].scert = certs[s].server]
       /\ UNCHANGED <<clock, certs>>

(* CertResolver::cert: a fresh certificate, which other handshakes may     *)
(* have made meanwhile too; the signer may fail.                           *)
GenerateServer(a) ==
    LET s == attempt[a].server
    IN /\ attempt[a].pc = "generate"
       /\ \/ /\ certs' = [certs EXCEPT ![s].server = Generate(s)]
             /\ attempt' = [attempt EXCEPT ![a].pc = "server cert", ![a].scert = Generate(s)]
          \/ /\ attempt' = [attempt EXCEPT ![a].pc = "refused", ![a].calm = FALSE]
             /\ UNCHANGED certs
       /\ UNCHANGED clock

(* verify_server_cert: for the name dialed, and not ourselves. *)
VerifyServerCert(c, dialed, cert) ==
    /\ ValidAt(cert, clock[c])
    /\ cert.name = DefaultEncoding(dialed)
    /\ FromDer(cert) = dialed
    /\ FromDer(cert) # c

VerifyServer(a) ==
    LET t == attempt[a] c == t.client
    IN /\ t.pc = "server cert"
       /\ IF ~VerifyServerCert(c, t.dialed, t.scert) THEN Step(a, "refused")
          ELSE IF Expired(c, "client") THEN Step(a, "generate client")
          ELSE attempt' = [attempt EXCEPT ![a].pc = "client cert", ![a].ccert = certs[c].client]
       /\ UNCHANGED <<clock, certs>>

GenerateClient(a) ==
    LET c == attempt[a].client
    IN /\ attempt[a].pc = "generate client"
       /\ \/ /\ certs' = [certs EXCEPT ![c].client = Generate(c)]
             /\ attempt' = [attempt EXCEPT ![a].pc = "client cert", ![a].ccert = Generate(c)]
          \/ /\ attempt' = [attempt EXCEPT ![a].pc = "refused", ![a].calm = FALSE]
             /\ UNCHANGED certs
       /\ UNCHANGED clock

(* verify_client_cert: any peer, but not ourselves. *)
VerifyClientCert(s, cert) ==
    /\ ValidAt(cert, clock[s])
    /\ FromDer(cert) \notin {"none", s}

VerifyClient(a) ==
    LET t == attempt[a]
    IN /\ t.pc = "client cert"
       /\ Step(a, IF VerifyClientCert(t.server, t.ccert) THEN "connected" ELSE "refused")
       /\ UNCHANGED <<clock, certs>>

(* remote_peer: who the server takes the client for. *)
RemotePeer(a) == FromDer(attempt[a].ccert)

TlsNext ==
    \/ \E n \in Hosts : Tick(n)
    \/ \E a \in Attempts :
        \/ \E c, id, s \in Hosts : Connect(a, c, id, s)
        \/ ResolveServer(a) \/ GenerateServer(a) \/ VerifyServer(a)
        \/ GenerateClient(a) \/ VerifyClient(a)

TlsSpec == TlsInit /\ [][TlsNext]_tlsVars

-----------------------------------------------------------------------------
(* However long a node has been running, a peer dialed where it listens is *)
(* connected to, by a client of the same network, when their clocks agree  *)
(* and no day passes meanwhile: no certificate presented has expired       *)
(* (tls.rs, CertResolver::cert). Of two connected peers, the client has    *)
(* the one it dialed, the server knows who called, and they are two.       *)
HonestConnects ==
    \A a \in Attempts :
        LET t == attempt[a]
        IN /\ (t.pc = "refused" /\ t.calm) => t.server # t.dialed \/ Network[t.client] # Network[t.server]
           /\ t.pc = "connected" => /\ t.dialed = t.server /\ t.client # t.server
                                    /\ RemotePeer(a) = t.client

-----------------------------------------------------------------------------
(***************************************************************************)
(* The streams of one QUIC connection: opening them (quic/connection.rs),  *)
(* agreeing on the protocol spoken over them (net/upgrade.rs), sending on  *)
(* them (protocol/io/send) and dispatching them at the other end           *)
(* (protocol/io/streams.rs, or rpc/client/streams.rs for a client without  *)
(* a listening endpoint).                                                  *)
(*                                                                         *)
(* Gossip and membership messages share one reserved unidirectional stream *)
(* each, opened by whoever needs it first; a request opens a bidirectional *)
(* stream of its own. A task opens at most one stream, so streams are      *)
(* named after the task that opened them.                                  *)
(*                                                                         *)
(* The bytes of an upgrade request are modelled as bytes, everything after *)
(* it as one number above 255 per frame.                                   *)
(***************************************************************************)
CONSTANT Tasks      \* the tasks sending over the connection, as numbers

Protocols == {"gossip", "git", "membership", "interrogation", "request_pull"}

\* The protocols whose messages go over a reserved stream.
Reserved == {"gossip", "membership"}

Discriminant ==
    [gossip |-> 0, git |-> 1, membership |-> 2, interrogation |-> 3, request_pull |-> 200]

VARIABLES
    want,       \* the protocol each task has something to send for
    side,       \* who accepts the streams: a "node", or a "client"
    conn,       \* "open" or "lost"
    pc,         \* progress of the tasks
    slot,       \* the reserved streams: <<>> or <<stream>>
    lock,       \* who holds the lock of a reservation, <<>> or <<task>>
    wire,       \* what was written to a stream and not yet read
    stopped,    \* streams the accepting side has closed
    reader,     \* what became of a stream at the accepting side
    sent,       \* messages sent over the reserved streams, in order
    got         \* messages read from them, in order

streamsVars == <<want, side, conn, pc, slot, lock, wire, stopped, reader, sent, got>>

Frame(t) == 256 + t

None == <<>>

-----------------------------------------------------------------------------
(***************************************************************************)
(* The upgrade request: a CBOR array of version and discriminant. Numbers  *)
(* up to 23 are a byte of their own, larger ones follow the byte 24.       *)
(***************************************************************************)

HeaderLen == 4

EncodeU8(n) == IF n <= 23 THEN <<n>> ELSE <<24, n>>

\* Mutant: no break character after a short discriminant.
EncodeUnpadded(p) == <<130>> \o EncodeU8(0) \o EncodeU8(Discriminant[p])

Encode(p) ==
    <<130>> \o EncodeU8(0) \o EncodeU8(Discriminant[p])
            \o (IF Discriminant[p] <= 23 THEN <<255>> ELSE <<>>)

\* The number at the head of buf, if there is one.
DecodeU8(buf) ==
    CASE buf # <<>> /\ Head(buf) <= 23                -> [ok |-> TRUE, n |-> Head(buf), rest |-> Tail(buf)]
      [] Len(buf) >= 2 /\ Head(buf) = 24              -> [ok |-> TRUE, n |-> buf[2], rest |-> Tail(Tail(buf))]
      [] OTHER                                        -> [ok |-> FALSE, n |-> 0, rest |-> <<>>]

Decode(buf) ==
    LET version == DecodeU8(Tail(buf))
        up      == DecodeU8(version.rest)
    IN  IF Head(buf) = 130 /\ version.ok /\ version.n = 0 /\ up.ok
        THEN {p \in Protocols : Discriminant[p] = up.n}
        ELSE {}

-----------------------------------------------------------------------------

StreamInit ==
    /\ want \in [Tasks -> Protocols]
    /\ side \in {"node", "client"}
    /\ conn = "open"
    /\ pc = [t \in Tasks |-> "ready"]
    /\ slot = [p \in Reserved |-> None]
    /\ lock = [p \in Reserved |-> None]
    /\ wire = [t \in Tasks |-> <<>>]
    /\ stopped = {}
    /\ reader = [t \in Tasks |-> "none"]
    /\ sent = [p \in Reserved |-> <<>>]
    /\ got = [p \in Reserved |-> <<>>]

At(t, from, to) == pc[t] = from /\ pc' = [pc EXCEPT ![t] = to]

Unlock(t) == [p \in Reserved |-> IF lock[p] = <<t>> THEN None ELSE lock[p]]

Writable(t) == t \notin stopped

\* Mutant: the reservation is looked at before its lock is taken.
BorrowUnlocked(t) ==
    /\ want[t] \in Reserved
    /\ At(t, "ready", IF slot[want[t]] = None THEN "open" ELSE "send")
    /\ UNCHANGED <<want, side, conn, slot, lock, wire, stopped, reader, sent, got>>

\* borrow_uni: under the lock of the reservation, open and upgrade a stream
\* if there is none yet.
Borrow(t) ==
    /\ want[t] \in Reserved
    /\ lock[want[t]] = None
    /\ At(t, "ready", IF slot[want[t]] = None THEN "open" ELSE "send")
    /\ lock' = [lock EXCEPT ![want[t]] = <<t>>]
    /\ UNCHANGED <<want, side, conn, slot, wire, stopped, reader, sent, got>>

\* request: a fresh stream.
Request(t) ==
    /\ want[t] \notin Reserved
    /\ At(t, "ready", "open")
    /\ UNCHANGED <<want, side, conn, slot, lock, wire, stopped, reader, sent, got>>

\* open_uni, open_bidi
Open(t) ==
    /\ conn = "open"
    /\ At(t, "open", "upgrade")
    /\ reader' = [reader EXCEPT ![t] = "incoming"]
    /\ UNCHANGED <<want, side, conn, slot, lock, wire, stopped, sent, got>>

Upgrade(t) ==
    /\ Writable(t)
    /\ At(t, "upgrade", "send")
    /\ wire' = [wire EXCEPT ![t] = @ \o Encode(want[t])]
    /\ slot' = IF want[t] \in Reserved THEN [slot EXCEPT ![want[t]] = <<t>>] ELSE slot
    /\ UNCHANGED <<want, side, conn, lock, stopped, reader, sent, got>>

Stream(t) == IF want[t] \in Reserved THEN slot[want[t]][1] ELSE t

\* A message over a reserved stream, which the lock is then released for.
SendRpc(t) ==
    /\ pc[t] = "send" /\ want[t] \in Reserved
    /\ Writable(Stream(t))
    /\ pc' = [pc EXCEPT ![t] = "sent"]
    /\ wire' = [wire EXCEPT ![Stream(t)] = Append(@, Frame(t))]
    /\ sent' = [sent EXCEPT ![want[t]] = Append(@, Frame(t))]
    /\ lock' = Unlock(t)
    /\ UNCHANGED <<want, side, conn, slot, stopped, reader, got>>

SendRequest(t) ==
    /\ want[t] \notin Reserved
    /\ Writable(t)
    /\ At(t, "send", "waiting")
    /\ wire' = [wire EXCEPT ![t] = Append(@, Frame(t))]
    /\ UNCHANGED <<want, side, conn, slot, lock, stopped, reader, sent, got>>

\* The response to a request.
Respond(t) ==
    /\ conn = "open" /\ reader[t] = "served"
    /\ At(t, "waiting", "answered")
    /\ UNCHANGED <<want, side, conn, slot, lock, wire, stopped, reader, sent, got>>

\* Nobody gets anything out of a closed connection: whoever still wants to
\* open, write to or read from a stream of it fails.
CloseConnection ==
    /\ conn' = "lost"
    /\ pc' = [t \in Tasks |-> IF pc[t] \in {"sent", "answered"} THEN pc[t] ELSE "failed"]
    /\ lock' = [p \in Reserved |-> None]
    /\ wire' = [t \in Tasks |-> <<>>]
    /\ UNCHANGED <<want, side, slot, stopped, reader, sent, got>>

\* on_stream_error: the other side does not take any more on this stream,
\* and the connection is closed on account of it.
StreamError(t) ==
    /\ \/ pc[t] \in {"upgrade", "waiting"} /\ t \in stopped
       \/ pc[t] = "send" /\ Stream(t) \in stopped
    /\ CloseConnection

-----------------------------------------------------------------------------
(***************************************************************************)
(* The accepting side. A node spawns a task for every stream; a client     *)
(* serves one git stream after the other, and gives up on anything         *)
(* unidirectional.                                                         *)
(***************************************************************************)

Accepts(t) == side = "node" \/ \A u \in Tasks : reader[u] \notin Protocols \cup {"upgrading"}

Incoming(t) ==
    /\ conn = "open" /\ reader[t] = "incoming" /\ Accepts(t)
    /\ IF side = "client" /\ want[t] \in Reserved
       THEN /\ reader' = [reader EXCEPT ![t] = "denied"]
            /\ stopped' = Tasks
       ELSE /\ reader' = [reader EXCEPT ![t] = "upgrading"]
            /\ UNCHANGED stopped
    /\ UNCHANGED <<want, side, conn, pc, slot, lock, wire, sent, got>>

\* The protocols served over a stream of t's kind.
Served(t) ==
    IF side = "client" THEN {"git"}
    ELSE IF want[t] \in Reserved THEN Reserved ELSE Protocols

WithUpgraded(t) ==
    LET up == Decode(SubSeq(wire[t], 1, HeaderLen)) \cap Served(t)
    IN  /\ conn = "open" /\ reader[t] = "upgrading" /\ Len(wire[t]) >= HeaderLen
        /\ wire' = [wire EXCEPT ![t] = SubSeq(@, HeaderLen + 1, Len(@))]
        /\ IF up = {}
           THEN /\ reader' = [reader EXCEPT ![t] = "denied"]
                /\ stopped' = stopped \cup {t}
           ELSE /\ reader' = [reader EXCEPT ![t] = CHOOSE p \in up : TRUE]
                /\ UNCHANGED stopped
        /\ UNCHANGED <<want, side, conn, pc, slot, lock, sent, got>>

\* RECV_UPGRADE_TIMEOUT
UpgradeTimeout(t) ==
    /\ conn = "open" /\ reader[t] = "upgrading" /\ Len(wire[t]) < HeaderLen
    /\ reader' = [reader EXCEPT ![t] = "denied"]
    /\ stopped' = stopped \cup {t}
    /\ UNCHANGED <<want, side, conn, pc, slot, lock, wire, sent, got>>

Recv(t) ==
    /\ conn = "open" /\ reader[t] \in Reserved /\ wire[t] # <<>>
    /\ got' = [got EXCEPT ![reader[t]] = Append(@, Head(wire[t]))]
    /\ wire' = [wire EXCEPT ![t] = Tail(@)]
    /\ UNCHANGED <<want, side, conn, pc, slot, lock, stopped, reader, sent>>

\* One request is read and answered, then the stream is dropped.
Serve(t) ==
    /\ conn = "open" /\ reader[t] \in Protocols \ Reserved /\ wire[t] # <<>>
    /\ wire' = [wire EXCEPT ![t] = Tail(@)]
    /\ reader' = [reader EXCEPT ![t] = "served"]
    /\ UNCHANGED <<want, side, conn, pc, slot, lock, stopped, sent, got>>

\* The connection times out, or is closed at either end.
ConnectionLost == conn = "open" /\ CloseConnection

-----------------------------------------------------------------------------

Send(t) ==
    \/ Borrow(t) \/ Request(t) \/ Open(t) \/ Upgrade(t) \/ SendRpc(t) \/ SendRequest(t)
    \/ StreamError(t) \/ Respond(t)

Accept(t) ==
    \/ Incoming(t) \/ WithUpgraded(t) \/ Recv(t) \/ Serve(t)

StreamNext ==
    \/ \E t \in Tasks : Send(t) \/ Accept(t) \/ UpgradeTimeout(t)
    \/ ConnectionLost

StreamSpec == StreamInit /\ [][StreamNext]_streamsVars

-----------------------------------------------------------------------------

\* What `UpgradeRequest` promises, "only valid as the first message sent by
\* the initiator of a fresh stream", with the four bytes it is assumed to
\* take up: a stream is handled as the protocol it was opened for, nothing of
\* the message following the request is lost to it, and, however the senders
\* interleave, the messages of a reserved protocol are read in the order sent.
StreamsKeepProtocol ==
    /\ \A t \in Tasks : reader[t] \in Protocols => reader[t] = want[t]
    /\ \A p \in Reserved : IsPrefix(got[p], sent[p])
    /\ \A t \in Tasks : \A i \in DOMAIN wire[t] :
          reader[t] \in Protocols \cup {"served"} => wire[t][i] > 255
=============================================================================
