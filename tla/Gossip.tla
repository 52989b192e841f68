------------------------------- MODULE Gossip -------------------------------
(***************************************************************************)
(* Broadcasting updates: librad/src/net/protocol/broadcast.rs with the     *)
(* storage behind it, librad/src/net/peer/storage.rs, and the receive loop *)
(* of librad/src/net/protocol/io/recv/gossip.rs.                           *)
(*                                                                         *)
(* A node that obtains something new says so (HAVE); whoever tracks it     *)
(* fetches it from the origin of the message and passes on a HAVE of its   *)
(* own. Who does not, or fails to, relays the message; who fails also      *)
(* asks for it again (WANT). Every connection has a loop that handles its  *)
(* messages one by one, while the loops of one node interleave whenever    *)
(* they wait for the storage or the network.                               *)
(*                                                                         *)
(* All updates concern one repository. An update is a revision as seen by  *)
(* some peer: what a node has is a set of pairs <<peer, revision>>.        *)
(* Payloads without a revision are left out.                               *)
(***************************************************************************)
EXTENDS Integers, Sequences, FiniteSets, SequencesExt

CONSTANTS
    Node,
    Rev,
    None,           \* no `origin` in a payload
    Announcers,     \* nodes whose user publishes revisions
    Nets            \* the networks to look at, and how much happens in each:
                    \*   links     a symmetric relation, who is connected to whom
                    \*   tracks    [Node -> SUBSET Node], whose view a node tracks
                    \*   known     nodes which have the repository from the start
                    \*   errors    bound: fetches that fail
                    \*   limits    bound: requests refused by a rate limiter
                    \*   announce  bound: announcements
                    \*   demote    bound: peers dropped from an active view

ASSUME NetsAssumption ==
    /\ Announcers \subseteq Node
    /\ \A n \in Nets : /\ n.links \subseteq Node \X Node
                       /\ {n.errors, n.limits, n.announce, n.demote} \subseteq Nat

VARIABLES
    net,        \* one of Nets
    members,    \* the active view of each node
    chan,       \* [link -> sequence of messages]: the gossip stream of a connection
    closed,     \* links whose receive loop was left
    handler,    \* [link -> what the receive loop is at]
    seen,       \* [Node -> the messages in the `seen` filter]
    stored,     \* [Node -> the views it has]
    filter,     \* nodes whose URN filter has the repository
    nonce,      \* [Node -> the number of messages originated]: stands for the random `seqno`
    errors, limited, announced, demoted

vars == <<net, members, chan, closed, handler, seen, stored, filter, nonce, errors, limited, announced,
          demoted>>

Links == net.links

Tracks == net.tracks

\* The origin and the seqno (`Ext::new`) identify a message, see its Hash; relaying
\* one increments the hop count, which nothing depends on.
Message(kind, origin, val, n) == [kind |-> kind, origin |-> origin, val |-> val, seqno |-> n]

Idle == [pc |-> "recv"]

-----------------------------------------------------------------------------
(***************************************************************************)
(* What a node has, as it can tell.                                        *)
(***************************************************************************)

\* `urn_context`: where to look for an update.
View(n, by) == IF by = None THEN n ELSE by

\* Mutant: the update may be anybody's.
HasAny(n, by, rev) == n \in filter /\ \E p \in Node : <<p, rev>> \in stored[n]

\* `git_has`, used by `ask` also: the URN filter is asked first.
GitHas(n, by, rev) == n \in filter /\ <<View(n, by), rev>> \in stored[n]

\* `put` assumes the provider's own view if the payload does not tell.
OriginOf(m) == IF m.val.by = None THEN m.origin ELSE m.val.by

-----------------------------------------------------------------------------
Init ==
    /\ net \in Nets
    /\ members = [n \in Node |-> {p \in Node : <<p, n>> \in Links}]
    /\ chan = [l \in Links |-> <<>>]
    /\ closed = {}
    /\ handler = [l \in Links |-> Idle]
    /\ seen = [n \in Node |-> {}]
    /\ stored = [n \in Node |-> {}]
    /\ filter = net.known
    /\ nonce = [n \in Node |-> 0]
    /\ errors = 0 /\ limited = 0 /\ announced = 0 /\ demoted = 0

\* SendConnected to a set of members.
Send(n, m, tos) ==
    chan' = [l \in Links |-> IF l[1] = n /\ l[2] \in tos /\ l \notin closed
                             THEN Append(chan[l], m) ELSE chan[l]]

Broadcast(n, m, except) == Send(n, m, members[n] \ except)

\* A message of one's own.
Fresh(kind, n, val) == Message(kind, n, val, nonce[n] + 1)

Count(n) == nonce' = [nonce EXCEPT ![n] = @ + 1]

\* A revision is created locally, and announced to all members.
Announce(n, rev, by) ==
    /\ announced < net.announce
    /\ n \in filter
    /\ <<n, rev>> \notin stored[n]
    /\ announced' = announced + 1
    /\ stored' = [stored EXCEPT ![n] = @ \cup {<<n, rev>>}]
    /\ Broadcast(n, Fresh("Have", n, [by |-> by, rev |-> rev]), {})
    /\ Count(n)
    /\ UNCHANGED <<net, members, closed, handler, seen, filter, errors, limited, demoted>>

\* The URN filter takes notice of a repository some time after it was created.
Recache(n) ==
    /\ n \notin filter
    /\ stored[n] # {}
    /\ filter' = filter \cup {n}
    /\ UNCHANGED <<net, members, chan, closed, handler, seen, stored, nonce, errors, limited, announced, demoted>>

-----------------------------------------------------------------------------
(***************************************************************************)
(* The receive loop of node l[2] for the stream from node l[1], up to the  *)
(* storage. `seen` is read under one lock and written under another.       *)
(***************************************************************************)

Recv(l) ==
    /\ handler[l] = Idle
    /\ l \notin closed
    /\ chan[l] # <<>>
    /\ chan' = [chan EXCEPT ![l] = Tail(@)]
    /\ handler' = IF Head(chan[l]) \in seen[l[2]] THEN handler
                  ELSE [handler EXCEPT ![l] = [pc |-> "insert", m |-> Head(chan[l])]]
    /\ UNCHANGED <<net, members, closed, seen, stored, filter, nonce, errors, limited, announced, demoted>>

\* Mutant: only what the node has an interest in is remembered.
InsertTracked(l) ==
    LET m == handler[l].m
    IN  /\ handler[l].pc = "insert"
        /\ seen' = IF OriginOf(m) \in Tracks[l[2]] THEN [seen EXCEPT ![l[2]] = @ \cup {m}] ELSE seen
        /\ handler' = [handler EXCEPT ![l].pc = IF l[1] \in members[l[2]] THEN m.kind ELSE "unsolicited"]
        /\ UNCHANGED <<net, members, chan, closed, stored, filter, nonce, errors, limited, announced, demoted>>

Insert(l) ==
    LET m == handler[l].m
    IN  /\ handler[l].pc = "insert"
        /\ seen' = [seen EXCEPT ![l[2]] = @ \cup {m}]
        /\ handler' = [handler EXCEPT ![l].pc = IF l[1] \in members[l[2]] THEN m.kind ELSE "unsolicited"]
        /\ UNCHANGED <<net, members, chan, closed, stored, filter, nonce, errors, limited, announced, demoted>>

\* The views have diverged: a DISCONNECT is sent back, and the loop is left.
Unsolicited(l) ==
    /\ handler[l].pc = "unsolicited"
    /\ closed' = closed \cup {l}
    /\ chan' = [chan EXCEPT ![l] = <<>>]
    /\ handler' = [handler EXCEPT ![l] = Idle]
    /\ UNCHANGED <<net, members, seen, stored, filter, nonce, errors, limited, announced, demoted>>

\* The DISCONNECT arrives: the sender drops the receiver from its active view.
Disconnected(l) ==
    /\ l \in closed
    /\ l[2] \in members[l[1]]
    /\ members' = [members EXCEPT ![l[1]] = @ \ {l[2]}]
    /\ UNCHANGED <<net, chan, closed, handler, seen, stored, filter, nonce, errors, limited, announced, demoted>>

\* The membership protocol drops a peer from the active view of one side.
Demote(n, p) ==
    /\ demoted < net.demote
    /\ p \in members[n]
    /\ demoted' = demoted + 1
    /\ members' = [members EXCEPT ![n] = @ \ {p}]
    /\ UNCHANGED <<net, chan, closed, handler, seen, stored, filter, nonce, errors, limited, announced>>

-----------------------------------------------------------------------------
(***************************************************************************)
(* HAVE: `Storage::put` and what is sent for its results.                  *)
(***************************************************************************)

Done(l) == handler' = [handler EXCEPT ![l] = Idle]

\* The message goes to all others, its origin stays.
Relay(l) == Broadcast(l[2], handler[l].m, {l[1]})

PutUninteresting(l) ==
    LET n == l[2]  m == handler[l].m
    IN  /\ handler[l].pc = "Have"
        /\ OriginOf(m) \notin Tracks[n]
        /\ Relay(l)
        /\ Done(l)
        /\ UNCHANGED <<net, members, closed, seen, stored, filter, nonce, errors, limited, announced, demoted>>

PutKnown(l) ==
    LET n == l[2]  m == handler[l].m
    IN  /\ handler[l].pc = "Have"
        /\ OriginOf(m) \in Tracks[n]
        /\ GitHas(n, OriginOf(m), m.val.rev)
        /\ Done(l)
        /\ UNCHANGED <<net, members, chan, closed, seen, stored, filter, nonce, errors, limited, announced, demoted>>

\* What `git_fetch` is up to if the object is not known.
Fetching(l) ==
    LET n == l[2]  m == handler[l].m
    IN  /\ handler[l].pc = "Have"
        /\ OriginOf(m) \in Tracks[n]
        /\ ~GitHas(n, OriginOf(m), m.val.rev)

PutRateLimited(l) ==
    /\ Fetching(l)
    /\ limited < net.limits
    /\ limited' = limited + 1
    /\ Done(l)
    /\ UNCHANGED <<net, members, chan, closed, seen, stored, filter, nonce, errors, announced, demoted>>

\* Replication transfers the tracked views the provider has.
PutFetched(l) ==
    LET n == l[2]  m == handler[l].m
    IN  /\ Fetching(l)
        /\ stored' = [stored EXCEPT ![n] =
                          @ \cup {v \in stored[m.origin] : v[1] \in Tracks[n]}]
        /\ handler' = [handler EXCEPT ![l].pc = "fetched"]
        /\ UNCHANGED <<net, members, chan, closed, seen, filter, nonce, errors, limited, announced, demoted>>

\* Mutant: failed updates are not asked for again.
PutErrorNoWant(l) ==
    LET n == l[2]  m == handler[l].m
    IN  /\ handler[l].pc = "Have"
        /\ errors < net.errors
        /\ errors' = errors + 1
        /\ Relay(l)
        /\ Done(l)
        /\ UNCHANGED <<net, members, closed, seen, stored, filter, nonce, limited, announced, demoted>>

\* The tracking status cannot be determined, or the fetch fails: relay, then ask everybody
\* for retransmission, unless there are too many errors.
PutError(l) ==
    LET n == l[2]  m == handler[l].m
    IN  /\ handler[l].pc = "Have"
        /\ errors < net.errors
        /\ errors' = errors + 1
        /\ \/ /\ limited < net.limits
              /\ limited' = limited + 1
              /\ Relay(l)
              /\ UNCHANGED nonce
           \/ /\ chan' = [k \in Links |->
                     IF k[1] = n /\ k[2] \in members[n] /\ k \notin closed
                     THEN chan[k] \o (IF k[2] = l[1] THEN <<>> ELSE <<m>>)
                                  \o <<Fresh("Want", n, m.val)>>
                     ELSE chan[k]]
              /\ Count(n)
              /\ UNCHANGED limited
        /\ Done(l)
        /\ UNCHANGED <<net, members, closed, seen, stored, filter, announced, demoted>>

\* The update is passed on only if it is really there.
Verified(l) == GitHas(l[2], OriginOf(handler[l].m), handler[l].m.val.rev)

PutApplied(l) ==
    LET n == l[2]  m == handler[l].m
    IN  /\ handler[l].pc = "fetched"
        /\ Verified(l)
        /\ Broadcast(n, Fresh("Have", n, [by |-> OriginOf(m), rev |-> m.val.rev]), {l[1]})
        /\ Count(n)
        /\ Done(l)
        /\ UNCHANGED <<net, members, closed, seen, stored, filter, errors, limited, announced, demoted>>

PutStale(l) ==
    /\ handler[l].pc = "fetched"
    /\ ~Verified(l)
    /\ Done(l)
    /\ UNCHANGED <<net, members, chan, closed, seen, stored, filter, nonce, errors, limited, announced, demoted>>

-----------------------------------------------------------------------------
(***************************************************************************)
(* WANT                                                                    *)
(***************************************************************************)

WantRateLimited(l) ==
    /\ handler[l].pc = "Want"
    /\ limited < net.limits
    /\ limited' = limited + 1
    /\ Done(l)
    /\ UNCHANGED <<net, members, chan, closed, seen, stored, filter, nonce, errors, announced, demoted>>

\* Mutant: any view of the revision will do.
AskAny(n, val) == HasAny(n, val.by, val.rev)

Ask(n, val) == GitHas(n, val.by, val.rev)

\* The reply goes to who asks, if it is they who sent the message.
WantHave(l) ==
    LET n == l[2]  m == handler[l].m
    IN  /\ handler[l].pc = "Want"
        /\ Ask(n, m.val)
        /\ IF m.origin = l[1] THEN Send(n, Fresh("Have", n, m.val), {l[1]})
                              ELSE Broadcast(n, Fresh("Have", n, m.val), {l[1]})
        /\ Count(n)
        /\ Done(l)
        /\ UNCHANGED <<net, members, closed, seen, stored, filter, errors, limited, announced, demoted>>

WantRelay(l) ==
    LET n == l[2]  m == handler[l].m
    IN  /\ handler[l].pc = "Want"
        /\ ~Ask(n, m.val)
        /\ Relay(l)
        /\ Done(l)
        /\ UNCHANGED <<net, members, closed, seen, stored, filter, nonce, errors, limited, announced, demoted>>

-----------------------------------------------------------------------------
Loop(l) ==
    \/ Recv(l) \/ Insert(l) \/ Unsolicited(l)
    \/ PutUninteresting(l) \/ PutKnown(l) \/ PutRateLimited(l) \/ PutFetched(l)
    \/ PutError(l) \/ PutApplied(l) \/ PutStale(l)
    \/ WantRateLimited(l) \/ WantHave(l) \/ WantRelay(l)

Progress == (\E l \in Links : Loop(l)) \/ (\E n \in Node : Recache(n))

Next ==
    \/ \E n \in Announcers, r \in Rev : \E by \in {n, None} : Announce(n, r, by)
    \/ Progress
    \/ \E n, p \in Node : Demote(n, p)
    \/ \E l \in Links : Disconnected(l)

Spec == Init /\ [][Next]_vars

\* The receive loops are driven by the runtime and the recache thread by the
\* operating system: something that can go on does. Nobody has to announce anything.
FairSpec == Spec /\ WF_vars(Progress)

-----------------------------------------------------------------------------
InFlight ==
    (UNION {ToSet(chan[l]) : l \in Links}) \cup
        {handler[l].m : l \in {k \in Links : handler[k] # Idle}}

\* What is claimed can be had: whoever is named as the origin of a HAVE has the
\* revision of the view it speaks of, so that `put` of the receiver can fetch it
\* ("everyone down the line may now fetch that remote from us"), however often the
\* message was relayed and whatever the storage did in between.
HaveIsTrue ==
    \A m \in InFlight : m.kind = "Have" => <<OriginOf(m), m.val.rev>> \in stored[m.origin]

\* Broadcasts end, though messages are relayed in circles by peers who cannot use
\* them, and two loops of one node may both miss a message in `seen`.  By then
\* whoever tracks a view has every announced revision of it: by a relayed message,
\* or by a retransmission if the fetch has failed; unless a rate limiter or the
\* membership protocol was in the way, or a peer whose filter had not caught up did
\* not pass it on.
Disseminates ==
    <>[](/\ InFlight = {}
         /\ \/ demoted > 0 \/ limited > 0 \/ net.known # Node
            \/ \A n \in Node : \A p \in Tracks[n], r \in Rev :
                   <<p, r>> \in stored[p] => <<p, r>> \in stored[n])
=============================================================================
