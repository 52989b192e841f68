---------------------------- MODULE GossipProofs ----------------------------
(***************************************************************************)
(* What gossip claims is true, for any nodes, any network, any number of   *)
(* announcements, errors, rate limits and broken links, and under every    *)
(* interleaving of the receive loops.                                      *)
(***************************************************************************)
EXTENDS Gossip, SequenceTheorems, TLAPS

Msg == [kind : {"Have", "Want"}, origin : Node, val : [by : Node \cup {None}, rev : Rev],
        seqno : Nat]

\* The messages whose claim holds in these storages: the origin of a HAVE has the
\* revision of the view it speaks of.
Truths(st) ==
    {m \in Msg : m.kind = "Have" => <<OriginOf(m), m.val.rev>> \in st[m.origin]}

\* What a receive loop can be at, with messages of S.
Stages(S) ==
    {Idle} \cup [pc : {"insert", "unsolicited", "Have", "Want", "fetched"}, m : S]

Storages == [Node -> SUBSET (Node \X Rev)]

\* Only true messages are on their way or being handled.
GossipInv ==
    /\ net \in Nets
    /\ stored \in Storages
    /\ nonce \in [Node -> Nat]
    /\ chan \in [Links -> Seq(Truths(stored))]
    /\ handler \in [Links -> Stages(Truths(stored))]

-----------------------------------------------------------------------------
\* Sequences over a set are sequences over a larger one.
LEMMA SeqGrows ==
    ASSUME NEW S, NEW T, S \subseteq T
    PROVE  Seq(S) \subseteq Seq(T)
<1> SUFFICES ASSUME NEW s \in Seq(S) PROVE s \in Seq(T)
  OBVIOUS
<1>1. Len(s) \in Nat /\ s = [i \in 1 .. Len(s) |-> s[i]] /\ \A i \in 1 .. Len(s) : s[i] \in S
  BY LenProperties, ElementOfSeq
<1> QED
  BY <1>1, IsASeq

\* What a node has it keeps, so what was true stays true.
LEMMA TruthsGrow ==
    ASSUME NEW st \in Storages, NEW st2 \in Storages, \A n \in Node : st[n] \subseteq st2[n]
    PROVE  Truths(st) \subseteq Truths(st2)
BY DEF Truths, Msg

LEMMA StagesGrow ==
    ASSUME NEW S, NEW T, S \subseteq T
    PROVE  Stages(S) \subseteq Stages(T)
BY DEF Stages

\* A receive loop that has a message is not idle, and its message is a true one.
LEMMA Handled ==
    ASSUME GossipInv, NEW l \in Links, handler[l].pc # "recv"
    PROVE  /\ handler[l] \in [pc : {"insert", "unsolicited", "Have", "Want", "fetched"},
                              m : Truths(stored)]
           /\ handler[l].m \in Truths(stored)
BY DEF GossipInv, Stages, Idle

\* Both ends of a link are nodes.
LEMMA LinkEnds ==
    ASSUME GossipInv, NEW l \in Links
    PROVE  l[1] \in Node /\ l[2] \in Node
BY NetsAssumption DEF GossipInv, Links

\* A step in which the storages grow, messages are sent that are true now, and loops
\* go on with a message that is true, keeps the invariant.
LEMMA StepKeeps ==
    ASSUME GossipInv, net' = net, stored' \in Storages,
           \A n \in Node : stored[n] \subseteq stored'[n],
           nonce' \in [Node -> Nat],
           chan' \in [Links -> Seq(Truths(stored'))],
           handler' \in [Links -> Stages(Truths(stored'))]
    PROVE  GossipInv'
BY DEF GossipInv, Links

\* Sending a true message to any set of peers leaves only true ones on the way.
LEMMA SendKeeps ==
    ASSUME GossipInv, NEW st \in Storages, \A n \in Node : stored[n] \subseteq st[n],
           NEW n, NEW m \in Truths(st), NEW tos, Send(n, m, tos)
    PROVE  chan' \in [Links -> Seq(Truths(st))]
<1>1. \A l \in Links : chan[l] \in Seq(Truths(st))
  <2>1. Seq(Truths(stored)) \subseteq Seq(Truths(st))
    BY TruthsGrow, SeqGrows DEF GossipInv
  <2> QED
    BY <2>1 DEF GossipInv
<1>2. \A l \in Links : Append(chan[l], m) \in Seq(Truths(st))
  BY <1>1, AppendProperties
<1> QED
  BY <1>1, <1>2 DEF Send

\* A message made by a node is a true one if it is a WANT, or a HAVE of what the node
\* has in the view it tells of.
LEMMA FreshIsTrue ==
    ASSUME GossipInv, NEW st \in Storages, NEW n \in Node, NEW kind \in {"Have", "Want"},
           NEW val \in [by : Node \cup {None}, rev : Rev],
           kind = "Have" => <<View(n, val.by), val.rev>> \in st[n]
    PROVE  Fresh(kind, n, val) \in Truths(st)
<1>1. nonce[n] + 1 \in Nat
  BY DEF GossipInv
<1> DEFINE m == Fresh(kind, n, val)
<1>2. m \in Msg /\ m.kind = kind /\ m.origin = n /\ m.val = val
  BY <1>1 DEF Fresh, Message, Msg
<1>3. OriginOf(m) = View(n, val.by)
  BY <1>2 DEF OriginOf, View
<1> HIDE DEF m
<1>4. m \in Truths(st)
  BY <1>2, <1>3 DEF Truths
<1> QED
  BY <1>4 DEF m

\* A loop that is done, or goes on to another stage with its message.
LEMMA DoneKeeps ==
    ASSUME GossipInv, NEW l \in Links, Done(l)
    PROVE  handler' \in [Links -> Stages(Truths(stored))]
BY DEF GossipInv, Done, Stages

\* Counting a message keeps the number a number.
LEMMA CountKeeps ==
    ASSUME GossipInv, NEW n \in Node, Count(n)
    PROVE  nonce' \in [Node -> Nat]
BY DEF GossipInv, Count

\* Nothing is stored, and nothing new is told.
LEMMA QuietKeeps ==
    ASSUME GossipInv, UNCHANGED <<net, stored, nonce>>,
           chan' \in [Links -> Seq(Truths(stored))],
           handler' \in [Links -> Stages(Truths(stored))]
    PROVE  GossipInv'
BY StepKeeps DEF GossipInv

-----------------------------------------------------------------------------
(***************************************************************************)
(* The steps.                                                              *)
(***************************************************************************)
\* A revision is stored before it is announced.
LEMMA AnnounceKeeps ==
    ASSUME GossipInv, NEW n \in Announcers, NEW r \in Rev, NEW by \in {n, None},
           Announce(n, r, by)
    PROVE  GossipInv'
<1>1. n \in Node
  BY NetsAssumption
<1>2. /\ stored' = [stored EXCEPT ![n] = @ \cup {<<n, r>>}]
      /\ Broadcast(n, Fresh("Have", n, [by |-> by, rev |-> r]), {})
      /\ Count(n) /\ UNCHANGED <<net, handler>>
  BY DEF Announce
<1>3. stored' \in Storages /\ (\A k \in Node : stored[k] \subseteq stored'[k]) /\ <<n, r>> \in stored'[n]
  BY <1>1, <1>2 DEF GossipInv, Storages
<1>4. Fresh("Have", n, [by |-> by, rev |-> r]) \in Truths(stored')
  <2>1. View(n, by) = n
    BY DEF View
  <2> QED
    BY <1>1, <1>3, <2>1, FreshIsTrue
<1>5. chan' \in [Links -> Seq(Truths(stored'))]
  BY <1>2, <1>3, <1>4, SendKeeps, Zenon DEF Broadcast
<1>6. handler' \in [Links -> Stages(Truths(stored'))]
  <2>1. Truths(stored) \subseteq Truths(stored')
    BY <1>3, TruthsGrow DEF GossipInv
  <2>2. Stages(Truths(stored)) \subseteq Stages(Truths(stored'))
    BY <2>1, StagesGrow
  <2> QED
    BY <1>2, <2>2, Zenon DEF GossipInv
<1> QED
  BY <1>1, <1>2, <1>3, <1>5, <1>6, CountKeeps, StepKeeps, Zenon

\* The receive loop, up to the storage.
LEMMA RecvKeeps ==
    ASSUME GossipInv, NEW l \in Links, Recv(l) \/ Insert(l) \/ Unsolicited(l)
    PROVE  GossipInv'
<1>1. CASE Recv(l)
  <2> DEFINE m == Head(chan[l])
  <2>1. /\ chan[l] # <<>> /\ chan' = [chan EXCEPT ![l] = Tail(@)]
        /\ handler' = IF m \in seen[l[2]] THEN handler
                      ELSE [handler EXCEPT ![l] = [pc |-> "insert", m |-> m]]
        /\ UNCHANGED <<net, stored, nonce>>
    BY <1>1 DEF Recv
  <2>2. chan[l] \in Seq(Truths(stored))
    BY DEF GossipInv
  <2>3. m \in Truths(stored) /\ Tail(chan[l]) \in Seq(Truths(stored))
    BY <2>1, <2>2, HeadTailProperties
  <2> HIDE DEF m
  <2>4. chan' \in [Links -> Seq(Truths(stored))]
    BY <2>1, <2>3 DEF GossipInv
  <2>5. handler' \in [Links -> Stages(Truths(stored))]
    BY <2>1, <2>3 DEF GossipInv, Stages
  <2> QED
    BY <2>1, <2>4, <2>5, QuietKeeps
<1>2. CASE Insert(l)
  <2>1. /\ handler[l].pc = "insert"
        /\ handler' = [handler EXCEPT ![l].pc = IF l[1] \in members[l[2]] THEN handler[l].m.kind
                                                ELSE "unsolicited"]
        /\ UNCHANGED <<net, chan, stored, nonce>>
    BY <1>2 DEF Insert
  <2>2. handler[l].m.kind \in {"Have", "Want"}
    BY <2>1, Handled, ZenonT(40) DEF Truths, Msg
  <2>3. handler' \in [Links -> Stages(Truths(stored))]
    BY <2>1, <2>2, Handled DEF GossipInv, Stages
  <2> QED
    BY <2>1, <2>3, QuietKeeps DEF GossipInv
<1>3. CASE Unsolicited(l)
  <2>1. /\ chan' = [chan EXCEPT ![l] = <<>>] /\ Done(l)
        /\ UNCHANGED <<net, stored, nonce>>
    BY <1>3 DEF Unsolicited, Done
  <2>2. <<>> \in Seq(Truths(stored))
    BY EmptySeq
  <2>3. chan' \in [Links -> Seq(Truths(stored))]
    BY <2>1, <2>2 DEF GossipInv
  <2> QED
    BY <2>1, <2>3, DoneKeeps, QuietKeeps
<1> QED
  BY <1>1, <1>2, <1>3

\* Relaying a message, of which the claim is about its origin.
LEMMA RelayKeeps ==
    ASSUME GossipInv, NEW l \in Links, handler[l].pc # "recv", Relay(l), Done(l),
           UNCHANGED <<net, stored, nonce>>
    PROVE  GossipInv'
<1>1. stored \in Storages
  BY DEF GossipInv
<1>2. chan' \in [Links -> Seq(Truths(stored))]
  BY <1>1, Handled, SendKeeps DEF Relay, Broadcast
<1> QED
  BY <1>2, DoneKeeps, QuietKeeps

\* `put`, when it does not come to a fetch.
LEMMA PutEndsKeeps ==
    ASSUME GossipInv, NEW l \in Links,
           PutUninteresting(l) \/ PutKnown(l) \/ PutRateLimited(l) \/ PutStale(l)
           \/ WantRateLimited(l) \/ WantRelay(l)
    PROVE  GossipInv'
<1>1. CASE PutUninteresting(l) \/ WantRelay(l)
  BY <1>1, RelayKeeps DEF PutUninteresting, WantRelay
<1>2. CASE PutKnown(l) \/ PutRateLimited(l) \/ PutStale(l) \/ WantRateLimited(l)
  <2>1. Done(l) /\ UNCHANGED <<net, stored, nonce, chan>>
    BY <1>2 DEF PutKnown, PutRateLimited, PutStale, WantRateLimited
  <2> QED
    BY <2>1, DoneKeeps, QuietKeeps DEF GossipInv
<1> QED
  BY <1>1, <1>2

\* A fetch only adds to the storage.
LEMMA PutFetchedKeeps ==
    ASSUME GossipInv, NEW l \in Links, PutFetched(l)
    PROVE  GossipInv'
<1> DEFINE n == l[2]
           m == handler[l].m
           got == {v \in stored[m.origin] : v[1] \in Tracks[n]}
<1>1. /\ handler[l].pc = "Have"
      /\ stored' = [stored EXCEPT ![n] = @ \cup got]
      /\ handler' = [handler EXCEPT ![l].pc = "fetched"]
      /\ UNCHANGED <<net, chan, nonce>>
  BY DEF PutFetched, Fetching
<1>2. n \in Node /\ m \in Truths(stored) /\ m.origin \in Node
  BY <1>1, LinkEnds, Handled DEF Truths, Msg
<1>3. got \subseteq Node \X Rev
  BY <1>2 DEF GossipInv, Storages
<1> HIDE DEF got, n
<1>4. stored' \in Storages /\ \A k \in Node : stored[k] \subseteq stored'[k]
  BY <1>1, <1>2, <1>3 DEF GossipInv, Storages
<1>5. Truths(stored) \subseteq Truths(stored')
  BY <1>4, TruthsGrow, Zenon DEF GossipInv
<1>6. chan' \in [Links -> Seq(Truths(stored'))]
  BY <1>1, <1>5, SeqGrows, Zenon DEF GossipInv
<1>7. handler' \in [Links -> Stages(Truths(stored))]
  BY <1>1, Handled, ZenonT(40) DEF GossipInv, Stages
<1>8. handler' \in [Links -> Stages(Truths(stored'))]
  BY <1>5, <1>7 DEF Stages
<1> QED
  BY <1>1, <1>4, <1>6, <1>8, StepKeeps, Zenon DEF GossipInv

\* A failed fetch: the message is relayed, and asked for again.
LEMMA PutErrorKeeps ==
    ASSUME GossipInv, NEW l \in Links, PutError(l)
    PROVE  GossipInv'
<1> DEFINE n == l[2]
           m == handler[l].m
           want == Fresh("Want", n, m.val)
<1>1. handler[l].pc = "Have" /\ Done(l) /\ UNCHANGED <<net, stored>>
  BY DEF PutError
<1>2. \/ Relay(l) /\ UNCHANGED nonce
      \/ /\ chan' = [k \in Links |->
               IF k[1] = n /\ k[2] \in members[n] /\ k \notin closed
               THEN chan[k] \o (IF k[2] = l[1] THEN <<>> ELSE <<m>>) \o <<want>>
               ELSE chan[k]]
         /\ Count(n)
  BY Zenon DEF PutError
<1>3. n \in Node /\ m \in Truths(stored) /\ m.val \in [by : Node \cup {None}, rev : Rev]
  BY <1>1, LinkEnds, Handled DEF Truths, Msg
<1>4. want \in Truths(stored)
  BY <1>3, FreshIsTrue DEF GossipInv
<1>5. CASE Relay(l) /\ UNCHANGED nonce
  BY <1>1, <1>5, RelayKeeps
<1>6. CASE ~(Relay(l) /\ UNCHANGED nonce)
  <2> HIDE DEF want, m, n
  <2>1. \A k \in Links : chan[k] \in Seq(Truths(stored))
    BY DEF GossipInv
  <2>2. <<>> \in Seq(Truths(stored)) /\ <<m>> \in Seq(Truths(stored)) /\ <<want>> \in Seq(Truths(stored))
    BY <1>3, <1>4
  <2>3. \A k \in Links : chan[k] \o (IF k[2] = l[1] THEN <<>> ELSE <<m>>) \in Seq(Truths(stored))
    BY <2>1, <2>2, ConcatProperties
  <2>4. \A k \in Links : chan[k] \o (IF k[2] = l[1] THEN <<>> ELSE <<m>>) \o <<want>> \in Seq(Truths(stored))
    BY <2>2, <2>3, ConcatProperties
  <2>5. chan' \in [Links -> Seq(Truths(stored))]
    BY <1>2, <1>6, <2>1, <2>4, ZenonT(40)
  <2> QED
    BY <1>1, <1>2, <1>3, <1>6, <2>5, CountKeeps, DoneKeeps, StepKeeps DEF GossipInv
<1> QED
  BY <1>5, <1>6

\* A HAVE of one's own is sent when the object is in the storage, as asked or fetched.
LEMMA HaveKeeps ==
    ASSUME GossipInv, NEW l \in Links, PutApplied(l) \/ WantHave(l)
    PROVE  GossipInv'
<1> DEFINE n == l[2]
           m == handler[l].m
           val == IF PutApplied(l) THEN [by |-> OriginOf(m), rev |-> m.val.rev] ELSE m.val
           have == Fresh("Have", n, val)
<1>1. handler[l].pc # "recv" /\ Done(l) /\ Count(n) /\ UNCHANGED <<net, stored>>
  BY DEF PutApplied, WantHave
<1>2. n \in Node /\ m \in Truths(stored)
  BY <1>1, LinkEnds, Handled
<1>3. /\ m.val \in [by : Node \cup {None}, rev : Rev] /\ m.origin \in Node
      /\ m.val.by \in Node \cup {None} /\ m.val.rev \in Rev
  BY <1>2 DEF Truths, Msg
<1>4. val \in [by : Node \cup {None}, rev : Rev] /\ GitHas(n, val.by, val.rev)
  <2>1. CASE PutApplied(l)
    <3>1. GitHas(n, OriginOf(m), m.val.rev)
      BY <2>1 DEF PutApplied, Verified
    <3>2. OriginOf(m) \in Node \cup {None}
      BY <1>3 DEF OriginOf
    <3> QED
      BY <1>3, <2>1, <3>1, <3>2
  <2>2. CASE ~PutApplied(l)
    BY <1>3, <2>2 DEF WantHave, Ask
  <2> QED
    BY <2>1, <2>2
<1>5. \E tos : Send(n, have, tos)
  <2>1. CASE PutApplied(l)
    BY <2>1 DEF PutApplied, Broadcast
  <2>2. CASE ~PutApplied(l)
    BY <2>2 DEF WantHave, Broadcast
  <2> QED
    BY <2>1, <2>2
<1> HIDE DEF val
<1>6. have \in Truths(stored)
  BY <1>2, <1>4, FreshIsTrue DEF GossipInv, GitHas
<1> HIDE DEF have, n
<1>7. chan' \in [Links -> Seq(Truths(stored))]
  BY <1>5, <1>6, SendKeeps DEF GossipInv
<1> QED
  BY <1>1, <1>2, <1>7, CountKeeps, DoneKeeps, StepKeeps DEF GossipInv

-----------------------------------------------------------------------------
\* At first nothing is stored and nothing is on its way.
LEMMA InitGossipInv == Init => GossipInv
<1> SUFFICES ASSUME Init PROVE GossipInv
  OBVIOUS
<1>1. <<>> \in Seq(Truths(stored))
  BY EmptySeq
<1> QED
  BY <1>1 DEF Init, GossipInv, Storages, Stages

\* The invariant is inductive.
LEMMA NextGossipInv == GossipInv /\ [Next]_vars => GossipInv'
<1> SUFFICES ASSUME GossipInv, [Next]_vars PROVE GossipInv'
  OBVIOUS
<1>1. ASSUME NEW l \in Links, Loop(l)
      PROVE  GossipInv'
  BY <1>1, RecvKeeps, PutEndsKeeps, PutFetchedKeeps, PutErrorKeeps, HaveKeeps DEF Loop
<1>2. ASSUME NEW n \in Announcers, NEW r \in Rev, NEW by \in {n, None}, Announce(n, r, by)
      PROVE  GossipInv'
  BY <1>2, AnnounceKeeps
<1>3. ASSUME UNCHANGED <<net, stored, nonce, chan, handler>>
      PROVE  GossipInv'
  BY <1>3, QuietKeeps DEF GossipInv
<1>4. ASSUME NEW n \in Node, NEW p \in Node, Recache(n) \/ Demote(n, p)
      PROVE  GossipInv'
  BY <1>3, <1>4 DEF Recache, Demote
<1>5. ASSUME NEW l \in Links, Disconnected(l)
      PROVE  GossipInv'
  BY <1>3, <1>5 DEF Disconnected
<1>6. CASE UNCHANGED vars
  BY <1>3, <1>6 DEF vars
<1> QED
  BY <1>1, <1>2, <1>4, <1>5, <1>6 DEF Next, Progress

\* For any network: whoever is named as the origin of a HAVE that is on its way or
\* being handled has the revision of the view it speaks of (HaveIsTrue), however often
\* it was relayed, and whatever failed, was refused or was stored in between.
THEOREM ClaimsAreTrue == Spec => []HaveIsTrue
<1>1. GossipInv => HaveIsTrue
  <2> SUFFICES ASSUME GossipInv, NEW m \in InFlight
               PROVE  m \in Truths(stored)
    BY DEF HaveIsTrue, Truths
  <2>1. ASSUME NEW l \in Links, m \in ToSet(chan[l])
        PROVE  m \in Truths(stored)
    <3>1. chan[l] \in Seq(Truths(stored))
      BY DEF GossipInv
    <3> QED
      BY <2>1, <3>1 DEF ToSet
  <2>2. ASSUME NEW l \in Links, handler[l] # Idle, m = handler[l].m
        PROVE  m \in Truths(stored)
    BY <2>2 DEF GossipInv, Stages
  <2>3. CASE m \in UNION {ToSet(chan[l]) : l \in Links}
    BY <2>1, <2>3
  <2>4. CASE m \in {handler[l].m : l \in {k \in Links : handler[k] # Idle}}
    BY <2>2, <2>4
  <2> QED
    BY <2>3, <2>4 DEF InFlight
<1> QED
  BY <1>1, InitGossipInv, NextGossipInv, PTL DEF Spec
=============================================================================
