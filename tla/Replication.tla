----------------------------- MODULE Replication -----------------------------
(***************************************************************************)
(* link-replication: the refs of one URN are pulled from a remote into the *)
(* local store.                                                            *)
(*                                                                         *)
(* A pull fetches the remote's `rad/` refs of the tracked peers, sets up   *)
(* the own `rad/id`, updates the identity tips in one transaction, fetches *)
(* what the signed refs of the tracked peers list, looks at the peers they *)
(* track in turn, updates all other tips in a second transaction, signs    *)
(* the own refs and validates the result.  Several pulls of the same URN   *)
(* run side by side; the remotes, the user and failures interfere.         *)
(*                                                                         *)
(* The tip of a `rad/id` is a revision of the identity, that of a          *)
(* `rad/signed_refs` the number of the signed list, both on a linear       *)
(* history; 0 is a ref that does not exist.  All delegations are direct,   *)
(* so that there are no symbolic refs `rad/ids/*`, and there is no         *)
(* `rad/self`.                                                             *)
(***************************************************************************)
EXTENDS Naturals, FiniteSets, FiniteSetsExt, Sequences, Functions, TLC

CONSTANTS
    Local,          \* the local peer
    Order,          \* all peers, ascending
    Heads,          \* the names of refs outside `rad/`
    Published,      \* what each other peer publishes one after the other: pairs of tips
    Signed,         \* the lists each other peer signs one after the other
    Procs,          \* the slots for concurrent replications
    Scenarios       \* who delegates, what does not verify, the initial states, and
                    \* how often pulls, changes of remotes, acceptances and failures happen

Others == Range(Order) \ {Local}
Kinds == {"id", "sigrefs"} \cup Heads
Own == <<Local, "id">>
Names == (Others \X Kinds) \cup {Own}

Policies == {"none", "deny", "allow"}

\* The refs a peer signs exclude the list itself.
ASSUME NamesAssumption ==
    Order \in Seq(Range(Order)) /\ "sigrefs" \notin Heads /\ IsFiniteSet(Heads)

\* A peer signs the tips of its rad/id and of refs outside `rad/`, and whom it tracks.
ASSUME SignedAssumption ==
    \A q \in Others :
        /\ Signed[q] \in Seq(Range(Signed[q]))
        /\ \A list \in Range(Signed[q]) :
              /\ list.refs \in [DOMAIN list.refs -> Nat \ {0}]
              /\ DOMAIN list.refs \subseteq {"id"} \cup Heads
              /\ list.remotes \subseteq Range(Order)

\* What is published are revisions, and lists that are signed.
ASSUME PublishedAssumption ==
    \A q \in Others :
        /\ Published[q] \in Seq(Range(Published[q]))
        /\ \A tips \in Range(Published[q]) :
              tips.id \in Nat /\ tips.sigrefs \in 0..Len(Signed[q])

\* What the local store and the remotes may hold at the start.
ASSUME ScenariosAssumption ==
    \A s \in Scenarios :
        /\ s.delegates \subseteq Range(Order) /\ s.remotes \subseteq Others
        /\ s.tracked \in [Range(Order) -> Policies]
        /\ \A n \in Names \cap DOMAIN s.refs :
              s.refs[n] \in IF n[2] = "sigrefs" THEN 0..Len(Signed[n[1]]) ELSE Nat
        /\ s.view \in [Others -> [Others -> Nat]]
        /\ \A r, q \in Others : s.view[r][q] \in 0..Len(Published[q])

VARIABLES
    sc,         \* the scenario
    refs,       \* the refs of the namespace in the local store
    tracked,    \* the tracking policy for each peer: "none", "deny" or "allow"
    signed,     \* the own rad/signed_refs: its tip and what it lists
    view,       \* how much of what a peer published a remote has
    pc, st,     \* where each pull is, and its FetchState and variables
    pulls, advances, accepts, failures

vars == <<sc, refs, tracked, signed, view, pc, st, pulls, advances, accepts, failures>>

store == <<refs, tracked, signed>>
env == <<sc, view, pulls, advances, accepts, failures>>

-----------------------------------------------------------------------------
(***************************************************************************)
(* What the remotes advertise                                              *)
(***************************************************************************)

Nothing == [id |-> 0, sigrefs |-> 0]

\* The tips of peer q's rad/id and rad/signed_refs in the store of the remote r.
Advertised(r, q) == IF view[r][q] = 0 THEN Nothing ELSE Published[q][view[r][q]]

IsDelegate(q) == q \in sc.delegates

\* Identities::verify of the rad/id of q.
Verifies(q) == q \notin sc.unverifiable

Direct(q, kind, target, no_ff) ==
    [name |-> <<q, kind>>, target |-> target, no_ff |-> no_ff, prev |-> 0]

Prune(name, prev) == [name |-> name, target |-> 0, no_ff |-> "prune", prev |-> prev]

\* A plausible slip: refs that were not advertised are updated as well.
AsUpdatesUnseen(q, tips) ==
    << Direct(q, "id", tips.id, "abort"), Direct(q, "sigrefs", tips.sigrefs, "abort") >>

\* FilteredRef::as_verification_ref_update, for the refs that were advertised.
AsUpdates(q, tips) ==
    (IF tips.id = 0 THEN << >> ELSE << Direct(q, "id", tips.id, "abort") >>)
    \o (IF tips.sigrefs = 0 THEN << >> ELSE << Direct(q, "sigrefs", tips.sigrefs, "abort") >>)

\* Sequences by peer, one after the other.
InOrder(parts) ==
    LET upto[i \in 0..Len(Order)] ==
            IF i = 0 THEN << >>
            ELSE IF Order[i] \in DOMAIN parts THEN upto[i - 1] \o parts[Order[i]] ELSE upto[i - 1]
    IN  upto[Len(Order)]

\* prepare::verification_refs: a rad/id that does not verify taints all refs of
\* its peer.  `seen` are the filtered refs.
VerificationRefs(seen) ==
    InOrder([q \in DOMAIN seen |->
        IF seen[q].id # 0 /\ ~Verifies(q) THEN << >> ELSE AsUpdates(q, seen[q])])

\* The refs a step cannot do without.
RequiredRefs(peers) == peers \X {"id", "sigrefs"}

\* guard_required, where `required` is a set of names.
MissingRequired(required, seen) ==
    LET wanted == {n \in (DOMAIN seen) \X {"id", "sigrefs"} : seen[n[1]][n[2]] # 0}
    IN  wanted # {} /\ ~(required \subseteq wanted)

\* The tips a step leaves in FetchState, over the ones it finds there.
TipsOf(kind, seen, old) ==
    LET new == {q \in DOMAIN seen : seen[q][kind] # 0}
    IN  [q \in new \cup DOMAIN old |-> IF q \in new THEN seen[q][kind] ELSE old[q]]

-----------------------------------------------------------------------------
(***************************************************************************)
(* A pull's variables, and how it moves on                                 *)
(***************************************************************************)

Empty == [q \in {} |-> 0]

Fresh ==
    [remote |-> Local, clone |-> FALSE, anchor |-> 0, ids |-> Empty, sigs |-> Empty,
     tips |-> << >>, track |-> << >>, loaded |-> Empty, transitive |-> Empty, trees |-> Empty,
     edits |-> << >>, own |-> [id |-> 0, remotes |-> {}], parent |-> 0,
     undisturbed |-> TRUE, ahead |-> FALSE, why |-> "none"]

Step(p, rec, next) ==
    /\ st' = [st EXCEPT ![p] = rec]
    /\ pc' = [pc EXCEPT ![p] = next]

\* A step that writes what the other pulls read.
Disturb(p, rec, next) ==
    /\ st' = [q \in Procs |-> IF q = p THEN rec ELSE [st[q] EXCEPT !.undisturbed = FALSE]]
    /\ pc' = [pc EXCEPT ![p] = next]

Failed(p, why) ==
    [Fresh EXCEPT !.undisturbed = st[p].undisturbed, !.ahead = st[p].ahead, !.why = why]

Fail(p, why) == Step(p, Failed(p, why), "failed")

\* The remote has nothing older than ours, all of the delegates' rad/ refs, and the
\* rad/id of those whom a peer tracks whose data is no longer wanted.
Ahead(r) ==
    /\ \A q \in Others : \A k \in {"id", "sigrefs"} : Advertised(r, q)[k] >= refs[<<q, k>>]
    /\ \A q \in (sc.delegates \ {Local}) \cup {r} :
           Verifies(q) /\ \A k \in {"id", "sigrefs"} : Advertised(r, q)[k] # 0
    /\ \A w \in Others : tracked[w] = "deny" /\ refs[<<w, "sigrefs">>] # 0 =>
           \A q \in Signed[w][refs[<<w, "sigrefs">>]].remotes : Advertised(r, q).id # 0

-----------------------------------------------------------------------------
(***************************************************************************)
(* The pull                                                                *)
(***************************************************************************)

\* Replication::replicate: a slot is free, and the URN is pulled if we have it,
\* with the current rad/id as the anchor; otherwise it is cloned.
Replicate(p, r) ==
    /\ pc[p] \in {"idle", "failed"} /\ pulls < sc.pulls
    /\ pulls' = pulls + 1
    /\ LET rec == [Fresh EXCEPT !.remote = r, !.clone = (refs[Own] = 0), !.anchor = refs[Own],
                                !.ahead = Ahead(r)]
       IN  Step(p, rec, IF refs[Own] = 0 THEN "clone" ELSE "peek")
    /\ UNCHANGED <<store, sc, view, advances, accepts, failures>>

\* ForClone::prepare: the refs of a delegate are kept.
CloneTips(r, tips) == IF IsDelegate(r) THEN AsUpdates(r, tips) ELSE << >>

\* clone: the remote's own rad/ refs give the anchor.  When the remote has none
\* of them, nothing is required and the lookup of its rad/id panics.
PeekForClone(p) ==
    /\ pc[p] = "clone"
    /\ LET r == st[p].remote
           seen == [q \in {r} |-> Advertised(r, r)]
           rec == [st[p] EXCEPT
                     !.anchor = seen[r].id,
                     !.ids = TipsOf("id", seen, Empty),
                     !.sigs = TipsOf("sigrefs", seen, Empty),
                     !.tips = CloneTips(r, seen[r])]
       IN  \/ /\ MissingRequired(RequiredRefs({r}), seen)
              /\ Fail(p, "refused")
           \/ /\ seen[r] = Nothing
              /\ Fail(p, "panic")
           \/ /\ seen[r].id # 0 /\ seen[r].sigrefs # 0
              /\ IF Verifies(r) THEN Step(p, rec, "peek") ELSE Fail(p, "refused")
    /\ UNCHANGED <<store, env>>

\* peek::FetchSpec of a peer; a delegate's data is always wanted.
PolicyFor(q) == IF IsDelegate(q) THEN "allow" ELSE tracked[q]

\* The peers ForFetch asks for, never the local one.
PeekPeers == {q \in Others : PolicyFor(q) # "none"}

\* ForFetch's ref_filter: no signed refs of a peer whose data is denied.
PeekSees(r) ==
    [q \in PeekPeers |->
        [id |-> Advertised(r, q).id,
         sigrefs |-> IF PolicyFor(q) = "allow" THEN Advertised(r, q).sigrefs ELSE 0]]

\* SignedRefs::load through the Shim: from the fetched tips if there are any at
\* all, else from the store.
LoadSigrefs(sigs, q) ==
    IF DOMAIN sigs = {} THEN refs[<<q, "sigrefs">>]
    ELSE IF q \in DOMAIN sigs THEN sigs[q] ELSE 0

\* sigrefs::combined of all peers that have any.
Combined(sigs) ==
    [q \in {x \in PeekPeers : LoadSigrefs(sigs, x) # 0} |-> LoadSigrefs(sigs, q)]

Remotes(loaded) == UNION {Signed[q][loaded[q]].remotes : q \in DOMAIN loaded}

\* The peers that are tracked by tracked peers only, with the most restrictive
\* policy of the tracked peers that are no delegates.
TransitivePolicies(loaded) ==
    [x \in Remotes(loaded) \ ({Local} \cup sc.delegates \cup PeekPeers) |->
        IF \E q \in DOMAIN loaded : /\ x \in Signed[q][loaded[q]].remotes
                                    /\ ~IsDelegate(q) /\ PolicyFor(q) = "deny"
        THEN "deny" ELSE "allow"]

\* Refdb::refname_to_id through the Shim: the updates so far, then the store.
LookupId(tips, q) ==
    LET at == {i \in 1..Len(tips) : tips[i].name = <<q, "id">>}
    IN  IF at = {} THEN refs[<<q, "id">>] ELSE tips[Max(at)].target

\* A plausible slip: the more recent one is taken, whoever has a say.
NewerAlways(ours, theirs) == IF theirs > ours THEN theirs ELSE ours

\* rad::newer: the revision to set up, or 0 if a local delegate has to confirm.
Newer(ours, theirs) ==
    IF IsDelegate(Local) /\ ours # theirs
    THEN IF theirs > ours THEN 0 ELSE ours
    ELSE theirs

\* rad::setup: point rad/id to it, and track the delegates.
Setup(rec, newest) ==
    [rec EXCEPT !.tips = Append(@, Direct(Local, "id", newest, "reject")),
                !.track = InOrder([q \in sc.delegates |-> <<q>>])]

\* ids::newest, of at least one peer.
Newest(tips, of) == Max({LookupId(tips, q) : q \in of})

\* The newest identity of the other delegates is set up unless ours is newer, or
\* the local delegate has to confirm it.
SetupRad(rec) ==
    LET delegates == sc.delegates \ {Local}
        newer == Newer(rec.anchor, Newest(rec.tips, delegates))
    IN  IF delegates = {} \/ newer = 0 THEN rec ELSE Setup(rec, newer)

\* The first half of eval::pull: the tracked peers' rad/ refs are fetched, their
\* signed refs are loaded, and the local rad/ hierarchy is prepared.
Peek(p) ==
    /\ pc[p] = "peek"
    /\ LET seen == PeekSees(st[p].remote)
           delegates == sc.delegates \ {Local}
           tips == st[p].tips \o VerificationRefs(seen)
           sigs == TipsOf("sigrefs", seen, st[p].sigs)
           loaded == Combined(sigs)
           rec == [st[p] EXCEPT !.ids = TipsOf("id", seen, @), !.sigs = sigs, !.tips = tips,
                                !.loaded = loaded, !.transitive = TransitivePolicies(loaded)]
       IN  IF \/ MissingRequired(RequiredRefs(delegates), seen)
              \/ \E q \in delegates : ~Verifies(q) \/ q \notin DOMAIN loaded \/ LookupId(tips, q) = 0
           THEN Fail(p, "refused")
           ELSE Step(p, SetupRad(rec), "track")
    /\ UNCHANGED <<store, env>>

\* Tracking::track: only the first delegate, since the URN has been seen then;
\* and only if it is not tracked yet.
Track(p) ==
    /\ pc[p] = "track"
    /\ LET rec == [st[p] EXCEPT !.track = << >>] IN
       IF st[p].track # << >> /\ tracked[Head(st[p].track)] = "none"
       THEN /\ tracked' = [tracked EXCEPT ![Head(st[p].track)] = "allow"]
            /\ Disturb(p, rec, "ids")
       ELSE /\ Step(p, rec, "ids")
            /\ UNCHANGED tracked
    /\ UNCHANGED <<refs, signed, env>>

\* Vec::swap_remove
SwapRemove(s, i) == [j \in 1..(Len(s) - 1) |-> IF j = i THEN s[Len(s)] ELSE s[j]]

\* The loop that takes the identity tips out of the pending updates, which does
\* not keep the order of either.
DrainIds(pending) ==
    LET drain[n \in 0..Len(pending)] ==
            IF n = 0 THEN [i |-> 1, rest |-> pending, ids |-> << >>]
            ELSE LET was == drain[n - 1] IN
                 IF was.rest[was.i].name[2] = "id"
                 THEN [was EXCEPT !.rest = SwapRemove(@, was.i), !.ids = Append(@, was.rest[was.i])]
                 ELSE [was EXCEPT !.i = @ + 1]
    IN  drain[Len(pending)]

\* A plausible slip: a tip which stays where it is is not a fast-forward.
VerdictStrict(u) ==
    IF \/ u.no_ff \in {"prune", "allow"} \/ refs[u.name] = 0 \/ u.target > refs[u.name]
    THEN "edit" ELSE u.no_ff

\* The outcome of direct_edit: a tip that is not a fast-forward is subject to
\* the policy of the update.  A Prune is always an edit.
Verdict(u) ==
    IF u.no_ff \in {"prune", "allow"} \/ u.target >= refs[u.name] THEN "edit" ELSE u.no_ff

\* The edits by name: of several edits of one ref the last one remains.  An edit
\* expects the value that was read, a Prune the one that was scanned before.
EditsOf(updates) ==
    LET at(n) == {i \in 1..Len(updates) : updates[i].name = n /\ Verdict(updates[i]) = "edit"}
        edit(u) == [expected |-> IF u.no_ff = "prune" THEN u.prev ELSE refs[u.name],
                    new |-> u.target]
    IN  [n \in {x \in Names : at(x) # {}} |-> edit(updates[Max(at(n))])]

\* Refdb::update up to the transaction.
Edit(p, updates, rest, next) ==
    /\ IF \E i \in 1..Len(updates) : Verdict(updates[i]) = "abort"
       THEN Fail(p, "nonff")
       ELSE Step(p, [st[p] EXCEPT !.edits = EditsOf(updates), !.tips = rest], next)
    /\ UNCHANGED <<store, env>>

EditIds(p) ==
    /\ pc[p] = "ids"
    /\ LET drained == DrainIds(st[p].tips) IN Edit(p, drained.ids, drained.rest, "commit_ids")

EditTips(p) ==
    /\ pc[p] = "tips"
    /\ Edit(p, st[p].tips, << >>, "commit_tips")

\* A plausible slip: refs are overwritten whatever they have become.
MatchesAny(edits) == edits = edits

Matches(edits) == \A n \in DOMAIN edits : refs[n] = edits[n].expected

Apply(edits, some) == [n \in Names |-> IF n \in some THEN edits[n].new ELSE refs[n]]

\* The transaction: it is refused if any ref has changed since it was read.  The
\* rad tips are cleared after the first one.
Commit(p) ==
    /\ pc[p] \in {"commit_ids", "commit_tips"}
    /\ LET edits == st[p].edits
           rec == [st[p] EXCEPT !.edits = << >>, !.ids = Empty, !.sigs = Empty]
           next == IF pc[p] = "commit_ids" THEN "fetch" ELSE "sign"
       IN  IF ~Matches(edits)
           THEN Fail(p, "modified") /\ UNCHANGED refs
           ELSE /\ refs' = Apply(edits, DOMAIN edits)
                /\ IF refs' = refs THEN Step(p, rec, next) ELSE Disturb(p, rec, next)
    /\ UNCHANGED <<tracked, signed, env>>

\* The commit fails, or the process dies, when some of the refs are written.
CommitPartially(p) ==
    /\ pc[p] \in {"commit_ids", "commit_tips"} /\ Matches(st[p].edits)
    /\ failures < sc.failures /\ failures' = failures + 1
    /\ \E some \in SUBSET DOMAIN st[p].edits : refs' = Apply(st[p].edits, some)
    /\ Disturb(p, Failed(p, "io"), "failed")
    /\ UNCHANGED <<tracked, signed, sc, view, pulls, advances, accepts>>

\* The network fails in one of the steps.
NetFails(p) ==
    /\ pc[p] \in {"clone", "peek", "fetch", "transitive"}
    /\ failures < sc.failures /\ failures' = failures + 1
    /\ Fail(p, "io")
    /\ UNCHANGED <<store, sc, view, pulls, advances, accepts>>

\* The members of a set in some order.
Listing(S) == CHOOSE s \in [1..Cardinality(S) -> S] : Range(s) = S

\* A plausible slip: nothing is pruned.
SignedUpdatesOnly(q, at) ==
    Listing({Direct(q, k, Signed[q][at].refs[k], "allow") : k \in DOMAIN Signed[q][at].refs})

\* Fetch::prepare for one peer: what it signed is written whatever is there, and
\* what it did not sign is pruned, except below rad/.
SignedUpdates(q, at) ==
    LET listed == Signed[q][at].refs
        unlisted == {h \in Heads \ DOMAIN listed : refs[<<q, h>>] # 0}
    IN  Listing({Direct(q, k, listed[k], "allow") : k \in DOMAIN listed}
                \cup {Prune(<<q, h>>, refs[<<q, h>>]) : h \in unlisted})

\* Fetch's ref_filter: the rad/ refs of the remotes of the tracked peers.
FetchSees(r, loaded) == [q \in (Remotes(loaded) \cap Others) \ {r} |-> Advertised(r, q)]

\* Fetch: the data of the tracked peers, and the rad/ refs of their remotes.
Fetch(p) ==
    /\ pc[p] = "fetch"
    /\ LET r == st[p].remote
           loaded == st[p].loaded
           seen == FetchSees(r, loaded)
           updates == InOrder([q \in DOMAIN loaded |-> SignedUpdates(q, loaded[q])])
           ids == TipsOf("id", seen, Empty)
       IN  Step(p, [st[p] EXCEPT !.tips = @ \o updates, !.trees = loaded, !.ids = ids,
                                 !.sigs = TipsOf("sigrefs", seen, Empty)],
                IF DOMAIN ids = {} THEN "tips" ELSE "transitive")
    /\ UNCHANGED <<store, env>>

\* Transitive's ref_filter: the signed refs are the ones Fetch has seen, although
\* the remote may have others by now.
TransitiveSees(r, ids, sigs, allowed, denied) ==
    [q \in (allowed \cup denied \cup DOMAIN ids) \ {r} |->
        [id |-> Advertised(r, q).id,
         sigrefs |-> IF q \in allowed /\ Advertised(r, q).sigrefs # 0 THEN sigs[q] ELSE 0]]

\* Transitive's required_refs: of the denied peers the rad/id only.
TransitiveRequired(allowed, denied) == RequiredRefs(allowed) \cup (denied \X {"id"})

\* Transitive: the rad/ refs of the peers that are tracked by tracked peers.
Transitive(p) ==
    /\ pc[p] = "transitive"
    /\ LET policy == st[p].transitive
           allowed == {q \in DOMAIN policy : policy[q] = "allow" /\ q \in DOMAIN st[p].sigs}
           denied == {q \in DOMAIN policy : policy[q] = "deny"}
           seen == TransitiveSees(st[p].remote, st[p].ids, st[p].sigs, allowed, denied)
       IN  IF MissingRequired(TransitiveRequired(allowed, denied), seen)
           THEN Fail(p, "refused")
           ELSE Step(p, [st[p] EXCEPT !.tips = @ \o VerificationRefs(seen),
                                      !.trees = @ @@ [q \in allowed |-> st[p].sigs[q]]],
                     "tips")
    /\ UNCHANGED <<store, env>>

\* Refs::compute of the own refs.
Computed == [id |-> refs[Own], remotes |-> {q \in Range(Order) : tracked[q] # "none"}]

\* SignedRefs::update: the list is computed before the parent is read; if another
\* list has been committed to the branch since, all is done again, or given up.
Sign(p) ==
    /\ pc[p] = "sign"
    /\ Step(p, [st[p] EXCEPT !.own = Computed], "parent")
    /\ UNCHANGED <<store, env>>

Parent(p) ==
    /\ pc[p] = "parent"
    /\ Step(p, [st[p] EXCEPT !.parent = signed.at],
            IF st[p].own = signed.list THEN "validate" ELSE "commit_signed")
    /\ UNCHANGED <<store, env>>

CommitSigned(p) ==
    /\ pc[p] = "commit_signed"
    /\ IF signed.at = st[p].parent
       THEN /\ signed' = [at |-> signed.at + 1, list |-> st[p].own]
            /\ Disturb(p, st[p], "validate")
       ELSE /\ Step(p, st[p], "sign") \/ Fail(p, "contended")
            /\ UNCHANGED signed
    /\ UNCHANGED <<refs, tracked, env>>

\* validation::validate of the tree of q against the list `at`: no warnings.
ValidTree(q, at) ==
    LET listed == Signed[q][at].refs IN
    /\ refs[<<q, "id">>] # 0
    /\ refs[<<q, "sigrefs">>] = at
    /\ \A h \in Heads : refs[<<q, h>>] = IF h \in DOMAIN listed THEN listed[h] ELSE 0

\* The trees that were fetched are validated, then those of the remotes; pull
\* asserts that there are no warnings in a debug build.
Validate(p) ==
    /\ pc[p] = "validate"
    /\ Step(p, Fresh, "idle")
    /\ UNCHANGED <<store, env>>

-----------------------------------------------------------------------------
(***************************************************************************)
(* The environment                                                         *)
(***************************************************************************)

\* A remote gets more of what q has published; q itself publishes.  A clone
\* looks at the remote's refs twice, and is disturbed if they change between.
Advance(r, q) ==
    /\ advances < sc.advances /\ advances' = advances + 1
    /\ view[r][q] < IF r = q THEN Len(Published[q]) ELSE view[q][q]
    /\ view' = [view EXCEPT ![r][q] = @ + 1]
    /\ st' = [p \in Procs |->
                 IF pc[p] = "peek" /\ DOMAIN st[p].ids # {} /\ st[p].remote = r /\ r = q
                 THEN [st[p] EXCEPT !.undisturbed = FALSE] ELSE st[p]]
    /\ UNCHANGED <<store, sc, pc, pulls, accepts, failures>>

\* As a delegate, the user moves the own identity on, and signs the own refs.
Accept ==
    /\ accepts < sc.accepts /\ accepts' = accepts + 1
    /\ IsDelegate(Local) /\ refs[Own] # 0
    /\ refs' = [refs EXCEPT ![Own] = @ + 1]
    /\ signed' = [at |-> signed.at + 1, list |-> [Computed EXCEPT !.id = @ + 1]]
    /\ st' = [p \in Procs |-> [st[p] EXCEPT !.undisturbed = FALSE]]
    /\ UNCHANGED <<tracked, sc, view, pc, pulls, advances, failures>>

-----------------------------------------------------------------------------
Init ==
    /\ sc \in Scenarios
    /\ refs = [n \in Names |-> IF n \in DOMAIN sc.refs THEN sc.refs[n] ELSE 0]
    /\ tracked = sc.tracked
    /\ signed = [at |-> 0, list |-> [id |-> 0, remotes |-> {}]]
    /\ view = sc.view
    /\ pc = [p \in Procs |-> "idle"]
    /\ st = [p \in Procs |-> Fresh]
    /\ pulls = 0 /\ advances = 0 /\ accepts = 0 /\ failures = 0

Pull(p) ==
    \/ PeekForClone(p) \/ Peek(p) \/ Track(p)
    \/ EditIds(p) \/ EditTips(p) \/ Commit(p)
    \/ Fetch(p) \/ Transitive(p)
    \/ Sign(p) \/ Parent(p) \/ CommitSigned(p) \/ Validate(p)

Next ==
    \/ \E p \in Procs : \E r \in sc.remotes : Replicate(p, r)
    \/ \E p \in Procs : Pull(p) \/ CommitPartially(p) \/ NetFails(p)
    \/ \E r \in sc.remotes, q \in Others : Advance(r, q)
    \/ Accept

Spec == Init /\ [][Next]_vars

-----------------------------------------------------------------------------
(***************************************************************************)
(* Properties                                                              *)
(***************************************************************************)

Reasons == {"none", "refused", "panic", "nonff", "modified", "contended", "io"}

\* The tips are those of published histories, and an update gives a ref of the
\* namespace a tip unless it prunes it.
TypeOK ==
    /\ refs \in [Names -> Nat]
    /\ tracked \in [Range(Order) -> Policies]
    /\ \A q \in Others : refs[<<q, "sigrefs">>] \in 0..Len(Signed[q])
    /\ \A p \in Procs :
         /\ \A q \in DOMAIN st[p].loaded : st[p].loaded[q] \in DOMAIN Signed[q]
         /\ \A u \in Range(st[p].tips) :
              u.name \in Names /\ (u.target # 0 <=> u.no_ff # "prune")
         /\ st[p].why \in Reasons

\* However pulls from different remotes interleave and fail, nobody's
\* rad/signed_refs and never the own rad/id goes back to an older one: an update
\* that is no fast-forward aborts or is rejected, and a transaction is refused if
\* a ref has changed since it was compared.
TipsOnlyAdvance ==
    [][\A n \in Names : n = Own \/ n[2] = "sigrefs" => refs'[n] >= refs[n]]_vars

\* If the local peer is a delegate, only the user moves the own rad/id: a newer
\* revision of another delegate requires confirmation.  Excepted is a clone that
\* runs beside another one, and commits after it: it found no own rad/id.
ConfirmationKept ==
    [][IsDelegate(Local) /\ refs[Own] # 0 /\ refs'[Own] # refs[Own] =>
          \/ accepts' # accepts
          \/ \E p \in Procs : st[p].clone /\ pc[p] = "commit_ids" /\ pc'[p] # pc[p]]_vars

\* A pull that nobody disturbed leaves the tree of every tracked peer exactly as
\* its signed refs say, with the own signed refs listing what is tracked now,
\* whatever earlier pulls left behind when they failed half-way or got into each
\* other's way.  Peers whose rad/id does not verify are excepted.
UndisturbedPullIsWhole ==
    \A p \in Procs : pc[p] = "validate" /\ st[p].undisturbed =>
        /\ \A q \in DOMAIN st[p].loaded : Verifies(q) => ValidTree(q, st[p].loaded[q])
        /\ signed.list = Computed

\* Nothing an earlier failure or race leaves in the store makes a later pull fail:
\* undisturbed, and from a remote that is not behind, it fails of I/O only.
UpToDateRemoteSucceeds ==
    \A p \in Procs : pc[p] = "failed" /\ st[p].undisturbed /\ st[p].ahead => st[p].why = "io"

\* Whatever was left behind, an undisturbed pull that gets through repairs it, and
\* one from a remote that is not behind gets through.
PullsRepair == UndisturbedPullIsWhole /\ UpToDateRemoteSucceeds

\* "expected no warnings for remote": the validation of the trees of the peers that
\* were fetched, and of their remotes, has nothing to complain about.
RemoteTreesValid ==
    \A p \in Procs : pc[p] = "validate" /\ st[p].undisturbed =>
        \A q \in Remotes(st[p].loaded) \ {Local} :
            refs[<<q, "sigrefs">>] # 0 => ValidTree(q, refs[<<q, "sigrefs">>])
=============================================================================
