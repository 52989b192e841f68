----------------------------- MODULE Identities -----------------------------
EXTENDS Naturals, FiniteSets, Sequences, SequencesExt, FiniteSetTheorems, TLAPS

-----------------------------------------------------------------------------
(***************************************************************************)
(* Who may speak for an identity (link-identities, delegation.rs).  The    *)
(* delegations of a person are a set of keys, those of a project are keys  *)
(* and persons, each with the keys it delegates to in turn.  One record    *)
(* stands for both: a person's has no ids.                                 *)
(***************************************************************************)
\* The delegations of a person (`Direct`), and of a project (`Indirect`).
Direct(ks) == [keys |-> ks, ids |-> {}]

Indirect(ks, ps) == [keys |-> ks, ids |-> ps]

\* `Indirect::try_from_iter`: not empty, no key twice (whether direct or
\* through a person), no person twice.
WellFormed(d) ==
  /\ d.keys # {} \/ d.ids # {}
  /\ \A i \in d.ids : i.keys \cap d.keys = {}
  /\ \A i, j \in d.ids : i # j => i.urn # j.urn /\ i.keys \cap j.keys = {}

\* `Indirect::owner`: the person a key belongs to, as a set of at most one.
\* A direct delegation has no owner.
Owner(d, k) == {i \in d.ids : k \in i.keys}

\* `relations::is_delegate` asks a project for the key's owner, a person for
\* the key itself.
IsDelegate(isProject, d, k) ==
  IF isProject THEN Owner(d, k) # {} ELSE k \in d.keys

\* All keys, as the peers of `default_branch_head` and of `delegate_ids`.
AllKeys(d) == d.keys \cup UNION {i.keys : i \in d.ids}

\* `eligible`: the votes that count, and the error that two keys of one
\* person have voted.
Eligible(d, votes) == votes \cap AllKeys(d)

DoubleVote(d, votes) ==
  \E i \in d.ids : \E k, l \in i.keys \cap votes : k # l

\* `quorum_threshold`: of direct keys and persons, a person counting once.
Threshold(d) == (Cardinality(d.keys) + Cardinality(d.ids)) \div 2

\* Mutant: half of the votes are enough.
HasHalf(d, votes) ==
  /\ ~ DoubleVote(d, votes)
  /\ Cardinality(Eligible(d, votes)) > 0
  /\ Cardinality(Eligible(d, votes)) >= Threshold(d)

\* The test of `Verifying::quorum` and of `verified` on the parent's document.
HasQuorum(d, votes) ==
  /\ ~ DoubleVote(d, votes)
  /\ Cardinality(Eligible(d, votes)) > 0
  /\ Cardinality(Eligible(d, votes)) > Threshold(d)

\* Some delegate has a part in both sets of votes.
ShareDelegate(d, v, w) ==
  \/ v \cap w \cap d.keys # {}
  \/ \E i \in d.ids : v \cap i.keys # {} /\ w \cap i.keys # {}

-----------------------------------------------------------------------------
(***************************************************************************)
(* Identities as git objects (link-identities, git.rs and generic.rs).  A  *)
(* commit carries a revision of the identity's document and signatures     *)
(* over it.  An object store is a sequence of commits, a commit's id is    *)
(* its index, and parents come before their children.                      *)
(*                                                                         *)
(* A revision is its content: equal documents are one revision.  All       *)
(* signatures made by the code are valid, so a set of keys stands for them.*)
(***************************************************************************)
\* No revision: what the first document replaces.
NoRev == [urn |-> "none"]

Revision(urn, payload, dels, replaces) ==
  [urn |-> urn, payload |-> payload, dels |-> dels, replaces |-> replaces]

Commit(parents, rev, sigs) == [parents |-> parents, rev |-> rev, sigs |-> sigs]

\* The commit and everything reachable from it.
Ancestry(odb, c) ==
  LET anc[i \in 1..c] == {i} \cup UNION {anc[p] : p \in ToSet(odb[i].parents)}
  IN  anc[c]

\* libgit2's `graph_descendant_of`, which is strict.
DescendantOf(odb, c, d) == c # d /\ d \in Ancestry(odb, c)

\* `Iter`: along first parents, oldest first.
History(odb, c) ==
  LET hist[i \in 1..c] ==
        IF odb[i].parents = <<>> THEN <<i>>
        ELSE Append(hist[odb[i].parents[1]], i)
  IN  hist[c]

\* `is_in_ancestry_path`: some ancestor (by any parent) is of revision r.
InAncestryPath(odb, c, r) == \E a \in Ancestry(odb, c) : odb[a].rev = r

(***************************************************************************)
(* Verification.  parent is a verified commit, or 0.                       *)
(***************************************************************************)
Signed(c) == c.sigs # {}

Quorum(c) == HasQuorum(c.rev.dels, c.sigs)

\* Mutant: the parent's delegates are not asked.
VerifiedByRevision(odb, c, parent) ==
  IF parent = 0 THEN c.rev.replaces = NoRev
  ELSE odb[parent].rev.urn = c.rev.urn /\ c.rev.replaces = odb[parent].rev

\* `verified`: what it asks of the parent, for a commit that has a quorum.
VerifiedBy(odb, c, parent) ==
  IF parent = 0 THEN c.rev.replaces = NoRev
  ELSE LET p == odb[parent]
       IN  /\ p.rev.urn = c.rev.urn
           /\ c.rev.replaces = p.rev
           /\ HasQuorum(p.rev.dels, c.sigs)

\* An invalid history: the fold has failed.
Invalid == [head |-> 0, parent |-> 0]

\* One step of the fold of `verify`: a commit without quorum is skipped, one
\* that confirms the head replaces it if it can, any other must be verified
\* by the head or the whole history is invalid.
VerifyStep(odb, acc, i) ==
  LET c == odb[i]
  IN  IF acc = Invalid \/ ~ Signed(c) THEN Invalid
      ELSE IF ~ Quorum(c) THEN acc
      ELSE IF c.rev = odb[acc.head].rev
      THEN IF VerifiedBy(odb, c, acc.parent) THEN [acc EXCEPT !.head = i] ELSE acc
      ELSE IF VerifiedBy(odb, c, acc.head) THEN [head |-> i, parent |-> acc.head]
      ELSE Invalid

\* `fold_verify_generic`: the first commit must be verified without parent.
FoldVerify(odb, c) ==
  LET h == History(odb, c)
      base == LET root == odb[h[1]]
              IN  IF Signed(root) /\ Quorum(root) /\ VerifiedBy(odb, root, 0)
                  THEN [head |-> h[1], parent |-> 0] ELSE Invalid
      upto[n \in 1..Len(h)] == IF n = 1 THEN base ELSE VerifyStep(odb, upto[n - 1], h[n])
  IN  upto[Len(h)]

\* `updated_person`: the verified state of the person's latest head, which
\* must have the known revision in its history.  0 is an error.
UpdatedPerson(odb, known, latest) ==
  IF latest # 0 /\ InAncestryPath(odb, latest, known.rev)
  THEN FoldVerify(odb, latest).head ELSE 0

\* `resolve_delegation_updates`, with the latest heads of persons.
ResolveUpdates(odb, d, latest) ==
  LET update(i) == LET rev == odb[UpdatedPerson(odb, i, latest[i.urn])].rev
                   IN  [urn |-> i.urn, rev |-> rev, keys |-> rev.dels.keys]
  IN  Indirect(d.keys, {update(i) : i \in d.ids})

\* `Identities<Project>::verify`: fold, bring the persons up to date, and put
\* the head to the test again.  For a person nothing changes.
Verify(odb, c, latest) ==
  LET f == FoldVerify(odb, c)
      d == odb[f.head].rev.dels
      known == \A i \in d.ids : UpdatedPerson(odb, i, latest[i.urn]) # 0
      u == ResolveUpdates(odb, d, latest)
  IN  IF /\ f # Invalid /\ known /\ WellFormed(u)
         /\ HasQuorum(u, odb[f.head].sigs)
         /\ VerifiedBy(odb, odb[f.head], f.parent)
      THEN f.head ELSE 0

(***************************************************************************)
(* Making and merging commits.  An operator yields the commit to be made,  *)
(* or the id of an existing one.                                           *)
(***************************************************************************)
\* `create`: no parents, signed by the signer.
Create(urn, payload, dels, key) ==
  Commit(<<>>, Revision(urn, payload, dels, NoRev), {key})

\* `update`: signed by the signer alone, on top of the base.
Update(odb, base, payload, dels, key) ==
  LET r == odb[base].rev
  IN  Commit(<<base>>, Revision(r.urn, payload, dels, r), {key})

\* `create_from`: their revision with our signature added.
CreateFrom(odb, theirs, key) ==
  Commit(<<theirs>>, odb[theirs].rev, odb[theirs].sigs \cup {key})

\* Mutant: ours and theirs are swapped in the test for a fast-forward.
MergeKindSwapped(odb, ours, theirs, key) ==
  LET o == odb[ours]
      t == odb[theirs]
  IN  IF key \notin o.sigs \/ o.rev.urn # t.rev.urn THEN "ForeignBase"
      ELSE IF DescendantOf(odb, theirs, ours) THEN "Uptodate"
      ELSE IF key \in t.sigs /\ DescendantOf(odb, ours, theirs) THEN "FastFwd"
      ELSE IF o.rev = t.rev THEN "SlowFwd"
      ELSE IF o.rev = t.rev.replaces THEN "SuccRev"
      ELSE "RevisionMismatch"

\* The cases of `update_from`, in the order of the code.
MergeKind(odb, ours, theirs, key) ==
  LET o == odb[ours]
      t == odb[theirs]
  IN  IF key \notin o.sigs THEN "ForeignBase"
      ELSE IF o.rev.urn # t.rev.urn THEN "RootMismatch"
      ELSE IF DescendantOf(odb, ours, theirs) THEN "Uptodate"
      ELSE IF key \in t.sigs /\ DescendantOf(odb, theirs, ours) THEN "FastFwd"
      ELSE IF o.rev = t.rev THEN "SlowFwd"
      ELSE IF o.rev = t.rev.replaces THEN "SuccRev"
      ELSE "RevisionMismatch"

\* The commit made by a `SlowFwd` or `SuccRev` merge.
MergeCommit(odb, ours, theirs, key) ==
  IF MergeKind(odb, ours, theirs, key) = "SlowFwd"
  THEN Commit(<<ours>>, odb[ours].rev, odb[ours].sigs \cup odb[theirs].sigs)
  ELSE Commit(<<ours, theirs>>, odb[theirs].rev, odb[theirs].sigs \cup {key})

\* Mutant: the arguments of the second question swapped.
NewerSwapped(odb, left, right) ==
  IF InAncestryPath(odb, left, odb[right].rev) THEN left
  ELSE IF InAncestryPath(odb, left, odb[left].rev) THEN left
  ELSE 0

\* `newer`, of two verified commits.  0 is a fork.
Newer(odb, left, right) ==
  IF InAncestryPath(odb, left, odb[right].rev) THEN left
  ELSE IF InAncestryPath(odb, right, odb[left].rev) THEN right
  ELSE 0

-----------------------------------------------------------------------------
(***************************************************************************)
(* Devices that create, propose, approve, merge and replicate identities   *)
(* (librad/src/git/identities and link-replication, over link-identities). *)
(*                                                                         *)
(* A device has a key and a storage.  heads[p][u] is refs/rad/id of        *)
(* identity u in p's storage; 0 is no ref.  Objects are immutable and      *)
(* named by content, so one odb stands for the object stores of all        *)
(* devices, and a device may hold any commit of it, also an old one, as    *)
(* what it last fetched from another.                                      *)
(***************************************************************************)
CONSTANTS
  Device,      \* devices, each with a key of the same name
  Person,      \* the URNs of persons
  Project,     \* the URNs of projects
  Starts,      \* the stores and refs the devices may start with
  MaxCommits,  \* bound on the number of commits made from there
  KeySets,     \* the sets of direct keys a user may delegate to
  Founder,     \* the device that creates an identity
  Payload      \* document contents

VARIABLES
  odb,    \* the commits
  heads,  \* refs/rad/id, by device and identity
  made    \* the number of commits made

vars == <<odb, heads, made>>

Urn == Person \cup Project

Init ==
  /\ \E s \in Starts : odb = s.odb /\ heads = s.heads
  /\ made = 0

\* The commits of an identity.
CommitsOf(u) == {c \in DOMAIN odb : odb[c].rev.urn = u}

\* `person::verify` and `project::verify` in a storage with these refs: the
\* persons a project delegates to are looked up at their rad/id.
VerifyRef(store, refs, u) == IF refs[u] = 0 THEN 0 ELSE Verify(store, refs[u], refs)

VerifyAt(p, u) == VerifyRef(odb, heads[p], u)

\* A commit is made, and the device's rad/id set to it (`IdRef::create`, when
\* there is none, and `IdRef::update`).
Write(p, u, c) ==
  /\ made < MaxCommits
  /\ made' = made + 1
  /\ odb' = Append(odb, c)
  /\ heads' = [heads EXCEPT ![p][u] = Len(odb) + 1]

\* A person as a project's document records it: `resolve_indirect` reads it
\* from the storage, and `inline_indirect` puts it into the tree.
Inlined(p, v) ==
  LET rev == odb[VerifyAt(p, v)].rev
  IN  [urn |-> v, rev |-> rev, keys |-> rev.dels.keys]

\* Mutant: documents are not checked when they are put together.
DelegationChoicesUnchecked(p, u) ==
  IF u \in Person THEN {Direct(ks) : ks \in KeySets \ {{}}}
  ELSE {Indirect(ks, {Inlined(p, v) : v \in vs}) :
          ks \in KeySets \ {{}}, vs \in SUBSET {v \in Person : VerifyAt(p, v) # 0}}

\* The delegations a user may give.
DelegationChoices(p, u) ==
  IF u \in Person THEN {Direct(ks) : ks \in KeySets \ {{}}}
  ELSE {d \in {Indirect(ks, {Inlined(p, v) : v \in vs}) :
                 ks \in KeySets, vs \in SUBSET {v \in Person : VerifyAt(p, v) # 0}} :
        WellFormed(d)}

\* `LocalIdentity::valid`, of a verified person: signed by the device, and
\* delegating to it.
LocalIdentity(p, c) == p \in c.sigs \cap c.rev.dels.keys

\* `person::create`: the first commit must verify and be a local identity.
CreatePerson(p, u) ==
  /\ u \in Person
  /\ Founder[u] = p
  /\ CommitsOf(u) = {}
  /\ \E n \in Payload, d \in DelegationChoices(p, u) :
       LET c == Create(u, n, d, p)
       IN  Quorum(c) /\ LocalIdentity(p, c) /\ Write(p, u, c)

\* `project::create`: needs a local identity, but does not verify the project.
CreateProject(p, u) ==
  /\ u \in Project
  /\ Founder[u] = p
  /\ CommitsOf(u) = {}
  /\ \E v \in Person : VerifyAt(p, v) # 0 /\ LocalIdentity(p, odb[VerifyAt(p, v)])
  /\ \E n \in Payload, d \in DelegationChoices(p, u) : Write(p, u, Create(u, n, d, p))

\* `person::update`, as the command line calls it: only if the history
\* verifies, but on top of the tip, which may be an unconfirmed proposal.
UpdatePerson(p, u) ==
  /\ u \in Person
  /\ VerifyAt(p, u) # 0
  /\ \E n \in Payload, d \in DelegationChoices(p, u) :
       Write(p, u, Update(odb, heads[p][u], n, d, p))

\* `project::update`, likewise; the delegations may be left as they are, the
\* persons then staying at the revisions the document has.
UpdateProject(p, u) ==
  /\ u \in Project
  /\ VerifyAt(p, u) # 0
  /\ \E n \in Payload, d \in DelegationChoices(p, u) \cup {odb[heads[p][u]].rev.dels} :
       Write(p, u, Update(odb, heads[p][u], n, d, p))

\* `create_from`: a device's first state of an identity is another's, signed.
Approve(p, c, u) ==
  /\ heads[p][u] = 0
  /\ Write(p, u, CreateFrom(odb, c, p))

\* `person::merge` and `project::merge`, of what the device has fetched of
\* another's rad/id.  An error of `update_from`, and being up to date, change
\* nothing.
Merged(p, c, u) ==
  /\ heads[p][u] # 0
  /\ LET kind == MergeKind(odb, heads[p][u], c, p)
     IN  \/ /\ kind \in {"SlowFwd", "SuccRev"}
            /\ Write(p, u, MergeCommit(odb, heads[p][u], c, p))
         \/ /\ kind = "FastFwd"
            /\ heads' = [heads EXCEPT ![p][u] = c]
            /\ UNCHANGED <<odb, made>>

MergePerson(p, c, u) == u \in Person /\ Merged(p, c, u)

MergeProject(p, c, u) == u \in Project /\ Merged(p, c, u)

\* `ids::newest`, of the delegates' verified identities: 0 if one of them is
\* missing, fails to verify, or forks from another.
Newest(states) ==
  LET ids == SetToSeq(states)
      upto[n \in 1..Len(ids)] ==
        IF n = 1 THEN ids[1]
        ELSE IF 0 \in {ids[n], upto[n - 1]} THEN 0
        ELSE Newer(odb, ids[n], upto[n - 1])
  IN  upto[Len(ids)]

\* `rad::setup`: rad/id is set to the identity if that is a fast-forward, and
\* the persons of a project get one if they have none.
Setup(p, c, from) ==
  LET r == odb[c].rev
      persons == {i.urn : i \in r.dels.ids}
  IN  heads' = [heads EXCEPT ![p] =
                 [u \in Urn |-> IF /\ u = r.urn
                                   /\ heads[p][u] = 0 \/ DescendantOf(odb, c, heads[p][u])
                                THEN c
                                ELSE IF u \in persons /\ heads[p][u] = 0
                                THEN Verify(odb, heads[from][u], heads[from])
                                ELSE heads[p][u]]]

\* The persons of an identity are in a storage, and verify there.
PersonsKnown(c, from) ==
  \A i \in odb[c].rev.dels.ids : heads[from][i.urn] # 0 /\ VerifyAt(from, i.urn) # 0

\* What `clone` and `pull` make of an anchor, with the delegates' present
\* states.  A delegate keeps its own identity if that is newer, and has to
\* confirm theirs if not (`rad::newer`).
Replicate(p, anchor, u) ==
  /\ anchor # 0
  /\ \E delegates \in {AllKeys(odb[anchor].rev.dels)} :
       /\ delegates \ {p} # {}
       /\ \E states \in {{VerifyAt(d, u) : d \in delegates \ {p}}} :
          \E theirs \in {Newest(states)} \ {0} :
            LET asked == p \in delegates /\ odb[anchor].rev # odb[theirs].rev
                has == CHOOSE d \in delegates \ {p} : VerifyAt(d, u) = theirs
            IN  \E newest \in {IF asked THEN anchor ELSE theirs},
                   from \in {IF asked THEN p ELSE has} :
                  /\ asked => Newer(odb, anchor, theirs) = anchor
                  /\ PersonsKnown(newest, from)
                  /\ Setup(p, newest, from)
  /\ UNCHANGED <<odb, made>>

\* `clone`: the anchor is what the remote q shows to be the identity.
Clone(p, q, u) ==
  /\ heads[p][u] = 0
  /\ \E anchor \in {VerifyAt(q, u)} : Replicate(p, anchor, u)

\* `pull`: the anchor is the device's own verified identity.
Pull(p, u) ==
  /\ heads[p][u] # 0
  /\ \E anchor \in {VerifyAt(p, u)} : Replicate(p, anchor, u)

Next ==
  \E p \in Device, u \in Urn :
    \/ CreatePerson(p, u)
    \/ CreateProject(p, u)
    \/ UpdatePerson(p, u)
    \/ UpdateProject(p, u)
    \/ \E c \in CommitsOf(u) :
         Approve(p, c, u) \/ MergePerson(p, c, u) \/ MergeProject(p, c, u)
    \/ \E q \in Device : Clone(p, q, u)
    \/ Pull(p, u)

Spec == Init /\ [][Next]_vars

-----------------------------------------------------------------------------

\* The revisions a revision goes back to, itself included.
Lineage(r) ==
  LET up[n \in 0..Len(odb)] ==
        IF n = 0 THEN <<r>>
        ELSE LET s == up[n - 1] IN
             IF Last(s).replaces = NoRev THEN s ELSE Append(s, Last(s).replaces)
  IN  ToSet(up[Len(odb)])

\* Every commit a device made is well-formed, and no device has a ref to
\* nothing (the maps from devices to commits, odb and refs/rad/id).
TypeOK ==
  /\ made <= MaxCommits
  /\ \A c \in DOMAIN odb : /\ ToSet(odb[c].parents) \subseteq 1..(c - 1)
                           /\ odb[c].sigs \in (SUBSET Device) \ {{}}
                           /\ WellFormed(odb[c].rev.dels)
                           /\ IsFiniteSet(odb[c].rev.dels.ids)
                           /\ odb[c].rev.dels.keys \subseteq Device
  /\ \A p \in Device, u \in Urn : heads[p][u] \in {0} \cup CommitsOf(u)

\* Two sets of signatures that each reach the quorum of one document have a
\* delegate in common: the threshold of `quorum_threshold` is a majority.
QuorumsMeet ==
  \A c \in DOMAIN odb :
    \A v, w \in {s \in SUBSET Device : HasQuorum(odb[c].rev.dels, s)} :
      ShareDelegate(odb[c].rev.dels, v, w)

\* What the devices hold to be the verified state of an identity.
Verified(u) == {VerifyAt(p, u) : p \in Device} \ {0}

\* The verified states of a person on any two devices lie on one line of
\* revisions, whatever proposals were made concurrently.
NoFork ==
  \A u \in Person : \A a, b \in Verified(u) :
    odb[a].rev \in Lineage(odb[b].rev) \/ odb[b].rev \in Lineage(odb[a].rev)

\* `newer` of two verified states of a person never reports a fork, and picks
\* one whose revision goes back to the other's.
NewerPicksLater ==
  \A u \in Person : \A a, b \in Verified(u) :
    LET n == Newer(odb, a, b)
    IN  n # 0 /\ {odb[a].rev, odb[b].rev} \subseteq Lineage(odb[n].rev)

\* The tip moves by a merge's fast-forward to a commit that has it only among
\* the second parents, which `Iter` does not follow.
LeavesLine(p, u) ==
  /\ DescendantOf(odb, heads'[p][u], heads[p][u])
  /\ heads[p][u] \notin ToSet(History(odb, heads'[p][u]))

\* On a device the verified state of an identity only moves to later
\* revisions, whatever is proposed on top of it, merged or replicated, but for
\* a fast-forward that leaves the line of first parents.
MovesToLater ==
  \A p \in Device, u \in Urn :
    heads[p][u] # heads'[p][u] =>
      LET old == VerifyAt(p, u)
          new == VerifyRef(odb', heads'[p], u)
      IN  old # 0 /\ new # 0 /\ ~ (made' = made /\ LeavesLine(p, u))
            => odb[old].rev \in Lineage(odb'[new].rev)

VerifiedNeverRegresses == [][MovesToLater]_vars

-----------------------------------------------------------------------------
(***************************************************************************)
(* Quorums intersect, for any delegations.                                 *)
(***************************************************************************)
\* The direct keys, and the persons, that have a vote in a set.
KeyVotes(d, v) == v \cap d.keys
IdVotes(d, v) == {i \in d.ids : v \cap i.keys # {}}

\* A set of votes in which no person votes twice has no more eligible votes
\* than delegates that voted (`Indirect::eligible` counts keys,
\* `quorum_threshold` counts delegates).
LEMMA VotesPerDelegate ==
  ASSUME NEW d, IsFiniteSet(d.keys), IsFiniteSet(d.ids), NEW v, ~ DoubleVote(d, v)
  PROVE  /\ IsFiniteSet(Eligible(d, v))
         /\ Cardinality(Eligible(d, v)) \in Nat
         /\ Cardinality(Eligible(d, v))
              <= Cardinality(KeyVotes(d, v)) + Cardinality(IdVotes(d, v))
<1> DEFINE O == {k \in v : \E i \in d.ids : k \in i.keys}
           I == IdVotes(d, v)
           K == KeyVotes(d, v)
           owner == [k \in O |-> CHOOSE i \in d.ids : k \in i.keys]
<1>1. IsFiniteSet(K) /\ Cardinality(K) \in Nat
  BY FS_Subset, FS_CardinalityType DEF KeyVotes
<1>2. IsFiniteSet(I) /\ Cardinality(I) \in Nat
  BY FS_Subset, FS_CardinalityType DEF IdVotes
<1>3. \A k \in O : owner[k] \in d.ids /\ k \in owner[k].keys
  OBVIOUS
<1>4. owner \in [O -> I]
  BY <1>3 DEF IdVotes
<1>5. \A k, l \in O : owner[k] = owner[l] => k = l
  BY <1>3 DEF DoubleVote
<1>6. owner \in Injection(O, I)
  <2> HIDE DEF owner, O, I
  <2> QED BY <1>4, <1>5 DEF Injection, IsInjective
<1>7. IsFiniteSet(O) /\ Cardinality(O) \in Nat /\ Cardinality(O) <= Cardinality(I)
  <2> HIDE DEF owner, O, I
  <2> QED BY <1>6, <1>2, FS_Injection, FS_CardinalityType
<1>8. Eligible(d, v) = K \cup O
  <2>1. \A k : k \in UNION {i.keys : i \in d.ids} <=> \E i \in d.ids : k \in i.keys
    BY Zenon
  <2> QED BY <2>1 DEF Eligible, AllKeys, KeyVotes
<1>9. IsFiniteSet(K \cap O) /\ Cardinality(K \cap O) \in Nat
  <2> HIDE DEF O, K
  <2> QED BY <1>1, FS_Subset, FS_CardinalityType, K \cap O \in SUBSET K
<1>10. /\ IsFiniteSet(K \cup O)
       /\ Cardinality(K \cup O) = Cardinality(K) + Cardinality(O) - Cardinality(K \cap O)
  <2> HIDE DEF O, K
  <2> QED BY <1>1, <1>7, FS_Union
<1>11. Cardinality(K \cup O) \in Nat
  <2> HIDE DEF O, K
  <2> QED BY <1>10, FS_CardinalityType
<1> HIDE DEF O, K, I, owner
<1> QED
  BY <1>1, <1>2, <1>7, <1>8, <1>9, <1>10, <1>11 DEF K, I

\* Two quorums of one document share a delegate.
LEMMA QuorumsIntersect ==
  ASSUME NEW d, IsFiniteSet(d.keys), IsFiniteSet(d.ids),
         NEW v, NEW w, HasQuorum(d, v), HasQuorum(d, w)
  PROVE  ShareDelegate(d, v, w)
<1> DEFINE nk == Cardinality(d.keys)
           ni == Cardinality(d.ids)
<1>1. SUFFICES ASSUME ~ ShareDelegate(d, v, w) PROVE FALSE
  OBVIOUS
<1>2. nk \in Nat /\ ni \in Nat
  BY FS_CardinalityType
<1>3. Cardinality(KeyVotes(d, v)) + Cardinality(KeyVotes(d, w)) <= nk
      /\ Cardinality(KeyVotes(d, v)) \in Nat /\ Cardinality(KeyVotes(d, w)) \in Nat
  <2>1. KeyVotes(d, v) \in SUBSET d.keys /\ KeyVotes(d, w) \in SUBSET d.keys
    BY DEF KeyVotes
  <2>2. KeyVotes(d, v) \cap KeyVotes(d, w) = {}
    BY <1>1 DEF KeyVotes, ShareDelegate
  <2> QED BY <2>1, <2>2, FS_Subset, FS_CardinalityType, FS_MajoritiesIntersect
<1>4. Cardinality(IdVotes(d, v)) + Cardinality(IdVotes(d, w)) <= ni
      /\ Cardinality(IdVotes(d, v)) \in Nat /\ Cardinality(IdVotes(d, w)) \in Nat
  <2>1. IdVotes(d, v) \in SUBSET d.ids /\ IdVotes(d, w) \in SUBSET d.ids
    BY DEF IdVotes
  <2>2. IdVotes(d, v) \cap IdVotes(d, w) = {}
    BY <1>1 DEF IdVotes, ShareDelegate
  <2> QED BY <2>1, <2>2, FS_Subset, FS_CardinalityType, FS_MajoritiesIntersect
<1>5. /\ Cardinality(Eligible(d, v)) \in Nat
      /\ Cardinality(Eligible(d, v)) <= Cardinality(KeyVotes(d, v)) + Cardinality(IdVotes(d, v))
  BY VotesPerDelegate DEF HasQuorum
<1>6. /\ Cardinality(Eligible(d, w)) \in Nat
      /\ Cardinality(Eligible(d, w)) <= Cardinality(KeyVotes(d, w)) + Cardinality(IdVotes(d, w))
  BY VotesPerDelegate DEF HasQuorum
<1>7. /\ Cardinality(Eligible(d, v)) > (nk + ni) \div 2
      /\ Cardinality(Eligible(d, w)) > (nk + ni) \div 2
  BY DEF HasQuorum, Threshold
<1> HIDE DEF nk, ni
<1> QED BY <1>2, <1>3, <1>4, <1>5, <1>6, <1>7

\* Whatever the devices wrote: two sets of signatures that each reach the
\* quorum of one document have a delegate in common.
THEOREM QuorumsAlwaysMeet == IsFiniteSet(Device) /\ TypeOK => QuorumsMeet
<1> SUFFICES ASSUME IsFiniteSet(Device), TypeOK,
                    NEW c \in DOMAIN odb, NEW v \in SUBSET Device, NEW w \in SUBSET Device,
                    HasQuorum(odb[c].rev.dels, v), HasQuorum(odb[c].rev.dels, w)
             PROVE  ShareDelegate(odb[c].rev.dels, v, w)
  BY DEF QuorumsMeet
<1>1. IsFiniteSet(odb[c].rev.dels.keys) /\ IsFiniteSet(odb[c].rev.dels.ids)
  BY FS_Subset DEF TypeOK
<1> QED BY <1>1, QuorumsIntersect
=============================================================================
