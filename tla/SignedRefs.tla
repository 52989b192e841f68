----------------------------- MODULE SignedRefs -----------------------------
(***************************************************************************)
(* The signed refs of an identity, and the remotes they let others see.    *)
(***************************************************************************)
EXTENDS Naturals, Sequences, FiniteSets

-----------------------------------------------------------------------------
(***************************************************************************)
(* The signed refs of one identity, and the post-receive hook of lnk-gitd  *)
(* that keeps them up to date: every push to a namespace writes its refs,  *)
(* then the hook signs the refs (Refs::update), asks the seeds to pull and *)
(* announces the new state.  Pushes to one identity run concurrently.      *)
(***************************************************************************)
CONSTANTS
    Push,       \* pushes to the identity, each of a ref of its own
    Seed,       \* the configured seeds
    NoCommit    \* the value of a branch that does not exist

VARIABLES
    refs,       \* the refs in the namespace: the pushes that landed
    tip,        \* the commit at rad/signed_refs
    commits,    \* the signed refs commits made: commits[i] is a set of refs
    hook,       \* hook[p]: the state of p's hook
    seeded,     \* seeded[s]: the signed refs seed s pulled last
    overlap     \* history: the pushes whose hook ran while another one did

signedVars == <<refs, tip, commits, hook, seeded, overlap>>

Idle == [at |-> "pushing", computed |-> {}, parent |-> NoCommit,
         updated |-> "none", seeds |-> Seed, pulled |-> {}]

SignInit ==
    /\ refs = {}
    /\ tip = NoCommit
    /\ commits = <<>>
    /\ hook = [p \in Push |-> Idle]
    /\ seeded = [s \in Seed |-> {}]
    /\ overlap = {}

Signed(c) == IF c = NoCommit THEN {} ELSE commits[c]

At(p, at) == hook[p].at = at

Active == {p \in Push : hook[p].at \notin {"pushing", "done"}}

(***************************************************************************)
(* git receive-pack updates the ref and exits; the hook starts.            *)
(***************************************************************************)
ReceivePack(p) ==
    /\ At(p, "pushing")
    /\ refs' = refs \cup {p}
    /\ hook' = [hook EXCEPT ![p].at = "compute"]
    /\ overlap' = IF Active = {} THEN overlap ELSE overlap \cup Active \cup {p}
    /\ UNCHANGED <<tip, commits, seeded>>

(***************************************************************************)
(* Refs::compute reads the namespace, Refs::update then reads the branch:  *)
(* two steps, between which others push and sign.                          *)
(***************************************************************************)
Compute(p) ==
    /\ At(p, "compute")
    /\ hook' = [hook EXCEPT ![p].at = "parent", ![p].computed = refs]
    /\ UNCHANGED <<refs, tip, commits, seeded, overlap>>

ReadParent(p) ==
    /\ At(p, "parent")
    /\ hook' = [hook EXCEPT ![p].at = "commit", ![p].parent = tip]
    /\ UNCHANGED <<refs, tip, commits, seeded, overlap>>

(***************************************************************************)
(* The tree is compared with the parent's; an unchanged one is not stored. *)
(* libgit2 refuses a commit on a branch that left its first parent.        *)
(***************************************************************************)
\* A bug variant: a parent that signs some ref is taken to sign them all.
NonEmptyIsUnchanged(p) ==
    IF Signed(hook[p].parent) # {} THEN "unchanged" ELSE "updated"

Outcome(p) ==
    CASE /\ hook[p].parent # NoCommit
         /\ Signed(hook[p].parent) = hook[p].computed -> "unchanged"
      [] /\ hook[p].parent = NoCommit \/ Signed(hook[p].parent) # hook[p].computed
         /\ tip = hook[p].parent -> "updated"
      [] OTHER -> "concurrently_modified"

CommitRefs(p) ==
    /\ At(p, "commit")
    /\ LET o == Outcome(p)
       IN  /\ hook' = [hook EXCEPT ![p].at = "request_pull", ![p].updated = o]
           /\ IF o = "updated"
              THEN /\ commits' = Append(commits, hook[p].computed)
                   /\ tip' = Len(commits) + 1
              ELSE UNCHANGED <<commits, tip>>
    /\ UNCHANGED <<refs, seeded, overlap>>

(***************************************************************************)
(* One request-pull per seed, in turn: the seed replicates the namespace   *)
(* as signed, or fails, which is reported and skipped.                     *)
(***************************************************************************)
RequestPull(p, s) ==
    /\ At(p, "request_pull")
    /\ s \in hook[p].seeds
    /\ \/ /\ seeded' = [seeded EXCEPT ![s] = Signed(tip)]
          /\ hook' = [hook EXCEPT ![p].seeds = @ \ {s}, ![p].pulled = @ \cup {s}]
       \/ /\ hook' = [hook EXCEPT ![p].seeds = @ \ {s}]
          /\ UNCHANGED seeded
    /\ UNCHANGED <<refs, tip, commits, overlap>>

(***************************************************************************)
(* Without a commit id to announce (a sigrefs race) the hook ends.         *)
(***************************************************************************)
Announce(p) ==
    /\ At(p, "request_pull")
    /\ hook[p].seeds = {}
    /\ hook' = [hook EXCEPT ![p].at = "done"]
    /\ UNCHANGED <<refs, tip, commits, seeded, overlap>>

SignNext ==
    \E p \in Push :
        \/ ReceivePack(p) \/ Compute(p) \/ ReadParent(p) \/ CommitRefs(p)
        \/ \E s \in Seed : RequestPull(p, s)
        \/ Announce(p)

SignSpec == SignInit /\ [][SignNext]_signedVars

----------------------------------------------------------------------------
(***************************************************************************)
(* "Another process committed Refs, so the computed ones were discarded"   *)
(* (refs.rs, Updated::ConcurrentlyModified): a commit of signed refs never *)
(* takes back a ref that an earlier one signed and that still exists.      *)
(***************************************************************************)
NothingUnsigned ==
    [][tip' # tip => (Signed(tip) \cap refs) \subseteq commits'[tip']]_signedVars

(***************************************************************************)
(* A hook that no other hook overlapped ends with the whole namespace      *)
(* signed, and every seed that answered has all of it (hooks.rs: "update   *)
(* the signed refs before a possible request_pull, so that the peer can    *)
(* receive the latest refs"), whatever earlier races left behind.          *)
(***************************************************************************)
HookCovers ==
    \A p \in Active \ overlap :
        hook'[p].at = "done" =>
            /\ Signed(tip) = refs
            /\ \A s \in hook[p].pulled : seeded[s] = refs

UndisturbedHookCovers == [][HookCovers]_signedVars

-----------------------------------------------------------------------------
(***************************************************************************)
(* The transitive tracking graph (Remotes) inside signed refs.  A graph is *)
(* a tree of peers, written here as the set of its paths.  A peer's graph  *)
(* holds the peers it tracks and below each of them the graph that peer    *)
(* signed, as last replicated, cut off at Depth levels.                    *)
(***************************************************************************)
CONSTANTS
    Peer,
    Depth,      \* TRACKING_GRAPH_DEPTH
    MaxTracks   \* bound: how often a tracking relation changes

VARIABLES
    tracked,    \* tracked[p]: the peers p tracks
    copy,       \* copy[p][q]: the graph of q in the storage of p
    changes     \* number of changes of tracked so far

graphVars == <<tracked, copy, changes>>

GraphInit ==
    /\ tracked = [p \in Peer |-> {}]
    /\ copy = [p \in Peer |-> [q \in Peer |-> {}]]
    /\ changes = 0

\* A bug variant: the levels below are counted from one.
CutoffLate(graph, depth) == {path \in graph : Len(path) <= depth + 1}

(***************************************************************************)
(* Remotes::cutoff and cutoff_mut: at most depth levels.                   *)
(***************************************************************************)
Cutoff(graph, depth) == {path \in graph : Len(path) <= depth}

(***************************************************************************)
(* The remotes part of Refs::compute.                                      *)
(***************************************************************************)
ComputeRemotes(p) ==
    UNION {{<<q>> \o path : path \in {<<>>} \cup Cutoff(copy[p][q], Depth)} :
               q \in tracked[p]}

Track(p, q) ==
    /\ changes < MaxTracks
    /\ p # q
    /\ q \notin tracked[p]
    /\ tracked' = [tracked EXCEPT ![p] = @ \cup {q}]
    /\ changes' = changes + 1
    /\ UNCHANGED copy

Untrack(p, q) ==
    /\ changes < MaxTracks
    /\ q \in tracked[p]
    /\ tracked' = [tracked EXCEPT ![p] = @ \ {q}]
    /\ changes' = changes + 1
    /\ UNCHANGED copy

(***************************************************************************)
(* Refs::update: p signs what it computes.                                 *)
(***************************************************************************)
Sign(p) ==
    /\ copy' = [copy EXCEPT ![p][p] = ComputeRemotes(p)]
    /\ UNCHANGED <<tracked, changes>>

(***************************************************************************)
(* Replication brings the signed refs of a tracked peer.                   *)
(***************************************************************************)
Replicate(p, q) ==
    /\ q \in tracked[p]
    /\ copy' = [copy EXCEPT ![p][q] = copy[q][q]]
    /\ UNCHANGED <<tracked, changes>>

GraphNext ==
    \E p \in Peer :
        \/ Sign(p)
        \/ \E q \in Peer : Track(p, q) \/ Untrack(p, q) \/ Replicate(p, q)

GraphSpec == GraphInit /\ [][GraphNext]_graphVars

----------------------------------------------------------------------------
(***************************************************************************)
(* However peers track each other, in cycles or not, and however often     *)
(* their signed refs go round, a graph stays a tree of at most one level   *)
(* more than TRACKING_GRAPH_DEPTH (refs.rs, Refs::compute).                *)
(***************************************************************************)
GraphsStayShallow ==
    \A p, q \in Peer :
        \A path \in copy[p][q] :
            /\ Len(path) <= Depth + 1
            /\ \A n \in 1 .. Len(path) : SubSeq(path, 1, n) \in copy[p][q]
=============================================================================
