---------------------------- MODULE StorageRead -----------------------------
(***************************************************************************)
(* Reading from the storage: which commits and references there are, and   *)
(* which branch the delegates of a project agree on.                       *)
(***************************************************************************)
EXTENDS Naturals, Sequences, SequencesExt, FiniteSets

-----------------------------------------------------------------------------
(***************************************************************************)
(* Reading the storage (librad, storage::read): the queries a node answers *)
(* gossip with and the listing of references, while other processes move,  *)
(* add and delete references and collect garbage. A query reads the object *)
(* database, then the reference, then the history.                         *)
(***************************************************************************)
CONSTANTS
    Names,          \* references, in the order they are listed
    Matching,       \* those the pattern of a listing matches
    Commits,        \* 1..n, each the parent of the next
    MaxWrites       \* bound: changes by other processes

None == <<"none", 0>>
Zero == <<"zero", 0>>
Commit(c) == <<"commit", c>>
Tag(c) == <<"tag", c>>
Blob == <<"blob", 0>>

Objects == {Commit(c) : c \in Commits} \cup {Tag(c) : c \in Commits} \cup {Blob}

VARIABLES
    objects,        \* objects that exist
    refs,           \* [Names -> object or None]
    query,          \* the query under way
    always,         \* references that have been there since the query began
    writes

readVars == <<objects, refs, query, always, writes>>

NoQuery == [op |-> "none", pc |-> "done", oid |-> Zero, ref |-> "none", kind |-> "none",
            tip |-> None, answer |-> "none", found |-> {}, rest |-> << >>]

(* The objects a reference keeps alive: a tag's commit and its ancestors. *)
Closure(o) == {o} \cup IF o[1] \in {"commit", "tag"} THEN {Commit(c) : c \in 1..o[2]} ELSE {}

QueryInit ==
    /\ refs \in [ToSet(Names) -> Objects \cup {None}]
    /\ objects = Objects
    /\ query = NoQuery /\ always = {} /\ writes = 0

(* Another process sets or deletes a reference. *)
Write(name) ==
    /\ writes < MaxWrites
    /\ \E o \in objects \cup {None} :
        /\ o # refs[name]
        /\ refs' = [refs EXCEPT ![name] = o]
        /\ always' = IF o = None THEN always \ {name} ELSE always
    /\ writes' = writes + 1
    /\ UNCHANGED <<objects, query>>

(* What no reference reaches is removed. *)
CollectGarbage ==
    /\ writes < MaxWrites
    /\ objects' = UNION {Closure(refs[n]) : n \in ToSet(Names)} \ {None}
    /\ objects' # objects
    /\ writes' = writes + 1
    /\ UNCHANGED <<refs, query, always>>

Answer(a) == query' = [query EXCEPT !.pc = "done", !.answer = a]

(* has_commit, has_tag: find_object, of the kind asked for. The zero id is *)
(* no object's.                                                            *)
FindObject(op, oid, name) ==
    LET kind == IF op = "has commit" THEN "commit" ELSE "tag"
    IN /\ query.pc = "done" /\ query.answer = "none"
       /\ query' = IF oid = Zero \/ oid \notin objects \/ oid[1] # kind
                   THEN [NoQuery EXCEPT !.op = op, !.oid = oid, !.ref = name, !.kind = kind, !.answer = "false"]
                   ELSE [NoQuery EXCEPT !.op = op, !.pc = "tip", !.oid = oid, !.ref = name, !.kind = kind]
       /\ UNCHANGED <<objects, refs, always, writes>>

(* has_object *)
HasObject(oid) ==
    /\ query.pc = "done" /\ query.answer = "none"
    /\ query' = [NoQuery EXCEPT !.op = "has object", !.oid = oid,
                    !.answer = IF oid # Zero /\ oid \in objects THEN "true" ELSE "false"]
    /\ UNCHANGED <<objects, refs, always, writes>>

(* git's peeling: a tag is peeled to its commit, a commit is no tag. *)
Peel(o, kind) ==
    IF o[1] = kind THEN o
    ELSE IF o[1] = "tag" /\ kind = "commit" THEN Commit(o[2]) ELSE None

(* tip: no reference is no tip, one of another kind an error. *)
Tip ==
    /\ query.pc = "tip"
    /\ IF refs[query.ref] = None THEN Answer("false")
       ELSE IF Peel(refs[query.ref], query.kind) = None THEN Answer("error")
       ELSE query' = [query EXCEPT !.pc = "compare", !.tip = Peel(refs[query.ref], query.kind)]
    /\ UNCHANGED <<objects, refs, always, writes>>

(* A slip: the tip must be in the history of the commit. *)
IsDescendantOfOid(tip, oid) == oid[2] > tip[2]

(* git's graph: a proper descendant, both of which are read. *)
DescendantOf(tip, oid) == tip[2] > oid[2]

(* The tip itself or one of its ancestors. *)
HasCommit ==
    /\ query.pc = "compare" /\ query.op = "has commit"
    /\ IF query.tip = query.oid THEN Answer("true")
       ELSE IF ~({query.tip, query.oid} \subseteq objects) THEN Answer("error")
       ELSE Answer(IF DescendantOf(query.tip, query.oid) THEN "true" ELSE "false")
    /\ UNCHANGED <<objects, refs, always, writes>>

HasTag ==
    /\ query.pc = "compare" /\ query.op = "has tag"
    /\ Answer(IF query.tip = query.oid THEN "true" ELSE "false")
    /\ UNCHANGED <<objects, refs, always, writes>>

(* has_urn, has_ref: whether there is such a reference; reference_oid: an  *)
(* error when there is not.                                                *)
HasRef(name) == IF refs[name] # None THEN "true" ELSE "false"

ReferenceOid(name) == IF refs[name] # None THEN "true" ELSE "error"

LookUp(op, name) ==
    /\ query.pc = "done" /\ query.answer = "none"
    /\ query' = [NoQuery EXCEPT !.op = op, !.ref = name, !.tip = refs[name],
                    !.answer = IF op = "has ref" THEN HasRef(name) ELSE ReferenceOid(name)]
    /\ UNCHANGED <<objects, refs, always, writes>>

(* references, reference_names: the iterator of the backend, filtered. *)
References ==
    /\ query.pc = "done" /\ query.answer = "none"
    /\ query' = [NoQuery EXCEPT !.op = "list", !.pc = "list", !.rest = Names]
    /\ always' = {n \in ToSet(Names) : refs[n] # None}
    /\ UNCHANGED <<objects, refs, writes>>

(* A slip: the listing ends at the first name that does not match. *)
NextReferenceWhile ==
    /\ query.pc = "list" /\ query.rest # << >>
    /\ LET n == Head(query.rest)
       IN query' = IF refs[n] # None /\ n \notin Matching THEN [query EXCEPT !.rest = << >>]
                   ELSE [query EXCEPT !.rest = Tail(@), !.found = IF refs[n] # None THEN @ \cup {n} ELSE @]
    /\ UNCHANGED <<objects, refs, always, writes>>

NextReference ==
    /\ query.pc = "list" /\ query.rest # << >>
    /\ LET n == Head(query.rest)
       IN query' = [query EXCEPT !.rest = Tail(@),
                        !.found = IF refs[n] # None /\ n \in Matching THEN @ \cup {n} ELSE @]
    /\ UNCHANGED <<objects, refs, always, writes>>

EndOfReferences ==
    /\ query.pc = "list" /\ query.rest = << >>
    /\ Answer("listed")
    /\ UNCHANGED <<objects, refs, always, writes>>

QueryNext ==
    \/ \E n \in ToSet(Names) : Write(n)
    \/ CollectGarbage
    \/ \E oid \in Objects \cup {Zero} :
        \/ HasObject(oid)
        \/ \E op \in {"has commit", "has tag"}, n \in ToSet(Names) : FindObject(op, oid, n)
    \/ \E op \in {"has ref", "reference oid"}, n \in ToSet(Names) : LookUp(op, n)
    \/ Tip \/ HasCommit \/ HasTag \/ References \/ NextReference \/ EndOfReferences

QuerySpec == QueryInit /\ [][QueryNext]_readVars

-----------------------------------------------------------------------------
(* A commit a node says it has is in the history of the tip it read, so    *)
(* that a gossiped tip it declines is one it need not fetch; undisturbed,  *)
(* it also says so of every one that is. A listing has every reference     *)
(* that matches and was there throughout, and none that does not (read.rs, *)
(* has_commit, ReferencesGlob).                                            *)
QueriesAreTrue ==
    /\ (query.op = "has commit" /\ query.answer = "true") =>
        query.oid[1] = "commit" /\ query.oid \in Closure(query.tip)
    /\ (query.op = "has commit" /\ query.answer = "false" /\ writes = 0) =>
        \/ query.oid[1] # "commit" \/ refs[query.ref] = None
        \/ query.oid \notin Closure(refs[query.ref])
    /\ query.answer = "listed" => /\ always \cap Matching \subseteq query.found
                                  /\ query.found \subseteq Matching

(* "The result will be `false` if: [...] The SHA of the tag was not the    *)
(* same as the resolved reference": the question whether there is a tag is *)
(* answered while nothing changes (read.rs, has_tag).                      *)
HasTagDecides ==
    (query.op = "has tag" /\ writes = 0) => query.answer # "error"

-----------------------------------------------------------------------------
(***************************************************************************)
(* The default branch of a project (librad, identities::project::heads):   *)
(* the tips the delegates have published for it are folded into histories, *)
(* and when there is one, its base becomes the local head of the branch    *)
(* and the namespace's HEAD, and the signed refs are computed anew.        *)
(*                                                                         *)
(* Tips may be replaced while they are read, by pushes of the local user   *)
(* and by replication.                                                     *)
(***************************************************************************)
CONSTANTS
    Delegates,      \* the peers of the delegations, in their order
    Local,          \* the local peer
    Revisions,      \* commits
    Graphs,         \* [Revisions -> SUBSET Revisions], the histories considered
    MaxPushes       \* bound: tips replaced

NoOid == 0

VARIABLES
    parents,        \* the history, one of Graphs
    heads,          \* [peers -> its tip of the default branch, or NoOid]
    head,           \* what the namespace's HEAD refers to: a branch or nothing
    signed,         \* the local peer's tip in its signed refs
    run,            \* the computation under way
    pushes

headVars == <<parents, heads, head, signed, run, pushes>>

Peers == ToSet(Delegates) \cup {Local}

Ancestors(c) ==
    LET upTo[d \in Revisions] == {d} \cup UNION {upTo[p] : p \in parents[d]}
    IN upTo[c]

(* git merge-base: one of the best common ancestors. *)
MergeBases(a, b) ==
    LET common == Ancestors(a) \cap Ancestors(b)
    IN {c \in common : ~ \E d \in common \ {c} : c \in Ancestors(d)}

Idle == [pc |-> "idle", next |-> 1, histories |-> << >>, tips |-> {}, outcome |-> "none", target |-> NoOid]

HeadInit ==
    /\ parents \in Graphs
    /\ heads \in [Peers -> Revisions \cup {NoOid}]
    /\ head = "unset" /\ signed = heads[Local]
    /\ run = Idle
    /\ pushes = 0

Ended(outcome) == run' = [run EXCEPT !.pc = "idle", !.outcome = outcome]

(* A push by the local user, or the replication of a peer's branch. *)
Push(p) ==
    /\ pushes < MaxPushes
    /\ \E c \in Revisions \ {heads[p]} :
        /\ heads' = [heads EXCEPT ![p] = c]
        /\ signed' = IF p = Local THEN c ELSE signed
    /\ pushes' = pushes + 1
    /\ UNCHANGED <<parents, head, run>>

(* default_branch_head: a project need not name a default branch. *)
Start ==
    /\ run.pc = "idle" /\ run.outcome = "none"
    /\ run' = [run EXCEPT !.pc = "peers"] \/ Ended("no default branch")
    /\ UNCHANGED <<parents, heads, head, signed, pushes>>

History(base, p) == [base |-> base, peers |-> {p}]

(* What add_peer makes of one history: found in it, or left as it is. *)
Joined(h, p, tip) ==
    IF h.base = tip THEN {[h EXCEPT !.peers = @ \cup {p}]}
    ELSE {[base |-> b, peers |-> h.peers \cup {p}] : b \in MergeBases(h.base, tip)}

(* A slip: the base stays where it is. *)
AddPeerKeepingBase(histories, p, tip) ==
    IF \E i \in DOMAIN histories : Joined(histories[i], p, tip) # {}
    THEN {[i \in DOMAIN histories |->
              IF Joined(histories[i], p, tip) # {} THEN [histories[i] EXCEPT !.peers = @ \cup {p}]
              ELSE histories[i]]}
    ELSE {Append(histories, History(tip, p))}

(* add_peer, for every choice of merge bases. *)
AddPeer(histories, p, tip) ==
    LET after(h) == IF Joined(h, p, tip) = {} THEN {h} ELSE Joined(h, p, tip)
        all == {s \in [DOMAIN histories -> UNION {after(histories[i]) : i \in DOMAIN histories}] :
                    \A i \in DOMAIN histories : s[i] \in after(histories[i])}
    IN IF \E i \in DOMAIN histories : Joined(histories[i], p, tip) # {}
       THEN all ELSE {Append(histories, History(tip, p))}

(* peer_commit: the tip the peer published, the local peer's among the heads. *)
PeerCommit(p) == heads[p]

(* default_branch_head: the next delegate; one without a tip is passed over. *)
NextPeer ==
    /\ run.pc = "peers" /\ run.next <= Len(Delegates)
    /\ LET p == Delegates[run.next] tip == PeerCommit(p)
       IN IF tip = NoOid
          THEN run' = [run EXCEPT !.next = @ + 1]
          ELSE \E hs \in AddPeer(run.histories, p, tip) :
                run' = [run EXCEPT !.next = @ + 1, !.histories = hs, !.tips = @ \cup {tip}]
    /\ UNCHANGED <<parents, heads, head, signed, pushes>>

(* Multiverse::finish *)
Finish ==
    /\ run.pc = "peers" /\ run.next > Len(Delegates)
    /\ CASE Len(run.histories) = 0 -> Ended("no tips")
         [] Len(run.histories) = 1 -> run' = [run EXCEPT !.pc = "set", !.target = run.histories[1].base]
         [] Len(run.histories) > 1 -> Ended("forked")
    /\ UNCHANGED <<parents, heads, head, signed, pushes>>

(* set_default_head: the branch is set, by force, *)
SetBranch ==
    /\ run.pc = "set"
    /\ heads' = [heads EXCEPT ![Local] = run.target]
    /\ run' = [run EXCEPT !.pc = "symbolic"]
    /\ UNCHANGED <<parents, head, signed, pushes>>

(* then HEAD, *)
SetHead ==
    /\ run.pc = "symbolic"
    /\ head' = "branch"
    /\ run' = [run EXCEPT !.pc = "sign"]
    /\ UNCHANGED <<parents, heads, signed, pushes>>

(* and the signed refs are updated. *)
UpdateRefs ==
    /\ run.pc = "sign"
    /\ signed' = heads[Local]
    /\ Ended("head")
    /\ UNCHANGED <<parents, heads, head, pushes>>

HeadNext ==
    \/ \E p \in Peers : Push(p)
    \/ Start \/ NextPeer \/ Finish \/ SetBranch \/ SetHead \/ UpdateRefs

HeadSpec == HeadInit /\ [][HeadNext]_headVars

-----------------------------------------------------------------------------
(* "The most recent commit which all peers agree on" (heads.rs, Head): the *)
(* default head is in the history of every delegate that published the     *)
(* branch, as it was when its tip was read, and where no commit has two    *)
(* parents no later commit is in the history of all of them. With merges   *)
(* the fold over one merge base at a time may miss the latest one.         *)
HeadIsAgreed ==
    run.target # NoOid =>
        /\ \A t \in run.tips : run.target \in Ancestors(t)
        /\ (\A c \in Revisions : Cardinality(parents[c]) <= 1) =>
            ~ \E c \in Revisions \ {run.target} :
                /\ run.target \in Ancestors(c)
                /\ \A t \in run.tips : c \in Ancestors(t)
=============================================================================
