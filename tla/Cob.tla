-------------------------------- MODULE Cob ---------------------------------
EXTENDS Integers, FiniteSets, Sequences, SequencesExt

-----------------------------------------------------------------------------
(***************************************************************************)
(* The changes of a collaborative object and their evaluation (cob,        *)
(* change_graph.rs, evaluation.rs, pruning_fold.rs, history.rs).  A store  *)
(* is a sequence of changes, a change's id is its index, and it knows the  *)
(* changes before it and its author.  The commits of the authoring and the *)
(* authorizing identity, also parents of a change's commit, are left out,  *)
(* as `add_change` leaves them out.                                        *)
(***************************************************************************)
Change(parents, author) == [parents |-> parents, author |-> author]

\* `ChangeGraph::load`: everything that can be reached from the tips.
Load(odb, tips) ==
  LET anc[c \in DOMAIN odb] == {c} \cup UNION {anc[p] : p \in odb[c].parents}
  IN  UNION {anc[t] : t \in tips}

\* The edges of the graph, from parents to children (`add_edge`).
Children(odb, graph, c) == {d \in graph : c \in odb[d].parents}

\* The node without incoming edges (`GraphBuilder::build`, `evaluate`).
Root(odb, graph) == CHOOSE c \in graph : odb[c].parents = {}

\* `tips`: the nodes without outgoing edges.
Tips(odb, graph) == {c \in graph : Children(odb, graph, c) = {}}

\* `directly_reject`.
DirectlyReject(s, c, children) ==
  [s EXCEPT !.direct = @ \cup {c}, !.transitive = @ \cup children]

\* `transitively_reject`, of all children of a node.
TransitivelyReject(s, children) == [s EXCEPT !.transitive = @ \cup children]

\* Mutant: the children of a change rejected for an ancestor are let through.
FoldStepShallow(odb, graph, ok, s, c) ==
  IF c \in s.direct \cup s.transitive THEN s
  ELSE IF c \in ok THEN [s EXCEPT !.kept = @ \cup {c}]
  ELSE DirectlyReject(s, c, Children(odb, graph, c))

\* One node in the loop of `pruning_fold`.
FoldStep(odb, graph, ok, s, c) ==
  IF c \in s.direct THEN s
  ELSE IF c \in s.transitive THEN TransitivelyReject(s, Children(odb, graph, c))
  ELSE IF c \in ok THEN [s EXCEPT !.kept = @ \cup {c}]
  ELSE DirectlyReject(s, c, Children(odb, graph, c))

\* `pruning_fold` over the nodes in the given order; ok are those for which
\* the folded function continues.
PruningFold(odb, order, ok) ==
  LET upto[n \in 0..Len(order)] ==
        IF n = 0 THEN [kept |-> {}, direct |-> {}, transitive |-> {}]
        ELSE FoldStep(odb, ToSet(order), ok, upto[n - 1], order[n])
  IN  upto[Len(order)].kept

\* petgraph's `Topo` visits a node after all its parents.
Topo(odb, graph) ==
  {s \in SetToSeqs(graph) :
     \A i \in 1..Len(s) : odb[s[i]].parents \cap graph \subseteq {s[j] : j \in 1..(i - 1)}}

\* `create_petgraph` finds an entry for every child that an entry names, and
\* `History::new` one for the root.
Closed(odb, graph, entries) ==
  /\ Root(odb, graph) \in entries
  /\ \A e \in entries : Children(odb, graph, e) \subseteq entries

-----------------------------------------------------------------------------
(***************************************************************************)
(* One collaborative object on several devices (cob/src/lib.rs and cache,  *)
(* librad/src/collaborative_objects.rs).  A device's storage has its own   *)
(* ref to the object and those of the peers it replicates from; its cache  *)
(* file holds a history together with the tips it was made from.  Several  *)
(* processes work on one device: an operation reads the refs, then the     *)
(* cache, evaluates the changes, and an update then makes a commit, writes *)
(* the cache and sets the ref, each a step of its own.                     *)
(***************************************************************************)
CONSTANTS
  Device,
  Process,     \* the processes
  DeviceOf,    \* [Process -> Device], where a process runs
  Creator,       \* the device that creates the object
  MaxChanges   \* bound on the number of changes

VARIABLES
  kind,   \* the authorizing identity: a "project", or the owner's "person"
  odb,    \* the changes
  refs,   \* refs[d][p] is p's ref to the object in the storage of d, or 0
  cache,  \* the cache files: the tips and the changes of the history
  proc    \* what the processes do

cobVars == <<kind, odb, refs, cache, proc>>

\* No file; `create_object` writes one whose tip is the author's identity.
NoFile == [tips |-> {}, entries |-> {}]
AuthorTip == 0

Idle == [at |-> "idle"]

Init ==
  /\ kind \in {"project", "person"}
  /\ odb = <<>>
  /\ refs = [d \in Device |-> [p \in Device |-> 0]]
  /\ cache = [d \in Device |-> NoFile]
  /\ proc = [x \in Process |-> Idle]

\* `check_authorization`: all may write to an object of a project, and only
\* the person itself to one of a person.
Authorized(author) == kind = "person" => author = Creator

\* `evaluate_change`, for changes with valid signatures whose identities can
\* be verified.
Accepted(store) == {c \in DOMAIN store : Authorized(store[c].author)}

\* `ChangeGraph::evaluate`: the changes that are folded into the history.
Evaluate(store, tips) ==
  LET graph == Load(store, tips)
      order == SelectSeq([c \in DOMAIN store |-> c], LAMBDA c : c \in graph)
  IN  PruningFold(store, order, Accepted(store))

Panics(tips) == ~ Closed(odb, Load(odb, tips), Evaluate(odb, tips))

\* The device's own ref, and what the glob over remotes matches.
LocalRef(d) == {refs[d][d]} \ {0}

RemoteRefs(d) == {refs[d][p] : p \in Device \ {d}} \ {0}

\* `object_references`.
ObjectReferences(d) == LocalRef(d) \cup RemoteRefs(d)

\* `type_references`: the local ref is dropped if a remote one comes first.
TypeReferences(d) ==
  {ObjectReferences(d), RemoteRefs(d)} \ {{}}

At(x, pc) == proc[x].at = pc

Goto(x, s) == proc' = [proc EXCEPT ![x] = s]

\* `create_object`: the ref is set, then the cache is written.
Create(x) ==
  /\ At(x, "idle") /\ DeviceOf[x] = Creator /\ odb = <<>>
  /\ odb' = <<Change({}, Creator)>>
  /\ refs' = [refs EXCEPT ![Creator][Creator] = 1]
  /\ Goto(x, [at |-> "created"])
  /\ UNCHANGED <<kind, cache>>

CreatePut(x) ==
  /\ At(x, "created")
  /\ cache' = [cache EXCEPT ![DeviceOf[x]] = [tips |-> {AuthorTip}, entries |-> {1}]]
  /\ Goto(x, Idle)
  /\ UNCHANGED <<kind, odb, refs>>

\* `retrieve`, `list` and `update` read the refs; no refs, no object.
Begin(x, op, tips, previous) ==
  /\ At(x, "idle") /\ tips # {}
  /\ Goto(x, [at |-> "load", op |-> op, tips |-> tips, previous |-> previous])
  /\ UNCHANGED <<kind, odb, refs, cache>>

Retrieve(x) == Begin(x, "read", ObjectReferences(DeviceOf[x]), 0)

List(x) == \E tips \in TypeReferences(DeviceOf[x]) : Begin(x, "read", tips, 0)

\* The updates that are going to make a change.
Updating ==
  {x \in Process : At(x, "loaded") \/ (proc[x].at \in {"load", "put"} /\ proc[x].op = "update")}

Update(x) ==
  /\ Len(odb) + Cardinality(Updating) < MaxChanges
  /\ Begin(x, "update", ObjectReferences(DeviceOf[x]), refs[DeviceOf[x]][DeviceOf[x]])

\* The operation goes on with a cached graph: a read returns it.
Loaded(x, g) ==
  IF proc[x].op = "read" THEN Idle
  ELSE [at |-> "loaded", tips |-> g.tips, entries |-> g.entries,
        previous |-> proc[x].previous]

\* `Cache::load`: the file is used if it was made from these very tips.
Fresh(x) == cache[DeviceOf[x]].tips = proc[x].tips

LoadCached(x) ==
  /\ At(x, "load") /\ Fresh(x)
  /\ Goto(x, Loaded(x, cache[DeviceOf[x]]))
  /\ UNCHANGED <<kind, odb, refs, cache>>

\* `load_or_materialize` without a fresh file: evaluate, which panics when a
\* change is rejected, and write the file.
Materialize(x) ==
  /\ At(x, "load") /\ ~ Fresh(x)
  /\ Goto(x, IF Panics(proc[x].tips) THEN [at |-> "panicked"]
             ELSE [proc[x] EXCEPT !.at = "put"])
  /\ UNCHANGED <<kind, odb, refs, cache>>

\* Mutant: the refs are read again for the evaluation.
MaterializePutLate(x) ==
  /\ At(x, "put")
  /\ LET g == [tips |-> proc[x].tips,
               entries |-> Evaluate(odb, ObjectReferences(DeviceOf[x]))]
     IN  /\ cache' = [cache EXCEPT ![DeviceOf[x]] = g]
         /\ Goto(x, Loaded(x, g))
  /\ UNCHANGED <<kind, odb, refs>>

MaterializePut(x) ==
  /\ At(x, "put")
  /\ LET g == [tips |-> proc[x].tips, entries |-> Evaluate(odb, proc[x].tips)]
     IN  /\ cache' = [cache EXCEPT ![DeviceOf[x]] = g]
         /\ Goto(x, Loaded(x, g))
  /\ UNCHANGED <<kind, odb, refs>>

\* `CachedChangeGraph::update_ref` and `History::extend`.
UpdateRef(g, new) ==
  [tips |-> (g.tips \ {g.previous}) \cup {new}, entries |-> g.entries \cup {new}]

\* Mutant: the previous ref is taken out of the tips before the commit is made.
CommitAfterUpdate(x) ==
  /\ At(x, "loaded")
  /\ odb' = Append(odb, Change(proc[x].tips \ {proc[x].previous}, DeviceOf[x]))
  /\ cache' = [cache EXCEPT ![DeviceOf[x]] = UpdateRef(proc[x], Len(odb) + 1)]
  /\ Goto(x, [at |-> "commit", new |-> Len(odb) + 1, previous |-> proc[x].previous])
  /\ UNCHANGED <<kind, refs>>

\* `update` makes the commit on top of all tips, and writes the cache.
Commit(x) ==
  /\ At(x, "loaded")
  /\ odb' = Append(odb, Change(proc[x].tips, DeviceOf[x]))
  /\ cache' = [cache EXCEPT ![DeviceOf[x]] = UpdateRef(proc[x], Len(odb) + 1)]
  /\ Goto(x, [at |-> "commit", new |-> Len(odb) + 1, previous |-> proc[x].previous])
  /\ UNCHANGED <<kind, refs>>

\* `RefsStorage::update_ref`: set by force, whatever it is by now.
SetRef(x) ==
  /\ At(x, "commit")
  /\ refs' = [refs EXCEPT ![DeviceOf[x]][DeviceOf[x]] = proc[x].new]
  /\ Goto(x, Idle)
  /\ UNCHANGED <<kind, odb, cache>>

\* The process has panicked, or is killed where it has written one of two
\* things; elsewhere a killed process is one that does not go on.
Crash(x) ==
  /\ proc[x].at \in {"created", "commit", "panicked"}
  /\ Goto(x, Idle)
  /\ UNCHANGED <<kind, odb, refs, cache>>

\* Replication brings a peer's ref up to date.
Fetch(d, p) ==
  /\ d # p /\ refs[p][p] # refs[d][p]
  /\ refs' = [refs EXCEPT ![d][p] = refs[p][p]]
  /\ UNCHANGED <<kind, odb, cache, proc>>

Next ==
  \/ \E x \in Process :
       \/ Create(x) \/ CreatePut(x) \/ Retrieve(x) \/ List(x) \/ Update(x)
       \/ LoadCached(x) \/ Materialize(x) \/ MaterializePut(x)
       \/ Commit(x) \/ SetRef(x) \/ Crash(x)
  \/ \E d, p \in Device : Fetch(d, p)

Spec == Init /\ [][Next]_cobVars

-----------------------------------------------------------------------------
\* The graphs of n changes: every change but the first has some earlier ones as
\* its parents.
GraphsOf(n) ==
  {[c \in 1..n |-> Change(ps[c], "author")] :
     ps \in {f \in [1..n -> SUBSET (1..n)] :
               /\ f[1] = {}
               /\ \A c \in 2..n : f[c] # {} /\ f[c] \subseteq 1..(c - 1)}}

\* However a graph of n changes branches and joins, whichever of them the folded
\* function rejects, and in whichever topological order they are visited, the
\* fold keeps exactly those that are neither rejected nor descend from a
\* rejected one.
PrunesExactly(n) ==
  \A g \in GraphsOf(n) : \A order \in Topo(g, 1..n) : \A ok \in SUBSET (1..n) :
    PruningFold(g, order, ok) = {c \in 1..n : Load(g, {c}) \subseteq ok}

\* What a device gets to see of the object: its cache's changes if the file is
\* fresh, else those it would evaluate.
Seen(store, tips, file) ==
  IF file.tips = tips THEN file.entries ELSE Evaluate(store, tips)

\* A cache file never shows another object than the changes it was made from,
\* also after updates were added to it, or were killed before their ref was set.
CacheTransparent ==
  kind = "project" =>
    \A d \in Device : AuthorTip \notin cache[d].tips => cache[d].entries = Evaluate(odb, cache[d].tips)

\* A device never loses sight of a change it has seen, whatever is fetched and
\* whichever processes are killed, but for an update that overlaps with another
\* of the same device and sets the ref by force: there, and where that is fetched.
KeepsSeen ==
  kind = "project" =>
    \A d \in Device :
      \/ Seen(odb, ObjectReferences(d), cache[d])
           \subseteq Seen(odb', Range(refs'[d]) \ {0}, cache'[d])
      \/ \E x \in Process : At(x, "commit") /\ DeviceOf[x] = d /\ proc[x].previous # refs[d][d]
      \/ \E p \in Device \ {d} : refs[d][p] \notin Load(odb, {refs'[d][p]} \ {0})

SeenGrows == [][KeepsSeen]_<<refs, cache>>

\* `evaluate` is to "filter out branches of the graph which do not have valid
\* signatures, or which do not have permission to make a change", so reading an
\* object does not panic over them.
RejectedAreFiltered == \A x \in Process : ~ At(x, "panicked")
=============================================================================
