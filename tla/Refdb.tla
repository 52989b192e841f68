------------------------------- MODULE Refdb -------------------------------
(***************************************************************************)
(* The reference database of replication: link_git::refs::db caches the    *)
(* packed-refs file for all threads and hands out snapshots; the Refdb of  *)
(* link-replication reads tips from its snapshot, turns updates into       *)
(* edits, and commits them in a transaction of the reference store.        *)
(*                                                                         *)
(* Pulls of several URNs run side by side, one updating a person's id that *)
(* the other reaches through a symbolic ref of a project, while git        *)
(* pack-refs moves loose refs into packed-refs.  A name is qualified by    *)
(* its namespace; a value is direct or symbolic, and absent when 0.        *)
(***************************************************************************)
EXTENDS Naturals, Sequences, FiniteSets, TLC, SequencesExt

CONSTANTS
    Threads,
    Names,          \* qualified and namespaced reference names
    Oids,           \* commits: positive numbers
    Parent,         \* the parent of each commit, 0 for none
    Batches,        \* the updates a pull may ask for in one call
    Stored,         \* the references there at first
    MaxCalls,       \* bound: calls of update
    MaxPacks        \* bound: runs of git pack-refs

VARIABLES
    loose,      \* the loose references
    file,       \* packed-refs: its references and modification time, 0 for no file
    cached,     \* the Packed all clones of the handle share
    pulls,      \* what each thread does, and its snapshot
    calls, packings

refdbVars == <<loose, file, cached, pulls, calls, packings>>

Absent == [oid |-> 0, sym |-> ""]
Peeled(o) == [oid |-> o, sym |-> ""]
Symbolic(n) == [oid |-> 0, sym |-> n]
IsSymbolic(v) == v.sym # ""
IsPeeled(v) == v.oid # 0
NoRefs == [n \in Names |-> Absent]
NoFile == [refs |-> NoRefs, mtime |-> 0]

(* What git reads: loose references before packed ones. *)
Overlay(over, under) == [n \in Names |-> IF over[n] = Absent THEN under[n] ELSE over[n]]
OnDisk == Overlay(loose, file.refs)

Idle == [pc |-> "idle", snap |-> NoRefs, seen |-> 0, edits |-> << >>, batch |-> << >>]
Step(t, changes) == pulls' = [pulls EXCEPT ![t] = changes @@ @]
At(t, pc) == pulls[t].pc = pc

Init ==
    /\ loose = Stored
    /\ file \in {NoFile, [refs |-> NoRefs, mtime |-> 1]}
    /\ cached = file
    /\ pulls = [t \in Threads |-> Idle]
    /\ calls = 0 /\ packings = 0

-----------------------------------------------------------------------------
(* link_git::refs::db *)

(* Packed::is_modified: a file that has gone is modified, and so is one    *)
(* whose modification time is the one remembered.                          *)
IsModified(packed) == file.mtime = 0 \/ packed.mtime = file.mtime

(* Refdb::new, and reload after an update: Refdb::snapshot with the read   *)
(* lock.                                                                   *)
Snapshot(t) ==
    /\ At(t, "snapshot")
    /\ IF cached.mtime = 0 \/ IsModified(cached)
       THEN Step(t, [pc |-> "reload", seen |-> cached.mtime])
       ELSE Step(t, [pc |-> "ready", snap |-> cached.refs])
    /\ UNCHANGED <<loose, file, cached, calls, packings>>

(* Packed::open, with packed-refs locked so that nobody writes it.  That   *)
(* the lock is not had within half a second is left out.                   *)
Open == file

(* Refdb::reload with the write lock: what another thread has loaded       *)
(* meanwhile will do.                                                      *)
Reload(t) ==
    /\ At(t, "reload")
    /\ LET waited == cached.mtime # 0 /\ (pulls[t].seen = 0 \/ cached.mtime # pulls[t].seen)
       IN /\ cached' = IF waited THEN cached ELSE Open
          /\ Step(t, [pc |-> "ready", snap |-> cached'.refs])
    /\ UNCHANGED <<loose, file, calls, packings>>

(* Snapshot::find *)
Find(snap, n) == IF loose[n] = Absent THEN snap[n] ELSE loose[n]

(* Snapshot::follow: at most five references, none twice. *)
MaxDepth == 5
Follow(snap, n) ==
    LET go[seen \in SUBSET Names, m \in Names] ==
            LET v == Find(snap, m) IN
            IF v = Absent THEN "notfound"
            ELSE IF IsPeeled(v) THEN "found"
            ELSE IF Cardinality(seen) + 1 > MaxDepth THEN "depth"
            ELSE IF v.sym \in seen THEN "cycle"
            ELSE go[seen \cup {v.sym}, v.sym]
        end[seen \in SUBSET Names, m \in Names] ==
            LET v == Find(snap, m) IN
            IF IsPeeled(v) THEN v.oid ELSE end[seen \cup {m}, v.sym]
    IN [is |-> go[{n}, n], oid |-> IF go[{n}, n] = "found" THEN end[{}, n] ELSE 0]

-----------------------------------------------------------------------------
(* link_replication::io::refdb *)

(* Odb::is_in_ancestry_path *)
IsInAncestryPath(new, old) ==
    LET up[o \in Oids \cup {0}] == IF o = 0 THEN {} ELSE {o} \cup up[Parent[o]]
    IN old \in up[new]

Edit(n, expected, new) == [name |-> n, expected |-> expected, new |-> new]
Edits(es) == [is |-> "edits", edits |-> es]
Rejected == [is |-> "rejected", edits |-> << >>]
Failed == [is |-> "error", edits |-> << >>]

(* Refdb::find_namespaced *)
FindNamespaced(snap, n) ==
    IF Find(snap, n) = Absent THEN [is |-> "found", oid |-> 0] ELSE Follow(snap, n)

(* Refdb::direct_edit *)
DirectEdit(snap, up) ==
    LET tip == FindNamespaced(snap, up.name)
        edit == Edits(<< Edit(up.name, Peeled(tip.oid), Peeled(up.target)) >>)
    IN CASE tip.is # "found" -> Failed
         [] tip.is = "found" /\ tip.oid = 0 ->
                Edits(<< Edit(up.name, Absent, Peeled(up.target)) >>)
         [] tip.is = "found" /\ tip.oid # 0 ->
                IF IsInAncestryPath(up.target, tip.oid) \/ up.policy = "allow" THEN edit
                ELSE IF up.policy = "abort" THEN Failed ELSE Rejected

(* Refdb::symbolic_edit: the target is created with the symbolic ref, or   *)
(* fast-forwarded, or left where it is.                                    *)
FastForward(up, dst) ==
    IF up.target # dst.oid /\ IsInAncestryPath(up.target, dst.oid)
    THEN << Edit(up.to, dst, Peeled(up.target)) >> ELSE << >>

SymbolicEdit(snap, up) ==
    LET src == Find(snap, up.name)
        dst == Find(snap, up.to)
    IN CASE IsPeeled(src) /\ up.policy = "abort" -> Failed
         [] IsPeeled(src) /\ up.policy = "reject" -> Rejected
         [] ~(IsPeeled(src) /\ up.policy # "allow") ->
                IF IsSymbolic(dst) THEN Failed
                ELSE IF dst = Absent
                THEN Edits(<< Edit(up.to, Absent, Peeled(up.target)),
                              Edit(up.name, Absent, Symbolic(up.to)) >>)
                ELSE Edits(Append(FastForward(up, dst), Edit(up.name, src, Symbolic(up.to))))

PruneEdit(up) == Edits(<< Edit(up.name, Peeled(up.prev), Absent) >>)

(* A slip: direct references are overwritten whatever they are by now. *)
AsEditsForced(snap, up) ==
    CASE up.is = "direct" ->
            LET e == DirectEdit(snap, up)
            IN [e EXCEPT !.edits = [i \in DOMAIN @ |-> [@[i] EXCEPT !.expected = OnDisk[up.name]]]]
      [] up.is = "symbolic" -> SymbolicEdit(snap, up)
      [] up.is = "prune" -> PruneEdit(up)

(* Refdb::as_edits *)
AsEdits(snap, up) ==
    CASE up.is = "direct" -> DirectEdit(snap, up)
      [] up.is = "symbolic" -> SymbolicEdit(snap, up)
      [] up.is = "prune" -> PruneEdit(up)

(* Refdb::update: an error of one update is an error of them all; the last *)
(* edit of a reference wins.                                               *)
Collect(t, batch) ==
    LET each == [i \in DOMAIN batch |-> AsEdits(pulls[t].snap, batch[i])]
        all == FlattenSeq([i \in DOMAIN batch |-> each[i].edits])
        last(e, i) == \A j \in (i + 1)..Len(all) : all[j].name # e.name
    IN IF \E i \in DOMAIN batch : each[i].is = "error"
       THEN Step(t, [pc |-> "ready"])
       ELSE Step(t, [pc |-> "commit", batch |-> batch,
                     edits |-> SelectSeq([i \in DOMAIN all |->
                        IF last(all[i], i) THEN all[i] ELSE Edit("", Absent, Absent)],
                        LAMBDA e : e.name # "")])

Begin(t) ==
    /\ At(t, "idle")
    /\ Step(t, [pc |-> "snapshot"])
    /\ UNCHANGED <<loose, file, cached, calls, packings>>

Update(t, batch) ==
    /\ At(t, "ready") /\ calls < MaxCalls
    /\ calls' = calls + 1
    /\ Collect(t, batch)
    /\ UNCHANGED <<loose, file, cached, packings>>

(* The transaction checks every reference against the store, and then      *)
(* writes them all; one that is locked, or not as expected, fails it.      *)
Written(refs, edits) ==
    [n \in Names |->
        IF \E i \in DOMAIN edits : edits[i].name = n
        THEN edits[CHOOSE i \in DOMAIN edits : edits[i].name = n].new ELSE refs[n]]

Prepared(edits) == \A i \in DOMAIN edits : OnDisk[edits[i].name] = edits[i].expected

Commit(t) ==
    LET edits == pulls[t].edits
        gone == {n \in Names : \E i \in DOMAIN edits : edits[i].name = n /\ edits[i].new = Absent}
        unpacked == \E n \in gone : file.refs[n] # Absent
    IN
    /\ At(t, "commit") /\ Prepared(edits)
    /\ loose' = Written(loose, edits)
    /\ file' = IF unpacked
               THEN [refs |-> [n \in Names |-> IF n \in gone THEN Absent ELSE file.refs[n]],
                     mtime |-> file.mtime + 1]
               ELSE file
    /\ Step(t, [pc |-> IF edits = << >> THEN "ready" ELSE "snapshot",
                edits |-> << >>, batch |-> << >>])
    /\ UNCHANGED <<cached, calls, packings>>

Abort(t) ==
    /\ At(t, "commit")
    /\ ~Prepared(pulls[t].edits) \/ \E r \in Threads \ {t} : At(r, "commit")
    /\ Step(t, [pc |-> "ready", edits |-> << >>, batch |-> << >>])
    /\ UNCHANGED <<loose, file, cached, calls, packings>>

Finish(t) ==
    /\ At(t, "ready")
    /\ pulls' = [pulls EXCEPT ![t] = Idle]
    /\ UNCHANGED <<loose, file, cached, calls, packings>>

-----------------------------------------------------------------------------
(* git pack-refs *)

Direct(refs) == [n \in Names |-> IF IsPeeled(refs[n]) THEN refs[n] ELSE Absent]

PackRefs ==
    /\ packings < MaxPacks
    /\ packings' = packings + 1
    /\ file' = [refs |-> Overlay(Direct(loose), file.refs), mtime |-> file.mtime + 1]
    /\ UNCHANGED <<loose, cached, pulls, calls>>

PruneLoose(n) ==
    /\ packings > 0 /\ IsPeeled(loose[n]) /\ loose[n] = file.refs[n]
    /\ loose' = [loose EXCEPT ![n] = Absent]
    /\ UNCHANGED <<file, cached, pulls, calls, packings>>

Next ==
    \/ \E t \in Threads :
         \/ Begin(t) \/ Snapshot(t) \/ Reload(t) \/ Commit(t) \/ Abort(t) \/ Finish(t)
         \/ \E batch \in Batches : Update(t, batch)
    \/ PackRefs
    \/ \E n \in Names : PruneLoose(n)

Spec == Init /\ [][Next]_refdbVars

-----------------------------------------------------------------------------
(* The doc of Refdb::snapshot "checks if the previously loaded             *)
(* `packed-refs` appear to be out-of-date, and reloads them if necessary": *)
(* what it returns without reloading is what the file says at that time.   *)
SnapshotIsCurrent ==
    [][\A t \in Threads :
        (At(t, "snapshot") /\ pulls'[t].pc = "ready") => pulls'[t].snap = file.refs]_refdbVars

(* The references as git reads them, of the given files. *)
Tip(ls, packed, n) == IF ls[n] = Absent THEN packed[n] ELSE ls[n]

(* Whatever a thread has read in whichever snapshot, a transaction moves a *)
(* reference only the way its policy allows: a direct one forward unless   *)
(* the update says "allow", none of them from direct to symbolic unless it *)
(* says so, the target of a symbolic one always forward, and a pruned one  *)
(* only when it was the one to prune (direct_edit, symbolic_edit).         *)
Allowed(up, n, old, new) ==
    \/ old = Absent
    \/ IsPeeled(old) /\ IsPeeled(new) /\ IsInAncestryPath(new.oid, old.oid)
    \/ up.name = n /\ up.is # "prune" /\ up.policy = "allow"
    \/ up.name = n /\ up.is = "symbolic" /\ IsSymbolic(old) /\ IsSymbolic(new)
    \/ up.name = n /\ up.is = "prune" /\ old = Peeled(up.prev)

RespectsPolicy ==
    \A t \in Threads : At(t, "commit") /\ pulls'[t].pc = "snapshot" =>
        \A n \in Names :
            LET old == Tip(loose, file.refs, n)
                new == Tip(loose', file'.refs, n)
            IN old # new =>
                \E i \in DOMAIN pulls[t].batch : Allowed(pulls[t].batch[i], n, old, new)

UpdatesRespectPolicy == [][RespectsPolicy]_refdbVars
=============================================================================
