------------------------------- MODULE Odb -------------------------------
(***************************************************************************)
(* The object database replication reads from (link_git::odb): the pack    *)
(* indices several threads share (index::Shared), the fixed cache of open  *)
(* pack files (window::Fixed), the packs a fetch writes and adds, and the  *)
(* loose objects.  Another process (git gc, git repack) compacts the same  *)
(* directory meanwhile.                                                    *)
(*                                                                         *)
(* A pack is a number, larger for a later modification time, and what it   *)
(* holds is chosen when it is written.                                     *)
(***************************************************************************)
EXTENDS Integers, Sequences, FiniteSets, TLC, SequencesExt, FiniteSetsExt

CONSTANTS Threads, Objects,
    Slots,          \* slots of the bucket all packs of the instance fall in
    MaxPacks,       \* bound: packs written in all
    MaxLookups      \* bound: lookups started in all

VARIABLES
    packs,      \* content of the packs on disk, and of the ones removed
    onDisk,     \* packs whose files are there
    loose,      \* loose objects
    indices,    \* the indices in memory, most recent first
    lock,       \* holder of the write lock of the indices
    bucket,     \* slots of the cache: a pack and how often it was hit
    bucketLock, \* holder of the lock of the bucket
    threads,    \* the lookup each thread is in
    lookups,    \* lookups started
    compacting  \* the pack a compaction has written, or 0

odbVars == <<packs, onDisk, loose, indices, lock, bucket, bucketLock, threads, lookups, compacting>>
diskVars == <<packs, onDisk, loose, compacting>>

Free == "free"
Empty == [pack |-> 0, hits |-> 0]
Idle == [pc |-> "idle", id |-> "", pass |-> 0, phase |-> "", pack |-> 0, listed |-> {},
         present |-> FALSE, disturbed |-> FALSE, stale |-> FALSE]

Stored == loose \cup UNION {packs[k] : k \in onDisk}
Latest == Len(packs)

Init ==
    /\ packs = <<>> /\ onDisk = {} /\ compacting = 0
    /\ loose \in SUBSET Objects
    /\ indices = <<>> /\ lock = Free
    /\ bucket = [s \in 1..Slots |-> Empty] /\ bucketLock = Free
    /\ threads = [t \in Threads |-> Idle] /\ lookups = 0

Step(t, changes) == threads' = [threads EXCEPT ![t] = changes @@ @]
At(t, pc) == threads[t].pc = pc
End(t, result) == Step(t, [pc |-> result, listed |-> {}, pack |-> 0, phase |-> "", pass |-> 0])

-----------------------------------------------------------------------------
(* index::Shared *)

(* Odb::find asks the packed objects whether they contain the object, and  *)
(* then for the object; the loose ones are the last resort.                *)
Find(t, id) ==
    /\ At(t, "idle") /\ lookups < MaxLookups
    /\ lookups' = lookups + 1
    /\ Step(t, [pc |-> "scan", phase |-> "contains", pass |-> 0, id |-> id,
                present |-> id \in Stored,
                stale |-> \E i \in DOMAIN indices : indices[i] \notin onDisk])
    /\ UNCHANGED <<diskVars, indices, lock, bucket, bucketLock>>

IndexContains(k, id) == id \in packs[k]
Hits(id) == {i \in DOMAIN indices : IndexContains(indices[i], id)}

(* contains and lookup: a snapshot of the indices is searched, and once    *)
(* more after the directory has been read again.                           *)
Scan(t) ==
    LET hits == Hits(threads[t].id) IN
    /\ At(t, "scan")
    /\ \/ /\ hits # {} /\ threads[t].phase = "contains"
          /\ Step(t, [phase |-> "lookup", pass |-> 0])
       \/ /\ hits # {} /\ threads[t].phase = "lookup"
          /\ Step(t, [pc |-> "get", pack |-> indices[Min(hits)]])
       \/ /\ hits = {} /\ threads[t].pass = 0
          /\ Step(t, [pc |-> "reload"])
       \/ /\ hits = {} /\ threads[t].pass = 1
          /\ IF threads[t].phase = "contains" THEN Step(t, [pc |-> "loose"]) ELSE End(t, "none")
    /\ UNCHANGED <<diskVars, indices, lock, bucket, bucketLock, lookups>>

(* reload, guarded by the lock of the writers. *)
LockIndices(t) ==
    /\ At(t, "reload") /\ lock = Free
    /\ lock' = t
    /\ Step(t, [pc |-> "discover", listed |-> onDisk])
    /\ UNCHANGED <<diskVars, indices, bucket, bucketLock, lookups>>

(* The index and the pack file are opened by their paths: a compaction may *)
(* have removed them.                                                      *)
OpenIndex(k) == k \in onDisk
OpenData(k) == k \in onDisk

(* discover: every index that was listed is opened, the most recent first. *)
(* One that has gone meanwhile is an error, on which contains answers no   *)
(* and lookup fails.                                                       *)
SearchAgain(t) == Step(t, [pc |-> "scan", pass |-> 1, listed |-> {}])

Discover(t) ==
    LET listed == threads[t].listed IN
    /\ At(t, "discover")
    /\ lock' = Free
    /\ \/ /\ \A k \in listed : OpenIndex(k)
          /\ indices' = SetToSortSeq(listed, >)
          /\ SearchAgain(t)
       \/ /\ \E k \in listed : ~OpenIndex(k)
          /\ IF threads[t].phase = "contains" THEN Step(t, [pc |-> "loose", listed |-> {}])
                                              ELSE End(t, "error")
          /\ UNCHANGED indices
    /\ UNCHANGED <<diskVars, bucket, bucketLock, lookups>>

DiscoverNothing(t) ==
    /\ At(t, "discover")
    /\ lock' = Free
    /\ SearchAgain(t)
    /\ UNCHANGED <<diskVars, indices, bucket, bucketLock, lookups>>

FindLoose(t) ==
    /\ At(t, "loose")
    /\ End(t, IF threads[t].id \in loose THEN "found" ELSE "none")
    /\ UNCHANGED <<diskVars, indices, lock, bucket, bucketLock, lookups>>

-----------------------------------------------------------------------------
(* window::Fixed *)

Cached(pack) == {s \in 1..Slots : bucket[s].pack = pack}
Hit(s) == bucket' = [bucket EXCEPT ![s].hits = @ + 1]

(* get without the lock. *)
GetCached(t) ==
    /\ At(t, "get")
    /\ IF Cached(threads[t].pack) # {}
       THEN Hit(Min(Cached(threads[t].pack))) /\ End(t, "found")
       ELSE Step(t, [pc |-> "miss"]) /\ UNCHANGED bucket
    /\ UNCHANGED <<diskVars, indices, lock, bucketLock, lookups>>

LockBucket(t) ==
    /\ At(t, "miss") /\ bucketLock = Free
    /\ bucketLock' = t
    /\ Step(t, [pc |-> "recheck"])
    /\ UNCHANGED <<diskVars, indices, lock, bucket, lookups>>

(* Did someone else win the race for the lock? *)
RecheckNot(t) ==
    /\ At(t, "recheck")
    /\ Step(t, [pc |-> "load"])
    /\ UNCHANGED <<diskVars, indices, lock, bucket, bucketLock, lookups>>

Recheck(t) ==
    /\ At(t, "recheck")
    /\ IF Cached(threads[t].pack) # {}
       THEN Hit(Min(Cached(threads[t].pack))) /\ bucketLock' = Free /\ End(t, "found")
       ELSE Step(t, [pc |-> "load"]) /\ UNCHANGED <<bucket, bucketLock>>
    /\ UNCHANGED <<diskVars, indices, lock, lookups>>

(* An empty slot, or the first of the least popular. *)
Evicted ==
    LET empty == {s \in 1..Slots : bucket[s] = Empty}
        least == {s \in 1..Slots : \A r \in 1..Slots : bucket[s].hits <= bucket[r].hits}
    IN IF empty # {} THEN Min(empty) ELSE Min(least)

(* The pack file is opened with the lock held. *)
Load(t) ==
    /\ At(t, "load")
    /\ bucketLock' = Free
    /\ IF OpenData(threads[t].pack)
       THEN /\ bucket' = [bucket EXCEPT ![Evicted] = [pack |-> threads[t].pack, hits |-> 1]]
            /\ End(t, "found")
       ELSE UNCHANGED bucket /\ End(t, "error")
    /\ UNCHANGED <<diskVars, indices, lock, lookups>>

Return(t) ==
    /\ threads[t].pc \in {"found", "none", "error"}
    /\ threads' = [threads EXCEPT ![t] = Idle]
    /\ UNCHANGED <<diskVars, indices, lock, bucket, bucketLock, lookups>>

-----------------------------------------------------------------------------
(* Packs *)

(* A fetch, of this process or another, writes a pack and its index. *)
WritePack(objs) ==
    /\ Latest < MaxPacks
    /\ packs' = Append(packs, objs)
    /\ onDisk' = onDisk \cup {Latest + 1}
    /\ UNCHANGED <<loose, compacting, indices, lock, bucket, bucketLock, threads, lookups>>

(* Network::run_fetch ends with add_pack, which pushes the index to the    *)
(* front under the lock; the process may stop before.                      *)
AddPack ==
    /\ Latest \in onDisk /\ lock = Free
    /\ Latest \notin {indices[i] : i \in DOMAIN indices}
    /\ indices' = <<Latest>> \o indices
    /\ UNCHANGED <<diskVars, lock, bucket, bucketLock, threads, lookups>>

(* A compaction writes everything into one pack, and then removes the      *)
(* packs and the loose objects it has replaced.                            *)
Repack ==
    /\ compacting = 0 /\ Latest < MaxPacks /\ Stored # {}
    /\ packs' = Append(packs, Stored)
    /\ onDisk' = onDisk \cup {Latest + 1}
    /\ compacting' = Latest + 1
    /\ UNCHANGED <<loose, indices, lock, bucket, bucketLock, threads, lookups>>

Disturb == threads' = [t \in Threads |->
    IF threads[t].pc = "idle" THEN threads[t] ELSE [threads[t] EXCEPT !.disturbed = TRUE]]

RemovePack(k) ==
    /\ compacting # 0 /\ k \in onDisk /\ k < compacting
    /\ packs[k] \subseteq packs[compacting]
    /\ onDisk' = onDisk \ {k}
    /\ Disturb
    /\ UNCHANGED <<packs, loose, compacting, indices, lock, bucket, bucketLock, lookups>>

PruneLoose ==
    /\ compacting # 0 /\ loose \cap packs[compacting] # {}
    /\ loose' = loose \ packs[compacting]
    /\ Disturb
    /\ UNCHANGED <<packs, onDisk, compacting, indices, lock, bucket, bucketLock, lookups>>

Next ==
    \/ \E t \in Threads :
         \/ \E id \in Objects : Find(t, id)
         \/ Scan(t) \/ LockIndices(t) \/ Discover(t) \/ FindLoose(t)
         \/ GetCached(t) \/ LockBucket(t) \/ Recheck(t) \/ Load(t) \/ Return(t)
    \/ \E objs \in SUBSET Objects \ {{}} : WritePack(objs)
    \/ AddPack \/ Repack \/ PruneLoose
    \/ \E k \in 1..MaxPacks : RemovePack(k)

Spec == Init /\ [][Next]_odbVars

-----------------------------------------------------------------------------
(* A bucket of the cache never holds one pack twice, whoever raced to open *)
(* it: the files that are open stay below the capacity the type names, and *)
(* the popularity of a pack is counted in one place (window.rs, get).      *)
OneSlotPerPack ==
    \A s, r \in 1..Slots : bucket[s].pack # 0 /\ bucket[s].pack = bucket[r].pack => s = r

(* An object that is stored when a lookup starts is found, in whichever    *)
(* pack another process has put it since the indices were read, as long as *)
(* no compaction removes files during the lookup and no index in memory is *)
(* of a pack that was removed before (index.rs, contains and lookup).      *)
UndisturbedFinds ==
    \A t \in Threads :
        LET l == threads[t] IN
        (l.pc \in {"none", "error"} /\ l.present) => l.disturbed \/ l.stale

(* "Otherwise it is not required to call this method, as [`Shared`]        *)
(* manages reloads automatically" (index.rs, reload): a lookup that begins *)
(* after a compaction is done with removing files does not fail for it.    *)
ReloadsItself ==
    \A t \in Threads :
        (threads[t].pc \in {"none", "error"} /\ threads[t].present) => threads[t].disturbed
=============================================================================
