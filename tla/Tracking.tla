------------------------------ MODULE Tracking ------------------------------
(***************************************************************************)
(* The tracking store of one urn: processes that call track, modify,       *)
(* untrack, untrack_all and batch (crate link-tracking) over the reference *)
(* database of librad, whose updates run in libgit2 transactions.          *)
(*                                                                         *)
(* A transaction locks a reference, reads it and puts it to the guard of   *)
(* the update, one update after another, and then commits reference by     *)
(* reference.  A lock that is taken fails the whole call; it never waits.  *)
(* What is read before the transaction (by modify, untrack_all and the     *)
(* must-exist actions of a batch) may be stale when the lock is taken.     *)
(***************************************************************************)
EXTENDS TrackPolicy, Integers, FiniteSets

CONSTANTS Proc,       \* the processes, or threads, that use the store
          Name,       \* the entries: one per peer, and the default entry
          NameOrder,  \* the entries in the order a batch emits them
          Own,        \* the urn's own references, under refs/namespaces
          Calls,      \* the calls a process may make
          MaxCalls,   \* bound: calls made in all
          MaxCrashes, \* bound: processes that crash
          Modifier,   \* [Config -> Config], the function given to modify
          Tracked     \* [Name -> Entry], the entries at the start

ASSUME ModifierAssumption == Modifier \in [Config -> Config]
ASSUME TrackedAssumption == Tracked \in [Name -> Entry]
ASSUME NobodyAssumption == None \notin Proc
ASSUME NamesAssumption == /\ IsFiniteSet(Name)
                          /\ NameOrder \in Seq(Name)
                          /\ \A n \in Name : \E i \in 1..Len(NameOrder) : NameOrder[i] = n
ASSUME BoundsAssumption == MaxCalls \in Nat /\ MaxCrashes \in Nat

VARIABLES refs,      \* [Name -> Entry]
          owner,     \* [Name -> Proc \cup {None}], who holds the lock
          data,      \* peers whose replicated references exist, and Own
          pc,        \* [Proc -> where the call is]
          call,      \* [Proc -> the call, the last one when idle]
          pending,   \* [Proc -> entries of a batch already turned into updates]
          todo,      \* [Proc -> updates not yet put to the guard]
          staged,    \* [Proc -> updates accepted, not yet committed]
          rejected,  \* [Proc -> was an update rejected]
          wrote,     \* [Proc -> entries the call has changed]
          outcome,   \* [Proc -> what the last call returned]
          made,      \* calls made so far
          crashes    \* crashes so far

vars == <<refs, owner, data, pc, call, pending, todo, staged, rejected, wrote, outcome,
          made, crashes>>

Update(n, target, previous) == [name |-> n, target |-> target, previous |-> previous]

Init ==
    /\ refs = Tracked
    /\ owner = [n \in Name |-> None]
    /\ data = {n \in Name : Tracked[n] # None} \cup {Own}
    /\ pc = [p \in Proc |-> "idle"]
    /\ call = [p \in Proc |-> None]
    /\ pending = [p \in Proc |-> 0]
    /\ todo = [p \in Proc |-> << >>]
    /\ staged = [p \in Proc |-> {}]
    /\ rejected = [p \in Proc |-> FALSE]
    /\ wrote = [p \in Proc |-> {}]
    /\ outcome = [p \in Proc |-> "none"]
    /\ made = 0
    /\ crashes = 0

-----------------------------------------------------------------------------
\* fuse: the actions on one entry, composed in order.
FuseEntry(actions, n) ==
    LET f[i \in 0..Len(actions)] ==
            IF i = 0 THEN << >>
            ELSE IF actions[i].name # n THEN f[i - 1]
            ELSE IF f[i - 1] = << >> THEN <<actions[i].action>>
            ELSE ComposeReduction(f[i - 1], actions[i].action)
    IN f[Len(actions)]

\* One action of a batch, on the entry it names.
BatchActions == [name: Name, action: Actions]

\* The calls are well formed.
ASSUME CallsAssumption ==
    \A c \in Calls :
        /\ c.fn \in {"track", "modify", "untrack", "untrack_all", "batch"}
        /\ c.fn \in {"track", "modify", "untrack"} => c.name \in Name
        /\ c.fn = "track" => c.config \in Config /\ c.policy \in TrackPolicies
        /\ c.fn = "untrack" => c.policy \in UntrackPolicies /\ c.prune \in BOOLEAN
        /\ c.fn = "untrack_all" => c.policy \in {"any", "must_match"} /\ c.prune \in BOOLEAN
        /\ c.fn = "batch" => c.actions \in Seq(BatchActions)

Start(p, c) ==
    /\ pc[p] = "idle"
    /\ made < MaxCalls
    /\ made' = made + 1
    /\ call' = [call EXCEPT ![p] = c]
    /\ rejected' = [rejected EXCEPT ![p] = FALSE]
    /\ wrote' = [wrote EXCEPT ![p] = {}]
    /\ outcome' = [outcome EXCEPT ![p] = "none"]
    /\ pc' = [pc EXCEPT ![p] = IF c.fn \in {"track", "untrack"} THEN "lock" ELSE "read"]
    /\ todo' = [todo EXCEPT ![p] =
                    CASE c.fn = "track"   -> <<Update(c.name, c.config, TrackPrevious(c.policy))>>
                      [] c.fn = "untrack" -> <<Update(c.name, None, UntrackPrevious(c.policy))>>
                      [] OTHER            -> << >>]
    /\ UNCHANGED <<refs, owner, data, pending, staged, crashes>>

\* A plausible slip: the transaction is not dropped.
FinishLocked(p, result) ==
    /\ pc' = [pc EXCEPT ![p] = "idle"]
    /\ outcome' = [outcome EXCEPT ![p] = result]
    /\ owner' = owner
    /\ pending' = [pending EXCEPT ![p] = 0]
    /\ todo' = [todo EXCEPT ![p] = << >>]
    /\ staged' = [staged EXCEPT ![p] = {}]

\* The call returns; whatever lock it still holds goes with its transaction.
Finish(p, result) ==
    /\ pc' = [pc EXCEPT ![p] = "idle"]
    /\ outcome' = [outcome EXCEPT ![p] = result]
    /\ owner' = [n \in Name |-> IF owner[n] = p THEN None ELSE owner[n]]
    /\ pending' = [pending EXCEPT ![p] = 0]
    /\ todo' = [todo EXCEPT ![p] = << >>]
    /\ staged' = [staged EXCEPT ![p] = {}]

\* The updates are ready: on to the transaction.
Begin(p, updates) ==
    /\ pc' = [pc EXCEPT ![p] = "lock"]
    /\ todo' = [todo EXCEPT ![p] = updates]
    /\ pending' = [pending EXCEPT ![p] = 0]
    /\ UNCHANGED <<owner, staged, outcome>>

\* A plausible slip: modify only asks that there still is an entry.
ReadForModifyExists(p) ==
    /\ pc[p] = "read" /\ call[p].fn = "modify"
    /\ LET n == call[p].name IN
       IF refs[n] = None
       THEN Finish(p, "error")
       ELSE Begin(p, <<Update(n, Modifier[refs[n]], PreviousMustExist)>>)
    /\ UNCHANGED <<refs, data, call, rejected, wrote, made, crashes>>

\* modify reads the entry and asks to replace exactly what it read.
ReadForModify(p) ==
    /\ pc[p] = "read" /\ call[p].fn = "modify"
    /\ LET n == call[p].name IN
       IF refs[n] = None
       THEN Finish(p, "error")
       ELSE Begin(p, <<Update(n, Modifier[refs[n]], PreviousMatches(refs[n]))>>)
    /\ UNCHANGED <<refs, data, call, rejected, wrote, made, crashes>>

\* The orders in which the store may list a set of entries.
Listings(S) ==
    LET D == 1..Cardinality(S)
    IN  {s \in [D -> S] : \A i, j \in D : i # j => s[i] # s[j]}

\* untrack_all lists the entries that exist and deletes each.
ReadForUntrackAll(p) ==
    /\ pc[p] = "read" /\ call[p].fn = "untrack_all"
    /\ \E s \in Listings({n \in Name : refs[n] # None}) :
          Begin(p, [i \in 1..Len(s) |->
                        Update(s[i], None, IF call[p].policy = "any" THEN PreviousAny
                                           ELSE PreviousMatches(refs[s[i]]))])
    /\ UNCHANGED <<refs, data, call, rejected, wrote, made, crashes>>

\* What into_updates asks of an entry before it applies the action: an action
\* that must find its entry asks for the very value it read.
ActionPrevious(a, e) ==
    CASE a.policy = "any"            -> PreviousAny
      [] a.policy = "must_not_exist" -> PreviousMustNotExist
      [] a.policy = "must_exist"     -> PreviousMatches(e)

\* The updates for what fuse left of the actions on the entry n.
EntryUpdates(r, n) ==
    [i \in 1..Len(r) |-> Update(n, IF r[i].kind = "track" THEN r[i].config ELSE None,
                                ActionPrevious(r[i], refs[n]))]

\* A plausible slip: into_updates does not mind an entry that is not there.
IntoUpdatesUnminded(p) ==
    /\ pc[p] = "read" /\ call[p].fn = "batch"
    /\ IF pending[p] = Len(NameOrder)
       THEN Begin(p, todo[p])
       ELSE LET n == NameOrder[pending[p] + 1]
                r == FuseEntry(call[p].actions, n)
            IN /\ todo' = [todo EXCEPT ![p] = @ \o EntryUpdates(r, n)]
               /\ pending' = [pending EXCEPT ![p] = @ + 1]
               /\ UNCHANGED <<pc, owner, staged, outcome>>
    /\ UNCHANGED <<refs, data, call, rejected, wrote, made, crashes>>

\* into_updates, one entry at a time, the peers' entries before the default.
\* The batch fails if an action must find an entry and there is none.
IntoUpdates(p) ==
    /\ pc[p] = "read" /\ call[p].fn = "batch"
    /\ IF pending[p] = Len(NameOrder)
       THEN Begin(p, todo[p])
       ELSE LET n == NameOrder[pending[p] + 1]
                r == FuseEntry(call[p].actions, n)
            IN IF refs[n] = None /\ \E i \in 1..Len(r) : r[i].policy = "must_exist"
               THEN Finish(p, "error")
               ELSE /\ todo' = [todo EXCEPT ![p] = @ \o EntryUpdates(r, n)]
                    /\ pending' = [pending EXCEPT ![p] = @ + 1]
                    /\ UNCHANGED <<pc, owner, staged, outcome>>
    /\ UNCHANGED <<refs, data, call, rejected, wrote, made, crashes>>

-----------------------------------------------------------------------------
(***************************************************************************)
(* Write::update: one transaction.                                         *)
(***************************************************************************)

\* A plausible slip: a lock that is taken is waited for.
LockRefWaiting(p) ==
    /\ pc[p] = "lock" /\ todo[p] # << >>
    /\ LET n == Head(todo[p]).name IN
       /\ owner[n] = None
       /\ owner' = [owner EXCEPT ![n] = p]
       /\ pc' = [pc EXCEPT ![p] = "check"]
    /\ UNCHANGED <<refs, data, call, pending, todo, staged, rejected, wrote, outcome, made, crashes>>

\* lock_ref for the next update.  A lock that is held, by whomever, fails the
\* call; the transaction is dropped and its locks with it.
LockRef(p) ==
    /\ pc[p] = "lock" /\ todo[p] # << >>
    /\ LET n == Head(todo[p]).name IN
       IF owner[n] # None
       THEN Finish(p, "error")
       ELSE /\ owner' = [owner EXCEPT ![n] = p]
            /\ pc' = [pc EXCEPT ![p] = "check"]
            /\ UNCHANGED <<pending, todo, staged, outcome>>
    /\ UNCHANGED <<refs, data, call, rejected, wrote, made, crashes>>

\* The deletion of what is not there, unless it must be.
Noop(u) ==
    u.target = None /\ refs[u.name] = None /\ u.previous.on \in {"any", "must_not_exist"}

Accepted(u) == ~Noop(u) /\ Guard(u.previous, refs[u.name])

Rejected(u) == ~Noop(u) /\ ~Guard(u.previous, refs[u.name])

\* The reference is read and put to the guard: stage the update, reject it, or
\* pass over a deletion.
CheckRef(p) ==
    /\ pc[p] = "check"
    /\ staged' = [staged EXCEPT ![p] = @ \cup {u \in {Head(todo[p])} : Accepted(u)}]
    /\ rejected' = [rejected EXCEPT ![p] = @ \/ Rejected(Head(todo[p]))]
    /\ todo' = [todo EXCEPT ![p] = Tail(@)]
    /\ pc' = [pc EXCEPT ![p] = "lock"]
    /\ UNCHANGED <<refs, owner, data, call, pending, wrote, outcome, made, crashes>>

\* A plausible slip: every lock is let go when the commit begins.
CommitUnlocked(p) ==
    /\ pc[p] = "lock" /\ todo[p] = << >>
    /\ pc' = [pc EXCEPT ![p] = "commit"]
    /\ owner' = [n \in Name |-> IF owner[n] = p THEN None ELSE owner[n]]
    /\ UNCHANGED <<refs, data, call, pending, todo, staged, rejected, wrote, outcome, made, crashes>>

\* Every update is through: commit.
Commit(p) ==
    /\ pc[p] = "lock" /\ todo[p] = << >>
    /\ pc' = [pc EXCEPT ![p] = "commit"]
    /\ UNCHANGED <<refs, owner, data, call, pending, todo, staged, rejected, wrote, outcome,
                   made, crashes>>

\* The commit of one locked reference: written, removed or left as it was, and
\* unlocked.
CommitRef(p, n) ==
    /\ pc[p] = "commit"
    /\ owner[n] = p
    /\ owner' = [owner EXCEPT ![n] = None]
    /\ \/ \E u \in staged[p] :
             /\ u.name = n
             /\ refs' = [refs EXCEPT ![n] = u.target]
             /\ staged' = [staged EXCEPT ![p] = {v \in @ : v.name # n}]
             /\ wrote' = [wrote EXCEPT ![p] = @ \cup {n}]
       \/ /\ \A u \in staged[p] : u.name # n
          /\ UNCHANGED <<refs, staged, wrote>>
    /\ UNCHANGED <<data, pc, call, pending, todo, rejected, outcome, made, crashes>>

\* A plausible slip: rejections are not looked at.
ResultUnread(p) == "ok"

Result(p) == IF rejected[p] THEN "rejected" ELSE "ok"

\* untrack and untrack_all prune when asked to, even if the untracking was
\* rejected: untrack the peer's references, untrack_all everything under the
\* urn's namespace.  The prune is a transaction of its own; when it cannot
\* lock a reference the call fails, the entries being gone already.
Prune(p) ==
    /\ pc[p] = "commit"
    /\ \A n \in Name : owner[n] # p
    /\ call[p].fn \in {"untrack", "untrack_all"} /\ call[p].prune
    /\ \/ /\ data' = IF call[p].fn = "untrack" THEN data \ {call[p].name} ELSE {}
          /\ Finish(p, Result(p))
       \/ /\ data' = data
          /\ Finish(p, "prune_error")
    /\ UNCHANGED <<refs, call, rejected, wrote, made, crashes>>

\* The call returns once the commit is through.
Return(p) ==
    /\ pc[p] = "commit"
    /\ \A n \in Name : owner[n] # p
    /\ ~(call[p].fn \in {"untrack", "untrack_all"} /\ call[p].prune)
    /\ Finish(p, Result(p))
    /\ UNCHANGED <<refs, data, call, rejected, wrote, made, crashes>>

\* The process dies.  Its lock files stay.
Crash(p) ==
    /\ pc[p] \notin {"idle", "crashed"}
    /\ crashes < MaxCrashes
    /\ crashes' = crashes + 1
    /\ pc' = [pc EXCEPT ![p] = "crashed"]
    /\ staged' = [staged EXCEPT ![p] = {}]
    /\ todo' = [todo EXCEPT ![p] = << >>]
    /\ pending' = [pending EXCEPT ![p] = 0]
    /\ UNCHANGED <<refs, owner, data, call, rejected, wrote, outcome, made>>

Proceed(p) ==
    \/ ReadForModify(p) \/ ReadForUntrackAll(p) \/ IntoUpdates(p)
    \/ LockRef(p) \/ CheckRef(p) \/ Commit(p)
    \/ \E n \in Name : CommitRef(p, n)
    \/ Prune(p) \/ Return(p)

Next == \E p \in Proc : \/ \E c \in Calls : Start(p, c)
                        \/ Proceed(p)
                        \/ Crash(p)

Spec == Init /\ [][Next]_vars

\* A thread that is running its call is scheduled again and again.
FairSpec == Spec /\ \A p \in Proc : WF_vars(Proceed(p))

-----------------------------------------------------------------------------
Updates == [name: Name, target: Entry, previous: PreviousValues]

TypeOK ==
    /\ refs \in [Name -> Entry]
    /\ owner \in [Name -> Proc \cup {None}]
    /\ data \subseteq Name \cup {Own}
    /\ pc \in [Proc -> {"idle", "read", "lock", "check", "commit", "crashed"}]
    /\ call \in [Proc -> Calls \cup {None}]
    /\ pending \in [Proc -> 0..Len(NameOrder)]
    /\ todo \in [Proc -> Seq(Updates)]
    /\ staged \in [Proc -> SUBSET Updates]
    /\ wrote \in [Proc -> SUBSET Name]
    /\ rejected \in [Proc -> BOOLEAN]
    /\ outcome \in [Proc -> {"none", "ok", "rejected", "error", "prune_error"}]
    /\ made \in 0..MaxCalls
    /\ crashes \in 0..MaxCrashes

\* Every update that is about to be committed is under the lock of its process
\* and its guard holds of the entry as it is now, whatever the other processes
\* did since the entry was read: no policy is checked against a stale value.
GuardsHold ==
    \A p \in Proc : \A u \in staged[p] :
        owner[u.name] = p /\ Guard(u.previous, refs[u.name])

\* modify is atomic although it reads before it locks: what it is about to
\* write is its function of the configuration it replaces ("If the previous
\* Config was updated before the write [...], then modify will fail").
ModifyIsAtomic ==
    \A p \in Proc : \A u \in staged[p] :
        call[p].fn = "modify" => refs[u.name] \in Config /\ u.target = Modifier[refs[u.name]]

\* What a call returns is what it did: an error means it changed no entry, and
\* a single update that was rejected changed none, and one that was accepted
\* changed its entry.
ReportsAreTrue ==
    \A p \in Proc : pc[p] = "idle" =>
        /\ outcome[p] = "error" => wrote[p] = {}
        /\ outcome[p] = "rejected" /\ call[p].fn \in {"track", "modify", "untrack"} => wrote[p] = {}
        /\ outcome[p] = "ok" /\ call[p].fn \in {"track", "modify"} => wrote[p] = {call[p].name}

\* No lock outlives the call that took it, however the call ended, unless its
\* process crashed.
LocksAreReleased ==
    \A n \in Name : owner[n] # None => pc[owner[n]] \in {"lock", "check", "commit", "crashed"}

\* Every call returns, a taken lock fails it rather than blocks it: no call
\* waits for another, nor for a lock file a crash left behind.
CallsReturn ==
    \A p \in Proc : (pc[p] # "idle") ~> (pc[p] \in {"idle", "crashed"})
=============================================================================
