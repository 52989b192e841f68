------------------------------ MODULE StartUp -------------------------------
(***************************************************************************)
(* How a process comes to its profile, its storage and its sockets.        *)
(***************************************************************************)
EXTENDS Integers, FiniteSets

-----------------------------------------------------------------------------
(***************************************************************************)
(* Profiles (librad/src/profile.rs, profile/id.rs, paths.rs) as the        *)
(* commands of cli/lnk-profile, the signers of cli/lnk-clib and the start  *)
(* of linkd (cli/linkd-lib/src/cfg.rs) use them, in concurrent processes.  *)
(*                                                                         *)
(* A profile has directories, a key file and a storage. The file           *)
(* `active_profile` names the one a command uses that is given none. It is *)
(* written in two steps: fs::write truncates a file before it writes.      *)
(* The key of a profile is named like the profile.                         *)
(***************************************************************************)
CONSTANTS
    Commands,   \* commands, each a process
    Ids,        \* profile identifiers
    GivenKey    \* the key linkd may be given on its command line

None  == "none"
Empty == "empty"

VARIABLES
    active,   \* active_profile: None when missing, Empty, or an identifier
    dirs,     \* the profiles whose directories are there
    keys,     \* the profiles that have a key file
    repos,    \* the key each profile's storage was initialised with, or None
    agent,    \* the keys of the ssh-agent
    step,       \* where each command is
    prof,     \* the profile it uses
    got       \* the key it signs with

profileVars == <<active, dirs, keys, repos, agent, step, prof, got>>

ProfileInit ==
    /\ active = None
    /\ dirs = {} /\ keys = {} /\ agent = {}
    /\ repos = [i \in Ids |-> None]
    /\ step = [c \in Commands |-> "start"]
    /\ prof = [c \in Commands |-> None]
    /\ got = [c \in Commands |-> None]

\* Uuid::new_v4
Fresh == {i \in Ids : i \notin dirs /\ i # active /\ \A c \in Commands : prof[c] # i}

Proceed(c, label) == step' = [step EXCEPT ![c] = label]

-----------------------------------------------------------------------------
(***************************************************************************)
(* lnk profile create: Profile::new, Profile::set, put_key, Storage::open. *)
(***************************************************************************)

\* Paths::init makes the directories.
Create(c) ==
    /\ step[c] = "start"
    /\ \E i \in Fresh :
         /\ dirs' = dirs \cup {i}
         /\ prof' = [prof EXCEPT ![c] = i]
    /\ Proceed(c, "create: truncate")
    /\ UNCHANGED <<active, keys, repos, agent, got>>

\* lnk profile set: refuses a profile that does not exist.
Set(c, i) ==
    /\ step[c] = "start"
    /\ prof' = [prof EXCEPT ![c] = i]
    /\ Proceed(c, IF i \in dirs THEN "set: truncate" ELSE "failed")
    /\ UNCHANGED <<active, dirs, keys, repos, agent, got>>

Truncate(c, from, to) ==
    /\ step[c] = from
    /\ active' = Empty
    /\ Proceed(c, to)
    /\ UNCHANGED <<dirs, keys, repos, agent, prof, got>>

\* from_home follows, and makes the directories.
WriteActive(c, from, to) ==
    /\ step[c] = from
    /\ active' = prof[c]
    /\ dirs' = dirs \cup {prof[c]}
    /\ Proceed(c, to)
    /\ UNCHANGED <<keys, repos, agent, prof, got>>

PutKey(c) ==
    /\ step[c] = "create: key"
    /\ keys' = keys \cup {prof[c]}
    /\ Proceed(c, "create: open")
    /\ UNCHANGED <<active, dirs, repos, agent, prof, got>>

\* Mutant: any storage that is there will do.
OpenStorageOfAny(c, key, from, to) ==
    /\ step[c] = from
    /\ repos' = [repos EXCEPT ![prof[c]] = IF @ = None THEN key ELSE @]
    /\ Proceed(c, to)
    /\ UNCHANGED <<active, dirs, keys, agent, prof, got>>

\* Storage::open
OpenStorage(c, key, from, to) ==
    /\ step[c] = from
    /\ repos' = [repos EXCEPT ![prof[c]] = IF @ = None THEN key ELSE @]
    /\ Proceed(c, IF repos[prof[c]] \in {None, key} THEN to ELSE "failed")
    /\ UNCHANGED <<active, dirs, keys, agent, prof, got>>

-----------------------------------------------------------------------------
(***************************************************************************)
(* Commands that use a profile.                                            *)
(***************************************************************************)

\* Profile::from_home(home, None), as in linkd, gitd, lnk sync and lnk
\* identities: ProfileId::load makes a new profile if there is no active one.
LoadProfile(c) ==
    /\ step[c] = "start"
    /\ \/ active = None
          /\ \E i \in Fresh : prof' = [prof EXCEPT ![c] = i]
          /\ Proceed(c, "sign: truncate")
          /\ UNCHANGED dirs
       \/ active = Empty
          /\ Proceed(c, "failed")
          /\ UNCHANGED <<prof, dirs>>
       \/ active \in Ids
          /\ prof' = [prof EXCEPT ![c] = active]
          /\ dirs' = dirs \cup {active}
          /\ Proceed(c, "sign: go")
    /\ UNCHANGED <<active, keys, repos, agent, got>>

\* get_or_active, as in the commands of lnk profile. They do not make one.
GetOrActive(c, i, next) ==
    /\ step[c] = "start"
    /\ LET p == IF i = None THEN active ELSE i
       IN  IF p \in (IF i = None THEN Ids ELSE dirs)
           THEN /\ prof' = [prof EXCEPT ![c] = p]
                /\ dirs' = dirs \cup {p}
                /\ Proceed(c, next)
           ELSE Proceed(c, "failed") /\ UNCHANGED <<prof, dirs>>
    /\ UNCHANGED <<active, keys, repos, agent, got>>

SshAdd(c) ==
    /\ step[c] = "add: go"
    /\ agent' = agent \cup ({prof[c]} \cap keys)
    /\ Proceed(c, IF prof[c] \in keys THEN "done" ELSE "failed")
    /\ UNCHANGED <<active, dirs, keys, repos, prof, got>>

SshRemove(c) ==
    /\ step[c] = "remove: go"
    /\ agent' = agent \ ({prof[c]} \cap keys)
    /\ Proceed(c, IF prof[c] \in keys THEN "done" ELSE "failed")
    /\ UNCHANGED <<active, dirs, keys, repos, prof, got>>

\* keys::ssh::signer: the key is the one of the profile's storage, which has to
\* be there, and is in the agent.
SshSigner(c) ==
    /\ step[c] = "sign: go"
    /\ LET key == repos[prof[c]]
       IN  IF key # None /\ key \in agent
           THEN Proceed(c, "sign: open") /\ got' = [got EXCEPT ![c] = key]
           ELSE Proceed(c, "failed") /\ UNCHANGED got
    /\ UNCHANGED <<active, dirs, keys, repos, agent, prof>>

\* keys::prompt::signer: the key is the one of the key file.
PromptSigner(c) ==
    /\ step[c] = "sign: go"
    /\ IF prof[c] \in keys
       THEN Proceed(c, "sign: open") /\ got' = [got EXCEPT ![c] = prof[c]]
       ELSE Proceed(c, "failed") /\ UNCHANGED got
    /\ UNCHANGED <<active, dirs, keys, repos, agent, prof>>

\* linkd with a key from a file, from its input, or made up.
KeySigner(c) ==
    /\ step[c] = "sign: go"
    /\ Proceed(c, "sign: open")
    /\ got' = [got EXCEPT ![c] = GivenKey]
    /\ UNCHANGED <<active, dirs, keys, repos, agent, prof>>

Killed(c) ==
    /\ step[c] \notin {"start", "done", "created", "failed", "killed"}
    /\ Proceed(c, "killed")
    /\ UNCHANGED <<active, dirs, keys, repos, agent, prof, got>>

ProfileNext ==
    \E c \in Commands :
        \/ Create(c) \/ \E i \in Ids : Set(c, i)
        \/ Truncate(c, "create: truncate", "create: write")
        \/ WriteActive(c, "create: write", "create: key")
        \/ PutKey(c)
        \/ OpenStorage(c, prof[c], "create: open", "created")
        \/ Truncate(c, "set: truncate", "set: write")
        \/ WriteActive(c, "set: write", "done")
        \/ LoadProfile(c)
        \/ Truncate(c, "sign: truncate", "sign: write")
        \/ WriteActive(c, "sign: write", "sign: go")
        \/ \E i \in Ids \cup {None}, next \in {"add: go", "remove: go", "sign: go"} : GetOrActive(c, i, next)
        \/ SshAdd(c) \/ SshRemove(c)
        \/ SshSigner(c) \/ PromptSigner(c) \/ KeySigner(c)
        \/ OpenStorage(c, got[c], "sign: open", "done")
        \/ Killed(c)

ProfileSpec == ProfileInit /\ [][ProfileNext]_profileVars

-----------------------------------------------------------------------------

\* A command that has opened a storage signs with the key this storage belongs
\* to. `lnk profile create` succeeds only with a key and a storage that belongs
\* to it. The active profile may change at any time, and a profile is active,
\* and used by others, before it is whole.
SignsAsOwner ==
    \A c \in Commands :
        /\ step[c] = "done" /\ got[c] # None => repos[prof[c]] = got[c]
        /\ step[c] = "created" => prof[c] \in keys /\ repos[prof[c]] = prof[c]

-----------------------------------------------------------------------------
(***************************************************************************)
(* Opening the storage (librad/src/git/storage.rs, storage/config.rs,      *)
(* storage/pool.rs): several processes open one repository, initialising   *)
(* it when it is not there. A process with a pool of storages opens them   *)
(* under a lock that the pool shares. Every opening carries the former     *)
(* tracking entries over to the present ones (git/tracking.rs, v1.rs).     *)
(*                                                                         *)
(* The repository has one identity. Its former tracking entries are        *)
(* remotes of the git configuration, the present ones are references.      *)
(***************************************************************************)
CONSTANTS
    Openers,        \* calls that open the storage
    Process,        \* the process of each one
    Pooled,         \* the calls that come from the pool of their process
    Keys,           \* signing keys
    Peers           \* peers that may be tracked

Processes == {Process[t] : t \in Openers}

VARIABLES
    signer,     \* the key each process has
    repo,       \* whether the repository is there
    config,     \* its rad.peerid, None when unset, and core.logAllRefUpdates
    old,        \* the peers tracked by former entries
    new,        \* the configuration each peer is tracked with, or None
    legacy,     \* the former entries there were at the beginning
    untracked,  \* peers a user has untracked
    pc,         \* where each call is
    seen,       \* the former entries it has still to carry over
    lock,       \* who holds the pool's lock: its readers, and its writer
    ready       \* Initialised

storageVars == <<signer, repo, config, old, new, legacy, untracked, pc, seen, lock, ready>>

StorageInit ==
    /\ signer \in [Processes -> Keys]
    /\ repo \in BOOLEAN
    /\ config \in IF repo THEN [peerid : Keys, reflog : {TRUE}] ELSE {[peerid |-> None, reflog |-> FALSE]}
    /\ old \in IF repo THEN SUBSET Peers ELSE {{}}
    /\ new \in [Peers -> IF repo THEN {None, "custom"} ELSE {None}]
    /\ legacy = old
    /\ untracked = {}
    /\ pc = [t \in Openers |-> "start"]
    /\ seen = [t \in Openers |-> {}]
    /\ lock = [p \in Processes |-> [readers |-> {}, writer |-> {}]]
    /\ ready = [p \in Processes |-> FALSE]

Own(t) == signer[Process[t]]

\* A call leaves the pool's lock when it returns. One that held it for writing
\* sets the flag if it has succeeded.
Return(t, result) ==
    /\ pc' = [pc EXCEPT ![t] = result]
    /\ seen' = [seen EXCEPT ![t] = {}]
    /\ ready' = [ready EXCEPT ![Process[t]] =
                    @ \/ (result = "open" /\ t \in lock[Process[t]].writer)]
    /\ lock' = [lock EXCEPT ![Process[t]] = [readers |-> @.readers \ {t}, writer |-> @.writer \ {t}]]

Goto(t, label) ==
    /\ pc' = [pc EXCEPT ![t] = label]
    /\ UNCHANGED <<seen, lock, ready>>

UnchangedDisk == UNCHANGED <<signer, repo, config, old, new, legacy, untracked>>

-----------------------------------------------------------------------------
(***************************************************************************)
(* Manager::create.                                                        *)
(***************************************************************************)

OpenDirectly(t) ==
    /\ pc[t] = "start" /\ t \notin Pooled
    /\ Goto(t, "open_bare")
    /\ UnchangedDisk

\* Mutant: the pool opens without a lock.
CreateUnlocked(t) ==
    /\ pc[t] = "start" /\ t \in Pooled
    /\ Goto(t, "open_bare")
    /\ UnchangedDisk

\* Once the flag is set, the storage is opened under the read lock.
CreateRead(t) ==
    /\ pc[t] = "start" /\ t \in Pooled
    /\ lock[Process[t]].writer = {}
    /\ IF ready[Process[t]]
       THEN /\ pc' = [pc EXCEPT ![t] = "open_bare"]
            /\ lock' = [lock EXCEPT ![Process[t]].readers = @ \cup {t}]
       ELSE pc' = [pc EXCEPT ![t] = "write"] /\ UNCHANGED lock
    /\ UNCHANGED <<seen, ready>>
    /\ UnchangedDisk

CreateWrite(t) ==
    /\ pc[t] = "write"
    /\ lock[Process[t]] = [readers |-> {}, writer |-> {}]
    /\ lock' = [lock EXCEPT ![Process[t]].writer = {t}]
    /\ pc' = [pc EXCEPT ![t] = "open_bare"]
    /\ UNCHANGED <<seen, ready>>
    /\ UnchangedDisk

-----------------------------------------------------------------------------
(***************************************************************************)
(* Storage::open.                                                          *)
(***************************************************************************)

OpenBare(t) ==
    /\ pc[t] = "open_bare"
    /\ Goto(t, IF repo THEN "peer_id" ELSE "init_opts")
    /\ UnchangedDisk

\* Mutant: a repository that is there by now is initialised once more.
InitOptsAgain(t) ==
    /\ pc[t] = "init_opts"
    /\ repo' = TRUE
    /\ Goto(t, "guard")
    /\ UNCHANGED <<signer, config, old, new, legacy, untracked>>

InitOpts(t) ==
    /\ pc[t] = "init_opts"
    /\ IF repo THEN Return(t, "failed") ELSE Goto(t, "guard")
    /\ repo' = TRUE
    /\ UNCHANGED <<signer, config, old, new, legacy, untracked>>

\* Config::init: guard_key_change, ensure_reflog, set_peer_id, in three writes
\* of the configuration file. The user information is left out.
GuardKeyChange(t) ==
    /\ pc[t] = "guard"
    /\ IF config.peerid \in {None, Own(t)}
       THEN Goto(t, "set_peer_id") /\ config' = [config EXCEPT !.reflog = TRUE]
       ELSE Return(t, "failed") /\ UNCHANGED config
    /\ UNCHANGED <<signer, repo, old, new, legacy, untracked>>

SetPeerId(t) ==
    /\ pc[t] = "set_peer_id"
    /\ config' = [config EXCEPT !.peerid = Own(t)]
    /\ Goto(t, "peer_id")
    /\ UNCHANGED <<signer, repo, old, new, legacy, untracked>>

\* The storage belongs to the key it was initialised with.
ReadPeerId(t) ==
    /\ pc[t] = "peer_id"
    /\ IF config.peerid = Own(t) THEN Goto(t, "migrate") ELSE Return(t, "failed")
    /\ UnchangedDisk

-----------------------------------------------------------------------------
(***************************************************************************)
(* migration::migrate, for the one identity.                               *)
(***************************************************************************)

\* Mutant: the former entries are removed as they are read.
TrackedRemoves(t) ==
    /\ pc[t] = "migrate"
    /\ seen' = [seen EXCEPT ![t] = old]
    /\ old' = {}
    /\ pc' = [pc EXCEPT ![t] = "batch"]
    /\ UNCHANGED <<lock, ready, signer, repo, config, new, legacy, untracked>>

\* v1::tracked
Tracked(t) ==
    /\ pc[t] = "migrate"
    /\ seen' = [seen EXCEPT ![t] = old]
    /\ pc' = [pc EXCEPT ![t] = "batch"]
    /\ UNCHANGED <<lock, ready>>
    /\ UnchangedDisk

\* policy::Track::MustNotExist: entries that are there stay as they are.
Batch(t) ==
    /\ pc[t] = "batch"
    /\ new' = [p \in Peers |-> IF p \in seen[t] /\ new[p] = None THEN "default" ELSE new[p]]
    /\ Goto(t, "untrack")
    /\ UNCHANGED <<signer, repo, config, old, legacy, untracked>>

\* A former entry is removed when there is a present one. Failures are logged.
UntrackOld(t) ==
    /\ pc[t] = "untrack"
    /\ \E p \in seen[t] :
         /\ seen' = [seen EXCEPT ![t] = @ \ {p}]
         /\ old' \in IF new[p] # None THEN {old \ {p}, old} ELSE {old}
    /\ UNCHANGED <<pc, lock, ready, signer, repo, config, new, legacy, untracked>>

Opened(t) ==
    /\ pc[t] = "untrack" /\ seen[t] = {}
    /\ Return(t, "open")
    /\ UnchangedDisk

-----------------------------------------------------------------------------

\* A storage that is open is used to track and to untrack.
Track(t, p) ==
    /\ pc[t] = "open"
    /\ new[p] = None
    /\ new' = [new EXCEPT ![p] = "custom"]
    /\ UNCHANGED <<signer, repo, config, old, legacy, untracked, pc, seen, lock, ready>>

Untrack(t, p) ==
    /\ pc[t] = "open"
    /\ new' = [new EXCEPT ![p] = None]
    /\ untracked' = untracked \cup {p}
    /\ UNCHANGED <<signer, repo, config, old, legacy, pc, seen, lock, ready>>

\* A process is killed.
Crash(p) ==
    /\ \E t \in Openers : Process[t] = p /\ pc[t] \notin {"start", "crashed"}
    /\ pc' = [t \in Openers |-> IF Process[t] = p THEN "crashed" ELSE pc[t]]
    /\ seen' = [t \in Openers |-> IF Process[t] = p THEN {} ELSE seen[t]]
    /\ lock' = [lock EXCEPT ![p] = [readers |-> {}, writer |-> {}]]
    /\ UNCHANGED ready
    /\ UnchangedDisk

StorageNext ==
    \/ \E t \in Openers :
        \/ OpenDirectly(t) \/ CreateRead(t) \/ CreateWrite(t)
        \/ OpenBare(t) \/ InitOpts(t) \/ GuardKeyChange(t) \/ SetPeerId(t) \/ ReadPeerId(t)
        \/ Tracked(t) \/ Batch(t) \/ UntrackOld(t) \/ Opened(t)
        \/ \E p \in Peers : Track(t, p) \/ Untrack(t, p)
    \/ \E p \in Processes : Crash(p)

StorageSpec == StorageInit /\ [][StorageNext]_storageVars

-----------------------------------------------------------------------------

\* A storage that somebody has open belongs to the key they opened it with,
\* however many processes with different keys have tried to initialise it.
OneOwner == \A t \in Openers : pc[t] = "open" => config.peerid = Own(t)

\* The pool opens a new storage without an error, as long as no other process
\* gets in between: its calls do not meet each other's half-initialised
\* repository.
PoolOpens ==
    \A t \in Pooled : pc[t] = "failed" =>
        \/ \E u \in Openers : Process[u] # Process[t] /\ pc[u] # "start"
        \/ config.peerid \notin {None, Own(t)}

\* Carrying over the tracking entries loses none, whoever else does it, and
\* wherever a process is killed: a peer that was tracked still is, unless a
\* user has untracked it.
NoTrackingLost == \A p \in legacy : p \in old \/ new[p] # None \/ p \in untracked

-----------------------------------------------------------------------------
(***************************************************************************)
(* The sockets of linkd processes for one peer (linkd-lib, node.rs and     *)
(* api/sockets.rs): a process takes its listening sockets from the service *)
(* manager or creates them at the profile's paths, runs until a signal,    *)
(* until it has been idle for long enough or until its peer task ends, and *)
(* removes the socket files it created.  Several processes may run for the *)
(* same profile, and any may be killed, which leaves its files behind.     *)
(***************************************************************************)
CONSTANTS
    Daemon,
    Activated,  \* the processes to which the service manager passes both sockets
    Manager,    \* the service manager, owner of the sockets it passes
    Nobody,
    MaxStarts   \* bound: how often a process is started again

Paths == {"rpc", "events"}

VARIABLES
    file,       \* file[f]: whose socket is at the path, or Nobody
    at,         \* at[p]: where node::run of p is
    starts,     \* how many times a process was started
    disturbed   \* the processes that have shared the paths with another one

nodeVars == <<file, at, starts, disturbed>>

Alive == {p \in Daemon : at[p] \notin {"off", "exited", "failed"}}

SocketInit ==
    /\ file = [f \in Paths |-> IF Activated = {} THEN Nobody ELSE Manager]
    /\ at = [p \in Daemon |-> "off"]
    /\ disturbed = {}
    /\ starts = 0

\* Sockets::load: the passed sockets, or else the ones at the profile's paths.
LoadSockets(p) ==
    /\ at[p] \in {"off", "exited", "failed"} /\ starts < MaxStarts
    /\ starts' = starts + 1
    /\ at' = [at EXCEPT ![p] = IF p \in Activated THEN "run" ELSE "unlink rpc"]
    /\ disturbed' = IF Alive \ Activated = {} \/ p \in Activated THEN disturbed \ {p}
                    ELSE disturbed \union Alive \union {p}
    /\ UNCHANGED file

\* profile_sockets that binds over whatever is at the path.
UnlinkNothing(p) ==
    /\ \/ at[p] = "unlink rpc" /\ at' = [at EXCEPT ![p] = "bind rpc"]
       \/ at[p] = "unlink events" /\ at' = [at EXCEPT ![p] = "bind events"]
    /\ UNCHANGED <<file, starts, disturbed>>

\* profile_sockets: "UNIX socket needs to be unlinked if already exists".
Unlink(p) ==
    /\ \/ /\ at[p] = "unlink rpc"
          /\ file' = [file EXCEPT !["rpc"] = Nobody]
          /\ at' = [at EXCEPT ![p] = "bind rpc"]
       \/ /\ at[p] = "unlink events"
          /\ file' = [file EXCEPT !["events"] = Nobody]
          /\ at' = [at EXCEPT ![p] = "bind events"]
    /\ UNCHANGED <<starts, disturbed>>

\* Binding fails where another file is; then the start fails.
BindAt(p, f, next) ==
    /\ at' = [at EXCEPT ![p] = IF file[f] = Nobody THEN next ELSE "failed"]
    /\ file' = [file EXCEPT ![f] = IF @ = Nobody THEN p ELSE @]

Bind(p) ==
    /\ \/ at[p] = "bind rpc" /\ BindAt(p, "rpc", "unlink events")
       \/ at[p] = "bind events" /\ BindAt(p, "events", "run")
    /\ UNCHANGED <<starts, disturbed>>

\* The select of node::run: the api routine ran out of connections, the peer
\* task ended, or a signal came.  Sockets that were passed are left alone.
Stop(p) ==
    /\ at[p] = "run"
    /\ at' = [at EXCEPT ![p] = IF p \in Activated THEN "exited" ELSE "remove events"]
    /\ UNCHANGED <<file, starts, disturbed>>

\* Sockets::cleanup: remove_file takes whatever is at the path, and the second
\* file is not removed when the first is missing.
Cleanup(p) ==
    /\ \/ /\ at[p] = "remove events"
          /\ file' = [file EXCEPT !["events"] = Nobody]
          /\ at' = [at EXCEPT ![p] = IF file["events"] = Nobody THEN "exited" ELSE "remove rpc"]
       \/ /\ at[p] = "remove rpc"
          /\ file' = [file EXCEPT !["rpc"] = Nobody]
          /\ at' = [at EXCEPT ![p] = "exited"]
    /\ UNCHANGED <<starts, disturbed>>

\* The process is killed: its sockets are closed and their files stay.
Kill(p) ==
    /\ p \in Alive
    /\ at' = [at EXCEPT ![p] = "exited"]
    /\ UNCHANGED <<file, starts, disturbed>>

SocketNext == \E p \in Daemon :
    LoadSockets(p) \/ Unlink(p) \/ Bind(p) \/ Stop(p) \/ Cleanup(p) \/ Kill(p)

SocketSpec == SocketInit /\ [][SocketNext]_nodeVars

(***************************************************************************)
(* Properties.                                                             *)
(***************************************************************************)

\* A process that did not share the paths with another one finds its start
\* succeed whatever a killed predecessor left, and while it runs clients reach
\* it at both paths.  (With another one the cleanup of the process that leaves
\* removes the files of the one that stays.)
ServesAlone == \A p \in Daemon \ disturbed :
    /\ at[p] # "failed"
    /\ at[p] = "run" /\ p \notin Activated => \A f \in Paths : file[f] = p
=============================================================================
