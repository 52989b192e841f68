---------------------------- MODULE WorkingCopy ----------------------------
(***************************************************************************)
(* Working copies of an identity: `lnk identities {project, person} create *)
(* {new, existing}` and `checkout` (cli/lnk-identities), the remotes they  *)
(* save, and the push and fetch those remotes make into the storage        *)
(* (librad::git::types::remote, librad::git::local::transport).            *)
(*                                                                         *)
(* One identity and one peer of it.  A command is a process which may be   *)
(* killed between any two changes it makes; commands run concurrently with *)
(* each other, with replication of the peer and with the person at the     *)
(* keyboard.  Only the default branch is followed.                         *)
(***************************************************************************)
EXTENDS Integers

CONSTANTS Commands, Paths     \* paths are strings

VARIABLES
    scene,      \* what never changes: kind of identity, default branch set, ...
    store,      \* the identity's namespace in the storage
    inc,        \* the include file of the identity
    dirs,       \* what is found at each path
    cmds        \* the running and the finished commands

workingVars == <<scene, store, inc, dirs, cmds>>

None == "none"

(* `base` is below `ours` and `theirs`, which diverge.  A new repository   *)
(* starts with a commit of its own, named by the path.                     *)
Commits == {"base", "ours", "theirs"} \cup Paths
Below(a, b) == a = b \/ (a = "base" /\ b \in {"ours", "theirs"})

Absent == [kind |-> "absent", branch |-> None, rad |-> None, tracking |-> None,
           from |-> None, upstream |-> FALSE, include |-> FALSE, out |-> FALSE]

Idle == [op |-> None, path |-> None, pc |-> "idle", tip |-> None]

Creates  == {"new", "existing", "bare"}
Checkouts == {"own", "peer"}

Init ==
    /\ scene \in [kind : {"project", "person"}, branch : BOOLEAN, reflike : BOOLEAN]
    /\ store = [id |-> FALSE, self |-> FALSE, head |-> None, signed |-> None,
                peer |-> None, tracked |-> FALSE]
    /\ inc = None
    /\ dirs = [p \in Paths |-> Absent]
    /\ cmds = [c \in Commands |-> Idle]

(* How a command goes on, and how it ends. *)
Goto(c, pc) == cmds' = [cmds EXCEPT ![c].pc = pc]
Fail(c, why) == Goto(c, why)
Finished == {"idle", "done", "killed", "path", "branch", "identity", "mismatch",
             "no_urn", "exists", "missing", "rejected", "handle"}
Running(c) == cmds[c].pc \notin Finished
Dir(c) == dirs[cmds[c].path]
At(c, pc, ops) == cmds[c].pc = pc /\ cmds[c].op \in ops

-----------------------------------------------------------------------------
(* Validation *)

(* New::validate and Existing::validate; a create without a path has none. *)
ValidNew(p) == dirs[p].kind \in {"absent", "empty"}
ValidExisting(p) == dirs[p].kind = "repo" /\ dirs[p].branch # None
ValidPath(op, p) == op = "bare" \/ (op = "new" /\ ValidNew(p)) \/ (op = "existing" /\ ValidExisting(p))

(* A project is stored before its working copy is made, a person after. *)
ProjectFirst(op) == "create"
PersonFirst(op) == IF op = "bare" THEN "create" ELSE op

Create(c, op, p) ==
    /\ cmds[c] = Idle
    /\ cmds' = [cmds EXCEPT ![c] =
         [op |-> op, path |-> p, tip |-> None,
          pc |-> IF ~ValidPath(op, p) THEN "path"
                 ELSE IF scene.kind = "project" THEN ProjectFirst(op) ELSE PersonFirst(op)]]
    /\ UNCHANGED <<scene, store, inc, dirs>>

(* HasBranch: a branch the payload names, and which is a reference name. *)
HasBranch == scene.branch

(* from_whom.  The name of the peer's remote is made from its handle, and  *)
(* is expected to be a valid reference name.                               *)
FromWhom(op) == IF ~HasBranch THEN "branch"
                ELSE IF op = "peer" /\ ~scene.reflike THEN "handle" ELSE "clone"

(* checkout: the identity and, for a peer's copy, the peer's rad/self must *)
(* be there.                                                               *)
Checkout(c, op, p) ==
    /\ cmds[c] = Idle
    /\ cmds' = [cmds EXCEPT ![c] =
         [op |-> op, path |-> p, tip |-> None,
          pc |-> IF ~store.id \/ (op = "peer" /\ store.peer = None)
                 THEN "identity" ELSE FromWhom(op)]]
    /\ UNCHANGED <<scene, store, inc, dirs>>

-----------------------------------------------------------------------------
(* The identity in the storage *)

(* IdRef::create keeps a rad/id that exists already. *)
CreateId(c) ==
    /\ At(c, "create", Creates)
    /\ store' = [store EXCEPT !.id = TRUE]
    /\ Goto(c, "link")
    /\ UNCHANGED <<scene, inc, dirs>>

(* LocalIdentity::link, then the signed references are updated. *)
LinkId(c) ==
    /\ At(c, "link", Creates)
    /\ store' = [store EXCEPT !.self = TRUE, !.signed = store.head]
    /\ Goto(c, IF scene.kind = "person" \/ cmds[c].op = "bare" THEN "include" ELSE cmds[c].op)
    /\ UNCHANGED <<scene, inc, dirs>>

-----------------------------------------------------------------------------
(* Setting up the working copy of a create *)

(* git::init does not accept a repository that exists. *)
InitRepo(c) ==
    /\ At(c, "new", {"new"})
    /\ IF Dir(c).kind = "repo"
       THEN Fail(c, "exists") /\ UNCHANGED dirs
       ELSE /\ dirs' = [dirs EXCEPT ![cmds[c].path].kind = "repo"]
            /\ Goto(c, "commit")
    /\ UNCHANGED <<scene, store, inc>>

InitialCommit(c) ==
    /\ At(c, "commit", {"new"})
    /\ dirs' = [dirs EXCEPT ![cmds[c].path].branch = cmds[c].path]
    /\ Goto(c, "remote")
    /\ UNCHANGED <<scene, store, inc>>

(* Remote::find, and validation::remote which compares the URL found. *)
FindRemote(p) == dirs[p].rad
RemoteMatches(p) == FindRemote(p) \in {None, "this"}

(* Remote::save writes over what a remote of that name had. *)
SaveRemote(d) == [d EXCEPT !.rad = "this"]

(* Existing::init looks at the remote once more before setup_remote does. *)
InitExisting(c) ==
    /\ At(c, "existing", {"existing"})
    /\ Goto(c, IF RemoteMatches(cmds[c].path) THEN "remote" ELSE "mismatch")
    /\ UNCHANGED <<scene, store, inc, dirs>>

(* setup_remote: the branch must exist; a `rad` remote is saved unless one *)
(* with the right URL is there.                                            *)
SetupRemote(c) ==
    /\ At(c, "remote", {"new", "existing"})
    /\ IF Dir(c).branch = None THEN Fail(c, "branch") /\ UNCHANGED dirs
       ELSE IF ~RemoteMatches(cmds[c].path) THEN Fail(c, "mismatch") /\ UNCHANGED dirs
       ELSE /\ dirs' = [dirs EXCEPT ![cmds[c].path] = SaveRemote(@)]
            /\ Goto(c, "push")
    /\ UNCHANGED <<scene, store, inc>>

-----------------------------------------------------------------------------
(* The local transport *)

(* Every connection asks for the namespace first (guard_has_urn). *)
HasUrn == store.id

(* receive-pack of the default branch.  Setting up a remote forces it; a   *)
(* checkout of a peer's copy does not, and is refused when the own branch  *)
(* in the storage is not below the one pushed.                             *)
PushAcceptedAlways(c) == TRUE

PushAccepted(c) == cmds[c].op \in Creates \/ store.head = None \/ Below(store.head, Dir(c).branch)

Push(c) ==
    /\ At(c, "push", Creates \cup Checkouts)
    /\ IF ~HasUrn THEN Fail(c, "no_urn") /\ UNCHANGED store
       ELSE IF ~PushAccepted(c) THEN Fail(c, "rejected") /\ UNCHANGED store
       ELSE store' = [store EXCEPT !.head = Dir(c).branch] /\ Goto(c, "hook")
    /\ UNCHANGED <<scene, inc, dirs>>

(* on_success: update the signed references, then make sure of rad/self. *)
PostReceive(c) ==
    /\ At(c, "hook", Creates \cup Checkouts)
    /\ store' = [store EXCEPT !.signed = store.head, !.self = TRUE]
    /\ Goto(c, "fetch")
    /\ UNCHANGED <<scene, inc, dirs>>

(* upload-pack into refs/remotes/rad of the working copy. *)
FetchRad(c) ==
    /\ At(c, "fetch", Creates \cup Checkouts)
    /\ dirs' = [dirs EXCEPT ![cmds[c].path].tracking = store.head]
    /\ Goto(c, CASE cmds[c].op = "new" -> "upstream"
                 [] cmds[c].op = "existing" /\ scene.kind = "person" -> "create"
                 [] OTHER -> "include")
    /\ UNCHANGED <<scene, store, inc>>

-----------------------------------------------------------------------------
(* Checkout *)

(* clone, up to its fetch: the repository is initialised, or entered when  *)
(* there is one, and the remote is saved over one of the same name.        *)
Clone(c) ==
    /\ At(c, "clone", Checkouts)
    /\ dirs' = [dirs EXCEPT ![cmds[c].path] =
                  LET repo == [@ EXCEPT !.kind = "repo"]
                  IN IF cmds[c].op = "own" THEN SaveRemote(repo) ELSE repo]
    /\ Goto(c, "cloned")
    /\ UNCHANGED <<scene, store, inc>>

(* The fetch reports the tips it changed, and the default branch must be   *)
(* one of them.                                                            *)
FetchClone(c) ==
    LET p   == cmds[c].path
        own == cmds[c].op = "own"
        tip == IF own THEN store.head ELSE store.peer
        old == IF own THEN dirs[p].tracking ELSE dirs[p].from
    IN
    /\ At(c, "cloned", Checkouts)
    /\ dirs' = [dirs EXCEPT ![p] = IF own THEN [@ EXCEPT !.tracking = tip]
                                          ELSE [@ EXCEPT !.from = tip]]
    /\ cmds' = [cmds EXCEPT ![c].tip = tip,
                            ![c].pc = IF tip = None \/ tip = old THEN "missing" ELSE "branch_ref"]
    /\ UNCHANGED <<scene, store, inc>>

(* Local::checkout ends with the clone.  Peer::checkout saves a `rad`      *)
(* remote besides, and pushes the branch there.                            *)
LocalCopy(d) == [dir |-> d, next |-> "include"]
PeerCopy(d) == [dir |-> SaveRemote(d), next |-> "push"]

(* create_local_ref, and what comes after the clone. *)
CreateLocalRef(c) ==
    LET copy == [Dir(c) EXCEPT !.branch = cmds[c].tip]
        made == IF cmds[c].op = "peer" THEN PeerCopy(copy) ELSE LocalCopy(copy)
    IN
    /\ At(c, "branch_ref", Checkouts)
    /\ dirs' = [dirs EXCEPT ![cmds[c].path] = made.dir]
    /\ Goto(c, made.next)
    /\ UNCHANGED <<scene, store, inc>>

-----------------------------------------------------------------------------
(* Configuration of the working copy *)

(* relations::tracked: the tracked peer, with its person once that is      *)
(* replicated.                                                             *)
TrackedPeer == IF ~store.tracked THEN None ELSE IF store.peer = None THEN "peer" ELSE "handle@peer"

(* include::update writes the remotes of the tracked peers; the handle of  *)
(* one must make a reference name.  The file is put in place by a rename.  *)
UpdateInclude(c) ==
    /\ cmds[c].pc \in {"include", "again"}
    /\ IF TrackedPeer = "handle@peer" /\ ~scene.reflike
       THEN Fail(c, "handle") /\ UNCHANGED inc
       ELSE /\ inc' = IF TrackedPeer = None THEN "empty" ELSE TrackedPeer
            /\ Goto(c, IF \/ cmds[c].pc = "again" \/ cmds[c].op = "bare"
                          \/ scene.kind = "person" /\ cmds[c].op \in Creates
                       THEN "done" ELSE "include_path")
    /\ UNCHANGED <<scene, store, dirs>>

SetIncludePath(c) ==
    /\ At(c, "include_path", Creates \cup Checkouts)
    /\ dirs' = [dirs EXCEPT ![cmds[c].path].include = TRUE]
    /\ Goto(c, IF cmds[c].op \in Checkouts THEN "upstream" ELSE "done")
    /\ UNCHANGED <<scene, store, inc>>

SetUpstream(c) ==
    /\ At(c, "upstream", Checkouts \cup {"new"})
    /\ dirs' = [dirs EXCEPT ![cmds[c].path].upstream = TRUE]
    /\ Goto(c, IF cmds[c].op \in Checkouts THEN "head"
               ELSE IF scene.kind = "person" THEN "create" ELSE "include")
    /\ UNCHANGED <<scene, store, inc>>

(* After a checkout a person's include file is written again. *)
AfterCheckout == IF scene.kind = "person" THEN "again" ELSE "done"

(* set_head and checkout_head. *)
CheckoutHead(c) ==
    /\ At(c, "head", Checkouts)
    /\ dirs' = [dirs EXCEPT ![cmds[c].path].out = TRUE]
    /\ Goto(c, AfterCheckout)
    /\ UNCHANGED <<scene, store, inc>>

-----------------------------------------------------------------------------
(* The surroundings *)

Kill(c) ==
    /\ Running(c)
    /\ Goto(c, "killed")
    /\ UNCHANGED <<scene, store, inc, dirs>>

Replicate(tip) ==
    /\ store.id /\ ~Below(tip, store.peer)
    /\ store' = [store EXCEPT !.peer = tip]
    /\ UNCHANGED <<scene, inc, dirs, cmds>>

Track ==
    /\ store.id /\ ~store.tracked
    /\ store' = [store EXCEPT !.tracked = TRUE]
    /\ UNCHANGED <<scene, inc, dirs, cmds>>

(* A repository the person at the keyboard has made, perhaps with a `rad`  *)
(* remote of another identity.                                             *)
MakeRepo(p, url) ==
    /\ dirs[p].kind = "absent"
    /\ dirs' = [dirs EXCEPT ![p].kind = "repo", ![p].branch = "base", ![p].rad = url]
    /\ UNCHANGED <<scene, store, inc, cmds>>

Commit(p) ==
    /\ dirs[p].branch = "base"
    /\ dirs' = [dirs EXCEPT ![p].branch = "ours"]
    /\ UNCHANGED <<scene, store, inc, cmds>>

Next ==
    \/ \E c \in Commands :
         \/ \E op \in Creates, p \in Paths : Create(c, op, p)
         \/ \E op \in Checkouts, p \in Paths : Checkout(c, op, p)
         \/ CreateId(c) \/ LinkId(c)
         \/ InitRepo(c) \/ InitialCommit(c) \/ InitExisting(c) \/ SetupRemote(c)
         \/ Push(c) \/ PostReceive(c) \/ FetchRad(c)
         \/ Clone(c) \/ FetchClone(c) \/ CreateLocalRef(c)
         \/ UpdateInclude(c) \/ SetIncludePath(c) \/ SetUpstream(c) \/ CheckoutHead(c)
         \/ Kill(c)
    \/ \E tip \in {"base", "theirs"} : Replicate(tip)
    \/ Track
    \/ \E p \in Paths, url \in {None, "other"} : MakeRepo(p, url)
    \/ \E p \in Paths : Commit(p)

Spec == Init /\ [][Next]_workingVars

-----------------------------------------------------------------------------
(* Checking out never takes commits away from the operator's own branch in *)
(* the storage: whatever a checkout pushes there, from a peer's copy that  *)
(* may have gone another way (checkout.rs, Peer::checkout), is on top of   *)
(* what the branch had.                                                    *)
KeepsOwn ==
    \A c \in Commands :
        (cmds[c].op \in Checkouts /\ cmds'[c] # cmds[c] /\ store.head # None)
            => Below(store.head, store'.head)

CheckoutKeepsOwn == [][KeepsOwn]_workingVars

(* "create a new Radicle person along with a working copy if a `path` is   *)
(* specified" (cli/args.rs): the create does not fail for want of the very *)
(* identity it is to create.                                               *)
CreateMakesItsOwn ==
    \A c \in Commands : cmds[c].op \in Creates => cmds[c].pc # "no_urn"
=============================================================================
