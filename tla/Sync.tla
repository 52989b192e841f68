------------------------------- MODULE Sync -------------------------------
(***************************************************************************)
(* `lnk sync`: for one seed after the other, replicate from it and ask it  *)
(* to pull from us (cli/lnk-sync), over the client half                    *)
(* (librad net/protocol/rpc/client) and the serving half                   *)
(* (protocol/io/recv/request_pull.rs, protocol/request_pull.rs, linkd-lib  *)
(* request_pull.rs and tracking.rs) of the request-pull protocol.          *)
(*                                                                         *)
(* The seed that pulls opens a git stream back to the client over the      *)
(* connection the request came in on. A client with an endpoint of its own *)
(* (`local`) serves that stream while it polls for responses; otherwise    *)
(* the node that made the connection serves it.                            *)
(*                                                                         *)
(* What a peer has of the project is a revision number. It can grow while  *)
(* a sync is under way.                                                    *)
(***************************************************************************)
EXTENDS Naturals, Sequences

CONSTANTS
    MaxSeeds,   \* seeds are synced in the order of the seeds file
    MaxRev      \* bound on the revisions the client makes

Seeds == 1 .. MaxSeeds

VARIABLES
    mode,       \* "fetch", "push" or "all"
    local,      \* TRUE for a SendOnly endpoint, FALSE for the one of a node
    rev,        \* the client's revision
    at,         \* the seed being synced
    step,       \* what the client is doing
    link,       \* the connection to each seed: "none", "open", "lost"
    inbox,      \* responses on their way to the client
    handler,    \* the seed's request handler
    git,        \* the git stream: NoStream, Opened, or what was sent over it
    held,       \* the revision each seed has
    tracked,    \* seeds tracking the client
    synced,     \* the reports returned
    asked       \* history: the client's revision when it asked the seed

syncVars == <<mode, local, rev, at, step, link, inbox, handler, git, held,
              tracked, synced, asked>>

NoStream == 0
Opened   == 1
Sent(r)  == 2 + r

clientVars == <<at, step, synced, asked>>
seedVars   == <<handler, held, tracked>>
inputs     == <<mode, local>>

IsFetch == mode \in {"fetch", "all"}
IsPush  == mode \in {"push", "all"}

-----------------------------------------------------------------------------
(***************************************************************************)
(* The seed's tracker: off, everything, or a selection of the client, of   *)
(* the project, or of the pair of the two. Selecting a pair removes the    *)
(* wider selections of its parts. A seed is asked once per sync, so its    *)
(* rules are picked when they are needed.                                  *)
(***************************************************************************)

Selected(s) ==
    [peers |-> s.peers \ {p[1] : p \in s.pairs},
     urns  |-> s.urns \ {p[2] : p \in s.pairs},
     pairs |-> s.pairs]

GuardSelected(s) ==
    \/ "client" \in Selected(s).peers
    \/ "urn" \in Selected(s).urns
    \/ <<"client", "urn">> \in Selected(s).pairs

Off        == [peers |-> {}, urns |-> {}, pairs |-> {}]
Everything == [peers |-> {"client", "other"}, urns |-> {}, pairs |-> {}]

Rules == {Off, Everything} \cup
         {[peers |-> {"client"}, urns |-> {}, pairs |-> {<<"client", "other">>}],
          [peers |-> {}, urns |-> {"urn"}, pairs |-> {<<"client", "urn">>}]}

-----------------------------------------------------------------------------

Init ==
    /\ mode \in {"fetch", "push", "all"}
    /\ local \in BOOLEAN
    /\ rev = 0
    /\ at = 1
    /\ step = "next"
    /\ link = [s \in Seeds |-> "none"]
    /\ inbox = [s \in Seeds |-> <<>>]
    /\ handler = [s \in Seeds |-> "none"]
    /\ git = [s \in Seeds |-> NoStream]
    /\ held = [s \in Seeds |-> 0]
    /\ tracked = {}
    /\ synced = <<>>
    /\ asked = [s \in Seeds |-> 0]

\* The user commits and pushes to their own storage.
Commit ==
    /\ rev < MaxRev
    /\ rev' = rev + 1
    /\ UNCHANGED <<inputs, clientVars, link, inbox, git, seedVars>>

-----------------------------------------------------------------------------
(***************************************************************************)
(* The client.                                                             *)
(***************************************************************************)

Report(pull) ==
    /\ synced' = Append(synced, [seed |-> at, pull |-> pull])
    /\ at' = at + 1
    /\ step' = "next"

NextSeed ==
    /\ step = "next"
    /\ step' = IF at > MaxSeeds THEN "done" ELSE IF IsFetch THEN "replicate" ELSE "request"
    /\ UNCHANGED <<inputs, rev, at, synced, asked, link, inbox, git, seedVars>>

\* An error is printed, and the report has nothing in its place.
Replicate ==
    /\ step = "replicate"
    /\ IF IsPush
       THEN step' = "request" /\ UNCHANGED <<at, synced>>
       ELSE Report("none")
    /\ UNCHANGED <<inputs, rev, asked, link, inbox, git, seedVars>>

\* NoConnection, or the request cannot be sent.
RequestPullFails ==
    /\ step = "request"
    /\ Report("none")
    /\ UNCHANGED <<inputs, rev, asked, link, inbox, git, seedVars>>

RequestPull ==
    /\ step = "request"
    /\ step' = "poll"
    /\ link' = [link EXCEPT ![at] = "open"]
    /\ handler' = [handler EXCEPT ![at] = "request"]
    /\ asked' = [asked EXCEPT ![at] = rev]
    /\ UNCHANGED <<inputs, rev, at, synced, inbox, git, held, tracked>>

\* The client drops its connection when it is done with the seed; the
\* connection of a node stays.
Hangup == [link EXCEPT ![at] = IF local THEN "lost" ELSE @]

\* Mutant: only the responses are polled for.
ServeGitRemotely(s) ==
    /\ link[s] = "open" /\ git[s] = Opened
    /\ ~local
    /\ git' = [git EXCEPT ![s] = Sent(rev)]
    /\ UNCHANGED <<inputs, rev, clientVars, link, inbox, seedVars>>

\* The git stream is served: by poll_next, or by the node. What upload-pack
\* sends is what the storage has then.
ServeGit(s) ==
    /\ link[s] = "open" /\ git[s] = Opened
    /\ local => step = "poll" /\ at = s
    /\ git' = [git EXCEPT ![s] = Sent(rev)]
    /\ UNCHANGED <<inputs, rev, clientVars, link, inbox, seedVars>>

PollNext ==
    /\ step = "poll" /\ inbox[at] # <<>>
    /\ inbox' = [inbox EXCEPT ![at] = Tail(@)]
    /\ IF Head(inbox[at]) = "progress"
       THEN UNCHANGED <<at, step, synced, link>>
       ELSE Report(Head(inbox[at])) /\ link' = Hangup
    /\ UNCHANGED <<inputs, rev, asked, git, seedVars>>

\* The stream ends, or the connection does.
PollEnds ==
    /\ step = "poll"
    /\ link[at] = "lost" \/ (handler[at] = "done" /\ inbox[at] = <<>>)
    /\ Report("none")
    /\ link' = Hangup
    /\ inbox' = [inbox EXCEPT ![at] = <<>>]
    /\ UNCHANGED <<inputs, rev, asked, git, seedVars>>

\* The seed has gossip for the peer, and finds this connection to it. A
\* SendOnly client accepts no unidirectional streams and gives up.
GossipArrives(s) ==
    /\ local /\ step = "poll" /\ at = s /\ link[s] = "open"
    /\ link' = [link EXCEPT ![s] = "lost"]
    /\ UNCHANGED <<inputs, rev, clientVars, inbox, git, seedVars>>

ConnectionLost(s) ==
    /\ link[s] = "open"
    /\ link' = [link EXCEPT ![s] = "lost"]
    /\ UNCHANGED <<inputs, rev, clientVars, inbox, git, seedVars>>

-----------------------------------------------------------------------------
(***************************************************************************)
(* The seed's handler. Errors sending progress are logged and ignored.     *)
(***************************************************************************)

\* A client that is done with the seed has dropped the stream.
Sending(s, msgs) ==
    [inbox EXCEPT ![s] = IF link[s] = "open" /\ step = "poll" /\ at = s THEN @ \o msgs ELSE @]

\* One request is read; then the guard decides, and has the peer tracked.
HandleRequest(s, rules) ==
    /\ handler[s] = "request"
    /\ IF GuardSelected(rules)
       THEN /\ handler' = [handler EXCEPT ![s] = "replicate"]
            /\ tracked' = tracked \cup {s}
            /\ inbox' = Sending(s, <<"progress", "progress", "progress">>)
       ELSE /\ handler' = [handler EXCEPT ![s] = "done"]
            /\ inbox' = Sending(s, <<"progress", "error">>)
            /\ UNCHANGED tracked
    /\ UNCHANGED <<inputs, rev, clientVars, link, git, held>>

\* A stream back to the client.
Pull(s) ==
    /\ handler[s] = "replicate" /\ link[s] = "open"
    /\ git' = [git EXCEPT ![s] = Opened]
    /\ handler' = [handler EXCEPT ![s] = "pull"]
    /\ UNCHANGED <<inputs, rev, clientVars, link, inbox, held, tracked>>

\* The seed applies what it was sent.
Apply(s) == [held EXCEPT ![s] = git[s] - 2]

\* No handle to the storage, no connection, or replication fails. The first
\* may also happen when the refs are looked up after a successful pull.
PullFails(s) ==
    /\ handler[s] \in {"replicate", "pull"}
    /\ git[s] = Opened => link[s] = "lost"
    /\ handler' = [handler EXCEPT ![s] = "done"]
    /\ held' \in {held} \cup (IF git[s] > Opened THEN {Apply(s)} ELSE {})
    /\ inbox' = Sending(s, <<"error">>)
    /\ UNCHANGED <<inputs, rev, clientVars, link, git, tracked>>

\* Mutant: the success is not waited for.
PulledEarly(s) ==
    /\ handler[s] = "pull"
    /\ handler' = [handler EXCEPT ![s] = "done"]
    /\ inbox' = Sending(s, <<"success">>)
    /\ UNCHANGED <<inputs, rev, clientVars, link, git, held, tracked>>

\* Replicated, and announced to everybody but the client.
Pulled(s) ==
    /\ handler[s] = "pull" /\ git[s] > Opened
    /\ handler' = [handler EXCEPT ![s] = "done"]
    /\ held' = Apply(s)
    /\ inbox' = Sending(s, <<"success">>)
    /\ UNCHANGED <<inputs, rev, clientVars, link, git, tracked>>

-----------------------------------------------------------------------------

Client == NextSeed \/ Replicate \/ RequestPull \/ PollNext \/ PollEnds

Seed(s) == (\E rules \in Rules : HandleRequest(s, rules)) \/ Pull(s) \/ Pulled(s)

Next ==
    \/ Client \/ RequestPullFails \/ Commit
    \/ \E s \in Seeds :
          \/ Seed(s) \/ ServeGit(s) \/ PullFails(s)
          \/ GossipArrives(s) \/ ConnectionLost(s)

Spec == Init /\ [][Next]_syncVars

\* Both processes keep running, and a pull that lost its connection fails.
Fairness ==
    /\ WF_syncVars(Client)
    /\ \A s \in Seeds :
          /\ WF_syncVars(Seed(s))
          /\ WF_syncVars(ServeGit(s))
          /\ WF_syncVars(link[s] = "lost" /\ PullFails(s))

FairSpec == Spec /\ Fairness

-----------------------------------------------------------------------------

\* A success reported for a seed means that the seed tracks us and has all we
\* had when it was asked to pull, also if the connection was lost, the seed
\* ran into errors or we kept committing.
PullsAreTrue ==
    \A i \in DOMAIN synced :
        synced[i].pull = "success" =>
            synced[i].seed \in tracked /\ held[synced[i].seed] >= asked[synced[i].seed]

\* The client waits for the seed, which waits for the client to serve its
\* fetch: nevertheless `sync` gets through all the seeds.
SyncEnds == <>(step = "done")
=============================================================================
