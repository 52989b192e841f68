------------------------------ MODULE MCHosts ------------------------------
(***************************************************************************)
(* The parts of the processes around a node, and of what they do, each     *)
(* by itself: a behaviour is one of a single part.  Framing has variables  *)
(* of its own, which stay as they are when another part runs; the others   *)
(* share x1 to x13, which are 0 where a part has fewer.                    *)
(***************************************************************************)
EXTENDS Framing

VARIABLES part, x1, x2, x3, x4, x5, x6, x7, x8, x9, x10, x11, x12, x13

partVars == <<x1, x2, x3, x4, x5, x6, x7, x8, x9, x10, x11, x12, x13>>

hostVars == <<part, partVars, framingVars>>

\* Two hooks, one for data and one for tracking notifications, that are the same
\* executable.
Hooks == INSTANCE Hooks WITH
    Hook <- {"d", "t"}, KindOf <- [d |-> "data", t |-> "track"],
    PathOf <- [d |-> "path", t |-> "path"], Buffer <- 2, MaxNotes <- 3,
    notes <- x1, ended <- x2, senders <- x3, chan <- x4, routine <- x5, written <- x6, main <- x7,
    todo <- x8

Channel == <<"c1", "c2">>

\* Two sessions, one of which may run git at a time.
Gitd == INSTANCE Gitd WITH
    Chan <- {"c1", "c2"}, MaxGits <- 0, MaxData <- 1,
    client <- x1, input <- x2, execQ <- x3, incoming <- x4, running <- x5, sends <- x6,
    stopping <- x7, loop <- x8, letter <- x9, task <- x10

Linkd == INSTANCE Linkd WITH
    MaxRequests <- 2, InFlight <- 2, Buffer <- 4,
    client <- x1, socket <- x2, replies <- x3, request <- x4, serve <- x5, channel <- x6,
    handler <- x7

Sync == INSTANCE Sync WITH
    MaxSeeds <- 2, MaxRev <- 1,
    mode <- x1, local <- x2, rev <- x3, at <- x4, step <- x5, link <- x6, inbox <- x7,
    handler <- x8, git <- x9, held <- x10, tracked <- x11, synced <- x12, asked <- x13

\* A channel that is full with one message, and a third call to overwrite it.
Control == INSTANCE GroundControl WITH
    Calls <- {1, 2, 3}, Capacity <- 1, Replies <- 1,
    routine <- x1, shutdown <- x2, endpoint <- x3, control <- x4, busy <- x5, chan <- x6,
    lagged <- x7, kind <- x8, call <- x9, unread <- x10

\* A pack of three chunks, and limits below, at and above its size.
Fetch == INSTANCE GitFetch WITH
    Sizes <- <<2, 1, 1>>, Limits <- 1 .. 4, Window <- 1, Names <- {"a"},
    ask <- x1, client <- x2, server <- x3, child <- x4, up <- x5, down <- x6, pipeIn <- x7,
    pipeOut <- x8

-----------------------------------------------------------------------------
\* The variables the part does not have.
Free11 == x11 = 0 /\ x12 = 0 /\ x13 = 0
Free9 == x9 = 0 /\ x10 = 0 /\ Free11
Free8 == x8 = 0 /\ Free9
Free1 == x1 = 0 /\ x2 = 0 /\ x3 = 0 /\ x4 = 0 /\ x5 = 0 /\ x6 = 0 /\ x7 = 0 /\ Free8

PartInit ==
    /\ Init
    /\ \/ part = "framing" /\ Free1
       \/ part = "hooks" /\ Hooks!Init /\ Free9
       \/ part = "gitd" /\ Gitd!Init /\ Free11
       \/ part = "linkd" /\ Linkd!Init /\ Free8
       \/ part = "sync" /\ Sync!Init
       \/ part = "control" /\ Control!Init /\ Free11
       \/ part = "fetch" /\ Fetch!Init /\ Free9

Keep11 == UNCHANGED <<x11, x12, x13>>
Keep9 == UNCHANGED <<x9, x10, x11, x12, x13>>
Keep8 == UNCHANGED <<x8, x9, x10, x11, x12, x13>>

OtherNext ==
    \/ part = "hooks" /\ Hooks!Next /\ Keep9
    \/ part = "gitd" /\ Gitd!Next /\ Keep11
    \/ part = "linkd" /\ Linkd!Next /\ Keep8
    \/ part = "sync" /\ Sync!Next
    \/ part = "control" /\ Control!Next /\ Keep11
    \/ part = "fetch" /\ Fetch!Next /\ Keep9

PartNext ==
    \/ part = "framing" /\ Next /\ UNCHANGED <<part, partVars>>
    \/ OtherNext /\ UNCHANGED <<part, framingVars>>

-----------------------------------------------------------------------------
(***************************************************************************)
(* The fairness of each part, as its module states it.  As only one part   *)
(* runs, the k-th condition is the k-th of whichever part it is.           *)
(***************************************************************************)
WeakStep(k) ==
    \/ /\ part = "hooks" /\ Keep9
       /\ \/ k = 0 /\ Hooks!Run
          \/ k = 1 /\ Hooks!Routine("d")
          \/ k = 2 /\ Hooks!Routine("t")
    \/ /\ part = "gitd" /\ Keep11
       /\ \/ k = 0 /\ Gitd!Loop
          \/ k \in 1 .. 2 /\ x10[Channel[k]].at # "run" /\ Gitd!Task(Channel[k])
          \/ k \in 3 .. 4 /\ Gitd!Receive(Channel[k - 2])
          \/ k \in 5 .. 6 /\ Gitd!ChildExited(Channel[k - 4])
          \/ k \in 7 .. 8 /\ Gitd!ChildEnds(Channel[k - 6])
    \/ /\ part = "linkd" /\ Keep8
       /\ \/ k = 0 /\ (Linkd!ReadAck \/ Linkd!ReadReply)
          \/ k = 1 /\ Linkd!RecvRequest
          \/ k = 2 /\ Linkd!Ack
          \/ k = 3 /\ Linkd!Closed
          \/ k = 4 /\ Linkd!Over
    \/ /\ part = "sync"
       /\ \/ k = 0 /\ Sync!Client
          \/ k \in 1 .. 2 /\ Sync!Seed(k)
          \/ k \in 3 .. 4 /\ Sync!ServeGit(k - 2)
          \/ k \in 5 .. 6 /\ x6[k - 4] = "lost" /\ Sync!PullFails(k - 4)
    \/ /\ part = "control" /\ Keep11
       /\ \/ k = 0 /\ (Control!Subscribe \/ Control!RecvLagged \/ Control!Recv)
          \/ k = 1 /\ (Control!Gossip \/ Control!Info \/ Control!Interrogation \/ Control!Connected)
          \/ k = 2 /\ (Control!Stop \/ Control!AcceptDone \/ Control!Sleep)
          \/ k \in 3 .. 5 /\ Control!ProvidersEnd(k - 2)
          \/ k \in 6 .. 8 /\ Control!ReadResponse(k - 5)
    \/ /\ part = "fetch" /\ Keep9
       /\ \/ k = 0 /\ Fetch!Client
          \/ k = 1 /\ Fetch!Server
          \/ k = 2 /\ Fetch!Git

StrongStep(k) ==
    \/ part = "gitd" /\ Keep11 /\ k \in 1 .. 2 /\ Gitd!ClientInput(Channel[k])
    \/ /\ part = "linkd" /\ Keep8
       /\ \/ k = 0 /\ Linkd!SendResponse
          \/ k \in 1 .. 2 /\ Linkd!Join(k)
          \/ k \in 3 .. 4 /\ Linkd!Handle(k - 2)
    \/ /\ part = "control" /\ Keep11
       /\ \/ k = 0 /\ Control!ResponsesEnd
          \/ k = 1 /\ Control!Bind

PartSpec ==
    /\ PartInit /\ [][PartNext]_hostVars
    /\ \A k \in 0 .. 8 : WF_partVars(WeakStep(k))
    /\ \A k \in 0 .. 4 : SF_partVars(StrongStep(k))

-----------------------------------------------------------------------------
\* What somebody is told is true: a reply of linkd is to the request it follows, a
\* seed that is said to have pulled has, and a fetch that succeeds has all it asked
\* for (see Linkd, Sync, GitFetch).
CallersAreToldTrue ==
    /\ part = "linkd" => Linkd!RepliesMatch
    /\ part = "sync" => Sync!PullsAreTrue
    /\ part = "fetch" => Fetch!FetchIsWhole

\* What somebody waits for comes: the EOTs of the hooks and the tasks of gitd end,
\* requests to linkd and calls to its peer are answered, a sync and a fetch come to
\* their ends (see the modules).  The three calls are interchangeable, so that two
\* of them stand for all.
Waiting(k) ==
    \/ part = "hooks" /\ Hooks!HasRoom
    \/ part = "gitd" /\ k \in 1 .. 2 /\ Channel[k] \in x5
    \/ part = "linkd" /\ k \in 1 .. 2 /\ Linkd!Waits(k)
    \/ part = "sync"
    \/ part = "control" /\ x9[k] = "sent"
    \/ part = "fetch"

Over(k) ==
    \/ part = "hooks" /\ x7 = "returned"
    \/ part = "gitd" /\ k \in 1 .. 2 /\ Gitd!IsFreed(Channel[k])
    \/ part = "linkd" /\ k \in 1 .. 2 /\ Linkd!IsAnswered(k)
    \/ part = "sync" /\ x5 = "done"
    \/ part = "control" /\ x9[k] = "returned"
    \/ part = "fetch" /\ (Fetch!Ended \/ x4.pc = "died")

WaitsEnd == \A k \in 1 .. 2 : Waiting(k) ~> Over(k)
=============================================================================
