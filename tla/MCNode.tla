------------------------------- MODULE MCNode -------------------------------
(***************************************************************************)
(* The parts of a node that keep state on disk or about its peers, each by *)
(* itself: they have nothing in common but the files underneath, so that a *)
(* behaviour is one of a single part.  The variables x1 to x11 are those   *)
(* of whichever part it is, and 0 where it has fewer.                      *)
(***************************************************************************)
EXTENDS Naturals, Sequences, FiniteSets, TLC

VARIABLES part, x1, x2, x3, x4, x5, x6, x7, x8, x9, x10, x11

partVars == <<x1, x2, x3, x4, x5, x6, x7, x8, x9, x10, x11>>

\* Three peers that learn of an address that changes twice, with room for two;
\* two hosts of one network and one of another; two tasks that send, possibly over
\* one reserved stream.
Connections == INSTANCE Connections WITH
    Nodes <- {"n1", "n2", "n3"}, Addrs <- 1 .. 3, MaxAddrs <- 2, Listening <- 3, MaxHops <- 3,
    at <- x1, active <- x2, passive <- x3, told <- x4, refused <- x5, hops <- x6,
    Hosts <- {"p1", "p2", "p3"}, Network <- [p1 |-> "main", p2 |-> "main", p3 |-> "test"],
    Attempts <- {1}, Validity <- 2, MaxSkew <- 1, MaxDays <- 4,
    clock <- x1, certs <- x2, attempt <- x3,
    Tasks <- {1, 2},
    want <- x1, side <- x2, conn <- x3, pc <- x4, slot <- x5, lock <- x6, wire <- x7,
    stopped <- x8, reader <- x9, sent <- x10, got <- x11

\* Three pushes whose hooks overlap, and a seed; three peers that may track each
\* other in a cycle.
Publish == INSTANCE SignedRefs WITH
    Push <- {"p1", "p2", "p3"}, Seed <- {"s"}, NoCommit <- 0,
    refs <- x1, tip <- x2, commits <- x3, hook <- x4, seeded <- x5, overlap <- x6,
    Peer <- {"p", "q", "r"}, Depth <- 2, MaxTracks <- 3,
    tracked <- x1, copy <- x2, changes <- x3

\* Three commands over two profiles; two calls of one process's pool, and another
\* process; three daemons that are started three times, one of them with passed
\* sockets.
StartUp == INSTANCE StartUp WITH
    Commands <- {"c1", "c2", "c3"}, Ids <- {"p1", "p2"}, GivenKey <- "given",
    active <- x1, dirs <- x2, keys <- x3, repos <- x4, agent <- x5, step <- x6, prof <- x7,
    got <- x8,
    Openers <- {"t1", "t2", "t3"}, Process <- [t1 |-> 1, t2 |-> 1, t3 |-> 2],
    Pooled <- {"t1", "t2"}, Keys <- {"k1", "k2"}, Peers <- {1},
    signer <- x1, repo <- x2, config <- x3, old <- x4, new <- x5, legacy <- x6,
    untracked <- x7, pc <- x8, seen <- x9, lock <- x10, ready <- x11,
    Daemon <- {"p", "q", "r"}, Activated <- {"r"}, Manager <- "manager", Nobody <- "nobody",
    MaxStarts <- 3,
    file <- x1, at <- x2, starts <- x3, disturbed <- x4

\* Two commands at one path.
Working == INSTANCE WorkingCopy WITH
    Commands <- {"c1", "c2"}, Paths <- {"p1"},
    scene <- x1, store <- x2, inc <- x3, dirs <- x4, cmds <- x5

\* Two threads that look up three times, and two packs.
Odb == INSTANCE Odb WITH
    Threads <- {"t1", "t2"}, Objects <- {"a"}, Slots <- 2, MaxPacks <- 2, MaxLookups <- 3,
    packs <- x1, onDisk <- x2, loose <- x3, indices <- x4, lock <- x5, bucket <- x6,
    bucketLock <- x7, threads <- x8, lookups <- x9, compacting <- x10

RefNames == {"ids", "id", "head"}

Sets(name, oid, policy) ==
    [is |-> "direct", name |-> name, to |-> "", target |-> oid, policy |-> policy, prev |-> 0]

Aliases(oid, policy) ==
    [is |-> "symbolic", name |-> "ids", to |-> "id", target |-> oid, policy |-> policy, prev |-> 0]

Prune(oid) == [is |-> "prune", name |-> "head", to |-> "", target |-> 0, policy |-> "", prev |-> oid]

Batches ==
    {<<Sets("head", 1, "allow")>>, <<Sets("head", 2, "reject"), Aliases(2, "reject")>>,
     <<Sets("id", 3, "abort")>>, <<Sets("ids", 1, "allow")>>, <<Aliases(3, "allow")>>,
     <<Prune(1)>>, <<Sets("head", 3, "allow")>>}

AtFirst == [n \in RefNames |-> [oid |-> IF n = "id" THEN 1 ELSE 0, sym |-> ""]]

\* Two pulls that update a fork, one of whose names refers to another.
Refdb == INSTANCE Refdb WITH
    Threads <- {"t1", "t2"}, Names <- RefNames, Oids <- {1, 2, 3}, Parent <- <<0, 1, 1>>,
    Batches <- Batches, Stored <- AtFirst, MaxCalls <- 2, MaxPacks <- 1,
    loose <- x1, file <- x2, cached <- x3, pulls <- x4, calls <- x5, packings <- x6

\* The blob of a string, and one whose object lacks a key.
NoConfigs == {<<"string", "*">>,
              <<"object", [data |-> <<"string", "x">>, cobs |-> <<"object", [t \in {} |-> 0]>>]>>}

Config == INSTANCE TrackingConfig WITH
    Types <- {"t"}, Objects <- {"o"}, Peers <- {"p1", "p2"}, Foreign <- NoConfigs, MaxOps <- 2,
    work <- x1, entries <- x2, blobs <- x3, listing <- x4, answer <- x5, ops <- x6

\* A line, a fork, two roots that are merged, and a criss-cross merge.
Histories ==
    {<<{}, {1}, {2}, {3}, {4}>>, <<{}, {1}, {1}, {2}, {3}>>, <<{}, {}, {1, 2}, {2}, {1}>>,
     <<{}, {1}, {1}, {2, 3}, {2, 3}>>}

\* Three delegates' branches in these histories; three references of which two
\* match, and a writer.
Reads == INSTANCE StorageRead WITH
    Delegates <- <<"p1", "p2", "p3">>, Local <- "p1", Revisions <- 1 .. 5, Graphs <- Histories,
    MaxPushes <- 1,
    parents <- x1, heads <- x2, head <- x3, signed <- x4, run <- x5, pushes <- x6,
    Names <- <<"a", "b", "c">>, Matching <- {"a", "c"}, Commits <- {1, 2}, MaxWrites <- 1,
    objects <- x1, refs <- x2, query <- x3, always <- x4, writes <- x5

\* Three processes on two devices that change one object.
Cob == INSTANCE Cob WITH
    Device <- {"d1", "d2"}, Process <- {"x1", "x2", "x3"},
    DeviceOf <- [x1 |-> "d1", x2 |-> "d1", x3 |-> "d2"], Creator <- "d1", MaxChanges <- 3,
    kind <- x1, odb <- x2, refs <- x3, cache <- x4, proc <- x5

Names == INSTANCE RefNames WITH
    Peers <- {"p1", "p2"}, Urns <- {"u1"},
    Words <- {"refs", "heads", "rad", "remotes", "namespaces", "id", "ids", "x"}, MaxParts <- 3,
    given <- x1, out <- x2

\* Two persons that share a key, so that delegating to both is refused; keys of
\* members that normalisation or their quotes make the same or order otherwise.
Documents == INSTANCE Documents WITH
    Keys <- {"k1", "k2"}, Persons <- [u1 |-> {"k1"}, u2 |-> {"k1", "k2"}], MaxEntries <- 2,
    MaxExts <- 2,
    draft <- x1, stored <- x2, loaded <- x3, ops <- x4,
    MemberKeys <- {<<"a">>, <<"a", "!">>, <<"e", "^">>, <<"ê">>, <<"'">>},
    Strings <- {<<"a">>, <<"newline">>, <<"e", "^">>},
    doc <- x1, calls <- x2, stack <- x3, out <- x4

\* Short names; trailers of one or two authors; seeds of which one address is
\* found and one is not; two versions of two payloads.
Formats == INSTANCE Formats WITH
    MaxLen <- 2, MaxParsed <- 2, MaxParts <- 4, typ <- x1, name <- x2,
    Keys <- {"k1", "k2"}, Oids <- {"o1", "o2"}, MaxBody <- 3,
    body <- x1, spec <- x2, message <- x3, loaded <- x4,
    Peers <- {"P"}, Addrs <- {"A", "X"}, Labels <- {"L", "K"}, Resolvable <- {"A"}, MaxLines <- 2,
    MaxCutoff <- 2,
    file <- x1, load <- x2, lines <- x3,
    Payloads <- {"x", "y"}, Versions <- {0, 1}, value <- x1, wire <- x2, read <- x3

-----------------------------------------------------------------------------
\* The variables the part does not have.
Free11 == x11 = 0
Free10 == x10 = 0 /\ Free11
Free9 == x9 = 0 /\ Free10
Free8 == x8 = 0 /\ Free9
Free7 == x7 = 0 /\ Free8
Free6 == x6 = 0 /\ Free7
Free5 == x5 = 0 /\ Free6
Free4 == x4 = 0 /\ Free5
Free3 == x3 = 0 /\ Free4

Init ==
    \/ part = "info" /\ Connections!InfoInit /\ Free7
    \/ part = "tls" /\ Connections!TlsInit /\ Free4
    \/ part = "streams" /\ Connections!StreamInit
    \/ part = "signed" /\ Publish!SignInit /\ Free7
    \/ part = "graph" /\ Publish!GraphInit /\ Free4
    \/ part = "storage" /\ StartUp!StorageInit
    \/ part = "profiles" /\ StartUp!ProfileInit /\ Free9
    \/ part = "sockets" /\ StartUp!SocketInit /\ Free5
    \/ part = "working" /\ Working!Init /\ Free6
    \/ part = "odb" /\ Odb!Init /\ Free11
    \/ part = "refdb" /\ Refdb!Init /\ Free7
    \/ part = "tracking" /\ Config!Init /\ Free7
    \/ part = "head" /\ Reads!HeadInit /\ Free7
    \/ part = "reads" /\ Reads!QueryInit /\ Free6
    \/ part = "cob" /\ Cob!Init /\ Free6
    \/ part = "format" /\ Formats!FormatInit /\ Free3
    \/ part = "json" /\ Documents!JsonInit /\ Free5
    \/ part = "names" /\ Names!Init /\ Free3
    \/ part = "trailers" /\ Formats!TrailerInit /\ Free5
    \/ part = "doc" /\ Documents!DocInit /\ Free5
    \/ part = "seeds" /\ Formats!SeedInit /\ Free4
    \/ part = "encodings" /\ Formats!EncodingInit /\ Free4

Next ==
    /\ UNCHANGED part
    /\ \/ part = "info" /\ Connections!InfoNext /\ UNCHANGED <<x7, x8, x9, x10, x11>>
       \/ part = "tls" /\ Connections!TlsNext /\ UNCHANGED <<x4, x5, x6, x7, x8, x9, x10, x11>>
       \/ part = "streams" /\ Connections!StreamNext
       \/ part = "signed" /\ Publish!SignNext /\ UNCHANGED <<x7, x8, x9, x10, x11>>
       \/ part = "graph" /\ Publish!GraphNext /\ UNCHANGED <<x4, x5, x6, x7, x8, x9, x10, x11>>
       \/ part = "storage" /\ StartUp!StorageNext
       \/ part = "profiles" /\ StartUp!ProfileNext /\ UNCHANGED <<x9, x10, x11>>
       \/ part = "sockets" /\ StartUp!SocketNext /\ UNCHANGED <<x5, x6, x7, x8, x9, x10, x11>>
       \/ part = "working" /\ Working!Next /\ UNCHANGED <<x6, x7, x8, x9, x10, x11>>
       \/ part = "odb" /\ Odb!Next /\ UNCHANGED <<x11>>
       \/ part = "refdb" /\ Refdb!Next /\ UNCHANGED <<x7, x8, x9, x10, x11>>
       \/ part = "tracking" /\ Config!Next /\ UNCHANGED <<x7, x8, x9, x10, x11>>
       \/ part = "head" /\ Reads!HeadNext /\ UNCHANGED <<x7, x8, x9, x10, x11>>
       \/ part = "reads" /\ Reads!QueryNext /\ UNCHANGED <<x6, x7, x8, x9, x10, x11>>
       \/ part = "cob" /\ Cob!Next /\ UNCHANGED <<x6, x7, x8, x9, x10, x11>>
       \/ part = "format" /\ Formats!FormatNext /\ UNCHANGED <<x3, x4, x5, x6, x7, x8, x9, x10, x11>>
       \/ part = "json" /\ Documents!JsonNext /\ UNCHANGED <<x5, x6, x7, x8, x9, x10, x11>>
       \/ part = "names" /\ Names!Next /\ UNCHANGED <<x3, x4, x5, x6, x7, x8, x9, x10, x11>>
       \/ part = "trailers" /\ Formats!TrailerNext /\ UNCHANGED <<x5, x6, x7, x8, x9, x10, x11>>
       \/ part = "doc" /\ Documents!DocNext /\ UNCHANGED <<x5, x6, x7, x8, x9, x10, x11>>
       \/ part = "seeds" /\ Formats!SeedNext /\ UNCHANGED <<x4, x5, x6, x7, x8, x9, x10, x11>>
       \/ part = "encodings" /\ Formats!EncodingNext /\ UNCHANGED <<x4, x5, x6, x7, x8, x9, x10, x11>>

Spec == Init /\ [][Next]_<<part, partVars>>

-----------------------------------------------------------------------------
\* Infos passed between peers keep the addresses they have room for, honest peers
\* of a network connect whatever they have been through, and the streams of a
\* connection are handled as what they were opened for (see Connections).
ConnectionsWork ==
    /\ part = "info" => Connections!AddressesKept
    /\ part = "tls" => Connections!HonestConnects
    /\ part = "streams" => Connections!StreamsKeepProtocol

\* What a peer publishes in its signed refs: a hook that no other overlapped
\* signs and hands on all there is, and the graphs of remotes that go round stay
\* within their depth (see SignedRefs).
PublishesAll ==
    /\ [][part = "signed" => Publish!HookCovers]_<<part, partVars>>
    /\ [](part = "graph" => Publish!GraphsStayShallow)

\* A storage belongs to the key it is opened and signed for with, its pool opens
\* it, and no tracking entry is lost on the way; the sockets at a profile's paths
\* are those of the process that serves it (see StartUp).
StartsAsOwner ==
    /\ part = "storage" => StartUp!OneOwner /\ StartUp!PoolOpens /\ StartUp!NoTrackingLost
    /\ part = "profiles" => StartUp!SignsAsOwner
    /\ part = "sockets" => StartUp!ServesAlone

\* A checkout takes no commit away from the operator's own branch (see
\* WorkingCopy).
CheckoutKeepsOwn == [][part = "working" => Working!KeepsOwn]_<<part, partVars>>

\* What is in the object database is found, in a cache that holds no pack twice
\* (see Odb).
ObjectsAreFound == part = "odb" => Odb!OneSlotPerPack /\ Odb!UndisturbedFinds

\* An update of a reference is one its policy allows (see Refdb).
UpdatesRespectPolicy == [][part = "refdb" => Refdb!RespectsPolicy]_<<part, partVars>>

\* What is read from a storage while others write to it is true: who is tracked
\* and how, what the delegates agree on, which commits and references there are
\* (see TrackingConfig, StorageRead).
ReadsAreTrue ==
    /\ part = "tracking" => Config!ConfigsReadBack /\ Config!ListingIsTrue
    /\ part = "head" => Reads!HeadIsAgreed
    /\ part = "reads" => Reads!QueriesAreTrue

\* A collaborative object is what its changes make of it, cached or not, and no
\* device loses sight of a change; folding a history drops exactly what is
\* rejected and what came of it (see Cob).
ObjectsAreWhole ==
    /\ [](part = "cob" => Cob!CacheTransparent)
    /\ [][part = "cob" => Cob!KeepsSeen]_<<part, partVars>>
    /\ part = "cob" => Cob!PrunesExactly(4)

\* What is written as text is read as the same, and text that is accepted is what
\* git or the format accepts (see Formats, Documents, RefNames).
TextReadsBack ==
    /\ part = "format" => Formats!FormatIsGits /\ Formats!ValuesStayValid
    /\ part = "json" => Documents!FormsAgree /\ Documents!ReadsBack
    /\ part = "names" => Names!NamesReadBack
    /\ part = "trailers" => Formats!ChangesReadBack
    /\ part = "doc" => Documents!CreatedReadsBack /\ Documents!ReadingsAgree
    /\ part = "seeds" => Formats!SeedsLoad
    /\ part = "encodings" => Formats!EncodingsReadBack
=============================================================================
