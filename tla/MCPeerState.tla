---------------------------- MODULE MCPeerState ----------------------------
(***************************************************************************)
(* What a peer holds: its view of the membership, which fills up and       *)
(* overflows, and the identities it takes part in.  A behaviour is one of  *)
(* either part; the variables of the other stay as they are.  The remote   *)
(* peers of the view are interchangeable: no definition chooses among      *)
(* them.                                                                   *)
(***************************************************************************)
EXTENDS HpvNode, TLC

VARIABLES part, odb, heads, made

RemoteSymmetry == Permutations(Remotes)

-----------------------------------------------------------------------------
Devices == {"d1", "d2", "d3"}

\* The person's document when d1 alone is a delegate, the one that d1 has put in
\* its place, which delegates to all three, and the next.
Alone == [urn |-> "alice", payload |-> 0, dels |-> [keys |-> {"d1"}, ids |-> {}],
          replaces |-> [urn |-> "none"]]

ByThree(r) ==
    [urn |-> "alice", payload |-> 0, dels |-> [keys |-> Devices, ids |-> {}], replaces |-> r]

Signed(parents, rev, sigs) == [parents |-> parents, rev |-> rev, sigs |-> sigs]

At(d, tip) == [d1 |-> d, d2 |-> d, d3 |-> tip]

Heads(commits) == [d \in Devices |-> [alice |-> commits[d], proj |-> 0]]

Nothing == [odb |-> <<>>, heads |-> Heads(At(0, 0))]

\* d1 has created alice, then proposed to delegate to all three devices; d2 has
\* approved, d1 has merged that, and d3 has replicated it.
Shared ==
    [odb |-> <<Signed(<<>>, Alone, {"d1"}), Signed(<<1>>, ByThree(Alone), {"d1"}),
               Signed(<<2>>, ByThree(Alone), {"d1", "d2"})>>,
     heads |-> Heads(At(3, 3))]

\* After that d3 has proposed the next revision.
Proposed ==
    [odb |-> Append(Shared.odb, Signed(<<3>>, ByThree(ByThree(Alone)), {"d3"})),
     heads |-> Heads(At(3, 4))]

Starts == {Nothing, Shared, Proposed}

Founder == [alice |-> "d1", proj |-> "d1"]

KeySets == {{}, {"d1"}, Devices}

\* A person and a project on three devices.
Ids == INSTANCE Identities WITH
    Device <- Devices, Person <- {"alice"}, Project <- {"proj"}, Payload <- {0}, MaxCommits <- 3

-----------------------------------------------------------------------------
PartInit ==
    \/ part = "view" /\ Init /\ odb = <<>> /\ heads = Nothing.heads /\ made = 0
    \/ part = "identities" /\ Init /\ Ids!Init

PartNext ==
    /\ \/ part = "view" /\ Next /\ UNCHANGED <<odb, heads, made>>
       \/ part = "identities" /\ Ids!Next /\ UNCHANGED vars
    /\ UNCHANGED part

PartSpec == PartInit /\ [][PartNext]_<<part, vars, odb, heads, made>>

\* Majorities of delegates meet, so that the verified states of a person lie on
\* one line, of which the later is picked (see Identities).
VerifiedOnOneLine == Ids!QuorumsMeet /\ Ids!NoFork /\ Ids!NewerPicksLater

\* The verified state of an identity is replaced by later ones (see Identities).
VerifiedMovesOn == [][Ids!MovesToLater]_<<odb, heads, made>>
=============================================================================
