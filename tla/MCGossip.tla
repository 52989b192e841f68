------------------------------ MODULE MCGossip ------------------------------
(***************************************************************************)
(* Small networks in which node a announces.                               *)
(***************************************************************************)
EXTENDS Gossip

CONSTANTS a, c, u, v

Symmetric(R) == R \cup {<<e[2], e[1]>> : e \in R}

OnlyC == [n \in Node |-> IF n = c THEN {a} ELSE {}]
Others == [n \in Node |-> IF n = a THEN {} ELSE {a}]

\* Nodes u and v track nothing and only relay; with a they form a cycle. Node c can
\* be reached through v.
Cycle == [links |-> Symmetric({<<a, u>>, <<u, v>>, <<v, a>>, <<v, c>>}), tracks |-> OnlyC,
          known |-> Node, errors |-> 0, limits |-> 0, announce |-> 1, demote |-> 0]

\* A triangle with an error anywhere.
Triangle == [links |-> Symmetric({<<a, u>>, <<u, c>>, <<c, a>>}), tracks |-> OnlyC,
             known |-> Node, errors |-> 1, limits |-> 0, announce |-> 1, demote |-> 0]

\* A line of peers who track a, of whom one has yet to get the repository, while
\* everything else goes wrong too.
Line == [links |-> Symmetric({<<a, u>>, <<u, c>>}), tracks |-> Others,
         known |-> Node \ {u}, errors |-> 1, limits |-> 1, announce |-> 2, demote |-> 1]

AllNets == {Cycle, Triangle, Line}
=============================================================================
