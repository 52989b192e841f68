------------------------------ MODULE UrnCache ------------------------------
(***************************************************************************)
(* The cache of locally available URNs, kept up to date by two threads:    *)
(* `urns::Filter` of librad/src/net/protocol/cache.rs with the filesystem  *)
(* watcher of librad/src/git/storage/watch.rs.                             *)
(*                                                                         *)
(* One thread receives an event for every namespace directory that is      *)
(* created; it sets the `rebuild` flag and unparks the builder. The        *)
(* builder clears the flag, lists all namespaces which have a              *)
(* `refs/rad/id` and publishes a new filter, until the flag stays clear;   *)
(* then it parks. The filter is the set of URNs it was built from; its     *)
(* false positives are left out.                                           *)
(***************************************************************************)
EXTENDS Integers, TLAPS

CONSTANT Urns

VARIABLES
    dirs,        \* namespaces whose reflog directory exists
    ids,         \* namespaces whose `refs/rad/id` exists
    watched,     \* namespaces whose directory was created under the watch
    events,      \* number of events in the channel
    dropped,     \* the last `Filter`, and with it the watcher, was dropped
    main,        \* where the thread that receives events is
    bob,         \* where the builder is
    rebuild,     \* AtomicBool
    shutdown,    \* AtomicBool
    token,       \* the park token of the builder
    building,    \* the filter being built
    expect,      \* namespaces whose id the builder sleeps for
    filter,      \* the published filter
    failed       \* the last build ended with an error

vars == <<dirs, ids, watched, events, dropped, main, bob, rebuild, shutdown, token,
          building, expect, filter, failed>>

fs    == <<dirs, ids, watched>>
flags == <<rebuild, shutdown, token>>

Init ==
    /\ dirs \in SUBSET Urns /\ ids = dirs
    /\ watched = {}
    /\ events = 0
    /\ dropped = FALSE
    /\ main = "new"
    /\ bob = "none"
    /\ rebuild = FALSE
    /\ shutdown = FALSE
    /\ token = FALSE
    /\ building = {}
    /\ expect = {}
    /\ filter = {}
    /\ failed = FALSE

-----------------------------------------------------------------------------
(***************************************************************************)
(* Writers create the directory of a namespace, then its `refs/rad/id`.    *)
(***************************************************************************)

CreateNamespace(u) ==
    /\ u \notin dirs
    /\ dirs' = dirs \cup {u}
    /\ IF main \in {"new", "watch"}
       THEN UNCHANGED <<watched, events>>
       ELSE /\ watched' = watched \cup {u}
            /\ events' = IF dropped THEN events ELSE events + 1
    /\ UNCHANGED <<ids, dropped, main, bob, flags, building, expect, filter, failed>>

CreateId(u) ==
    /\ u \in dirs \ ids
    /\ ids' = ids \cup {u}
    /\ UNCHANGED <<dirs, watched, events, dropped, main, bob, flags, building, expect,
                   filter, failed>>

-----------------------------------------------------------------------------
(***************************************************************************)
(* `Filter::new` and its last `drop`.                                      *)
(***************************************************************************)

New ==
    /\ main = "new"
    /\ main' = "watch"
    /\ filter' = ids
    /\ UNCHANGED <<fs, events, dropped, bob, flags, building, expect, failed>>

NewWatch ==
    /\ main = "watch"
    /\ main' = "recv"
    /\ bob' = "top"
    /\ UNCHANGED <<fs, events, dropped, flags, building, expect, filter, failed>>

Drop ==
    /\ main \notin {"new", "watch"}
    /\ ~dropped
    /\ dropped' = TRUE
    /\ UNCHANGED <<fs, events, main, bob, flags, building, expect, filter, failed>>

-----------------------------------------------------------------------------
(***************************************************************************)
(* The receiving thread.                                                   *)
(***************************************************************************)

RecvEvent ==
    /\ main = "recv"
    /\ events > 0
    /\ events' = events - 1
    /\ main' = "store"
    /\ UNCHANGED <<fs, dropped, bob, flags, building, expect, filter, failed>>

RecvStore ==
    /\ main = "store"
    /\ rebuild' = TRUE
    /\ main' = "unpark"
    /\ UNCHANGED <<fs, events, dropped, bob, shutdown, token, building, expect, filter, failed>>

\* Mutant: an event is noted, and the builder is not unparked.
RecvNoUnpark ==
    /\ main = "unpark"
    /\ main' = "recv"
    /\ UNCHANGED <<fs, events, dropped, bob, flags, building, expect, filter, failed>>

RecvUnpark ==
    /\ main = "unpark"
    /\ token' = TRUE
    /\ main' = "recv"
    /\ UNCHANGED <<fs, events, dropped, bob, rebuild, shutdown, building, expect, filter, failed>>

\* Mutant: that the watcher is gone is noticed with the next event only.
RecvEndOnEvent ==
    /\ main = "recv"
    /\ events > 0
    /\ dropped
    /\ main' = "stop"
    /\ UNCHANGED <<fs, events, dropped, bob, flags, building, expect, filter, failed>>

RecvEnd ==
    /\ main = "recv"
    /\ events = 0
    /\ dropped
    /\ main' = "stop"
    /\ UNCHANGED <<fs, events, dropped, bob, flags, building, expect, filter, failed>>

Stop ==
    /\ main = "stop"
    /\ shutdown' = TRUE
    /\ main' = "stopUnpark"
    /\ UNCHANGED <<fs, events, dropped, bob, rebuild, token, building, expect, filter, failed>>

StopUnpark ==
    /\ main = "stopUnpark"
    /\ token' = TRUE
    /\ main' = "join"
    /\ UNCHANGED <<fs, events, dropped, bob, rebuild, shutdown, building, expect, filter, failed>>

StopJoin ==
    /\ main = "join"
    /\ bob = "exit"
    /\ main' = "exit"
    /\ UNCHANGED <<fs, events, dropped, bob, flags, building, expect, filter, failed>>

-----------------------------------------------------------------------------
(***************************************************************************)
(* The builder.                                                            *)
(***************************************************************************)

BobTop ==
    /\ bob = "top"
    /\ bob' = IF shutdown THEN "exit" ELSE "while"
    /\ UNCHANGED <<fs, events, dropped, main, flags, building, expect, filter, failed>>

\* `rebuild.fetch_and(false)`
BobWhile ==
    /\ bob = "while"
    /\ rebuild' = FALSE
    /\ bob' = IF rebuild THEN "sleep" ELSE "park"
    /\ expect' = IF rebuild THEN dirs ELSE {}
    /\ UNCHANGED <<fs, events, dropped, main, shutdown, token, building, filter, failed>>

\* The 10ms are meant to let the writer of the namespace that triggered the
\* event create its id: the step waits for it.
BobSleep ==
    /\ bob = "sleep"
    /\ expect \subseteq ids
    /\ bob' = "build"
    /\ expect' = {}
    /\ UNCHANGED <<fs, events, dropped, main, flags, building, filter, failed>>

\* Mutant: a namespace counts as soon as its directory exists.
BobBuildDirs ==
    /\ bob = "build"
    /\ building' = dirs
    /\ bob' = "publish"
    /\ UNCHANGED <<fs, events, dropped, main, flags, expect, filter, failed>>

\* Mutant: only the namespaces that caused events are listed.
BobBuildEvents ==
    /\ bob = "build"
    /\ building' = watched \cap ids
    /\ bob' = "publish"
    /\ UNCHANGED <<fs, events, dropped, main, flags, expect, filter, failed>>

BobBuild ==
    /\ bob = "build"
    /\ building' = ids
    /\ bob' = "publish"
    /\ UNCHANGED <<fs, events, dropped, main, flags, expect, filter, failed>>

\* The error is reported, and the event that called for the build is spent.
BobBuildError ==
    /\ bob = "build"
    /\ failed' = TRUE
    /\ bob' = "after"
    /\ UNCHANGED <<fs, events, dropped, main, flags, building, expect, filter>>

\* Mutant: `rebuild` is cleared when the build is done.
BobPublishClears ==
    /\ bob = "publish"
    /\ filter' = building
    /\ building' = {}
    /\ failed' = FALSE
    /\ rebuild' = FALSE
    /\ bob' = "after"
    /\ UNCHANGED <<fs, events, dropped, main, shutdown, token, expect>>

BobPublish ==
    /\ bob = "publish"
    /\ filter' = building
    /\ building' = {}
    /\ failed' = FALSE
    /\ bob' = "after"
    /\ UNCHANGED <<fs, events, dropped, main, flags, expect>>

BobAfter ==
    /\ bob = "after"
    /\ bob' = IF shutdown THEN "exit" ELSE "while"
    /\ UNCHANGED <<fs, events, dropped, main, flags, building, expect, filter, failed>>

\* `thread::park` returns when there is a token, which it takes...
BobPark ==
    /\ bob = "park"
    /\ token
    /\ token' = FALSE
    /\ bob' = "top"
    /\ UNCHANGED <<fs, events, dropped, main, rebuild, shutdown, building, expect, filter, failed>>

\* ... or spuriously.
BobWakeSpuriously ==
    /\ bob = "park"
    /\ ~token
    /\ bob' = "top"
    /\ UNCHANGED <<fs, events, dropped, main, flags, building, expect, filter, failed>>

-----------------------------------------------------------------------------
Main == New \/ NewWatch \/ RecvEvent \/ RecvStore \/ RecvUnpark \/ RecvEnd \/ Stop \/ StopUnpark \/ StopJoin

Bob ==
    \/ BobTop \/ BobWhile \/ BobSleep \/ BobBuild \/ BobBuildError
    \/ BobPublish \/ BobAfter \/ BobPark

Next ==
    \/ \E u \in Urns : CreateNamespace(u) \/ CreateId(u)
    \/ Drop
    \/ Main
    \/ Bob
    \/ BobWakeSpuriously

Spec == Init /\ [][Next]_vars

\* Both threads are scheduled by the operating system, and a writer that has
\* created a namespace goes on to create its id. Nobody has to drop the filter,
\* and no wake-up is due without a token.
FairSpec ==
    /\ Spec
    /\ WF_vars(Main)
    /\ WF_vars(Bob)
    /\ \A u \in Urns : WF_vars(CreateId(u))

-----------------------------------------------------------------------------
TypeOK ==
    /\ dirs \subseteq Urns
    /\ ids \subseteq dirs
    /\ watched \subseteq dirs
    /\ events \in Nat
    /\ dropped \in BOOLEAN
    /\ main \in {"new", "watch", "recv", "store", "unpark", "stop", "stopUnpark", "join", "exit"}
    /\ bob \in {"none", "top", "while", "sleep", "build", "publish", "after", "park", "exit"}
    /\ rebuild \in BOOLEAN
    /\ shutdown \in BOOLEAN
    /\ token \in BOOLEAN
    /\ building \subseteq ids
    /\ expect \subseteq dirs
    /\ filter \subseteq ids
    /\ failed \in BOOLEAN

\* No lost wake-up: a builder that is parked without a token has nothing to do.
\* If a rebuild or the shutdown has been requested, the receiving thread is
\* about to unpark it.
NoLostWakeup ==
    bob = "park" /\ ~token =>
        /\ rebuild => main = "unpark"
        /\ shutdown => main = "stopUnpark"

\* A published filter never loses a URN: the builder is the only one to swap the
\* filter, and lists the namespaces anew for every build.
FilterGrows == [][filter \subseteq filter']_filter

\* A namespace created while its parent is watched is in the filter in the end,
\* whichever way its creation interleaves with a build in progress. Two things
\* excuse it: the filter was dropped, or the last build failed (the next event,
\* not a retry, makes up for that).
CatchesUp == \A u \in Urns : u \in watched ~> u \in filter \/ failed \/ dropped

\* Once the last filter is dropped, the builder sees `shutdown` even if it was
\* parked, and the receiving thread returns from joining it.
Terminates == dropped ~> main = "exit"

-----------------------------------------------------------------------------
(***************************************************************************)
(* Proofs about the two threads of the URN cache, for any set of URNs.     *)
(***************************************************************************)
\* NoLostWakeup looks at a parked builder only. What keeps it true is that a
\* builder which has passed its check of `shutdown` cannot have used up the token
\* that announces it.
Inductive ==
    /\ TypeOK
    /\ bob = "park" /\ rebuild => token \/ main = "unpark"
    /\ shutdown /\ bob \in {"while", "sleep", "build", "publish", "after", "park"} =>
           token \/ main = "stopUnpark"

LEMMA InitInductive == Init => Inductive
<1> SUFFICES ASSUME Init PROVE Inductive
    OBVIOUS
<1>1. TypeOK
    BY Zenon DEF Init, TypeOK
<1>2. bob = "none"
    BY DEF Init
<1> QED
    BY <1>1, <1>2 DEF Inductive

LEMMA NextInductive == Inductive /\ [Next]_vars => Inductive'
<1> SUFFICES ASSUME Inductive, [Next]_vars PROVE Inductive'
    OBVIOUS
<1> USE DEF Inductive, TypeOK, fs, flags
<1>1. ASSUME NEW u \in Urns, CreateNamespace(u) PROVE Inductive'
    BY <1>1 DEF CreateNamespace
<1>2. ASSUME NEW u \in Urns, CreateId(u) PROVE Inductive'
    BY <1>2 DEF CreateId
<1>3. CASE Drop
    BY <1>3 DEF Drop
<1>4. CASE Main
  <2>1. CASE New
      BY <2>1 DEF New
  <2>2. CASE NewWatch
      BY <2>2 DEF NewWatch
  <2>3. CASE RecvEvent
      BY <2>3 DEF RecvEvent
  <2>4. CASE RecvStore
      BY <2>4 DEF RecvStore
  <2>5. CASE RecvUnpark
      BY <2>5 DEF RecvUnpark
  <2>6. CASE RecvEnd
      BY <2>6 DEF RecvEnd
  <2>7. CASE Stop
      BY <2>7 DEF Stop
  <2>8. CASE StopUnpark
      BY <2>8 DEF StopUnpark
  <2>9. CASE StopJoin
      BY <2>9 DEF StopJoin
  <2> QED
      BY <1>4, <2>1, <2>2, <2>3, <2>4, <2>5, <2>6, <2>7, <2>8, <2>9 DEF Main
<1>5. CASE Bob
  <2>1. CASE BobTop
      BY <2>1 DEF BobTop
  <2>2. CASE BobWhile
      BY Zenon, <2>2 DEF BobWhile
  <2>3. CASE BobSleep
      BY <2>3 DEF BobSleep
  <2>4. CASE BobBuild
      BY <2>4 DEF BobBuild
  <2>5. CASE BobBuildError
      BY <2>5 DEF BobBuildError
  <2>6. CASE BobPublish
      BY Zenon, <2>6 DEF BobPublish
  <2>7. CASE BobAfter
      BY <2>7 DEF BobAfter
  <2>8. CASE BobPark
      BY Zenon, <2>8 DEF BobPark
  <2> QED
      BY <1>5, <2>1, <2>2, <2>3, <2>4, <2>5, <2>6, <2>7, <2>8 DEF Bob
<1>6. CASE BobWakeSpuriously
    BY <1>6 DEF BobWakeSpuriously
<1>7. CASE UNCHANGED vars
    BY <1>7 DEF vars
<1> QED
    BY <1>1, <1>2, <1>3, <1>4, <1>5, <1>6, <1>7 DEF Next

LEMMA AlwaysInductive == Spec => []Inductive
BY InitInductive, NextInductive, PTL DEF Spec

\* The cache is made of the URNs of existing identities at all times.
THEOREM TypeCorrect == Spec => []TypeOK
<1>1. Inductive => TypeOK
    BY DEF Inductive
<1> QED
    BY <1>1, AlwaysInductive, PTL

\* The builder is never left parked with a request it has not seen: `store` before
\* `unpark` in the receiving thread, and clearing the flag before the build in the
\* builder, are enough, for any number of events.
THEOREM WakeupsAreNotLost == Spec => []NoLostWakeup
<1>1. Inductive => NoLostWakeup
    BY DEF Inductive, TypeOK, NoLostWakeup
<1> QED
    BY <1>1, AlwaysInductive, PTL

\* A build that is about to be published lists at least what is published.
InductiveGrows ==
    /\ Inductive
    /\ bob = "publish" => filter \subseteq building
    /\ main = "new" => filter = {} /\ bob = "none"

LEMMA InitGrows == Init => InductiveGrows
<1> SUFFICES ASSUME Init PROVE InductiveGrows
    OBVIOUS
<1>1. Inductive
    BY InitInductive
<1> QED
    BY <1>1 DEF Init, InductiveGrows

LEMMA NextGrows == InductiveGrows /\ [Next]_vars => InductiveGrows'
<1> SUFFICES ASSUME InductiveGrows, [Next]_vars PROVE InductiveGrows'
    OBVIOUS
<1> DEFINE Grows == /\ bob = "publish" => filter \subseteq building
                    /\ main = "new" => filter = {} /\ bob = "none"
<1>0. Inductive'
    BY NextInductive DEF InductiveGrows
<1> SUFFICES Grows'
    BY <1>0 DEF InductiveGrows
<1> USE DEF InductiveGrows, Inductive, TypeOK, fs, flags
<1>1. ASSUME NEW u \in Urns, CreateNamespace(u) PROVE Grows'
    BY <1>1 DEF CreateNamespace
<1>2. ASSUME NEW u \in Urns, CreateId(u) PROVE Grows'
    BY <1>2 DEF CreateId
<1>3. CASE Drop
    BY <1>3 DEF Drop
<1>4. CASE Main
  <2>1. CASE New
      BY <2>1 DEF New
  <2>2. CASE NewWatch
      BY <2>2 DEF NewWatch
  <2>3. CASE RecvEvent
      BY <2>3 DEF RecvEvent
  <2>4. CASE RecvStore
      BY <2>4 DEF RecvStore
  <2>5. CASE RecvUnpark
      BY <2>5 DEF RecvUnpark
  <2>6. CASE RecvEnd
      BY <2>6 DEF RecvEnd
  <2>7. CASE Stop
      BY <2>7 DEF Stop
  <2>8. CASE StopUnpark
      BY <2>8 DEF StopUnpark
  <2>9. CASE StopJoin
      BY <2>9 DEF StopJoin
  <2> QED
      BY <1>4, <2>1, <2>2, <2>3, <2>4, <2>5, <2>6, <2>7, <2>8, <2>9 DEF Main
<1>5. CASE Bob
  <2>1. CASE BobTop
      BY <2>1 DEF BobTop
  <2>2. CASE BobWhile
      BY <2>2 DEF BobWhile
  <2>3. CASE BobSleep
      BY <2>3 DEF BobSleep
  <2>4. CASE BobBuild
      BY <2>4 DEF BobBuild
  <2>5. CASE BobBuildError
      BY <2>5 DEF BobBuildError
  <2>6. CASE BobPublish
      BY <2>6 DEF BobPublish
  <2>7. CASE BobAfter
      BY <2>7 DEF BobAfter
  <2>8. CASE BobPark
      BY <2>8 DEF BobPark
  <2> QED
      BY <1>5, <2>1, <2>2, <2>3, <2>4, <2>5, <2>6, <2>7, <2>8 DEF Bob
<1>6. CASE BobWakeSpuriously
    BY <1>6 DEF BobWakeSpuriously
<1>7. CASE UNCHANGED vars
    BY <1>7 DEF vars
<1> QED
    BY <1>1, <1>2, <1>3, <1>4, <1>5, <1>6, <1>7 DEF Next

\* Swapping the filter loses no URN: only the builder swaps, and every build
\* lists the namespaces anew.
THEOREM FilterNeverShrinks == Spec => FilterGrows
<1>1. InductiveGrows /\ [Next]_vars => [filter \subseteq filter']_filter
  <2> SUFFICES ASSUME InductiveGrows, [Next]_vars, filter' # filter
               PROVE filter \subseteq filter'
      OBVIOUS
  <2>1. New \/ BobPublish
      BY DEF Next, vars, Main, New, NewWatch, RecvEvent, RecvStore, RecvUnpark, RecvEnd, Stop,
             StopUnpark, StopJoin, Bob, BobTop, BobWhile, BobSleep, BobBuild, BobBuildError,
             BobAfter, BobPark, BobWakeSpuriously, Drop, CreateNamespace, CreateId
  <2> QED
      BY <2>1 DEF InductiveGrows, New, BobPublish
<1> QED
    BY <1>1, InitGrows, NextGrows, PTL DEF Spec, FilterGrows
=============================================================================
