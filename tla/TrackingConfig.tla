--------------------------- MODULE TrackingConfig ---------------------------
(***************************************************************************)
(* The configurations of tracking entries: how they are edited, written as *)
(* canonical JSON blobs and read back, what they allow to be replicated,   *)
(* and what the queries of link-tracking (tracked, tracked_peers, get,     *)
(* is_tracked, default_only) return while entries come and go.             *)
(*                                                                         *)
(* A blob is named by its content, so it stands for its own object id.  A  *)
(* JSON value is a pair of its kind and its content.  Listing entries      *)
(* takes their names when it starts, and looks at each entry when its turn *)
(* comes.                                                                  *)
(***************************************************************************)
EXTENDS Naturals, Sequences, FiniteSets, SequencesExt

CONSTANTS
    Types,          \* type names of collaborative objects
    Objects,        \* object ids
    Peers,          \* peer ids
    Foreign,        \* blobs entries may point to that are not configurations
    MaxOps          \* bound: changes made

None == << "none" >>
Star == "*"
Default == "default"
Remotes == Peers \cup {Default}

VARIABLES
    work,           \* the configuration being edited
    entries,        \* [Remotes -> the blob of the entry, or None]
    blobs,          \* the blobs there are
    listing,        \* a listing of the entries under way
    answer,         \* what the last query returned
    ops             \* changes made

configVars == <<work, entries, blobs, listing, answer, ops>>

-----------------------------------------------------------------------------
(* Configurations *)

Wildcard == << "all", {} >>
Some(objs) == << "some", objs >>
Filter(policy, pattern) == [policy |-> policy, pattern |-> pattern]
AllowAll == [t \in {Star} |-> Filter("allow", Wildcard)]
DenyAll == [t \in {Star} |-> Filter("deny", Wildcard)]
DefaultConfig == [data |-> TRUE, cobs |-> AllowAll]

Matches(pattern, o) == pattern = Wildcard \/ o \in pattern[2]
InversePolicy(policy) == IF policy = "allow" THEN "deny" ELSE "allow"

(* Config::policy_for, of refs/<category>/<second>/<rest>. *)
CobPolicy(cobs, t, o) ==
    IF t \in DOMAIN cobs
    THEN IF Matches(cobs[t].pattern, o) THEN cobs[t].policy ELSE InversePolicy(cobs[t].policy)
    ELSE IF Star \in DOMAIN cobs THEN cobs[Star].policy ELSE "allow"

PolicyFor(config, category, second, rest) ==
    IF category = "cobs"
    THEN IF Len(rest) = 1 /\ second \in Types /\ rest[1] \in Objects
         THEN CobPolicy(config.cobs, second, rest[1]) ELSE "deny"
    ELSE IF config.data /\ category \in {"heads", "tags", "notes"} THEN "allow" ELSE "deny"

(* Cobs::insert, remove, and what an Entry does to the filter there is. *)
Insert(cobs, t, f) == [u \in DOMAIN cobs \cup {t} |-> IF u = t THEN f ELSE cobs[u]]
RemoveType(cobs, t) == [u \in DOMAIN cobs \ {t} |-> cobs[u]]
AndModify(cobs, t, modified) == [u \in DOMAIN cobs |-> IF u = t THEN modified[u] ELSE cobs[u]]
SetPolicy(cobs, t, p) == AndModify(cobs, t, [u \in DOMAIN cobs |-> [cobs[u] EXCEPT !.policy = p]])
SetPattern(cobs, t, p) == AndModify(cobs, t, [u \in DOMAIN cobs |-> [cobs[u] EXCEPT !.pattern = p]])
InsertObjects(cobs, t, os) ==
    AndModify(cobs, t, [u \in DOMAIN cobs |->
        IF cobs[u].pattern = Wildcard THEN cobs[u] ELSE [cobs[u] EXCEPT !.pattern = Some(@[2] \cup os)]])
RemoveObjects(cobs, t, os) ==
    AndModify(cobs, t, [u \in DOMAIN cobs |->
        IF cobs[u].pattern = Wildcard THEN cobs[u] ELSE [cobs[u] EXCEPT !.pattern = Some(@[2] \ os)]])
OrInsert(cobs, t, f) == IF t \in DOMAIN cobs THEN cobs ELSE Insert(cobs, t, f)

Edits(cobs) ==
    UNION {{RemoveType(cobs, t), SetPolicy(cobs, t, "deny"), SetPattern(cobs, t, Some({})),
            InsertObjects(cobs, t, Objects), RemoveObjects(cobs, t, Objects),
            OrInsert(cobs, t, Filter("allow", Some({}))), Insert(cobs, t, Filter("deny", Wildcard))}
           : t \in Types \cup {Star}} \cup {DenyAll, cobs}

-----------------------------------------------------------------------------
(* As JSON *)

Bool(b) == << "bool", b >>
Str(s) == << "string", s >>
Arr(s) == << "array", s >>
Obj(f) == << "object", f >>

PolicyCjson(policy) == Str(policy)
PatternCjson(pattern) == IF pattern = Wildcard THEN Str(Star) ELSE Arr({Str(o) : o \in pattern[2]})
FilterCjson(f) == Obj([policy |-> PolicyCjson(f.policy), pattern |-> PatternCjson(f.pattern)])
CobsCjson(cobs) == Obj([t \in DOMAIN cobs |-> FilterCjson(cobs[t])])
ConfigCjson(c) == Obj([data |-> Bool(c.data), cobs |-> CobsCjson(c.cobs)])

(* TryFrom<Value>: << >> for an error, << what is read >> otherwise. *)
ReadPolicy(v) == IF v[1] = "string" /\ v[2] \in {"allow", "deny"} THEN << v[2] >> ELSE << >>

(* A slip: no object at all is taken for every object. *)
ReadPatternEmptyIsAll(v) ==
    CASE v[1] = "array" ->
            IF \A e \in v[2] : e[1] = "string" /\ e[2] \in Objects
            THEN << IF v[2] = {} THEN Wildcard ELSE Some({e[2] : e \in v[2]}) >> ELSE << >>
      [] v[1] = "string" -> IF v[2] = Star THEN << Wildcard >> ELSE << >>
      [] v[1] \notin {"array", "string"} -> << >>

ReadPattern(v) ==
    CASE v[1] = "array" ->
            IF \A e \in v[2] : e[1] = "string" /\ e[2] \in Objects
            THEN << Some({e[2] : e \in v[2]}) >> ELSE << >>
      [] v[1] = "string" -> IF v[2] = Star THEN << Wildcard >> ELSE << >>
      [] v[1] \notin {"array", "string"} -> << >>

ReadFilter(v) ==
    IF v[1] = "object" /\ {"policy", "pattern"} \subseteq DOMAIN v[2]
    THEN LET policy == ReadPolicy(v[2].policy) pattern == ReadPattern(v[2].pattern)
         IN IF policy = << >> \/ pattern = << >> THEN << >> ELSE << Filter(policy[1], pattern[1]) >>
    ELSE << >>

ReadCobs(v) ==
    IF /\ v[1] = "object"
       /\ \A t \in DOMAIN v[2] : t \in Types \cup {Star} /\ ReadFilter(v[2][t]) # << >>
    THEN << [t \in DOMAIN v[2] |-> ReadFilter(v[2][t])[1]] >> ELSE << >>

ReadConfig(v) ==
    IF v[1] = "object" /\ {"cobs", "data"} \subseteq DOMAIN v[2]
    THEN IF v[2].data[1] # "bool" \/ ReadCobs(v[2].cobs) = << >> THEN << >>
         ELSE << [data |-> v[2].data[2], cobs |-> ReadCobs(v[2].cobs)[1]] >>
    ELSE << >>

-----------------------------------------------------------------------------
(* The store *)

NoListing == [of |-> "nothing", rest |-> << >>, at |-> None, seen |-> {}, out |-> << >>, since |-> {}, kept |-> {}]

Init ==
    /\ work = DefaultConfig
    /\ \E f \in Foreign \cup {None} : entries = [r \in Remotes |-> IF r = Default THEN f ELSE None]
    /\ blobs = {entries[Default]} \ {None}
    /\ listing = NoListing
    /\ answer = None
    /\ ops = 0

(* write_config, and the update of the reference *)
Written(r, v) ==
    /\ entries' = [entries EXCEPT ![r] = v]
    /\ blobs' = blobs \cup ({v} \ {None})
    /\ listing' = [listing EXCEPT !.since = @ \cup {<< r, v >>}, !.kept = IF v = None THEN @ \ {r} ELSE @]

Change == ops < MaxOps /\ ops' = ops + 1 /\ UNCHANGED answer

Edit ==
    /\ Change
    /\ \/ \E cobs \in Edits(work.cobs) : work' = [work EXCEPT !.cobs = cobs]
       \/ work' = [work EXCEPT !.data = ~ @]
    /\ UNCHANGED <<entries, blobs, listing>>

Track(r) == Change /\ Written(r, ConfigCjson(work)) /\ UNCHANGED work
Untrack(r) == Change /\ entries[r] # None /\ Written(r, None) /\ UNCHANGED work

(* modify_config *)
Modify(r) ==
    /\ Change
    /\ entries[r] \in blobs /\ ReadConfig(entries[r]) # << >>
    /\ LET c == ReadConfig(entries[r])[1]
       IN \E cobs \in Edits(c.cobs) : Written(r, ConfigCjson([c EXCEPT !.cobs = cobs]))
    /\ UNCHANGED work

(* git gc: blobs no reference points to are removed. *)
Gc ==
    /\ blobs' = blobs \cap {entries[r] : r \in Remotes}
    /\ blobs' # blobs
    /\ UNCHANGED <<work, entries, listing, answer, ops>>

FindConfig(v) == IF v \in blobs THEN << ReadConfig(v) >> ELSE << >>

(* tracked and tracked_peers: the names are those there are now. *)
Tracked(of) ==
    /\ listing = NoListing
    /\ \E rest \in SetToSeqs({r \in Remotes : entries[r] # None}) :
        listing' = [of |-> of, rest |-> rest, at |-> None, seen |-> {}, out |-> << >>,
                    since |-> {<< r, entries[r] >> : r \in Remotes}, kept |-> ToSet(rest)]
    /\ answer' = None
    /\ UNCHANGED <<work, entries, blobs, ops>>

Yield(item) == listing' = [listing EXCEPT !.rest = Tail(@), !.out = Append(@, item)]
EndListing == listing' = NoListing /\ answer' = << listing.of, listing.out, listing.since, listing.kept >>

(* TrackedEntries::next: the entry is looked at, *)
NextEntry ==
    /\ listing.of = "entries" /\ listing.rest # << >> /\ listing.at = None
    /\ listing' = IF entries[listing.rest[1]] = None
                  THEN [listing EXCEPT !.rest = Tail(@)]
                  ELSE [listing EXCEPT !.at = entries[listing.rest[1]]]
    /\ UNCHANGED <<work, entries, blobs, answer, ops>>

(* and resolve: a configuration seen before is not read again, a missing   *)
(* blob is the end of the iteration.                                       *)
Resolve ==
    LET v == listing.at
    IN /\ v # None
       /\ IF v \in listing.seen \/ FindConfig(v) # << >>
          THEN /\ listing' = [listing EXCEPT !.rest = Tail(@), !.at = None,
                                             !.out = Append(@, << listing.rest[1], ReadConfig(v) >>),
                                             !.seen = IF ReadConfig(v) = << >> THEN @ ELSE @ \cup {v}]
               /\ UNCHANGED answer
          ELSE EndListing
    /\ UNCHANGED <<work, entries, blobs, ops>>

(* A slip: the default entry, which is no peer's, is the end. *)
NextPeerEndsAtDefault ==
    /\ listing.of = "peers"
    /\ listing.rest # << >>
    /\ LET r == listing.rest[1]
       IN CASE entries[r] = None -> listing' = [listing EXCEPT !.rest = Tail(@)] /\ UNCHANGED answer
            [] entries[r] # None /\ r = Default -> EndListing
            [] entries[r] # None /\ r # Default -> Yield(r) /\ UNCHANGED answer
    /\ UNCHANGED <<work, entries, blobs, ops>>

(* TrackedPeers::next: the default entry is passed over. *)
NextPeer ==
    /\ listing.of = "peers"
    /\ listing.rest # << >>
    /\ LET r == listing.rest[1]
       IN IF entries[r] = None \/ r = Default
          THEN listing' = [listing EXCEPT !.rest = Tail(@)]
          ELSE Yield(r)
    /\ UNCHANGED <<work, entries, blobs, answer, ops>>

ListingDone ==
    /\ listing.of # "nothing" /\ listing.rest = << >>
    /\ EndListing
    /\ UNCHANGED <<work, entries, blobs, ops>>

(* get, is_tracked, default_only *)
Get(r) == << "get", r, IF entries[r] = None THEN << >> ELSE FindConfig(entries[r]) >>
IsTracked(r) == << "is_tracked", r, entries[r] # None >>
DefaultOnly == << "default_only", Default, entries[Default] # None /\ \A p \in Peers : entries[p] = None >>

Query ==
    /\ listing = NoListing
    /\ \E r \in Remotes : answer' \in {Get(r), IsTracked(r), DefaultOnly}
    /\ UNCHANGED <<work, entries, blobs, listing, ops>>

Next ==
    \/ \E r \in Remotes : Track(r) \/ Untrack(r) \/ Modify(r)
    \/ Edit \/ Gc
    \/ \E of \in {"entries", "peers"} : Tracked(of)
    \/ NextEntry \/ Resolve \/ NextPeer \/ ListingDone \/ Query

Spec == Init /\ [][Next]_configVars

-----------------------------------------------------------------------------
(* What has been written as a configuration is read back as the same, and  *)
(* a query that finds an entry says so whatever is changed meanwhile: a    *)
(* configuration that is stored and was not foreign can be read, and is    *)
(* written the same again (config/cobs/cjson.rs).                          *)
ConfigsReadBack ==
    \A v \in blobs \ Foreign : ReadConfig(v) # << >> /\ ConfigCjson(ReadConfig(v)[1]) = v

Yielded(item, of) == IF of = "peers" THEN item ELSE item[1]

(* A listing is true and, as long as no blob went missing, whole: what it  *)
(* yields was so at some time since it was started, and an entry that was  *)
(* there all the time, a peer's if peers are listed, is yielded            *)
(* (tracking.rs: tracked, tracked_peers).                                  *)
ListingIsTrue ==
    (answer # None /\ answer[1] \in {"entries", "peers"}) =>
        LET of == answer[1] out == answer[2] since == answer[3] kept == answer[4] IN
        /\ \A i \in DOMAIN out :
            \E s \in since : /\ s[1] = Yielded(out[i], of) /\ s[2] # None
                             /\ of = "entries" => ReadConfig(s[2]) = out[i][2]
        /\ of = "peers" => kept \ {Default} \subseteq ToSet(out)

(* "Return all tracked entries": an entry that was there all the time is   *)
(* listed.                                                                 *)
ListsAll ==
    (answer # None /\ answer[1] = "entries") =>
        answer[4] \subseteq {answer[2][i][1] : i \in DOMAIN answer[2]}

(* "If a typename is not specified and if `"*"` is also not specified,     *)
(* then the typename SHALL NOT be replicated" (RFC 0699, which policy_for  *)
(* refers to).                                                             *)
UnspecifiedIsDenied ==
    \A v \in blobs, t \in Types, o \in Objects :
        (ReadConfig(v) # << >> /\ {t, Star} \cap DOMAIN ReadConfig(v)[1].cobs = {}) =>
            PolicyFor(ReadConfig(v)[1], "cobs", t, << o >>) = "deny"
=============================================================================
