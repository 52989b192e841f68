------------------------------ MODULE RefNames ------------------------------
(***************************************************************************)
(* How references are written down and read back: the names of             *)
(* link-replication scoped to a peer, the references of librad and the     *)
(* URNs they turn into, the names of tracking entries, refspecs, and the   *)
(* URLs of the local and the network transport.                            *)
(*                                                                         *)
(* A name is the sequence of its components; where percent encoding        *)
(* matters, a component is a sequence of characters, hexadecimal pairs     *)
(* being one.  One step takes an input through the conversions.            *)
(***************************************************************************)
EXTENDS Naturals, Sequences, SequencesExt, FiniteSetsExt

CONSTANTS
    Peers,          \* peer ids, as they are encoded
    Urns,           \* the ids of URNs, as they are encoded
    Words,          \* other components
    MaxParts        \* bound: components of a name

Components == Peers \cup Urns \cup Words
None == << >>

VARIABLES given, out
nameVars == <<given, out>>

-----------------------------------------------------------------------------
(* link_replication::refs *)

From(s, i) == SubSeq(s, i, Len(s))
SkipWhile(c, s) == From(s, 1 + Max({i \in 0..Len(s) : \A j \in 1..i : s[j] = c}))

(* owned: the name a peer itself has for one of its references. *)
Owned(q) ==
    CASE q[2] = "namespaces" -> None
      [] q[2] = "remotes" -> IF Len(q) < 5 THEN None ELSE << "refs" >> \o From(q, 4)
      [] q[2] \notin {"namespaces", "remotes"} -> q

(* Owned::into_remote_tracking *)
IntoRemoteTracking(p, o) == << "refs", "remotes", p >> \o From(o, 2)

(* remote_tracking, of a name without a namespace *)
RemoteTracking(p, q) ==
    IF q[2] = "remotes"
    THEN IF Len(q) < 5 THEN None ELSE << "refs", "remotes", p >> \o From(q, 4)
    ELSE << "refs", "remotes", p >> \o From(q, 2)

(* A slip: what the peer we talk to has of others is looked for as its own. *)
ScopedAsOwned(wanted, remote, o) == o

(* scoped: where the peer we talk to keeps what we want. *)
Scoped(wanted, remote, o) == IF wanted = remote THEN o ELSE IntoRemoteTracking(wanted, o)

(* Parsed::try_from, and its parse_inner *)
ParseInner(s) ==
    IF s[1] = "rad"
    THEN IF \/ Len(s) = 2 /\ s[2] \in {"id", "self", "signed_refs"}
            \/ Len(s) = 3 /\ s[2] = "ids" /\ s[3] \in Urns
         THEN << "refs" >> \o s ELSE None
    ELSE IF Len(s) < 2 THEN None ELSE Owned(<< "refs" >> \o s)

Failed == [ok |-> FALSE, remote |-> "", inner |-> None]
ParsedOr(remote, inner) ==
    IF inner = None THEN Failed ELSE [ok |-> TRUE, remote |-> remote, inner |-> inner]

Parsed(q) ==
    CASE q[2] = "namespaces" -> Failed
      [] q[2] = "remotes" ->
            IF q[3] \notin Peers \/ Len(q) = 3 THEN Failed ELSE ParsedOr(q[3], ParseInner(From(q, 4)))
      [] q[2] \notin {"namespaces", "remotes"} -> ParsedOr("", ParseInner(From(q, 2)))

(* Parsed::to_remote_tracking *)
ToRemoteTracking(parsed) ==
    IF parsed.remote = "" THEN None ELSE RemoteTracking(parsed.remote, parsed.inner)

-----------------------------------------------------------------------------
(* librad::git::types and link_identities::urn *)

(* ext::Qualified and ext::OneLevel, of a RefLike *)
Qualified(path) == IF Len(path) > 1 /\ path[1] = "refs" THEN path ELSE << "refs", "heads" >> \o path
OneLevel(path) == IF Len(path) > 1 /\ path[1] = "refs" THEN From(path, 3) ELSE path

(* RefLike::strip_prefix: nothing may not be left. *)
StripPrefix(path, base) == IF IsStrictPrefix(base, path) THEN From(path, Len(base) + 1) ELSE None

(* The references the code builds: rad_id, rad_delegate, rad_signed_refs,  *)
(* rad_self, head, tag and rad_collaborative_object, for a namespace and a *)
(* remote, and the globs over many of them.                                *)
Named(ns, remote, category, name) ==
    [namespace |-> ns, remote |-> remote, category |-> category, name |-> name]
RadId(ns) == Named(ns, "", "rad", << "id" >>)
RadDelegate(ns, urn) == Named(ns, "", "rad", << "ids", urn >>)
RadSignedRefs(ns, remote) == Named(ns, remote, "rad", << "signed_refs" >>)
RadSelf(ns, remote) == Named(ns, remote, "rad", << "self" >>)
Branch(ns, remote, name) == Named(ns, remote, "heads", name)
Tag(ns, remote, name) == Named(ns, remote, "tags", name)
Cob(ns, remote, type, oid) == Named(ns, remote, "cobs", << type, oid >>)

RadIdsGlob(ns) == Named(ns, "", "rad", << "ids", "*" >>)
Glob(ns, remote, category) == Named(ns, remote, category, << "*" >>)
CobGlob(ns, remote, type) == Named(ns, remote, "cobs", << type, "*" >>)

(* Reference into RefLike, with the namespace when there is one. *)
RemotePart(r) == IF r.remote = "" THEN << >> ELSE << "remotes", r.remote >>
RefLike(r) ==
    << "refs" >>
    \o (IF r.namespace = "" THEN << >> ELSE << "namespaces", r.namespace, "refs" >>)
    \o RemotePart(r) \o << r.category >> \o OneLevel(r.name)

(* Reference into Urn *)
UrnOf(r) == [id |-> r.namespace, path |-> << "refs" >> \o RemotePart(r) \o << r.category >> \o r.name]

(* Urn into RefLike, which is what follows refs/namespaces *)
RefLikeOf(urn) == << urn.id >> \o (IF urn.path = None THEN << >> ELSE Qualified(urn.path))

(* RefLike into Urn *)
UrnOfRefLike(refl) ==
    LET rest == StripPrefix(refl, << "refs", "namespaces" >>)
    IN IF rest = None THEN [id |-> "", path |-> None] ELSE [id |-> rest[1], path |-> Tail(rest)]

(* Urn into Reference: rad/id when there is no path. *)
NoReference == [namespace |-> "", remote |-> "", category |-> "", name |-> None]

ReferenceOf(urn) ==
    LET q == SkipWhile("refs", Qualified(urn.path))
    IN IF urn.path = None THEN RadId(urn.id)
       ELSE IF q[1] = "remotes"
       THEN IF Len(q) < 3 \/ q[2] \notin Peers THEN NoReference
            ELSE [namespace |-> urn.id, remote |-> q[2], category |-> q[3], name |-> From(q, 4)]
       ELSE [namespace |-> urn.id, remote |-> "", category |-> q[1], name |-> Tail(q)]

(* Urn into and from its string.  Escape is what percent_encode escapes of *)
(* a valid name, and Decode percent_decode_str.                            *)
Escape(c) == IF c = "#" THEN << "%", "23" >> ELSE << c >>
EscapeAll(s) == FlattenSeq([i \in DOMAIN s |-> Escape(s[i])])
Decoded(hex) == CASE hex = "23" -> "#" [] hex = "41" -> "A"
Decode(s) ==
    LET at == {i \in DOMAIN s : s[i] = "%" /\ i < Len(s) /\ s[i + 1] \in {"23", "41"}}
        keep(i) == IF i \in at THEN << Decoded(s[i + 1]) >>
                   ELSE IF i > 1 /\ i - 1 \in at THEN << >> ELSE << s[i] >>
    IN FlattenSeq([i \in DOMAIN s |-> keep(i)])

UrnString(path) == [scheme |-> "rad", proto |-> "git", path |-> EscapeAll(path)]
UrnFromStr(s) == IF s.scheme # "rad" \/ s.proto # "git" THEN None ELSE Decode(s.path)

(* The path of a URN in CBOR is written as it is. *)
UrnCbor(urn) == << urn.id, 0, urn.path >>
UrnFromCbor(c) == IF c[2] = 0 THEN [id |-> c[1], path |-> c[3]] ELSE [id |-> "", path |-> None]

-----------------------------------------------------------------------------
(* link_tracking::git::tracking::reference *)

TrackingBase == << "refs", "rad", "remotes" >>

(* RefName::new drops the path; the default entry is that of no peer. *)
RefName(urn, peer) == [urn |-> urn.id, remote |-> IF peer = "" THEN "default" ELSE peer]
RefNameString(n) == TrackingBase \o << n.urn, n.remote >>

NoRefName == [urn |-> "", remote |-> ""]
RefNameFromStr(s) ==
    IF /\ Len(s) = 5 /\ SubSeq(s, 1, 3) = TrackingBase
       /\ s[4] \in Urns /\ s[5] \in Peers \cup {"default"}
    THEN [urn |-> s[4], remote |-> s[5]] ELSE NoRefName

-----------------------------------------------------------------------------
(* Refspecs, and URLs *)

(* Refspec: all leading + are one, what follows a second : is dropped. *)
Plus(b) == IF b THEN << "+" >> ELSE << >>
RefspecString(s) == Plus(s.force) \o << s.src, ":", s.dst >>

NoRefspec == [force |-> FALSE, src |-> "", dst |-> ""]
RefspecFromStr(s) ==
    LET t == SkipWhile("+", s)
    IN IF Len(t) >= 3 /\ t[2] = ":" /\ {t[1], t[3]} \cap {"+", ":"} = {}
          /\ (Len(t) > 3 => t[4] = ":")
       THEN [force |-> Len(s) > 0 /\ s[1] = "+", src |-> t[1], dst |-> t[3]] ELSE NoRefspec

(* GitUrl: the repository may be followed by .git, hints that are no       *)
(* addresses are dropped.                                                  *)
GitUrlFromStr(u) ==
    IF u.scheme = "rad-p2p" /\ {u.user, u.host} \subseteq Peers /\ u.path \in Urns
    THEN [local |-> u.user, remote |-> u.host, repo |-> u.path,
          hints |-> SelectSeq(u.query, LAMBDA a : a # "junk")]
    ELSE [local |-> "", remote |-> "", repo |-> "", hints |-> << >>]
GitUrlString(g) ==
    [scheme |-> "rad-p2p", user |-> g.local, host |-> g.remote, path |-> g.repo, query |-> g.hints,
     fragment |-> ""]

(* LocalUrl: the index is a number. *)
LocalUrlFromStr(u) ==
    IF u.scheme = "rad" /\ u.host \in Urns /\ u.fragment # "x"
    THEN [urn |-> u.host, index |-> u.fragment] ELSE [urn |-> "", index |-> ""]
LocalUrlString(l) ==
    [scheme |-> "rad", user |-> "", host |-> l.urn, path |-> "", query |-> << >>, fragment |-> l.index]

-----------------------------------------------------------------------------
Paths(S, n) == UNION {[1..k -> S] : k \in 1..n}
Categories == {"heads", "rad", "tags", "notes", "cobs", "other"}
Chars == {"a", "#", "%", "41", "23"}

(* The names a glob stands for. *)
Matches(glob, name) ==
    LET g == RefLike(glob) IN
    /\ Len(name) >= Len(g)
    /\ \A i \in 1..(Len(g) - 1) : name[i] = g[i]

Built(ns, remote) ==
    {RadId(ns), RadSignedRefs(ns, remote), RadSelf(ns, remote), Branch(ns, remote, << "x" >>),
     Tag(ns, remote, << "x", "id" >>), Cob(ns, remote, "x", "id")} \cup {RadDelegate(ns, u) : u \in Urns}

Inputs ==
    [is : {"scoped"}, name : {<< "refs" >> \o s : s \in Paths(Components, MaxParts) \ Paths(Components, 1)},
     wanted : Peers, remote : Peers]
    \cup [is : {"reference"}, ref : [namespace : Urns, remote : Peers \cup {""}, category : Categories,
                                     name : Paths(Components, 2)]]
    \cup UNION {[is : {"reference"}, ref : Built(ns, r)] : ns \in Urns, r \in Peers \cup {""}}
    \cup [is : {"path"}, path : Paths(Chars, 3)]
    \cup [is : {"tracking"}, name : Paths({"refs", "rad", "remotes", "default"} \cup Urns \cup Peers, 5)]
    \cup [is : {"refspec"}, string : Paths({"+", ":", "x", "y"}, 6)]
    \cup [is : {"url"}, url : [scheme : {"rad", "rad-p2p"}, user : Peers \cup {""}, host : Components,
                               path : Urns \cup {""}, query : Paths({"addr", "junk"}, 2) \cup {<< >>},
                               fragment : {"", "1", "x"}]]

Unread == "unread"
Init == given \in Inputs /\ out = Unread

(* What is written of what has been read, and read again. *)
Answer(g) ==
    CASE g.is = "scoped" ->
            LET o == Owned(g.name) IN
            IF o = None THEN << Failed, Failed, None >>
            ELSE << Parsed(o), Parsed(Scoped(g.wanted, g.remote, o)),
                    ToRemoteTracking(Parsed(Scoped(g.wanted, g.remote, o))) >>
      [] g.is = "reference" ->
            << ReferenceOf(UrnOf(g.ref)), UrnOfRefLike(RefLike(g.ref)), UrnOf(g.ref),
               UrnFromCbor(UrnCbor(UrnOf(g.ref))),
               RefNameFromStr(RefNameString(RefName(UrnOf(g.ref), g.ref.remote))),
               UrnOfRefLike(<< "refs", "namespaces" >> \o RefLikeOf(UrnOf(g.ref))) >>
      [] g.is = "path" -> UrnFromStr(UrnString(g.path))
      [] g.is = "tracking" -> << RefNameFromStr(g.name), RefNameString(RefNameFromStr(g.name)) >>
      [] g.is = "refspec" -> << RefspecFromStr(g.string), RefspecFromStr(RefspecString(RefspecFromStr(g.string))) >>
      [] g.is = "url" ->
            << GitUrlFromStr(g.url), GitUrlFromStr(GitUrlString(GitUrlFromStr(g.url))),
               LocalUrlFromStr(g.url), LocalUrlFromStr(LocalUrlString(LocalUrlFromStr(g.url))) >>

Next ==
    /\ out = Unread
    /\ out' = << Answer(given) >>
    /\ UNCHANGED given

Spec == Init /\ [][Next]_nameVars

-----------------------------------------------------------------------------
(* What one side writes is what the other side reads: a name scoped to a   *)
(* peer is parsed as that peer's own name, wherever the remote keeps it;   *)
(* a reference is what its URN says, and what the URN of its name says,    *)
(* as long as its name is not itself qualified; what is read of a tracking *)
(* entry, a refspec or a URL is read again from what is written of it      *)
(* (scoped.rs, parsed.rs, types/reference.rs, urn.rs).                     *)
NamesReadBack ==
    out # Unread =>
        LET a == out[1] IN
        CASE given.is = "scoped" ->
                (a[1].ok /\ a[1].remote = "") =>
                    /\ a[2] = [a[1] EXCEPT !.remote =
                                IF given.wanted = given.remote THEN "" ELSE given.wanted]
                    /\ given.wanted # given.remote =>
                        a[3] = IntoRemoteTracking(given.wanted, a[1].inner)
          [] given.is = "reference" ->
                LET r == given.ref
                    globs == {Glob(r.namespace, r.remote, r.category), CobGlob(r.namespace, r.remote, "x"),
                              RadIdsGlob(r.namespace)}
                IN
                /\ a[1] = r /\ a[4] = a[3]
                /\ a[6] = a[3] /\ a[5] = RefName([id |-> r.namespace], r.remote)
                /\ \A g \in globs : Matches(g, RefLike(r)) => (g.category = r.category /\ g.remote = r.remote)
                /\ given.ref.name[1] # "refs" => a[2] = a[3]
          [] given.is = "path" -> "%" \in ToSet(given.path) \/ a = given.path
          [] given.is = "tracking" -> a[1] = NoRefName \/ a[2] = given.name
          [] given.is = "refspec" -> a[1] = a[2]
          [] given.is = "url" -> (a[1].repo # "" => a[1] = a[2]) /\ (a[3].urn # "" => a[3] = a[4])

(* "All serialisation roundtrips [`Urn`] must pass" (the properties of the *)
(* tests): a URN is read back from its string.                             *)
UrnsReadBack == (out # Unread /\ given.is = "path") => out[1] = given.path
=============================================================================
