----------------------------- MODULE Documents ------------------------------
(***************************************************************************)
(* The documents of identities: what they say, and the canonical form they *)
(* are written in.                                                         *)
(***************************************************************************)
EXTENDS Sequences, SequencesExt, FiniteSets, Integers

-----------------------------------------------------------------------------
(***************************************************************************)
(* Identity documents (link-identities, payload, generic::Doc, git::load   *)
(* and the creation of identities in git): a payload with one subject and  *)
(* extensions, each under a namespace, and the delegations. A document is  *)
(* written in canonical form and read back as a person, as a project, and  *)
(* as an identity of a kind not known beforehand.                          *)
(*                                                                         *)
(* A JSON object is the sequence of its entries, so that order, duplicates *)
(* and unknown versions are there to be read. Values are told apart by     *)
(* what the two subject types make of them.                                *)
(***************************************************************************)
CONSTANTS
    Keys,           \* public keys
    Persons,        \* [URNs -> the keys of the person inlined under it]
    MaxEntries,     \* bound: members of a foreign payload
    MaxExts         \* bound: extensions set or removed

(* Namespaces, in canonical order; "personx" only begins like a person's. *)
Namespaces == <<"ext", "person/v1", "person/v2", "personx", "project/v1", "project/v2">>

(* "named": just a name, all a person has; "full": a name and the fields a *)
(* project has besides; "extra": and one more; "other": no name; "null".   *)
Values == {"named", "full", "extra", "other", "null"}

NoDoc == [none |-> TRUE]

VARIABLES
    draft,          \* the payload being put together: kind, subject, extensions
    stored,         \* the commit's tree: document, inlined persons, or NoDoc
    loaded,         \* [as person, as project, as some identity]
    ops

docVars == <<draft, stored, loaded, ops>>

-----------------------------------------------------------------------------
(* Payloads *)

HasNamespace(kind) == IF kind = "person" THEN "person/v1" ELSE "project/v1"

(* namespace_matches: a prefix, for the sake of versions to come. *)
NamespaceMatches(kind, ns) ==
    ns \in IF kind = "person" THEN {"person/v1", "person/v2", "personx"}
           ELSE {"project/v1", "project/v2"}

(* What deserialising a subject makes of a value: unknown members are      *)
(* dropped, missing optional ones are null.                                *)
ReadSubject(kind, val) ==
    IF kind = "person" THEN "named" ELSE "full"

Sorted(ext) == SelectSeq(Namespaces, LAMBDA ns : ns \in DOMAIN ext)

(* Serialize for Payload, in canonical form: null extensions are left out. *)
WritePayload(p) ==
    LET live == {ns \in DOMAIN p.ext : p.ext[ns] # "null"}
        all == [ns \in live \cup {HasNamespace(p.kind)} |->
                    IF ns \in live THEN p.ext[ns] ELSE p.subject]
        order == Sorted(all)
    IN [i \in DOMAIN order |-> <<order[i], all[order[i]]>>]

(* Deserialize for Payload: visit_map. A null subject counts as none seen. *)
ReadPayload(kind, entries) ==
    LET subjects == SelectSeq(entries, LAMBDA e : NamespaceMatches(kind, e[1]))
        exts == SelectSeq(entries, LAMBDA e : ~NamespaceMatches(kind, e[1]))
        names == {exts[i][1] : i \in DOMAIN exts}
        valueOf(ns) == exts[CHOOSE i \in DOMAIN exts : exts[i][1] = ns][2]
    IN IF \/ \E i \in DOMAIN subjects : subjects[i][2] = "other"
          \/ \E i \in 1..(Len(subjects) - 1) : subjects[i][2] # "null"
          \/ Cardinality(names) # Len(exts)
          \/ subjects = << >> \/ Last(subjects)[2] = "null"
       THEN NoDoc
       ELSE [kind |-> kind, subject |-> ReadSubject(kind, Last(subjects)[2]),
             ext |-> [ns \in names |-> valueOf(ns)]]

(* SomePayload, untagged: the first kind that can be read. *)
ReadSomePayload(entries) ==
    IF ReadPayload("person", entries) # NoDoc THEN ReadPayload("person", entries)
    ELSE ReadPayload("project", entries)

-----------------------------------------------------------------------------
(* Delegations: a key or, for a project, the URN of a person. *)

Urns == DOMAIN Persons

IsDuplicateFree(s) == Cardinality(ToSet(s)) = Len(s)

ReadPersonDelegations(s) ==
    IF s # << >> /\ IsDuplicateFree(s) /\ ToSet(s) \subseteq Keys THEN ToSet(s) ELSE {}

ReadProjectDelegations(s) ==
    IF s # << >> /\ IsDuplicateFree(s) THEN ToSet(s) ELSE {}

(* SomeDelegations, untagged. *)
ReadSomeDelegations(s) ==
    IF ReadPersonDelegations(s) # {} THEN <<"person", ReadPersonDelegations(s)>>
    ELSE <<"project", ReadProjectDelegations(s)>>

(* In canonical form a set is the sequence of its elements in order. *)
Order == SetToSeq(Keys) \o SetToSeq(Urns)

WriteDelegations(set) == SelectSeq(Order, LAMBDA d : d \in set)

-----------------------------------------------------------------------------
(* Documents *)

(* Serialize for Doc, the version always written as 0. *)
WriteDoc(doc) ==
    [version |-> 0, payload |-> WritePayload(doc.payload), delegations |-> WriteDelegations(doc.delegations)]

Doc(payload, delegations) ==
    IF payload = NoDoc \/ delegations = {} THEN NoDoc
    ELSE [payload |-> payload, delegations |-> delegations]

ReadPersonDoc(json) ==
    Doc(ReadPayload("person", json.payload), ReadPersonDelegations(json.delegations))

ReadProjectDoc(json) ==
    Doc(ReadPayload("project", json.payload), ReadProjectDelegations(json.delegations))

(* A slip: the kinds of payload and delegations must be the same. *)
ReadSomeDocSameKinds(json) ==
    LET payload == ReadSomePayload(json.payload)
        delegations == ReadSomeDelegations(json.delegations)
    IN IF payload # NoDoc /\ payload.kind # delegations[1] THEN NoDoc
       ELSE Doc(payload, delegations[2])

(* SomeDoc: a project may delegate to keys only, a person not to persons. *)
ReadSomeDoc(json) ==
    LET payload == ReadSomePayload(json.payload)
        delegations == ReadSomeDelegations(json.delegations)
    IN IF payload # NoDoc /\ payload.kind = "person" /\ delegations[1] = "project" THEN NoDoc
       ELSE Doc(payload, delegations[2])

(* A slip: the document is taken as it was read. *)
LoadAnyUnchecked(doc, tree) ==
    IF ~tree.root THEN NoDoc ELSE doc

(* Any::try_from, of what was read: the root document must be there, and   *)
(* the document in canonical form.                                         *)
LoadAny(doc, tree) ==
    IF ~tree.root \/ doc = NoDoc THEN NoDoc
    ELSE IF WriteDoc(doc) # tree.json THEN NoDoc ELSE doc

(* resolve_inlined_person, for every delegation by URN, and                *)
(* Indirect::try_from_iter: no key may occur twice.                        *)
Resolve(doc, tree) ==
    LET urns == doc.delegations \cap Urns
        owners(k) == {u \in urns : k \in Persons[u]}
    IN IF \/ ~ urns \subseteq tree.inlined
          \/ \E k \in Keys : Cardinality(owners(k)) + (IF k \in doc.delegations THEN 1 ELSE 0) > 1
       THEN NoDoc ELSE doc

LoadPerson(tree) == LoadAny(ReadPersonDoc(tree.json), tree)

LoadProject(tree) ==
    LET doc == LoadAny(ReadProjectDoc(tree.json), tree) IN IF doc = NoDoc THEN NoDoc ELSE Resolve(doc, tree)

LoadSome(tree) ==
    LET doc == LoadAny(ReadSomeDoc(tree.json), tree)
    IN IF doc = NoDoc \/ doc.payload.kind = "person" THEN doc ELSE Resolve(doc, tree)

-----------------------------------------------------------------------------
Objects(n) == BoundedSeq(ToSet(Namespaces) \X Values, n)

DocInit ==
    /\ draft \in {[kind |-> "person", subject |-> "named", ext |-> << >>],
                  [kind |-> "project", subject |-> "full", ext |-> << >>]}
    /\ stored = NoDoc /\ loaded = NoDoc
    /\ ops = 0

(* Deserialize for Ext: an object with a single member. *)
IsExt(json) == Len(json) = 1

(* Payload::set_ext: not in the subject's own namespace. *)
SetExt(json) ==
    /\ stored = NoDoc /\ ops < MaxExts
    /\ IsExt(json) /\ ~NamespaceMatches(draft.kind, json[1][1])
    /\ draft' = [draft EXCEPT !.ext =
            [n \in DOMAIN @ \cup {json[1][1]} |-> IF n = json[1][1] THEN json[1][2] ELSE @[n]]]
    /\ ops' = ops + 1
    /\ UNCHANGED <<stored, loaded>>

(* Payload::remove_ext *)
RemoveExt(ns) ==
    /\ stored = NoDoc /\ ops < MaxExts
    /\ ns \in DOMAIN draft.ext
    /\ draft' = [draft EXCEPT !.ext = [n \in DOMAIN @ \ {ns} |-> @[n]]]
    /\ ops' = ops + 1
    /\ UNCHANGED <<stored, loaded>>

(* The delegations an Indirect or a Direct can hold. *)
Delegable(kind) ==
    {d \in SUBSET (Keys \cup Urns) \ {{}} :
        IF kind = "person" THEN d \subseteq Keys
        ELSE Resolve([delegations |-> d], [inlined |-> Urns]) # NoDoc}

(* create: the document is its own root, the persons are inlined. *)
Create ==
    /\ stored = NoDoc
    /\ \E d \in Delegable(draft.kind) :
        stored' = [json |-> WriteDoc([payload |-> draft, delegations |-> d]), root |-> TRUE,
                   inlined |-> d \cap Urns, ours |-> TRUE, of |-> d]
    /\ UNCHANGED <<draft, loaded, ops>>

(* A document some other program wrote.  One with MaxEntries members has   *)
(* the version and the objects beside it that are expected.                *)
Receive ==
    /\ stored = NoDoc /\ ops = 0
    /\ \E v \in {0, 1}, root \in BOOLEAN, inlined \in {{}, Urns},
          p \in Objects(MaxEntries), d \in BoundedSeq(Keys \cup Urns, 2) :
        /\ Len(p) < MaxEntries \/ (v = 0 /\ root /\ inlined = Urns)
        /\ stored' = [json |-> [version |-> v, payload |-> p, delegations |-> d], root |-> root,
                      inlined |-> inlined, ours |-> FALSE, of |-> {}]
    /\ draft' = [draft EXCEPT !.kind = "person", !.subject = "named"]
    /\ UNCHANGED <<loaded, ops>>

Load ==
    /\ stored # NoDoc /\ loaded = NoDoc
    /\ loaded' = [person |-> LoadPerson(stored), project |-> LoadProject(stored), some |-> LoadSome(stored)]
    /\ UNCHANGED <<draft, stored, ops>>

DocNext ==
    \/ \E json \in Objects(1) : SetExt(json)
    \/ \E ns \in ToSet(Namespaces) : RemoveExt(ns)
    \/ Create \/ Receive \/ Load

DocSpec == DocInit /\ [][DocNext]_docVars

-----------------------------------------------------------------------------
Live(ext) == [ns \in {n \in DOMAIN ext : ext[n] # "null"} |-> ext[ns]]

Other(kind) == IF kind = "person" THEN "project" ELSE "person"

(* An identity that was created can be read, with the payload and the      *)
(* delegations it was given, null extensions aside (payload.rs, load.rs);  *)
(* and where the kind is not known beforehand it is read as what it is,    *)
(* unless an extension is in the namespace of the other kind.              *)
CreatedReadsBack ==
    (loaded # NoDoc /\ stored # NoDoc /\ stored.ours) =>
        LET given == [payload |-> [draft EXCEPT !.ext = Live(@)], delegations |-> stored.of]
        IN /\ loaded[draft.kind] = given
           /\ (\A ns \in DOMAIN given.payload.ext : ~NamespaceMatches(Other(draft.kind), ns)) => loaded.some = given

(* What is read, of any document, says all the document says: two          *)
(* different documents are never read as the same identity, and the kind   *)
(* found is one the typed reading agrees with (load.rs, DigestMismatch).   *)
ReadingsAgree ==
    (loaded # NoDoc /\ stored # NoDoc) =>
        /\ loaded.some # NoDoc => loaded[loaded.some.payload.kind] = loaded.some
        /\ \A k \in {"person", "project"} :
            loaded[k] # NoDoc => /\ WriteDoc(loaded[k]) = stored.json
                                 /\ k = "person" => loaded.some = loaded[k]

-----------------------------------------------------------------------------
(***************************************************************************)
(* The two ways to Canonical JSON, which identities and tracking           *)
(* configurations are hashed and signed in (link-canonical/src):           *)
(*   - `CanonicalFormatter` (formatter.rs), driven by serde_json;          *)
(*   - `Value` (json.rs), with its own serialiser (json/ser.rs) and parser *)
(*     (json/parser.rs, json/parser/string.rs).                            *)
(*                                                                         *)
(* Text is a sequence of characters. "'" stands for the quotation mark, NL *)
(* for a newline, and the two characters "e" and "^" have "ê" for their    *)
(* normal form. Integers have three bits.                                  *)
(***************************************************************************)
CONSTANTS MemberKeys, Strings     \* sets of strings

Quote == "'"
NL    == "newline"

MinI64 == -4
MaxI64 == 3
MaxU64 == 7

\* Characters in the order of their code points.
CodePoint == [c \in {NL, "!", Quote, "\\", "a", "b", "e", "n", "^", "ê"} |->
                CASE c = NL -> 1 [] c = "!" -> 2 [] c = Quote -> 3 [] c = "\\" -> 4 [] c = "a" -> 5
                  [] c = "b" -> 6 [] c = "e" -> 7 [] c = "n" -> 8 [] c = "^" -> 9 [] c = "ê" -> 10]

\* The lexicographic order.
Before(x, y) ==
    \E i \in 1 .. Len(y) :
        /\ i <= Len(x) + 1
        /\ \A j \in 1 .. i - 1 : x[j] = y[j]
        /\ i <= Len(x) => CodePoint[x[i]] < CodePoint[y[i]]

\* nfc, for strings of at most two characters.
Nfc(s) == IF s = <<"e", "^">> THEN <<"ê">> ELSE s

Num(n) == [k |-> IF n < 0 THEN "i64" ELSE "u64", n |-> n]
Str(s) == [k |-> "str", s |-> s]
Arr(a) == [k |-> "arr", a |-> a]
Obj(o) == [k |-> "obj", o |-> o]
Null   == [k |-> "null"]

Leaves  == {Num(n) : n \in {MinI64, 0, MaxU64}} \cup {Str(s) : s \in Strings} \cup {Null}
Members == {<<k, v>> : k \in MemberKeys, v \in Leaves}
Inner   == Leaves \cup {Arr(a) : a \in SeqOf(Leaves, 1)} \cup {Obj(o) : o \in SeqOf({<<"b">>} \X Leaves, 1)}

\* What is serialised: a struct or a map with any two of the keys.
Documents == Leaves \cup {Arr(<<v, w>>) : v, w \in Leaves}
                    \cup {Obj(<<m, <<k, v>>>>) : m \in Members, k \in MemberKeys, v \in Inner}

VARIABLES
    doc,    \* the document
    calls,  \* the calls serde_json has still to make for it
    stack,  \* object_stack
    out     \* what was written so far

jsonVars == <<doc, calls, stack, out>>

-----------------------------------------------------------------------------
(***************************************************************************)
(* The formatter.                                                          *)
(***************************************************************************)

Digits(n) == IF n < 0 THEN <<"-", ToString(-n)>> ELSE <<ToString(n)>>

\* Mutant: nothing is escaped.
EscapeNothing(c) == <<c>>

Escape(c) == CASE c = Quote -> <<"\\", Quote>> [] c = NL -> <<"\\", "n">> [] OTHER -> <<c>>

Put(text) == [call |-> "write", text |-> text]
Call(c)   == [call |-> c, text |-> <<>>]

\* A string is passed on in fragments, each normalised, between the characters
\* that are escaped.
StringText(s) == <<Quote>> \o FlattenSeq([i \in DOMAIN Nfc(s) |-> Escape(Nfc(s)[i])]) \o <<Quote>>

RECURSIVE Calls(_)
Calls(v) ==
    CASE v.k \in {"u64", "i64"} -> <<Put(Digits(v.n))>>
      [] v.k = "null" -> <<Put(<<"null">>)>>
      [] v.k = "str"  -> <<Put(StringText(v.s))>>
      [] v.k = "arr"  -> <<Put(<<"[">>)>>
             \o FlattenSeq([i \in DOMAIN v.a |-> (IF i = 1 THEN <<>> ELSE <<Put(<<",">>)>>) \o Calls(v.a[i])])
             \o <<Put(<<"]">>)>>
      [] v.k = "obj"  -> <<Call("begin_object")>>
             \o FlattenSeq([i \in DOMAIN v.o |->
                    <<Call("begin_object_key"), Put(StringText(v.o[i][1])), Call("end_object_key")>>
                    \o Calls(v.o[i][2]) \o <<Call("end_object_value")>>])
             \o <<Call("end_object")>>

JsonInit ==
    /\ doc \in Documents
    /\ calls = Calls(doc)
    /\ stack = <<>>
    /\ out = <<>>

Is(c) == calls # <<>> /\ Head(calls).call = c

Top == stack[Len(stack)]

\* Write to the key or the value in progress, or to the output.
Writer(st, o, text) ==
    IF st = <<>> THEN [stack |-> st, out |-> o \o text]
    ELSE LET top == st[Len(st)]
             new == IF top.key_done THEN [top EXCEPT !.next_value = @ \o text]
                                    ELSE [top EXCEPT !.next_key = @ \o text]
         IN  [stack |-> [st EXCEPT ![Len(st)] = new], out |-> o]

Emit(st, text) ==
    /\ stack' = Writer(st, out, text).stack
    /\ out' = Writer(st, out, text).out
    /\ calls' = Tail(calls)
    /\ UNCHANGED doc

Write == Is("write") /\ Emit(stack, Head(calls).text)

BeginObject ==
    LET w == Writer(stack, out, <<"{">>)
    IN  /\ Is("begin_object")
        /\ stack' = Append(w.stack, [obj |-> {}, next_key |-> <<>>, next_value |-> <<>>, key_done |-> FALSE])
        /\ out' = w.out
        /\ calls' = Tail(calls)
        /\ UNCHANGED doc

\* Joins the members in the order of their keys.
Joined(obj) ==
    LET keys  == SetToSortSeq({m[1] : m \in obj}, Before)
        value(k) == (CHOOSE m \in obj : m[1] = k)[2]
    IN  FlattenSeq([i \in DOMAIN keys |->
            (IF i = 1 THEN <<>> ELSE <<",">>) \o keys[i] \o <<":">> \o value(keys[i])])

\* Mutant: the first value of a key is kept.
EndValueKeepsFirst ==
    /\ Is("end_object_value")
    /\ stack' = [stack EXCEPT ![Len(stack)] =
                    [@ EXCEPT !.obj = {m \in @ : m[1] # Top.next_key} \cup
                        (IF \E m \in Top.obj : m[1] = Top.next_key
                         THEN {m \in Top.obj : m[1] = Top.next_key} ELSE {<<Top.next_key, Top.next_value>>}),
                              !.next_key = <<>>, !.next_value = <<>>]]
    /\ calls' = Tail(calls)
    /\ UNCHANGED <<doc, out>>

\* A key that is there already is overwritten.
EndObjectValue ==
    /\ Is("end_object_value")
    /\ stack' = [stack EXCEPT ![Len(stack)] =
                    [@ EXCEPT !.obj = {m \in @ : m[1] # Top.next_key} \cup {<<Top.next_key, Top.next_value>>},
                              !.next_key = <<>>, !.next_value = <<>>]]
    /\ calls' = Tail(calls)
    /\ UNCHANGED <<doc, out>>

EndObject == Is("end_object") /\ Emit(Front(stack), Joined(Top.obj) \o <<"}">>)

BeginObjectKey ==
    /\ Is("begin_object_key")
    /\ stack' = [stack EXCEPT ![Len(stack)].key_done = FALSE]
    /\ calls' = Tail(calls)
    /\ UNCHANGED <<doc, out>>

EndObjectKey ==
    /\ Is("end_object_key")
    /\ stack' = [stack EXCEPT ![Len(stack)].key_done = TRUE]
    /\ calls' = Tail(calls)
    /\ UNCHANGED <<doc, out>>

JsonNext == Write \/ BeginObject \/ BeginObjectKey \/ EndObjectKey \/ EndObjectValue \/ EndObject

JsonSpec == JsonInit /\ [][JsonNext]_jsonVars

-----------------------------------------------------------------------------
(***************************************************************************)
(* Value: conversion from the same document, and serialisation. Objects    *)
(* are maps from normalised keys; strings are not escaped.                 *)
(***************************************************************************)

RECURSIVE IntoCjson(_)
IntoCjson(v) ==
    CASE v.k = "str" -> Str(Nfc(v.s))
      [] v.k = "arr" -> Arr([i \in DOMAIN v.a |-> IntoCjson(v.a[i])])
      [] v.k = "obj" ->
             LET keys == SetToSortSeq({Nfc(v.o[i][1]) : i \in DOMAIN v.o}, Before)
                 last(k) == Max({i \in DOMAIN v.o : Nfc(v.o[i][1]) = k})
             IN  Obj([i \in DOMAIN keys |-> <<keys[i], IntoCjson(v.o[last(keys[i])][2])>>])
      [] OTHER -> v

Intercalate(texts) == FlattenSeq([i \in DOMAIN texts |-> (IF i = 1 THEN <<>> ELSE <<",">>) \o texts[i]])

RECURSIVE ToBytes(_)
ToBytes(v) ==
    CASE v.k \in {"u64", "i64"} -> Digits(v.n)
      [] v.k = "null" -> <<"null">>
      [] v.k = "str" -> <<Quote>> \o v.s \o <<Quote>>
      [] v.k = "arr" -> <<"[">> \o Intercalate([i \in DOMAIN v.a |-> ToBytes(v.a[i])]) \o <<"]">>
      [] v.k = "obj" -> <<"{">> \o Intercalate([i \in DOMAIN v.o |->
                            <<Quote>> \o v.o[i][1] \o <<Quote, ":">> \o ToBytes(v.o[i][2])]) \o <<"}">>

-----------------------------------------------------------------------------
(***************************************************************************)
(* The parser. It returns what is left of the text.                        *)
(***************************************************************************)

Ok(v, rest) == [ok |-> TRUE, v |-> v, rest |-> rest]
Err         == [ok |-> FALSE, v |-> Null, rest |-> <<>>]

\* string::parse: the escape codes of the text are kept as they are.
RECURSIVE ParseString(_, _)
ParseString(text, acc) ==
    CASE text = <<>>                                   -> Err
      [] Head(text) = Quote                            -> Ok(Str(Nfc(acc)), Tail(text))
      [] Head(text) = "\\" /\ Len(text) >= 2 /\ text[2] \in {Quote, "n", "\\"} ->
             ParseString(SubSeq(text, 3, Len(text)), acc \o SubSeq(text, 1, 2))
      [] Head(text) \in DOMAIN CodePoint \ {NL, "\\"}  -> ParseString(Tail(text), Append(acc, Head(text)))
      [] OTHER                                         -> Err

IsDigits(t) == t \in {ToString(n) : n \in 0 .. MaxU64 + 1}
NumberOf(t) == CHOOSE n \in 0 .. MaxU64 + 1 : ToString(n) = t

\* Digits other than "0" are only known to be complete by what follows them.
Unsigned(text) ==
    IF Head(text) # "0" /\ Len(text) = 1 THEN Err
    ELSE IF NumberOf(Head(text)) <= MaxU64
         THEN Ok([k |-> "u64", n |-> NumberOf(Head(text))], Tail(text)) ELSE Err

\* The digits have to be a positive i64 before they are negated.
Signed(text) ==
    IF Len(text) < 2 \/ ~IsDigits(text[2]) \/ (text[2] # "0" /\ Len(text) = 2) THEN Err
    ELSE IF NumberOf(text[2]) <= MaxI64
         THEN Ok([k |-> "i64", n |-> -NumberOf(text[2])], SubSeq(text, 3, Len(text))) ELSE Err

RECURSIVE ParseItems(_, _), ParseMembers(_, _), Parse(_)
ParseItems(text, acc) ==
    LET item == Parse(text)
    IN  IF ~item.ok THEN Err
        ELSE IF item.rest = <<>> THEN Err
        ELSE IF Head(item.rest) = "," THEN ParseItems(Tail(item.rest), Append(acc, item.v))
        ELSE IF Head(item.rest) = "]" THEN Ok(Arr(Append(acc, item.v)), Tail(item.rest)) ELSE Err
ParseMembers(text, acc) ==
    LET key == ParseString(Tail(text), <<>>)
        val == Parse(Tail(key.rest))
        all == Append(acc, <<key.v.s, val.v>>)
    IN  IF text = <<>> \/ Head(text) # Quote \/ ~key.ok \/ key.rest = <<>> \/ Head(key.rest) # ":" THEN Err
        ELSE IF ~val.ok \/ val.rest = <<>> THEN Err
        ELSE IF Head(val.rest) = "," THEN ParseMembers(Tail(val.rest), all)
        ELSE IF Head(val.rest) = "}" THEN Ok(IntoCjson(Obj(all)), Tail(val.rest)) ELSE Err
Parse(text) ==
    CASE text = <<>>           -> Err
      [] Head(text) = Quote    -> ParseString(Tail(text), <<>>)
      [] Head(text) = "null"   -> Ok(Null, Tail(text))
      [] Head(text) = "-"      -> Signed(text)
      [] IsDigits(Head(text))  -> Unsigned(text)
      [] Head(text) = "["      -> IF Len(text) > 1 /\ text[2] = "]" THEN Ok(Arr(<<>>), SubSeq(text, 3, Len(text)))
                                  ELSE ParseItems(Tail(text), <<>>)
      [] Head(text) = "{"      -> IF Len(text) > 1 /\ text[2] = "}" THEN Ok(Obj(<<>>), SubSeq(text, 3, Len(text)))
                                  ELSE ParseMembers(Tail(text), <<>>)
      [] OTHER                 -> Err

FromStr(text) == LET p == Parse(text) IN IF p.ok /\ p.rest = <<>> THEN p ELSE Err

-----------------------------------------------------------------------------

RECURSIVE Within(_)
Within(v) == {v} \cup
    CASE v.k = "arr" -> UNION {Within(v.a[i]) : i \in DOMAIN v.a}
      [] v.k = "obj" -> UNION {Within(v.o[i][2]) \cup {Str(v.o[i][1])} : i \in DOMAIN v.o}
      [] OTHER -> {}

\* Strings without anything to escape.
Plain(v) == \A w \in Within(v) : w.k = "str" => ~\E i \in DOMAIN w.s : w.s[i] \in {Quote, NL}

\* The formatter compares keys with their quotes, so that a key comes after
\* another one that goes on with a character below the quotation mark.
QuoteMatters(v) ==
    v.k = "obj" /\ \E i, j \in DOMAIN v.o :
        /\ IsStrictPrefix(v.o[i][1], v.o[j][1])
        /\ CodePoint[v.o[j][1][Len(v.o[i][1]) + 1]] < CodePoint[Quote]

\* Both ways lead to the same bytes, whatever the order of the members, and
\* for keys that only normalisation makes the same. They differ on strings
\* that need escaping, and on keys compared with their quotes.
FormsAgree ==
    calls = <<>> /\ Plain(doc) /\ ~QuoteMatters(doc) => out = ToBytes(IntoCjson(doc))

\* What the formatter has written can be read by the parser, and serialises
\* to the same bytes again. Neither can be said of the smallest i64, of a
\* number without anything around it, and of keys compared with their quotes.
ReadsBack ==
    calls = <<>> /\ ~QuoteMatters(doc) /\ Num(MinI64) \notin Within(doc) /\ doc # Num(MaxU64) =>
        FromStr(out).ok /\ ToBytes(FromStr(out).v) = out
=============================================================================
