------------------------------ MODULE Formats -------------------------------
(***************************************************************************)
(* Things that are written as text or bytes and read back: names of        *)
(* references, trailers of commit messages, seeds files, and the encodings of *)
(* small values.  Each has variables of its own.                           *)
(***************************************************************************)
EXTENDS Naturals, Sequences, SequencesExt, FiniteSets

-----------------------------------------------------------------------------
(***************************************************************************)
(* Names of git references: what `check_ref_format` accepts                *)
(* (git-ref-format/core/src/check.rs), and the types of the names built    *)
(* from what it has accepted (name.rs, deriv.rs, refspec.rs and git-ext    *)
(* reference/name.rs). Only the parsers check; every other operation is    *)
(* trusted to lead from well-formed values to a well-formed value.         *)
(*                                                                         *)
(* A string is the sequence of its '/'-separated components, as `split`    *)
(* would return it: "" is <<<<>>>>, "a/" is <<<<"a">>, <<>>>>. A component *)
(* is a sequence of characters, of which "lock", "refs", "namespaces" and  *)
(* "heads" stand for the words, and "~" for all that is never allowed.     *)
(***************************************************************************)
CONSTANTS
    MaxLen,     \* bound on the characters of a component that is parsed
    MaxParsed,  \* bound on the components of a string that is parsed
    MaxParts    \* bound on the components of a name that is built

Chars == {"a", ".", "lock", "*", "@", "{", "~"}

REFS       == <<"refs">>
NAMESPACES == <<"namespaces">>
HEADS      == <<"heads">>
Words      == {REFS, NAMESPACES, <<"a">>, <<"@">>}

Parsed == SeqOf({REFS} \cup SeqOf(Chars, MaxLen), MaxParsed) \ {<<>>}

VARIABLES
    typ,    \* the type of the value at hand
    name    \* its string

refVars == <<typ, name>>

-----------------------------------------------------------------------------
(***************************************************************************)
(* check_ref_format. The characters of a component are looked at together  *)
(* with the next one, where the last one is followed by the first.         *)
(***************************************************************************)

Next1(x, i) == IF i = Len(x) THEN x[1] ELSE x[i + 1]

EndsWithLock(x) == Len(x) >= 2 /\ x[Len(x)] = "lock" /\ x[Len(x) - 1] = "."

BadPair(x, i) ==
    \/ x[i] = "." /\ Next1(x, i) = "."
    \/ x[i] = "@" /\ Next1(x, i) = "{"
    \/ x[i] = "~"
    \/ x[i] = "." /\ i \in {1, Len(x)}

Globs(s) == Cardinality({<<i, j>> \in (1 .. Len(s)) \X (1 .. 2 * MaxLen) :
                            j <= Len(s[i]) /\ s[i][j] = "*"})

\* Mutant: dots are only looked for at the start of a component.
FormatIgnoresEnd(pattern, s) ==
    /\ s \notin {<<<<>>>>, <<<<"@">>>>, <<<<".">>>>}
    /\ \A k \in DOMAIN s :
          /\ s[k] # <<>> /\ ~EndsWithLock(s[k])
          /\ \A i \in DOMAIN s[k] : BadPair(s[k], i) => i = Len(s[k]) /\ i > 1
    /\ Globs(s) <= IF pattern THEN 1 ELSE 0

\* One level is always allowed, by all the callers.
Format(pattern, s) ==
    /\ s \notin {<<<<>>>>, <<<<"@">>>>, <<<<".">>>>}
    /\ \A k \in DOMAIN s :
          /\ s[k] # <<>>
          /\ ~EndsWithLock(s[k])
          /\ \A i \in DOMAIN s[k] : ~BadPair(s[k], i)
    /\ Globs(s) <= IF pattern THEN 1 ELSE 0

-----------------------------------------------------------------------------
(***************************************************************************)
(* Parsing. Serialising a name gives its string, which is parsed again     *)
(* when it is deserialised.                                                *)
(***************************************************************************)

FormatInit ==
    /\ typ = "str"
    /\ name \in Parsed

Become(t, s) ==
    /\ typ' = t
    /\ name' = s

RefStr == typ = "str" /\ Format(FALSE, name) /\ Become("ref", name)

PatternStr == typ = "str" /\ Format(TRUE, name) /\ Become("pattern", name)

Serialize == typ \notin {"str", "none"} /\ Become("str", name)

-----------------------------------------------------------------------------
(***************************************************************************)
(* RefStr, RefString and Component.                                        *)
(***************************************************************************)

Butlast(s) == SubSeq(s, 1, Len(s) - 1)

\* Words are pushed onto words only, and only while there are fewer than MaxParts.
Room == Len(name) < MaxParts /\ ToSet(name) \subseteq Words \cup {<<"*">>}

Push(c) == typ \in {"ref", "component"} /\ Room /\ Become("ref", Append(name, c))

Pop == typ = "ref" /\ Len(name) > 1 /\ Become("ref", Butlast(name))

\* The base is a number of leading components.
StripPrefix == typ = "ref" /\ Len(name) > 1 /\ \E n \in 1 .. Len(name) - 1 :
    Become("ref", SubSeq(name, n + 1, Len(name)))

EachComponent == typ = "ref" /\ \E i \in DOMAIN name : Become("component", <<name[i]>>)

\* The pattern is "*", or "*/a".
WithPattern ==
    /\ typ = "ref" /\ Room
    /\ \E p \in {<<<<"*">>>>, <<<<"*">>, <<"a">>>>} : Become("pattern", name \o p)

-----------------------------------------------------------------------------
(***************************************************************************)
(* PatternString.                                                          *)
(***************************************************************************)

PatternPush(c) == typ = "pattern" /\ Room /\ Become("pattern", Append(name, c))

PatternPop == typ = "pattern" /\ Len(name) > 1 /\ Become("pattern", Butlast(name))

\* from_components, with the components of two patterns: there is a result
\* unless both have a glob.
FromComponents ==
    /\ typ = "pattern" /\ Len(name) < MaxParts
    /\ ~\E i \in DOMAIN name : \E j \in DOMAIN name[i] : name[i][j] = "*"
    /\ Become("pattern", name \o <<<<"a", "*">>>>)

-----------------------------------------------------------------------------
(***************************************************************************)
(* Qualified and Namespaced.                                               *)
(***************************************************************************)

IsQualified(s) == Len(s) >= 3 /\ s[1] = REFS

IsNamespaced(s) == Len(s) >= 4 /\ s[1] = REFS /\ s[2] = NAMESPACES /\ s[4] = REFS

Qualified == typ = "ref" /\ IsQualified(name) /\ Become("qualified", name)

Join(c) == typ = "qualified" /\ Room /\ Become("qualified", Append(name, c))

Namespaced == typ \in {"ref", "qualified"} /\ IsNamespaced(name) /\ Become("namespaced", name)

AddNamespace ==
    /\ typ = "qualified" /\ Room
    /\ Become("namespaced", <<REFS, NAMESPACES, <<"a">>>> \o name)

StripNamespace ==
    typ = "namespaced" /\ Become("qualified", SubSeq(name, 4, Len(name)))

\* non_empty_components, and Deref. The former panics without three of them.
NonEmptyComponents ==
    /\ typ = "qualified"
    /\ IF Len(name) >= 3 THEN Become("ref", name) ELSE Become("panic", name)

-----------------------------------------------------------------------------
(***************************************************************************)
(* The older types of git-ext. A RefLike parses like a RefStr.             *)
(***************************************************************************)

JoinStr(s) == IF s = <<>> THEN <<<<>>>> ELSE s

RefLike == typ \in {"ref", "onelevel", "qualifiedlike"} /\ Become("reflike", name)

OneLevel ==
    /\ typ = "reflike"
    /\ Become("onelevel", IF Len(name) > 1 /\ name[1] = REFS
                          THEN JoinStr(SubSeq(name, 3, Len(name))) ELSE name)

QualifiedLike ==
    /\ typ = "reflike" /\ Room
    /\ Become("qualifiedlike", IF Len(name) > 1 /\ name[1] = REFS
                               THEN name ELSE <<REFS, HEADS>> \o name)

IntoQualified ==
    /\ typ = "onelevel" /\ Room
    /\ Become("qualifiedlike", <<REFS, <<"a">>>> \o name)

-----------------------------------------------------------------------------

FormatNext ==
    \/ RefStr \/ PatternStr \/ Serialize
    \/ \E c \in Words : Push(c) \/ PatternPush(c) \/ Join(c)
    \/ Pop \/ StripPrefix \/ EachComponent \/ WithPattern
    \/ PatternPop \/ FromComponents
    \/ Qualified \/ Namespaced \/ AddNamespace \/ StripNamespace \/ NonEmptyComponents
    \/ RefLike \/ OneLevel \/ QualifiedLike \/ IntoQualified

FormatSpec == FormatInit /\ [][FormatNext]_refVars

-----------------------------------------------------------------------------
(***************************************************************************)
(* The rules of git-check-ref-format(1), by their numbers there, for a     *)
(* string without '/' at its ends or twice in a row (6).                   *)
(***************************************************************************)

Flat(s) == [i \in DOMAIN s |-> <<"/">> \o s[i]]
Line(s) == FlattenSeq(Flat(s))
Has(l, w) == \E i \in 1 .. Len(l) - Len(w) + 1 : SubSeq(l, i, i + Len(w) - 1) = w

GitAccepts(pattern, s) ==
    /\ \A k \in DOMAIN s : s[k] # <<>>                                  \* 6
    /\ ~Has(Line(s), <<"/", ".">>)                                      \* 1
    /\ ~Has(Line(s) \o <<"/">>, <<".", "lock", "/">>)                   \* 1
    /\ ~Has(Line(s), <<".", ".">>)                                      \* 3
    /\ ~Has(Line(s), <<"~">>)                                           \* 4, 5, 10
    /\ Cardinality({i \in DOMAIN Line(s) : Line(s)[i] = "*"}) <= IF pattern THEN 1 ELSE 0
    /\ Last(Line(s)) # "."                                              \* 7
    /\ ~Has(Line(s), <<"@", "{">>)                                      \* 8
    /\ s # <<<<"@">>>>                                                  \* 9

\* Where the code is stricter: the rule about a trailing dot is applied to
\* every component, and the pairs of characters wrap around.
Stricter(s) ==
    \E k \in DOMAIN s : s[k][Len(s[k])] = "." \/ (s[k][1] = "{" /\ s[k][Len(s[k])] = "@")

\* What the parsers accept is what git accepts, but for names with a
\* component that ends in a dot, or begins with '{' and ends in '@'.
FormatIsGits ==
    typ = "str" =>
        \A pattern \in BOOLEAN :
            Format(pattern, name) <=> (GitAccepts(pattern, name) /\ ~Stricter(name))

\* However names are taken apart and put together, a refname stays one that
\* would parse again, as does a pattern, with at most one glob. The one
\* exception is a component "@", which is no refname by itself. The git-ext
\* types also have the empty name, as the one level of "refs/x".
ValuesStayValid ==
    /\ typ \in {"ref", "component", "qualified", "namespaced"} =>
          Format(FALSE, name) \/ name = <<<<"@">>>>
    /\ typ = "pattern" => Format(TRUE, name) \/ name = <<<<"@">>>>
    /\ typ = "namespaced" => IsNamespaced(name)

\* A `Qualified` "starts with refs/ and has at least three components".
QualifiedHasCategory == typ = "qualified" => IsQualified(name)

-----------------------------------------------------------------------------
(***************************************************************************)
(* The trailers of commit messages: how signatures and the commits a       *)
(* change of a collaborative object refers to are written below its        *)
(* message (link-identities, cob), and how git-trailers finds them again.  *)
(*                                                                         *)
(* A message is a sequence of characters.  A token is one character: S for *)
(* X-Rad-Signature, A for X-Rad-Author, I for X-Rad-Authorizing-Identity,  *)
(* C for X-Rad-Schema.  Keys, signatures and encoded object ids are one    *)
(* character each.                                                         *)
(***************************************************************************)
CONSTANTS
    Keys,           \* public keys
    Oids,           \* object ids
    MaxBody         \* bound: characters of a message's body

NL == "newline"
Space == " "
Colon == ":"
SigOf == [k \in Keys |-> << "sig", k >>]
TokenChars == {"S", "A", "I", "C"} \cup Keys \cup Oids

VARIABLES body, spec, message, loaded
trailerVars == <<body, spec, message, loaded>>

From(s, i) == SubSeq(s, i, Len(s))
UpTo(s, i) == SubSeq(s, 1, i)

-----------------------------------------------------------------------------
(* git_trailers::display *)

Trailer(token, values) == [token |-> token, values |-> values]

(* TrailerValues are joined by a newline and an indent. *)
DisplayTrailer(t) ==
    << t.token, Colon, Space >>
    \o FlattenSeq([i \in DOMAIN t.values |->
                       (IF i = 1 THEN << >> ELSE << NL, Space, Space >>) \o t.values[i]])

(* A slip: one newline between the body and the trailers. *)
CommitMessageJoined(b, trailers) ==
    b \o << NL >> \o FlattenSeq([i \in DOMAIN trailers |-> DisplayTrailer(trailers[i]) \o << NL >>])

(* CommitMessage: the body, an empty line, the trailers. *)
CommitMessage(b, trailers) ==
    b \o << NL, NL >> \o FlattenSeq([i \in DOMAIN trailers |-> DisplayTrailer(trailers[i]) \o << NL >>])

-----------------------------------------------------------------------------
(* git_trailers::parser.  A parser returns what it read and what is left.  *)

Span(s, S) == Max({i \in 0..Len(s) : \A j \in 1..i : s[j] \in S})

TrimEnd(s) == UpTo(s, Max({0} \cup {i \in DOMAIN s : s[i] \notin {Space, NL}}))

EmptyLines(s) == {i \in 1..(Len(s) - 1) : s[i] = NL /\ s[i + 1] = NL}

(* paragraphs: split at empty lines, from the left; the last one. *)
RECURSIVE LastParagraph(_)
LastParagraph(s) ==
    IF EmptyLines(s) = {} THEN s ELSE LastParagraph(From(s, Min(EmptyLines(s)) + 2))

(* until_eol_or_eof *)
TextLine(s) ==
    LET n == Span(s, {c \in ToSet(s) : c # NL})
    IN [content |-> UpTo(s, n), rest |-> From(s, n + 2)]

(* multiline_values *)
RECURSIVE Multiline(_)
Multiline(s) ==
    IF s # << >> /\ s[1] = Space
    THEN LET l == TextLine(From(s, Span(s, {Space}) + 1)) more == Multiline(l.rest)
         IN [values |-> << l.content >> \o more.values, rest |-> more.rest]
    ELSE [values |-> << >>, rest |-> s]

(* values: the rest of the line, if there is any, and indented lines. *)
TrailerValues(s) ==
    LET inline == TextLine(s) more == Multiline(inline.rest)
    IN [values |-> (IF inline.content = << >> THEN << >> ELSE << inline.content >>) \o more.values,
        rest |-> more.rest]

(* separator: a colon between spaces.  0 if there is none. *)
Separator(s) ==
    LET n == Span(s, {Space})
    IN IF n < Len(s) /\ s[n + 1] = Colon THEN n + 1 + Span(From(s, n + 2), {Space}) ELSE 0

(* trailer: a token, a separator, values. *)
ParseTrailer(s) ==
    LET n == Span(s, TokenChars) k == Separator(From(s, n + 1))
    IN IF n = 0 \/ k = 0 THEN [ok |-> FALSE, rest |-> s]
       ELSE LET v == TrailerValues(From(s, n + k + 1))
            IN [ok |-> TRUE, trailer |-> Trailer(UpTo(s, n), v.values), rest |-> v.rest]

(* trailers: as many as can be parsed. *)
RECURSIVE ParseTrailers(_)
ParseTrailers(s) ==
    LET t == ParseTrailer(s) IN
    IF t.ok THEN LET more == ParseTrailers(t.rest)
                 IN [trailers |-> << t.trailer >> \o more.trailers, rest |-> more.rest]
    ELSE [trailers |-> << >>, rest |-> s]

(* parse: nothing may be left. *)
Parse(m) ==
    LET p == LastParagraph(TrimEnd(m)) all == ParseTrailers(p)
    IN IF p = << >> THEN [error |-> "missing paragraph", trailers |-> << >>]
       ELSE IF all.rest # << >> THEN [error |-> "trailing", trailers |-> << >>]
       ELSE [error |-> "", trailers |-> all.trailers]

-----------------------------------------------------------------------------
(* Signatures, and the trailers that hold an object id *)

SignatureTrailer(k) == Trailer("S", << << k >>, SigOf[k] >>)
OidTrailer(token, oid) == Trailer(token, << << oid >> >>)

(* Signature::try_from: the key and the signature, whatever the lines. *)
Signature(t) ==
    LET words == FlattenSeq(t.values)
    IN IF Len(words) < 2 \/ words[1] \notin Keys THEN << >> ELSE << words[1], From(words, 2) >>

Signatures(trailers) ==
    LET own == SelectSeq(trailers, LAMBDA t : t.token = << "S" >>)
    IN IF \E i \in DOMAIN own : Signature(own[i]) = << >> THEN [ok |-> FALSE, by |-> {}]
       ELSE [ok |-> TRUE, by |-> {Signature(own[i])[1] : i \in DOMAIN own}]

(* from_trailers: exactly one, with a value that can be decoded. *)
OidFrom(trailers, token) ==
    LET own == SelectSeq(trailers, LAMBDA t : t.token = << token >>)
    IN CASE \E i \in DOMAIN own : own[i].values = << >> -> "no value"
         [] \E i \in DOMAIN own : own[i].values # << >> /\ ~ \E o \in Oids : own[i].values[1] = << o >> ->
                "invalid"
         [] Len(own) = 0 -> "no trailer"
         [] Len(own) > 1 -> "multiple trailers"
         [] Len(own) = 1 /\ \E o \in Oids : own[1].values # << >> /\ own[1].values[1] = << o >> ->
                own[1].values[1][1]

-----------------------------------------------------------------------------
BodyChars == {"A", Colon, Space, NL}
Bodies == UNION {[1..n -> BodyChars] : n \in 0..MaxBody}

(* An old change also has a schema's commit as a trailer and a parent. *)
Specs == [author : Oids, identity : Oids, schema : Oids \cup {"no trailer"}, by : SUBSET Keys \ {{}}]

Failed == [ok |-> FALSE, why |-> "unread"]

TrailerInit ==
    /\ body \in Bodies
    /\ spec \in Specs
    /\ message = << >>
    /\ loaded = Failed

TrailersOf(c) ==
    SetToSeq({SignatureTrailer(k) : k \in c.by})
    \o << OidTrailer("A", c.author), OidTrailer("I", c.identity) >>
    \o (IF c.schema \in Oids THEN << OidTrailer("C", c.schema) >> ELSE << >>)

(* Change::create writes the commit; libgit2 drops newlines in front. *)
Create ==
    /\ message = << >>
    /\ message' = LET m == CommitMessage(body, TrailersOf(spec)) IN From(m, Span(m, {NL}) + 1)
    /\ UNCHANGED <<body, spec, loaded>>

(* Change::load, what it makes of the trailers it has parsed. *)
LoadChange(error, read) ==
    IF error # "" THEN [ok |-> FALSE, why |-> error]
    ELSE IF read.author \notin Oids THEN [ok |-> FALSE, why |-> read.author]
    ELSE IF read.identity \notin Oids THEN [ok |-> FALSE, why |-> read.identity]
    ELSE IF read.schema \notin Oids \cup {"no trailer"} THEN [ok |-> FALSE, why |-> read.schema]
    ELSE IF ~ read.by.ok THEN [ok |-> FALSE, why |-> "signature"]
    ELSE [ok |-> TRUE, change |-> [read EXCEPT !.by = read.by.by]]

Load ==
    /\ message # << >> /\ loaded = Failed
    /\ \E p \in {Parse(message)} :
         \E read \in {[author |-> OidFrom(p.trailers, "A"), identity |-> OidFrom(p.trailers, "I"),
                       schema |-> OidFrom(p.trailers, "C"), by |-> Signatures(p.trailers)]} :
           loaded' = LoadChange(p.error, read)
    /\ UNCHANGED <<body, spec, message>>

TrailerNext == Create \/ Load

TrailerSpec == TrailerInit /\ [][TrailerNext]_trailerVars

-----------------------------------------------------------------------------
NewlinesAtEnd(s) == Len(s) - Max({0} \cup {i \in DOMAIN s : s[i] # NL})

(* What a change is created with is what is loaded of its commit, whatever *)
(* the message says, as long as it does not end with an odd number of      *)
(* newlines (change.rs, sign.rs, git-trailers).                            *)
ChangesReadBack ==
    (loaded # Failed /\ NewlinesAtEnd(body) % 2 = 0) => (loaded.ok /\ loaded.change = spec)

(* parse "looks up the last paragraph of the message and attempts to parse *)
(* each of its lines": the trailers a commit was created with are the last *)
(* paragraph, and can be parsed.                                           *)
TrailersAreFound == loaded # Failed => loaded.ok

-----------------------------------------------------------------------------
(***************************************************************************)
(* The seeds of a profile (lnk-clib, seed): their text form, the file that *)
(* stores one per line, and the loading that reads, parses and resolves    *)
(* them up to a cutoff. A line is a sequence of words and separators.      *)
(***************************************************************************)
CONSTANTS
    Peers, Addrs, Labels,   \* words
    Resolvable,             \* addresses the lookup finds
    MaxLines, MaxCutoff     \* bounds

None == "none"
Separators == {",", "@"}

(* The lines a file may hold: seeds in the written form, and malformed ones *)
Lines ==
    LET words == Peers \cup Addrs
    IN {<<p>> : p \in words} \cup {<<p, s, a>> : p \in words, s \in Separators, a \in words}
       \cup {<<p, s, a, t, l>> : p \in words, s \in Separators, a \in Addrs, t \in Separators, l \in Labels}
       \cup {<<p, "@", a, ",", l, t, k>> : p \in Peers, a \in Addrs, t \in Separators, l \in Labels, k \in Labels}

VARIABLES
    file,           \* what is at the path: "missing", "directory" or "file"
    load,           \* the loading under way
    lines           \* the lines read so far

seedVars == <<file, load, lines>>

NoLoad == [pc |-> "new", cutoff |-> 0, bounded |-> FALSE, ioError |-> FALSE,
           resolved |-> << >>, failures |-> 0]

SeedInit == file \in {"missing", "directory", "file"} /\ load = NoLoad /\ lines = << >>

(* FileStore::new makes the file when there is nothing at the path. *)
New ==
    /\ load.pc = "new"
    /\ file' = IF file = "missing" THEN "file" ELSE file
    /\ load' = [load EXCEPT !.pc = IF file = "directory" THEN "failed" ELSE "open"]
    /\ UNCHANGED lines

(* Store::scan opens the file. *)
Scan ==
    /\ load.pc = "open"
    /\ \E bounded \in BOOLEAN, cutoff \in 0..MaxCutoff :
        load' = [load EXCEPT !.pc = "scan", !.bounded = bounded, !.cutoff = cutoff]
    /\ UNCHANGED <<file, lines>>

(* Seed's Display *)
Display(seed) ==
    <<seed.peer, "@", seed.addrs>> \o IF seed.label = None THEN << >> ELSE <<",", seed.label>>

(* The components of a text between its separators. *)
Components(text) ==
    LET at == {0, Len(text) + 1} \cup {i \in 1..Len(text) : text[i] \in Separators}
        cuts == SetToSortSeq(at, <)
    IN [k \in 1..(Len(cuts) - 1) |-> SubSeq(text, cuts[k] + 1, cuts[k + 1] - 1)]

Malformed == [peer |-> None, addrs |-> None, label |-> None]

(* A slip: a text with more components than a seed has is read, too. *)
FromStrOpenEnded(text) ==
    LET c == Components(text)
    IN IF Len(c) < 2 \/ c[1] \notin {<<p>> : p \in Peers} THEN Malformed
       ELSE [peer |-> c[1][1], addrs |-> c[2][1], label |-> IF Len(c) = 3 THEN c[3][1] ELSE None]

(* Seed's FromStr: either separator in either place. Any text is an        *)
(* address.                                                                *)
FromStr(text) ==
    LET c == Components(text)
    IN IF Len(c) \notin {2, 3} \/ c[1] \notin {<<p>> : p \in Peers} THEN Malformed
       ELSE [peer |-> c[1][1], addrs |-> c[2][1], label |-> IF Len(c) = 3 THEN c[3][1] ELSE None]

(* Seed::resolve: the lookup fails or finds no address. *)
Resolves(seed) == seed.addrs \in Resolvable

Failure == load' = [load EXCEPT !.failures = @ + 1]

(* Iter::next and one round of Seeds::load. After an input error the       *)
(* iterator yields nothing more.                                           *)
NextLine ==
    /\ load.pc = "scan" /\ ~load.ioError /\ Len(lines) < MaxLines
    /\ \E text \in Lines :
        LET seed == FromStr(text)
        IN /\ lines' = Append(lines, text)
           /\ IF seed = Malformed \/ ~Resolves(seed) THEN Failure
              ELSE load' = [load EXCEPT !.resolved = Append(@, seed),
                    !.pc = IF load.bounded /\ Len(load.resolved) + 1 = load.cutoff THEN "done" ELSE @]
    /\ UNCHANGED file

NextIoError ==
    /\ load.pc = "scan" /\ ~load.ioError /\ Len(lines) < MaxLines
    /\ lines' = Append(lines, <<"unreadable">>)
    /\ load' = [load EXCEPT !.failures = @ + 1, !.ioError = TRUE]
    /\ UNCHANGED file

EndOfFile ==
    /\ load.pc = "scan"
    /\ load' = [load EXCEPT !.pc = "done"]
    /\ UNCHANGED <<file, lines>>

SeedNext == New \/ Scan \/ NextLine \/ NextIoError \/ EndOfFile

SeedSpec == SeedInit /\ [][SeedNext]_seedVars

-----------------------------------------------------------------------------
(* A text names a seed when it has the seed's words with a separator in   *)
(* between.                                                                *)
NamesSeed(text, seed) ==
    \E s, t \in Separators :
        text = <<seed.peer, s, seed.addrs>> \o IF seed.label = None THEN << >> ELSE <<t, seed.label>>

(* Loading loses and invents no seed: the resolved seeds are those the     *)
(* lines name whose address is found, in the order of the lines; every     *)
(* other line is reported; a seed written again is read as the same seed;  *)
(* and nothing is read past a positive cutoff (seed.rs, Seeds::load,       *)
(* FromStr; file.rs, Iter).                                                *)
SeedsLoad ==
    LET Seed == [peer : Peers, addrs : Resolvable, label : Labels \cup {None}]
        named == SelectSeq(lines, LAMBDA text : \E seed \in Seed : NamesSeed(text, seed))
    IN /\ Len(load.resolved) = Len(named)
       /\ \A i \in DOMAIN named : /\ NamesSeed(named[i], load.resolved[i])
                                  /\ FromStr(Display(load.resolved[i])) = load.resolved[i]
       /\ Len(load.resolved) + load.failures = Len(lines)
       /\ (load.bounded /\ load.cutoff > 0) => Len(load.resolved) <= load.cutoff

(* "If `cutoff` is given then only that number of seeds will be retrieved" *)
(* (seed.rs, Seeds::load).                                                 *)
CutoffHolds == load.bounded => Len(load.resolved) <= load.cutoff

-----------------------------------------------------------------------------
(***************************************************************************)
(* How keys, signatures, peer ids and object ids are written and read      *)
(* (link-crypto, keys and peer; git-ext, oid): as multibase text, as CBOR, *)
(* as hexadecimal text and as multihash. Bytes are a version, a payload    *)
(* and a size. A wire value is one this version of the code wrote, or one  *)
(* that another implementation or version may have.                        *)
(***************************************************************************)
CONSTANTS
    Payloads,       \* what the bytes hold
    Versions        \* of the schemes; the code's is 0

VERSION == 0
Kinds == {"key", "peer", "signature", "oid"}
Bits == [z32 |-> 5, b32 |-> 5, hex |-> 4, b64 |-> 6]

VARIABLES
    value,          \* the value written, if it was
    wire,           \* what is read
    read            \* what reading gave

encVars == <<value, wire, read>>

NoValue == [kind |-> "none", payload |-> "none"]
Values == [kind : Kinds, payload : Payloads]

Wire(form, version, payload, size) ==
    [form |-> form, version |-> version, payload |-> payload, size |-> size]

NoWire == Wire("none", 0, "none", 0)

(* multibase: a character for the base, then as many bits in each as it has *)
TextLength(base, bytes) == 1 + (8 * bytes + Bits[base] - 1) \div Bits[base]

(* PublicKey, Signature: the version before the bytes, in z-base32. *)
SerializeKey(v) == Wire("z32", VERSION, v.payload, 32 + 1)
SerializeSignature(v) == Wire("z32", VERSION, v.payload, 64 + 1)

(* default_encoding of a PeerId, its Display, Debug, Serialize and DNSName. *)
DefaultEncoding(v) == Wire("z32", VERSION, v.payload, 33)

(* Oid: 40 hexadecimal digits. *)
OidText(v) == Wire("digits", VERSION, v.payload, 40)

(* CBOR: an array of the version and the bytes. A PeerId is an array of    *)
(* one such.                                                               *)
EncodeKey(v) == Wire("array 2", VERSION, v.payload, 32)
EncodeSignature(v) == Wire("array 2", VERSION, v.payload, 64)
EncodePeer(v) == Wire("array of array 2", VERSION, v.payload, 32)
EncodeOid(v) == Wire("multihash sha1", VERSION, v.payload, 20)

Encode(v) ==
    CASE v.kind = "key" -> EncodeKey(v) [] v.kind = "signature" -> EncodeSignature(v)
      [] v.kind = "peer" -> EncodePeer(v) [] v.kind = "oid" -> EncodeOid(v)

Text(v) ==
    CASE v.kind = "key" -> SerializeKey(v) [] v.kind = "signature" -> SerializeSignature(v)
      [] v.kind = "peer" -> DefaultEncoding(v) [] v.kind = "oid" -> OidText(v)

ParseError == [kind |-> "error", payload |-> "none"]
ValueOf(kind, w) == [kind |-> kind, payload |-> w.payload]

(* A slip: the version is not looked at. *)
DeserializeKeyAnyVersion(w) ==
    IF w.form \notin DOMAIN Bits \/ w.size # 33 THEN ParseError ELSE ValueOf("key", w)

(* Deserialize of a key or a signature: any base multibase knows. *)
DeserializeKey(w) ==
    IF w.form \notin DOMAIN Bits \/ w.version # VERSION \/ w.size # 33
    THEN ParseError ELSE ValueOf("key", w)

DeserializeSignature(w) ==
    IF w.form \notin DOMAIN Bits \/ w.version # VERSION \/ w.size # 65
    THEN ParseError ELSE ValueOf("signature", w)

(* from_default_encoding: the length of the text is checked, then its      *)
(* version and the length of the bytes.                                    *)
ENCODED_LEN == 1 + ((32 + 1) * 8 + 4) \div 5

FromDefaultEncoding(w) ==
    IF w.form \notin DOMAIN Bits THEN ParseError
    ELSE IF TextLength(w.form, w.size) # ENCODED_LEN \/ w.version # 0 \/ w.size # 33
    THEN ParseError ELSE ValueOf("peer", w)

(* git2's parser takes any number of digits up to 40 and reads the missing *)
(* ones as zeros.                                                          *)
ParseOid(w) ==
    IF w.form # "digits" \/ w.size = 0 \/ w.size > 40 THEN ParseError
    ELSE [kind |-> "oid", payload |-> IF w.size = 40 THEN w.payload ELSE "padded"]

(* Decode *)
DecodeKey(w) ==
    IF w.form # "array 2" \/ w.version # VERSION \/ w.size # 32 THEN ParseError ELSE ValueOf("key", w)

DecodeSignature(w) ==
    IF w.form # "array 2" \/ w.version # VERSION \/ w.size # 64 THEN ParseError ELSE ValueOf("signature", w)

DecodePeer(w) ==
    IF w.form # "array of array 2" \/ w.version # VERSION \/ w.size # 32 THEN ParseError ELSE ValueOf("peer", w)

DecodeOid(w) ==
    IF w.form # "multihash sha1" \/ w.size # 20 THEN ParseError ELSE ValueOf("oid", w)

ReadText(kind, w) ==
    CASE kind = "key" -> DeserializeKey(w) [] kind = "signature" -> DeserializeSignature(w)
      [] kind = "peer" -> FromDefaultEncoding(w) [] kind = "oid" -> ParseOid(w)

ReadBinary(kind, w) ==
    CASE kind = "key" -> DecodeKey(w) [] kind = "signature" -> DecodeSignature(w)
      [] kind = "peer" -> DecodePeer(w) [] kind = "oid" -> DecodeOid(w)

Texts == DOMAIN Bits \cup {"digits"}
Wires ==
    {Wire(f, v, p, s) : f \in DOMAIN Bits, v \in Versions, p \in Payloads, s \in {1, 21, 33, 65}}
    \cup {Wire("digits", 0, p, s) : p \in Payloads, s \in {0, 1, 39, 40, 41}}
    \cup {Wire(f, v, p, s) : f \in {"array 1", "array 2", "array of array 2", "multihash sha1", "multihash sha2"},
                             v \in Versions, p \in Payloads, s \in {20, 32, 64}}

EncodingInit == value = NoValue /\ wire = NoWire /\ read = NoValue

Write ==
    /\ wire = NoWire
    /\ \E v \in Values : value' = v /\ wire' \in {Text(v), Encode(v)}
    /\ UNCHANGED read

Receive ==
    /\ wire = NoWire
    /\ wire' \in Wires
    /\ UNCHANGED <<value, read>>

Read ==
    /\ wire # NoWire /\ read = NoValue
    /\ \E kind \in Kinds :
        read' = IF wire.form \in Texts THEN ReadText(kind, wire) ELSE ReadBinary(kind, wire)
    /\ UNCHANGED <<value, wire>>

EncodingNext == Write \/ Receive \/ Read

EncodingSpec == EncodingInit /\ [][EncodingNext]_encVars

-----------------------------------------------------------------------------
(* What is written is read as what it was, and as nothing else but a key   *)
(* where it is a peer id, or the other way round, in text; what is read,   *)
(* from whatever base or however many digits, is written in one form that  *)
(* reads as the same value; and nothing of another version is taken for    *)
(* this one's (keys.rs, peer.rs, oid.rs).                                  *)
EncodingsReadBack ==
    /\ (value # NoValue /\ wire # NoWire) =>
        value = IF wire.form \in Texts THEN ReadText(value.kind, wire) ELSE ReadBinary(value.kind, wire)
    /\ read \notin {NoValue, ParseError} =>
        /\ value # NoValue => /\ read.payload = value.payload
                              /\ read.kind = value.kind \/ {read.kind, value.kind} = {"key", "peer"}
        /\ ReadText(read.kind, Text(read)) = read
        /\ ReadBinary(read.kind, Encode(read)) = read
        /\ read.kind # "oid" => wire.version = VERSION
=============================================================================
