---------------------------- MODULE FramingProofs ----------------------------
(***************************************************************************)
(* Proof that the framing of linkd's sockets is a channel of messages, for *)
(* any length of the prefix and any bounds on the messages.  The argument  *)
(* follows the bytes: those that are yet to be read continue, byte by      *)
(* byte, what the reader has saved of the present message.                 *)
(***************************************************************************)
EXTENDS Framing, SequenceTheorems, TLAPS

Byte == [msg : Nat \ {0}, at : Nat \ {0}]

At(m, k) == [msg |-> m, at |-> k]

\* The byte at i, where the place before the first byte of r is p.
Place(p, r, i) == IF i = 0 THEN p ELSE r[i]

\* The bytes of r are those of messages of lengths s, one frame after the other,
\* from behind the place p on.
Continues(s, p, r) ==
    \A j \in 1 .. Len(r) : \A i \in 0 .. j - 1 :
        LET b == Place(p, r, i) IN
        /\ b.at + (j - i) <= Prefix + s[b.msg] => r[j] = At(b.msg, b.at + (j - i))
        /\ b.at + (j - i) = Prefix + s[b.msg] + 1 => r[j] = At(b.msg + 1, 1)

\* Every byte of r is one of the frames of the messages.
Within(s, r) ==
    \A i \in 1 .. Len(r) : r[i].msg \in 1 .. Len(s) /\ r[i].at <= Prefix + s[r[i].msg]

\* The message the reader is at, the bytes it has taken of its frame, and the
\* bytes it has not taken.
Present == Len(delivered) + 1
Taken == Len(state.got) + IF state.at = "ReadLen" THEN 0 ELSE Prefix
Rest == socket \o unsent

FramingTypeOK ==
    /\ sent \in Seq(Nat)
    /\ unsent \in Seq(Byte)
    /\ socket \in Seq(Byte)
    /\ hung \in BOOLEAN
    /\ \/ state \in [at : {"ReadLen"}, got : Seq(Byte)]
       \/ state \in [at : {"ReadVal"}, got : Seq(Byte), len : Nat]
    /\ reading \in BOOLEAN
    /\ delivered \in Seq(Seq(Byte))

\* What is saved is the beginning of the present part of the frame.
SavedOK ==
    /\ Present \in 1 .. Len(sent) + 1
    /\ Missing(state) >= 0
    /\ state.at = "ReadVal" => Present <= Len(sent) /\ state.len = sent[Present]
    /\ \A i \in 1 .. Len(state.got) :
           state.got[i] = At(Present, i + IF state.at = "ReadLen" THEN 0 ELSE Prefix)

\* The rest continues it, and ends with the last message.
RestOK ==
    /\ Within(sent, Rest)
    /\ Continues(sent, At(Present, Taken), Rest)
    /\ IF Present > Len(sent)
       THEN Taken = 0 /\ Rest = <<>>
       ELSE Place(At(Present, Taken), Rest, Len(Rest)) = At(Len(sent), Prefix + sent[Len(sent)])
    /\ \A i \in 1 .. Len(unsent) : unsent[i].msg = Len(sent)

\* What is sent is bounded, and a reader that was told of the end is done.
BoundsOK ==
    /\ Len(sent) <= MaxSent /\ \A m \in 1 .. Len(sent) : sent[m] <= MaxLen
    /\ result = "closed" => ~reading /\ hung

FramingInv == FramingTypeOK /\ SavedOK /\ RestOK /\ BoundsOK

-----------------------------------------------------------------------------
(***************************************************************************)
(* Bytes that continue a place.                                            *)
(***************************************************************************)

\* As long as the frame goes on, the bytes behind a place in it are its next ones.
LEMMA NextBytes ==
    ASSUME NEW s, NEW p, NEW r, Len(r) \in Nat, Continues(s, p, r),
           NEW n \in 1 .. Len(r), p.at \in Nat, s[p.msg] \in Nat,
           p.at + n <= Prefix + s[p.msg], NEW i \in 1 .. n
    PROVE  r[i] = At(p.msg, p.at + i)
<1>1. i \in 1 .. Len(r) /\ 0 \in 0 .. i - 1 /\ i - 0 = i /\ Place(p, r, 0) = p
  BY DEF Place
<1>2. p.at + i <= Prefix + s[p.msg]
  BY FramingAssumption
<1> QED
  BY <1>1, <1>2 DEF Continues

\* Reading bytes of the frame moves the place on (read_message, within a part).
LEMMA ContinuesBehind ==
    ASSUME NEW s, NEW p, NEW r \in Seq(Byte), Continues(s, p, r),
           NEW n \in 1 .. Len(r), p.at \in Nat, s[p.msg] \in Nat,
           p.at + n <= Prefix + s[p.msg]
    PROVE  LET q == At(p.msg, p.at + n)
               t == SubSeq(r, n + 1, Len(r))
           IN  Continues(s, q, t) /\ Place(q, t, Len(t)) = Place(p, r, Len(r))
<1> DEFINE q == At(p.msg, p.at + n)
           t == SubSeq(r, n + 1, Len(r))
<1>1. /\ Len(t) = Len(r) - n
      /\ \A i \in 1 .. Len(t) : t[i] = r[i + n]
      /\ Len(r) \in Nat
  BY SMT DEF Byte
<1>2. \A i \in 0 .. Len(t) : Place(q, t, i) = Place(p, r, i + n)
  BY <1>1, NextBytes DEF Place
<1> HIDE DEF q, t
<1>6. Place(q, t, Len(t)) = Place(p, r, Len(r))
  <2>1. Len(t) \in 0 .. Len(t) /\ Len(t) + n = Len(r)
    BY <1>1
  <2> QED
    BY <2>1, <1>2, Zenon
<1>3. SUFFICES ASSUME NEW j \in 1 .. Len(t), NEW i \in 0 .. j - 1
               PROVE  LET b == Place(q, t, i) IN
                      /\ b.at + (j - i) <= Prefix + s[b.msg] => t[j] = At(b.msg, b.at + (j - i))
                      /\ b.at + (j - i) = Prefix + s[b.msg] + 1 => t[j] = At(b.msg + 1, 1)
  BY <1>6, Zenon DEF Continues, q, t
<1>4. /\ j + n \in 1 .. Len(r) /\ i + n \in 0 .. (j + n) - 1 /\ i \in 0 .. Len(t)
      /\ t[j] = r[j + n] /\ (j + n) - (i + n) = j - i
  <2> DEFINE lr == Len(r)
             lt == Len(t)
  <2>1. lr \in Nat /\ lt = lr - n /\ n \in Nat
    BY <1>1
  <2>2. j \in 1 .. lt /\ i \in 0 .. j - 1
    OBVIOUS
  <2>3. t[j] = r[j + n]
    BY <1>1, Zenon
  <2> HIDE DEF lr, lt
  <2>4. /\ j + n \in 1 .. lr /\ i + n \in 0 .. (j + n) - 1 /\ i \in 0 .. lt
        /\ (j + n) - (i + n) = j - i
    BY <2>1, <2>2
  <2> QED
    BY <2>3, <2>4, Zenon DEF lr, lt
<1>5. Place(q, t, i) = Place(p, r, i + n)
  BY <1>2, <1>4
<1> QED
  BY <1>4, <1>5, Zenon DEF Continues

\* At the end of a frame the next one begins (read_message, when a value is whole).
LEMMA ContinuesWithNext ==
    ASSUME NEW s \in Seq(Nat), NEW p, NEW r \in Seq(Byte), Continues(s, p, r), Within(s, r),
           p.msg \in Nat, p.at \in Nat, s[p.msg] \in Nat, p.at = Prefix + s[p.msg]
    PROVE  Continues(s, At(p.msg + 1, 0), r)
<1> DEFINE q == At(p.msg + 1, 0)
<1>1. SUFFICES ASSUME NEW j \in 1 .. Len(r), NEW i \in 0 .. j - 1
               PROVE  LET b == Place(q, r, i) IN
                      /\ b.at + (j - i) <= Prefix + s[b.msg] => r[j] = At(b.msg, b.at + (j - i))
                      /\ b.at + (j - i) = Prefix + s[b.msg] + 1 => r[j] = At(b.msg + 1, 1)
  BY DEF Continues
<1>2. Len(r) \in Nat
  OBVIOUS
<1>3. CASE i # 0
  <2>1. Place(q, r, i) = Place(p, r, i)
    BY <1>3 DEF Place
  <2> QED
    BY <2>1 DEF Continues
<1>4. CASE i = 0
  <2>1. r[1] = At(p.msg + 1, 1)
    <3>1. 1 \in 1 .. Len(r) /\ 0 \in 0 .. 1 - 1 /\ 1 - 0 = 1 /\ Place(p, r, 0) = p
      BY <1>2 DEF Place
    <3>2. p.at + 1 = Prefix + s[p.msg] + 1
      BY FramingAssumption
    <3> QED
      BY <3>1, <3>2, Zenon DEF Continues
  <2>2. s[p.msg + 1] \in Nat
    <3>1. 1 \in 1 .. Len(r) /\ r[1].msg = p.msg + 1
      BY <2>1, <1>2 DEF At
    <3>2. p.msg + 1 \in 1 .. Len(s)
      BY <3>1 DEF Within
    <3>3. \A m \in 1 .. Len(s) : s[m] \in Nat
      OBVIOUS
    <3> QED
      BY <3>2, <3>3, Zenon
  <2>3. /\ j <= Prefix + s[p.msg + 1] => r[j] = At(p.msg + 1, j)
        /\ j = Prefix + s[p.msg + 1] + 1 => r[j] = At(p.msg + 2, 1)
    <3>1. CASE j = 1
      BY <3>1, <2>1, <2>2, FramingAssumption
    <3>2. CASE j > 1
      <4>1. 1 \in 0 .. j - 1 /\ Place(p, r, 1) = r[1]
        BY <3>2 DEF Place
      <4>2. r[1].msg = p.msg + 1 /\ r[1].at = 1
        BY <2>1 DEF At
      <4>3. /\ 1 + (j - 1) <= Prefix + s[p.msg + 1] => r[j] = At(p.msg + 1, 1 + (j - 1))
            /\ 1 + (j - 1) = Prefix + s[p.msg + 1] + 1 => r[j] = At((p.msg + 1) + 1, 1)
        BY <4>1, <4>2, Zenon DEF Continues
      <4>4. 1 + (j - 1) = j /\ (p.msg + 1) + 1 = p.msg + 2
        OBVIOUS
      <4> QED
        BY <4>3, <4>4
    <3> QED
      BY <3>1, <3>2
  <2>4. Place(q, r, i).msg = p.msg + 1 /\ Place(q, r, i).at = 0
    BY <1>4 DEF Place, At
  <2>5. 0 + (j - i) = j /\ (p.msg + 1) + 1 = p.msg + 2
    BY <1>4
  <2> QED
    BY <2>3, <2>4, <2>5
<1> QED
  BY <1>3, <1>4

\* A frame written behind the last message goes on where that ends
\* (MessageWriter::serialize).
LEMMA ContinuesWithFrame ==
    ASSUME NEW s \in Seq(Nat), NEW len \in Nat, NEW p, NEW r \in Seq(Byte),
           Continues(s, p, r), Within(s, r), p.msg \in Nat \ {0}, p.at \in Nat,
           IF p.msg > Len(s)
           THEN p = At(Len(s) + 1, 0) /\ r = <<>>
           ELSE Place(p, r, Len(r)) = At(Len(s), Prefix + s[Len(s)])
    PROVE  Continues(Append(s, len), p, r \o Frame(Len(s) + 1, len))
<1> DEFINE f == Frame(Len(s) + 1, len)
           t == r \o f
           u == Append(s, len)
<1>1. /\ f \in Seq(Byte) /\ Len(f) = Prefix + len
      /\ \A i \in 1 .. Prefix + len : f[i] = At(Len(s) + 1, i)
  BY FramingAssumption DEF Frame, Byte, At
<1>2. /\ Len(t) = Len(r) + (Prefix + len)
      /\ \A i \in 1 .. Len(r) : t[i] = r[i]
      /\ \A i \in Len(r) + 1 .. Len(t) : t[i] = At(Len(s) + 1, i - Len(r))
      /\ Len(r) \in Nat
  <2> HIDE DEF f
  <2>1. /\ Len(r) \in Nat
        /\ Len(t) = Len(r) + Len(f)
        /\ \A i \in 1 .. Len(r) + Len(f) : t[i] = IF i <= Len(r) THEN r[i] ELSE f[i - Len(r)]
    BY <1>1, ConcatProperties, LenProperties, Zenon
  <2> HIDE DEF t
  <2>2. Prefix + len \in Nat
    BY FramingAssumption
  <2>3. ASSUME NEW i \in Len(r) + 1 .. Len(t)
        PROVE  t[i] = At(Len(s) + 1, i - Len(r))
    <3>1. i \in 1 .. Len(r) + Len(f) /\ ~(i <= Len(r)) /\ i - Len(r) \in 1 .. Prefix + len
      BY <1>1, <2>1, <2>2
    <3> QED
      BY <3>1, <2>1, <1>1
  <2>4. ASSUME NEW i \in 1 .. Len(r)
        PROVE  t[i] = r[i]
    <3>1. i \in 1 .. Len(r) + Len(f) /\ i <= Len(r)
      BY <1>1, <2>1, <2>2
    <3> QED
      BY <3>1, <2>1
  <2>5. Len(t) = Len(r) + (Prefix + len)
    BY <1>1, <2>1
  <2> QED
    BY <2>1, <2>3, <2>4, <2>5, Zenon
<1>3. /\ \A m \in 1 .. Len(s) : u[m] = s[m] /\ s[m] \in Nat
      /\ u[Len(s) + 1] = len
      /\ Len(s) \in Nat
  OBVIOUS
<1> HIDE DEF f, t, u
<1>4. SUFFICES ASSUME NEW j \in 1 .. Len(t), NEW i \in 0 .. j - 1
               PROVE  LET b == Place(p, t, i) IN
                      /\ b.at + (j - i) <= Prefix + u[b.msg] => t[j] = At(b.msg, b.at + (j - i))
                      /\ b.at + (j - i) = Prefix + u[b.msg] + 1 => t[j] = At(b.msg + 1, 1)
  BY Zenon DEF Continues, f, t, u
<1> DEFINE b == Place(p, t, i)
<1>5. SUFFICES /\ b.at + (j - i) <= Prefix + u[b.msg] => t[j] = At(b.msg, b.at + (j - i))
               /\ b.at + (j - i) = Prefix + u[b.msg] + 1 => t[j] = At(b.msg + 1, 1)
  OBVIOUS
<1>num. /\ i \in Nat /\ j \in Nat /\ 1 <= j /\ j <= Len(t) /\ i + 1 <= j
        /\ Len(t) \in Nat /\ Prefix \in Nat /\ Prefix >= 1
  BY <1>2, FramingAssumption
\* Inside the new frame, or at its beginning.
<1>6. ASSUME b.msg = Len(s) + 1, b.at + (j - i) = j - Len(r), j > Len(r)
      PROVE  /\ b.at + (j - i) <= Prefix + u[b.msg] => t[j] = At(b.msg, b.at + (j - i))
             /\ b.at + (j - i) = Prefix + u[b.msg] + 1 => t[j] = At(b.msg + 1, 1)
  <2>1. t[j] = At(b.msg, b.at + (j - i))
    <3>1. j \in Len(r) + 1 .. Len(t)
      BY <1>6, <1>2, <1>num
    <3>2. t[j] = At(Len(s) + 1, j - Len(r))
      BY <1>2, <3>1, Zenon
    <3> QED
      BY <1>6, <3>2
  <2>2. u[b.msg] = len
    BY <1>6, <1>3
  <2>3. j - Len(r) <= Prefix + len
    BY <1>2, <1>num
  <2>4. b.at + (j - i) # Prefix + u[b.msg] + 1
    BY <1>6, <2>2, <2>3, <1>2, <1>num
  <2> QED
    BY <2>1, <2>4
<1>7. CASE i > Len(r)
  <2>1. b.msg = Len(s) + 1 /\ b.at = i - Len(r)
    <3>1. i # 0 /\ i \in Len(r) + 1 .. Len(t)
      BY <1>7, <1>2, <1>num
    <3>2. b = At(Len(s) + 1, i - Len(r))
      BY <3>1, <1>2 DEF Place
    <3> QED
      BY <3>2 DEF At
  <2>2. b.at + (j - i) = j - Len(r) /\ j > Len(r)
    BY <2>1, <1>7, <1>2, <1>num
  <2> QED
    BY <2>1, <2>2, <1>6
<1>8. CASE p.msg > Len(s)
  <2>1. Len(r) = 0 /\ p.msg = Len(s) + 1 /\ p.at = 0
    BY <1>8 DEF At
  <2>2. CASE i = 0
    BY <2>1, <2>2, <1>6, <1>2 DEF Place
  <2> QED
    BY <2>1, <2>2, <1>7
<1>9. CASE i <= Len(r) /\ p.msg <= Len(s)
  <2>1. b = Place(p, r, i)
    BY <1>2, <1>9 DEF Place
  <2>2. b.msg \in 1 .. Len(s) /\ b.at \in Nat
    <3>1. CASE i = 0
      BY <3>1, <1>9, <1>3 DEF Place
    <3>2. CASE i # 0
      <4>1. i \in 1 .. Len(r) /\ b = r[i] /\ r[i] \in Byte
        BY <3>2, <1>9, <1>2, <2>1 DEF Place
      <4> QED
        BY <4>1 DEF Within, Byte
    <3> QED
      BY <3>1, <3>2
  <2>3. u[b.msg] = s[b.msg] /\ s[b.msg] \in Nat
    BY <2>2, <1>3, Zenon
  <2>4. Place(p, r, Len(r)) = At(Len(s), Prefix + s[Len(s)])
    BY <1>9, <1>3
  <2> HIDE DEF b
  <2>5. CASE j <= Len(r)
    <3>1. j \in 1 .. Len(r) /\ t[j] = r[j]
      BY <2>5, <1>2
    <3> QED
      BY <3>1, <2>1, <2>3 DEF Continues
  <2>6. CASE j > Len(r)
    \* Were the frame of b to go on, the last byte of r would belong to it.
    <3>1. b.at + (Len(r) - i) <= Prefix + s[b.msg]
              => b.msg = Len(s) /\ b.at + (Len(r) - i) = Prefix + s[b.msg]
      <4>1. CASE i = Len(r)
        <5>1. b = At(Len(s), Prefix + s[Len(s)])
          BY <4>1, <2>1, <2>4
        <5> QED
          BY <5>1, <4>1, <2>2, <1>2, FramingAssumption DEF At
      <4>2. CASE i < Len(r)
        <5>1. Len(r) \in 1 .. Len(r) /\ i \in 0 .. Len(r) - 1
          BY <4>2, <1>2
        <5>2. b.at + (Len(r) - i) <= Prefix + s[b.msg] => r[Len(r)] = At(b.msg, b.at + (Len(r) - i))
          BY <5>1, <2>1 DEF Continues
        <5>3. r[Len(r)] = At(Len(s), Prefix + s[Len(s)])
          BY <2>4, <5>1 DEF Place
        <5> QED
          BY <5>2, <5>3 DEF At
      <4> QED
        BY <4>1, <4>2, <1>9, <1>2
    <3>2. t[Len(r) + 1] = At(Len(s) + 1, 1)
      <4>1. Len(r) + 1 \in Len(r) + 1 .. Len(t) /\ (Len(r) + 1) - Len(r) = 1
        BY <2>6, <1>2, <1>num
      <4> QED
        BY <4>1, <1>2
    <3>3. Len(r) \in Nat /\ Len(r) < j /\ b.at \in Nat /\ s[b.msg] \in Nat
      BY <2>6, <2>2, <2>3, <1>2
    <3> DEFINE a == b.at
               z == Prefix + s[b.msg]
               l == Len(r)
    <3>4. a \in Nat /\ z \in Nat /\ l \in Nat
      <4>1. a \in Nat
        BY <3>3
      <4>2. z \in Nat
        <5> DEFINE c == s[b.msg]
        <5>1. c \in Nat
          BY <3>3
        <5> HIDE DEF c
        <5>2. Prefix + c \in Nat
          BY <5>1, <1>num
        <5> QED
          BY <5>2 DEF c
      <4>3. l \in Nat
        BY <3>3
      <4> QED
        BY <4>1, <4>2, <4>3
    <3>5. a + (l - i) <= z => b.msg = Len(s) /\ a + (l - i) = z
      BY <3>1
    <3>6. l < j
      BY <3>3
    <3> HIDE DEF a, z, l
    <3>7. ~(a + (j - i) <= z)
      BY <3>4, <3>5, <3>6, <1>num
    <3>8. a + (j - i) = z + 1 => b.msg = Len(s) /\ j = l + 1
      BY <3>4, <3>5, <3>6, <1>num
    <3> QED
      BY <3>2, <3>7, <3>8, <2>3 DEF a, z, l
  <2> QED
    BY <2>5, <2>6, <1>2
<1> QED
  BY <1>7, <1>8, <1>9, <1>2, <1>3

-----------------------------------------------------------------------------
(***************************************************************************)
(* The invariant.                                                          *)
(***************************************************************************)

\* The two ends of the rest.
LEMMA RestParts ==
    ASSUME FramingTypeOK
    PROVE  /\ Rest \in Seq(Byte)
           /\ Len(socket) \in Nat /\ Len(unsent) \in Nat
           /\ Len(Rest) = Len(socket) + Len(unsent)
           /\ \A i \in 1 .. Len(socket) : Rest[i] = socket[i]
           /\ \A i \in 1 .. Len(unsent) : Rest[Len(socket) + i] = unsent[i]
<1>1. socket \in Seq(Byte) /\ unsent \in Seq(Byte)
  BY DEF FramingTypeOK
<1>2. Len(socket) \in Nat /\ Len(unsent) \in Nat
  BY <1>1, LenProperties, Zenon
<1>3. /\ Rest \in Seq(Byte)
      /\ Len(Rest) = Len(socket) + Len(unsent)
      /\ \A i \in 1 .. Len(socket) + Len(unsent) :
             Rest[i] = IF i <= Len(socket) THEN socket[i] ELSE unsent[i - Len(socket)]
  BY <1>1, ConcatProperties, Zenon DEF Rest
<1>4. ASSUME NEW i \in 1 .. Len(socket)
      PROVE  Rest[i] = socket[i]
  BY <1>2, <1>3
<1>5. ASSUME NEW i \in 1 .. Len(unsent)
      PROVE  Rest[Len(socket) + i] = unsent[i]
  <2>1. /\ Len(socket) + i \in 1 .. Len(socket) + Len(unsent)
        /\ ~(Len(socket) + i <= Len(socket)) /\ (Len(socket) + i) - Len(socket) = i
    BY <1>2
  <2> QED
    BY <2>1, <1>3
<1> QED
  BY <1>2, <1>3, <1>4, <1>5

\* The saved state as numbers.
LEMMA SavedNumbers ==
    ASSUME FramingTypeOK
    PROVE  /\ state.got \in Seq(Byte) /\ Len(state.got) \in Nat
           /\ state.at \in {"ReadLen", "ReadVal"}
           /\ Present \in Nat \ {0} /\ Taken \in Nat
           /\ state.at = "ReadLen" => Taken = Len(state.got) /\ Missing(state) = Prefix - Len(state.got)
           /\ state.at = "ReadVal" => /\ Taken = Len(state.got) + Prefix
                                      /\ state.len \in Nat /\ Missing(state) = state.len - Len(state.got)
           /\ Len(sent) \in Nat
           /\ \A m \in 1 .. Len(sent) : sent[m] \in Nat
<1>1. state.got \in Seq(Byte) /\ state.at \in {"ReadLen", "ReadVal"}
  BY DEF FramingTypeOK
<1>2. state.at = "ReadVal" => state.len \in Nat
  BY DEF FramingTypeOK
<1>3. Len(state.got) \in Nat /\ Len(delivered) \in Nat /\ Len(sent) \in Nat
  BY <1>1, LenProperties DEF FramingTypeOK
<1>4. \A m \in 1 .. Len(sent) : sent[m] \in Nat
  BY DEF FramingTypeOK
<1>5. Present \in Nat \ {0}
  BY <1>3 DEF Present
<1>6. CASE state.at = "ReadLen"
  <2>1. Taken = Len(state.got) /\ Missing(state) = Prefix - Len(state.got)
    BY <1>6, <1>3 DEF Taken, Missing, Wanted
  <2> QED
    BY <2>1, <1>1, <1>2, <1>3, <1>4, <1>5, <1>6
<1>7. CASE state.at = "ReadVal"
  <2>1. Taken = Len(state.got) + Prefix /\ Missing(state) = state.len - Len(state.got)
    BY <1>7 DEF Taken, Missing, Wanted
  <2>2. Len(state.got) + Prefix \in Nat
    BY <1>3, FramingAssumption
  <2> QED
    BY <2>1, <2>2, <1>1, <1>2, <1>3, <1>4, <1>5, <1>7
<1> QED
  BY <1>1, <1>6, <1>7

\* Bytes cut in two.
LEMMA Cut ==
    ASSUME NEW r \in Seq(Byte), NEW n \in 1 .. Len(r)
    PROVE  /\ Len(r) \in Nat
           /\ SubSeq(r, 1, n) \in Seq(Byte) /\ Len(SubSeq(r, 1, n)) = n
           /\ \A i \in 1 .. n : SubSeq(r, 1, n)[i] = r[i]
           /\ SubSeq(r, n + 1, Len(r)) \in Seq(Byte) /\ Len(SubSeq(r, n + 1, Len(r))) = Len(r) - n
           /\ \A i \in 1 .. Len(r) - n : SubSeq(r, n + 1, Len(r))[i] = r[i + n]
OBVIOUS

\* Steps that leave alone what is written and what is saved.
LEMMA SameBytes ==
    ASSUME SavedOK, RestOK, UNCHANGED <<sent, unsent, socket, state, delivered>>
    PROVE  SavedOK' /\ RestOK'
BY DEF SavedOK, RestOK, Present, Taken, Rest, Missing, Wanted

\* MessageWriter::serialize puts a frame behind all others.
LEMMA SerializeKeeps ==
    ASSUME FramingTypeOK, SavedOK, RestOK, NEW len \in 0 .. MaxLen, Serialize(len)
    PROVE  FramingTypeOK' /\ SavedOK' /\ RestOK'
<1> DEFINE f == Frame(Len(sent) + 1, len)
           p == At(Present, Taken)
<1>1. len \in Nat /\ Prefix \in Nat /\ Prefix >= 1 /\ Prefix + len \in Nat /\ Prefix + len >= 1
  BY FramingAssumption
<1>2. /\ sent' = Append(sent, len) /\ unsent = <<>> /\ unsent' = f
      /\ UNCHANGED <<socket, hung, state, reading, delivered>>
  BY DEF Serialize
<1>3. /\ Len(sent) \in Nat /\ Len(sent') = Len(sent) + 1
      /\ sent' \in Seq(Nat)
      /\ \A m \in 1 .. Len(sent) : sent'[m] = sent[m]
      /\ sent'[Len(sent) + 1] = len
  BY <1>1, <1>2 DEF FramingTypeOK
<1>4. /\ f \in Seq(Byte) /\ Len(f) = Prefix + len
      /\ \A i \in 1 .. Prefix + len : f[i] = At(Len(sent) + 1, i)
  BY <1>1, <1>3 DEF Frame, Byte, At
<1> HIDE DEF f
<1>5. FramingTypeOK'
  BY <1>2, <1>3, <1>4 DEF FramingTypeOK
<1>6. Present' = Present /\ Taken' = Taken /\ p.msg = Present /\ p.at = Taken
  BY <1>2 DEF Present, Taken, At
<1>7. SavedOK'
  <2>1. Present \in 1 .. Len(sent') + 1 /\ Missing(state)' >= 0
    BY <1>2, <1>3 DEF SavedOK, Missing, Wanted
  <2>2. state.at = "ReadVal" => Present <= Len(sent') /\ state.len = sent'[Present]
    BY <1>3, SavedNumbers DEF SavedOK
  <2> QED
    BY <2>1, <2>2, <1>2, <1>6 DEF SavedOK
<1>8. Rest = socket /\ Rest' = Rest \o f
  BY <1>2, ConcatEmptySeq, Zenon DEF Rest, FramingTypeOK
<1>9. RestOK'
  <2>1. Rest \in Seq(Byte) /\ Rest' \in Seq(Byte) /\ Len(Rest) \in Nat
    BY RestParts, <1>5, <1>4, <1>8, ConcatProperties, LenProperties, Zenon
  <2>2. /\ Len(Rest') = Len(Rest) + Len(f)
        /\ \A i \in 1 .. Len(Rest) + Len(f) :
               Rest'[i] = IF i <= Len(Rest) THEN Rest[i] ELSE f[i - Len(Rest)]
    BY <2>1, <1>4, <1>8, ConcatProperties, ZenonT(40)
  <2>3. Continues(sent', At(Present, Taken)', Rest')
    <3>1. IF p.msg > Len(sent) THEN p = At(Len(sent) + 1, 0) /\ Rest = <<>>
          ELSE Place(p, Rest, Len(Rest)) = At(Len(sent), Prefix + sent[Len(sent)])
      <4>1. Present \in 1 .. Len(sent) + 1
        BY DEF SavedOK
      <4> QED
        BY <4>1, <1>3, <1>6 DEF RestOK
    <3>2. Continues(sent, p, Rest) /\ Within(sent, Rest)
      BY DEF RestOK
    <3>3. p.msg \in Nat \ {0} /\ p.at \in Nat /\ sent \in Seq(Nat)
      BY SavedNumbers, <1>6 DEF FramingTypeOK
    <3> HIDE DEF p
    <3>4. Continues(Append(sent, len), p, Rest \o Frame(Len(sent) + 1, len))
      BY <3>1, <3>2, <3>3, <2>1, <1>1, ContinuesWithFrame
    <3>5. At(Present, Taken)' = p
      BY <1>6 DEF p
    <3> QED
      BY <3>4, <3>5, <1>2, <1>8 DEF f
  <2>4. Within(sent', Rest')
    <3> SUFFICES ASSUME NEW i \in 1 .. Len(Rest')
                 PROVE  Rest'[i].msg \in 1 .. Len(sent') /\ Rest'[i].at <= Prefix + sent'[Rest'[i].msg]
      BY DEF Within
    <3>1. CASE i <= Len(Rest)
      <4>1. i \in 1 .. Len(Rest) /\ Rest'[i] = Rest[i]
        BY <3>1, <2>1, <2>2, <1>1, <1>4
      <4>2. Rest[i].msg \in 1 .. Len(sent) /\ Rest[i].at <= Prefix + sent[Rest[i].msg]
        BY <4>1 DEF RestOK, Within
      <4> QED
        BY <4>1, <4>2, <1>3
    <3>2. CASE i > Len(Rest)
      <4>1. i - Len(Rest) \in 1 .. Prefix + len /\ i \in 1 .. Len(Rest) + Len(f)
        BY <3>2, <2>1, <2>2, <1>1, <1>4
      <4>2. Rest'[i] = At(Len(sent) + 1, i - Len(Rest))
        BY <4>1, <3>2, <2>1, <2>2, <1>4
      <4>3. Rest'[i].msg = Len(sent) + 1 /\ Rest'[i].at = i - Len(Rest)
        BY <4>2 DEF At
      <4> QED
        BY <4>1, <4>3, <1>1, <1>3
    <3> QED
      BY <3>1, <3>2, <2>1, <2>2, <1>1, <1>4
  <2>5. Place(At(Present, Taken), Rest, Len(Rest))' = At(Len(sent'), Prefix + sent'[Len(sent')])
    <3>1. Len(Rest') # 0 /\ Len(Rest') \in 1 .. Len(Rest) + Len(f) /\ ~(Len(Rest') <= Len(Rest))
          /\ Len(Rest') - Len(Rest) = Prefix + len /\ Prefix + len \in 1 .. Prefix + len
      BY <2>1, <2>2, <1>1, <1>4
    <3>2. Rest'[Len(Rest')] = At(Len(sent) + 1, Prefix + len)
      BY <3>1, <2>2, <1>4
    <3>3. Place(At(Present, Taken), Rest, Len(Rest))' = Rest'[Len(Rest')]
      BY <3>1 DEF Place
    <3> QED
      BY <3>2, <3>3, <1>3
  <2>6. ~(Present' > Len(sent'))
    BY <1>3, <1>6 DEF SavedOK
  <2>7. \A i \in 1 .. Len(unsent') : unsent'[i].msg = Len(sent')
    BY <1>2, <1>3, <1>4 DEF At
  <2> QED
    BY <2>3, <2>4, <2>5, <2>6, <2>7 DEF RestOK
<1> QED
  BY <1>5, <1>7, <1>9

\* write_message moves bytes from the buffer to the socket.
LEMMA WriteKeeps ==
    ASSUME FramingTypeOK, SavedOK, RestOK, NEW n \in Nat, WriteMessage(n)
    PROVE  FramingTypeOK' /\ SavedOK' /\ RestOK'
<1>1. /\ n \in 1 .. Len(unsent)
      /\ socket' = socket \o SubSeq(unsent, 1, n)
      /\ unsent' = SubSeq(unsent, n + 1, Len(unsent))
      /\ UNCHANGED <<sent, hung, state, reading, delivered>>
  BY DEF WriteMessage
<1>2. /\ SubSeq(unsent, 1, n) \in Seq(Byte) /\ unsent' \in Seq(Byte)
      /\ Len(unsent) \in Nat /\ Len(unsent') = Len(unsent) - n
      /\ \A i \in 1 .. Len(unsent') : unsent'[i] = unsent[i + n]
  <2> DEFINE t == SubSeq(unsent, n + 1, Len(unsent))
  <2>1. unsent \in Seq(Byte)
    BY DEF FramingTypeOK
  <2>2. /\ Len(unsent) \in Nat /\ SubSeq(unsent, 1, n) \in Seq(Byte)
        /\ t \in Seq(Byte) /\ Len(t) = Len(unsent) - n
        /\ \A i \in 1 .. Len(unsent) - n : t[i] = unsent[i + n]
    BY <2>1, <1>1, Cut, Zenon
  <2>3. unsent' = t
    BY <1>1
  <2> HIDE DEF t
  <2> QED
    BY <2>2, <2>3
<1>3. socket' \in Seq(Byte)
  BY <1>1, <1>2, ConcatProperties, Zenon DEF FramingTypeOK
<1>4. FramingTypeOK'
  BY <1>1, <1>2, <1>3 DEF FramingTypeOK
<1>5. SubSeq(unsent, 1, n) \o SubSeq(unsent, n + 1, Len(unsent)) = unsent
  <2>1. /\ 1 \in 1 .. Len(unsent) + 1 /\ n \in 1 - 1 .. Len(unsent)
        /\ Len(unsent) \in n .. Len(unsent)
    BY <1>1, <1>2
  <2>2. unsent \in Seq(Byte)
    BY DEF FramingTypeOK
  <2>3. SubSeq(unsent, 1, n) \o SubSeq(unsent, n + 1, Len(unsent)) = SubSeq(unsent, 1, Len(unsent))
    BY <2>1, <2>2, ConcatAdjacentSubSeq, Zenon
  <2> QED
    BY <2>2, <2>3, SubSeqFull, Zenon
<1>6. Rest' = Rest
  <2>1. socket \in Seq(Byte)
    BY DEF FramingTypeOK
  <2>2. Rest' = (socket \o SubSeq(unsent, 1, n)) \o SubSeq(unsent, n + 1, Len(unsent))
    BY <1>1 DEF Rest
  <2>3. Rest' = socket \o (SubSeq(unsent, 1, n) \o SubSeq(unsent, n + 1, Len(unsent)))
    <3>1. SubSeq(unsent, 1, n) \in Seq(Byte) /\ SubSeq(unsent, n + 1, Len(unsent)) \in Seq(Byte)
      BY <1>1, <1>2
    <3> DEFINE x == SubSeq(unsent, 1, n)
               y == SubSeq(unsent, n + 1, Len(unsent))
               z == socket
    <3>2. x \in Seq(Byte) /\ y \in Seq(Byte) /\ z \in Seq(Byte) /\ Rest' = (z \o x) \o y
      BY <3>1, <2>1, <2>2
    <3> HIDE DEF x, y, z
    <3>3. (z \o x) \o y = z \o (x \o y)
      BY <3>2, ConcatAssociative
    <3> QED
      BY <3>2, <3>3, Zenon DEF x, y, z
  <2> QED
    BY <2>3, <1>5, Zenon DEF Rest
<1>7. \A i \in 1 .. Len(unsent') : unsent'[i].msg = Len(sent')
  <2> SUFFICES ASSUME NEW i \in 1 .. Len(unsent') PROVE unsent'[i].msg = Len(sent)
    BY <1>1
  <2>1. i + n \in 1 .. Len(unsent) /\ unsent'[i] = unsent[i + n]
    BY <1>1, <1>2
  <2> QED
    BY <2>1 DEF RestOK
<1>8. Present' = Present /\ Taken' = Taken
  BY <1>1 DEF Present, Taken
<1>9. SavedOK'
  BY <1>1, <1>8 DEF SavedOK, Missing, Wanted
<1>10. RestOK'
  BY <1>1, <1>6, <1>7, <1>8 DEF RestOK
<1> QED
  BY <1>4, <1>9, <1>10

\* A read adds to what is saved the bytes that follow it.
LEMMA ReadKeeps ==
    ASSUME FramingTypeOK, SavedOK, RestOK, NEW n \in Nat, ReadSome(n)
    PROVE  FramingTypeOK' /\ SavedOK' /\ RestOK'
<1> DEFINE p == At(Present, Taken)
<1>1. /\ n \in 1 .. Missing(state) /\ n <= Len(socket)
      /\ state' = [state EXCEPT !.got = @ \o SubSeq(socket, 1, n)]
      /\ socket' = SubSeq(socket, n + 1, Len(socket))
      /\ UNCHANGED <<sent, unsent, hung, reading, delivered>>
  BY DEF ReadSome
<1>2. socket \in Seq(Byte) /\ unsent \in Seq(Byte) /\ Len(socket) \in Nat /\ Len(unsent) \in Nat
  BY RestParts DEF FramingTypeOK
<1>3. n >= 1 /\ n <= Missing(state)
  BY <1>1, SavedNumbers, FramingAssumption
<1>4. /\ SubSeq(socket, 1, n) \in Seq(Byte) /\ Len(SubSeq(socket, 1, n)) = n
      /\ \A i \in 1 .. n : SubSeq(socket, 1, n)[i] = socket[i]
      /\ socket' \in Seq(Byte) /\ Len(socket') = Len(socket) - n
      /\ \A i \in 1 .. Len(socket') : socket'[i] = socket[i + n]
  <2>1. n \in 1 .. Len(socket)
    BY <1>1, <1>2, <1>3
  <2> QED
    BY <2>1, <1>1, <1>2, Cut
<1>5. /\ state'.at = state.at
      /\ state'.got = state.got \o SubSeq(socket, 1, n)
      /\ state.at = "ReadVal" => state'.len = state.len
  BY <1>1, Zenon DEF FramingTypeOK
<1>6. /\ state'.got \in Seq(Byte) /\ Len(state'.got) = Len(state.got) + n
      /\ \A i \in 1 .. Len(state.got) + n :
             state'.got[i] = IF i <= Len(state.got) THEN state.got[i] ELSE SubSeq(socket, 1, n)[i - Len(state.got)]
  <2>1. state.got \in Seq(Byte)
    BY SavedNumbers
  <2> DEFINE x == SubSeq(socket, 1, n)
  <2>2. x \in Seq(Byte) /\ Len(x) = n
    BY <1>4
  <2> HIDE DEF x
  <2>3. /\ state.got \o x \in Seq(Byte) /\ Len(state.got \o x) = Len(state.got) + Len(x)
        /\ \A i \in 1 .. Len(state.got) + Len(x) :
               (state.got \o x)[i] = IF i <= Len(state.got) THEN state.got[i] ELSE x[i - Len(state.got)]
    BY <2>1, <2>2, ConcatProperties, Zenon
  <2>4. state'.got = state.got \o x
    BY <1>5 DEF x
  <2>5. /\ state'.got \in Seq(Byte) /\ Len(state'.got) = Len(state.got) + n
        /\ \A i \in 1 .. Len(state.got) + n :
               state'.got[i] = IF i <= Len(state.got) THEN state.got[i] ELSE x[i - Len(state.got)]
    BY <2>2, <2>3, <2>4, Zenon
  <2> QED
    BY <2>5 DEF x
<1>7. FramingTypeOK'
  <2>1. \/ state' \in [at : {"ReadLen"}, got : Seq(Byte)]
        \/ state' \in [at : {"ReadVal"}, got : Seq(Byte), len : Nat]
    <3>1. state'.got \in Seq(Byte) /\ state.got \o SubSeq(socket, 1, n) \in Seq(Byte)
      BY <1>5, <1>6
    <3> QED
      BY <3>1, <1>1, Zenon DEF FramingTypeOK
  <2> QED
    BY <2>1, <1>1, <1>4 DEF FramingTypeOK
<1>8. Present' = Present /\ Taken' = Taken + n /\ p.msg = Present /\ p.at = Taken
  <2>1. Present' = Present /\ p.msg = Present /\ p.at = Taken
    BY <1>1 DEF Present, At
  <2>2. Taken' = Taken + n
    <3> DEFINE g == Len(state.got)
               o == IF state.at = "ReadLen" THEN 0 ELSE Prefix
    <3>1. g \in Nat /\ o \in Nat /\ Taken = g + o
      BY SavedNumbers, FramingAssumption DEF Taken
    <3>2. Taken' = (g + n) + o
      BY <1>5, <1>6, Zenon DEF Taken
    <3> HIDE DEF g, o
    <3> QED
      BY <3>1, <3>2
  <2> QED
    BY <2>1, <2>2
<1>9. Rest \in Seq(Byte) /\ Len(Rest) \in Nat /\ n \in 1 .. Len(Rest) /\ Rest # <<>>
  BY RestParts, <1>1, <1>2, <1>3
<1>10. /\ Present \in 1 .. Len(sent) /\ sent[Present] \in Nat
       /\ Taken + n <= Prefix + sent[Present]
  <2>1. Present \in 1 .. Len(sent)
    BY <1>9, SavedNumbers DEF RestOK, SavedOK
  <2>2. sent[Present] \in Nat
    BY <2>1, SavedNumbers
  <2> DEFINE g == Len(state.got)
             c == sent[Present]
  <2>g. g \in Nat /\ c \in Nat /\ Prefix \in Nat
    BY <2>2, SavedNumbers, FramingAssumption
  <2>3. CASE state.at = "ReadLen"
    <3>1. n <= Prefix - g /\ Taken = g
      BY <2>3, <1>3, SavedNumbers
    <3> HIDE DEF g, c
    <3>2. Taken + n <= Prefix + c
      BY <3>1, <2>g
    <3> QED
      BY <3>2, <2>1, <2>2 DEF c
  <2>4. CASE state.at = "ReadVal"
    <3>1. n <= c - g /\ Taken = g + Prefix
      BY <2>4, <1>3, SavedNumbers DEF SavedOK
    <3> HIDE DEF g, c
    <3>2. Taken + n <= Prefix + c
      BY <3>1, <2>g
    <3> QED
      BY <3>2, <2>1, <2>2 DEF c
  <2> QED
    BY <2>1, <2>2, <2>3, <2>4, SavedNumbers
<1>11. \A i \in 1 .. n : Rest[i] = At(Present, Taken + i)
  <2>1. Continues(sent, p, Rest) /\ p.at \in Nat /\ sent[p.msg] \in Nat /\ p.at + n <= Prefix + sent[p.msg]
    BY <1>8, <1>10, SavedNumbers DEF RestOK
  <2>2. At(Present, Taken) = p
    OBVIOUS
  <2> HIDE DEF p
  <2> SUFFICES ASSUME NEW i \in 1 .. n PROVE Rest[i] = At(Present, Taken + i)
    OBVIOUS
  <2>3. Rest[i] = At(p.msg, p.at + i)
    BY <2>1, <1>9, NextBytes
  <2> QED
    BY <2>3, <1>8
<1>12. SavedOK'
  <2>1. Missing(state)' >= 0
    BY <1>3, <1>5, <1>6, SavedNumbers, FramingAssumption DEF Missing, Wanted
  <2>2. ASSUME NEW i \in 1 .. Len(state'.got)
        PROVE  state'.got[i] = At(Present, i + IF state.at = "ReadLen" THEN 0 ELSE Prefix)
    <3>1. CASE i <= Len(state.got)
      <4>1. i \in 1 .. Len(state.got) /\ i \in 1 .. Len(state.got) + n
        BY <3>1, <1>6, SavedNumbers
      <4> QED
        BY <4>1, <3>1, <1>6 DEF SavedOK
    <3>2. CASE ~(i <= Len(state.got))
      <4> DEFINE g == Len(state.got)
                 o == IF state.at = "ReadLen" THEN 0 ELSE Prefix
      <4>g. g \in Nat /\ o \in Nat /\ Taken = g + o /\ ~(i <= g) /\ i \in 1 .. g + n
        BY <3>2, <1>6, SavedNumbers, FramingAssumption DEF Taken
      <4> HIDE DEF g, o
      <4>1. i \in 1 .. Len(state.got) + n /\ i - Len(state.got) \in 1 .. n /\ i - Len(state.got) \in 1 .. Len(socket)
        <5>0. n <= Len(socket) /\ Len(socket) \in Nat
          BY <1>1, RestParts
        <5>1. i \in 1 .. g + n /\ i - g \in 1 .. n /\ i - g \in 1 .. Len(socket)
          BY <4>g, <5>0
        <5> QED
          BY <5>1 DEF g
      <4>2. state'.got[i] = socket[i - Len(state.got)]
        BY <4>1, <3>2, <1>4, <1>6
      <4>3. state'.got[i] = At(Present, Taken + (i - Len(state.got)))
        BY <4>1, <4>2, <1>11, RestParts, Zenon
      <4>4. Taken + (i - Len(state.got)) = i + IF state.at = "ReadLen" THEN 0 ELSE Prefix
        <5>1. Taken + (i - g) = i + o
          BY <4>g
        <5> QED
          BY <5>1 DEF g, o
      <4> QED
        BY <4>3, <4>4
    <3> QED
      BY <3>1, <3>2
  <2>3. /\ Present \in 1 .. Len(sent) + 1
        /\ state.at = "ReadVal" => Present <= Len(sent) /\ state'.len = sent[Present]
    BY <1>5 DEF SavedOK
  <2> QED
    BY <2>1, <2>2, <2>3, <1>1, <1>5, <1>8, ZenonT(40) DEF SavedOK
<1>13. Rest' = SubSeq(Rest, n + 1, Len(Rest))
  <2> DEFINE t == SubSeq(Rest, n + 1, Len(Rest))
  <2>1. /\ t \in Seq(Byte) /\ Len(t) = Len(Rest) - n
        /\ \A i \in 1 .. Len(t) : t[i] = Rest[i + n]
    BY <1>9
  <2>2. /\ Rest' \in Seq(Byte) /\ Len(Rest') = (Len(socket) - n) + Len(unsent)
        /\ \A i \in 1 .. (Len(socket) - n) + Len(unsent) :
               Rest'[i] = IF i <= Len(socket) - n THEN socket'[i] ELSE unsent[i - (Len(socket) - n)]
    <3>1. Rest' = socket' \o unsent
      BY <1>1 DEF Rest
    <3> DEFINE x == socket'
    <3>2. x \in Seq(Byte) /\ Len(x) = Len(socket) - n /\ Rest' = x \o unsent
      BY <3>1, <1>4
    <3> HIDE DEF x
    <3>3. /\ x \o unsent \in Seq(Byte) /\ Len(x \o unsent) = Len(x) + Len(unsent)
          /\ \A i \in 1 .. Len(x) + Len(unsent) :
                 (x \o unsent)[i] = IF i <= Len(x) THEN x[i] ELSE unsent[i - Len(x)]
      BY <3>2, <1>2, ConcatProperties, Zenon
    <3>4. /\ Rest' \in Seq(Byte) /\ Len(Rest') = (Len(socket) - n) + Len(unsent)
          /\ \A i \in 1 .. (Len(socket) - n) + Len(unsent) :
                 Rest'[i] = IF i <= Len(socket) - n THEN x[i] ELSE unsent[i - (Len(socket) - n)]
      BY <3>2, <3>3, Zenon
    <3> QED
      BY <3>4 DEF x
  <2> HIDE DEF t
  <2>3. Len(Rest') = Len(t)
    BY <2>1, <2>2, <1>2, RestParts
  <2>4. ASSUME NEW i \in 1 .. Len(Rest')
        PROVE  Rest'[i] = t[i]
    <3>1. t[i] = Rest[i + n]
      BY <2>1, <2>3
    <3>2. CASE i <= Len(socket) - n
      <4>1. i \in 1 .. Len(socket') /\ i + n \in 1 .. Len(socket)
        BY <3>2, <1>2, <1>3, <1>4, <2>2
      <4>2. Rest'[i] = socket[i + n]
        BY <4>1, <3>2, <2>2, <1>4
      <4> QED
        BY <4>1, <4>2, <3>1, RestParts
    <3>3. CASE ~(i <= Len(socket) - n)
      <4>1. /\ i - (Len(socket) - n) \in 1 .. Len(unsent)
            /\ Len(socket) + (i - (Len(socket) - n)) = i + n
        BY <3>3, <1>2, <2>2
      <4>2. Rest'[i] = unsent[i - (Len(socket) - n)]
        BY <3>3, <2>2
      <4> QED
        BY <4>1, <4>2, <3>1, RestParts
    <3> QED
      BY <3>2, <3>3
  <2>5. Rest' = t
    BY <2>1, <2>2, <2>3, <2>4, SeqEqual, Zenon
  <2> QED
    BY <2>5 DEF t
<1>14. RestOK'
  <2>1. p.at \in Nat /\ sent[p.msg] \in Nat /\ p.at + n <= Prefix + sent[p.msg] /\ Continues(sent, p, Rest)
    BY <1>8, <1>10, SavedNumbers DEF RestOK
  <2>2. At(Present, Taken)' = At(p.msg, p.at + n)
    BY <1>8
  <2>3. Place(p, Rest, Len(Rest)) = At(Len(sent), Prefix + sent[Len(sent)])
    BY <1>10, SavedNumbers DEF RestOK
  <2> HIDE DEF p
  <2>4. /\ Continues(sent, At(p.msg, p.at + n), SubSeq(Rest, n + 1, Len(Rest)))
        /\ Place(At(p.msg, p.at + n), SubSeq(Rest, n + 1, Len(Rest)), Len(SubSeq(Rest, n + 1, Len(Rest))))
               = Place(p, Rest, Len(Rest))
    BY <2>1, <1>9, ContinuesBehind
  <2>5. Within(sent, Rest')
    <3>1. /\ Len(Rest') = Len(Rest) - n
          /\ \A i \in 1 .. Len(Rest') : Rest'[i] = Rest[i + n] /\ i + n \in 1 .. Len(Rest)
      BY <1>9, <1>13
    <3> QED
      BY <3>1 DEF RestOK, Within
  <2>6. ~(Present > Len(sent))
    BY <1>10, SavedNumbers
  <2>7. /\ Continues(sent, At(Present, Taken)', Rest')
        /\ Place(At(Present, Taken)', Rest', Len(Rest')) = At(Len(sent), Prefix + sent[Len(sent)])
    BY <2>2, <2>3, <2>4, <1>13
  <2> QED
    BY <2>5, <2>6, <2>7, <1>1, <1>8 DEF RestOK
<1> QED
  BY <1>7, <1>12, <1>14

\* A complete prefix belongs to the present message, and tells its length.
LEMMA LenReadKeeps ==
    ASSUME FramingTypeOK, SavedOK, RestOK, LenRead
    PROVE  FramingTypeOK' /\ SavedOK' /\ RestOK'
<1>1. /\ state.at = "ReadLen" /\ Missing(state) = 0
      /\ state' = [at |-> "ReadVal", got |-> <<>>, len |-> sent[state.got[1].msg]]
      /\ UNCHANGED <<sent, unsent, socket, hung, reading, delivered>>
  BY DEF LenRead
<1>2. Len(state.got) = Prefix /\ Taken = Prefix /\ Prefix \in Nat /\ Prefix >= 1
  BY <1>1, SavedNumbers, FramingAssumption
<1>3. Present \in 1 .. Len(sent) /\ sent[Present] \in Nat
  <2>1. Present \in 1 .. Len(sent) + 1 /\ ~(Present > Len(sent))
    BY <1>2 DEF SavedOK, RestOK
  <2> QED
    BY <2>1, SavedNumbers
<1>4. state.got[1].msg = Present
  <2>1. 1 \in 1 .. Prefix
    BY <1>2
  <2>2. state.got[1] = At(Present, 1 + IF state.at = "ReadLen" THEN 0 ELSE Prefix)
    BY <2>1, <1>2 DEF SavedOK
  <2> QED
    BY <2>2 DEF At
<1>5. state' = [at |-> "ReadVal", got |-> <<>>, len |-> sent[Present]]
  BY <1>1, <1>4
<1>6. FramingTypeOK'
  BY <1>1, <1>3, <1>5 DEF FramingTypeOK
<1>7. Present' = Present /\ Taken' = Taken /\ Rest' = Rest
  <2>1. Taken' = Prefix
    BY <1>2, <1>5 DEF Taken
  <2> QED
    BY <2>1, <1>1, <1>2 DEF Present, Rest
<1>8. SavedOK'
  <2>1. Missing(state)' >= 0
    BY <1>3, <1>5 DEF Missing, Wanted
  <2> QED
    BY <2>1, <1>1, <1>3, <1>5, <1>7, SavedNumbers DEF SavedOK
<1>9. RestOK'
  BY <1>1, <1>7 DEF RestOK
<1> QED
  BY <1>6, <1>8, <1>9

\* A complete value is that of the present message, which is the next to deliver.
LEMMA WholeValue ==
    ASSUME FramingTypeOK, SavedOK, RestOK, state.at = "ReadVal", Missing(state) = 0
    PROVE  /\ Present \in 1 .. Len(sent) /\ sent[Present] \in Nat
           /\ state.got = Payload(Present, sent[Present])
           /\ Taken = Prefix + sent[Present]
           /\ Present + 1 > Len(sent) => Rest = <<>>
<1>1. Present \in 1 .. Len(sent) /\ sent[Present] \in Nat
  BY SavedNumbers DEF SavedOK
<1>2. Len(state.got) = sent[Present] /\ Taken = Prefix + sent[Present]
  <2> DEFINE g == Len(state.got)
             c == sent[Present]
  <2>1. g \in Nat /\ c \in Nat /\ Taken = g + Prefix /\ 0 = c - g /\ Prefix \in Nat
    BY <1>1, SavedNumbers, FramingAssumption DEF SavedOK
  <2> HIDE DEF g, c
  <2>2. g = c /\ Taken = Prefix + c
    BY <2>1
  <2> QED
    BY <2>2 DEF g, c
<1>3. state.got = Payload(Present, sent[Present])
  <2>1. state.got \in [1 .. Len(state.got) -> Byte]
    BY SavedNumbers, LenProperties
  <2>2. \A i \in 1 .. Len(state.got) : state.got[i] = [msg |-> Present, at |-> Prefix + i]
    <3> SUFFICES ASSUME NEW i \in 1 .. Len(state.got)
                 PROVE  state.got[i] = [msg |-> Present, at |-> Prefix + i]
      BY Zenon
    <3>1. state.got[i] = At(Present, i + Prefix)
      BY DEF SavedOK
    <3>2. i + Prefix = Prefix + i
      BY SavedNumbers, FramingAssumption
    <3> QED
      BY <3>1, <3>2 DEF At
  <2>3. state.got = [i \in 1 .. Len(state.got) |-> [msg |-> Present, at |-> Prefix + i]]
    BY <2>1, <2>2, Zenon
  <2> QED
    BY <2>3, <1>2 DEF Payload
<1>4. ASSUME Present + 1 > Len(sent), Rest # <<>>
      PROVE  FALSE
  <2>1. Rest \in Seq(Byte) /\ 1 \in 1 .. Len(Rest) /\ 0 \in 0 .. 1 - 1
    BY <1>4, RestParts
  <2> DEFINE p == At(Present, Taken)
  <2>2. p.msg = Present /\ p.at = Taken /\ Place(p, Rest, 0) = p
    BY DEF At, Place
  <2>3. Continues(sent, p, Rest)
    BY DEF RestOK
  <2> HIDE DEF p
  <2>4. p.at + (1 - 0) = Prefix + sent[p.msg] + 1 => Rest[1] = At(p.msg + 1, 1)
    BY <2>1, <2>2, <2>3 DEF Continues
  <2>5. Taken + (1 - 0) = Prefix + sent[Present] + 1
    BY <1>1, <1>2, FramingAssumption
  <2>6. Rest[1].msg = Present + 1
    BY <2>2, <2>4, <2>5 DEF At
  <2>7. Rest[1].msg \in 1 .. Len(sent)
    BY <2>1 DEF RestOK, Within
  <2> QED
    BY <2>6, <2>7, <1>1, <1>4, SavedNumbers
<1> QED
  BY <1>1, <1>2, <1>3, <1>4

\* The state a MessageReader begins with.
LEMMA NewStateTyped == NewReadState \in [at : {"ReadLen"}, got : Seq(Byte)]
<1>1. <<>> \in Seq(Byte)
  BY EmptySeq
<1> QED
  BY <1>1 DEF NewReadState

\* Delivering it takes the reader to the next frame.
LEMMA ValReadKeeps ==
    ASSUME FramingTypeOK, SavedOK, RestOK, ValRead
    PROVE  FramingTypeOK' /\ SavedOK' /\ RestOK'
<1>1. /\ state.at = "ReadVal" /\ Missing(state) = 0
      /\ state' = NewReadState /\ reading' = FALSE
      /\ delivered' = Append(delivered, state.got)
      /\ UNCHANGED <<sent, unsent, socket, hung>>
  BY DEF ValRead
<1>2. /\ Present \in 1 .. Len(sent) /\ sent[Present] \in Nat
      /\ Taken = Prefix + sent[Present]
      /\ Present + 1 > Len(sent) => Rest = <<>>
  BY <1>1, WholeValue
<1>3. delivered' \in Seq(Seq(Byte)) /\ Len(delivered') = Len(delivered) + 1 /\ Len(delivered) \in Nat
  <2>1. delivered \in Seq(Seq(Byte)) /\ state.got \in Seq(Byte)
    BY SavedNumbers DEF FramingTypeOK
  <2> DEFINE B == Seq(Byte)
             g == state.got
  <2>2. delivered \in Seq(B) /\ g \in B /\ delivered' = Append(delivered, g)
    BY <2>1, <1>1
  <2> HIDE DEF B, g
  <2>3. delivered' \in Seq(B) /\ Len(delivered') = Len(delivered) + 1 /\ Len(delivered) \in Nat
    BY <2>2
  <2> QED
    BY <2>3 DEF B
<1>4. FramingTypeOK'
  <2>1. state' \in [at : {"ReadLen"}, got : Seq(Byte)]
    BY <1>1, NewStateTyped
  <2>2. /\ sent' \in Seq(Nat) /\ unsent' \in Seq(Byte) /\ socket' \in Seq(Byte)
        /\ hung' \in BOOLEAN /\ reading' \in BOOLEAN
    BY <1>1, Zenon DEF FramingTypeOK
  <2> QED
    BY <2>1, <2>2, <1>3 DEF FramingTypeOK
<1>5. Present' = Present + 1 /\ Taken' = 0 /\ Rest' = Rest
  BY <1>1, <1>3 DEF Present, Taken, Rest, NewReadState
<1>6. SavedOK'
  <2>1. Missing(state)' >= 0
    BY <1>1, FramingAssumption DEF Missing, Wanted, NewReadState
  <2>2. Present' \in 1 .. Len(sent') + 1
    BY <1>1, <1>2, <1>5, SavedNumbers
  <2> QED
    BY <2>1, <2>2, <1>1 DEF SavedOK, NewReadState
<1>7. RestOK'
  <2> DEFINE p == At(Present, Taken)
  <2>1. p.msg = Present /\ p.at = Taken
    BY DEF At
  <2>2. Rest \in Seq(Byte) /\ Continues(sent, p, Rest) /\ Within(sent, Rest) /\ sent \in Seq(Nat)
    BY RestParts DEF RestOK, FramingTypeOK
  <2>3. p.msg \in Nat /\ p.at \in Nat /\ sent[p.msg] \in Nat /\ p.at = Prefix + sent[p.msg]
    BY <2>1, <1>2, SavedNumbers
  <2>4. Place(p, Rest, Len(Rest)) = At(Len(sent), Prefix + sent[Len(sent)])
    BY <1>2, SavedNumbers DEF RestOK
  <2> HIDE DEF p
  <2>5. Continues(sent, At(p.msg + 1, 0), Rest)
    BY <2>2, <2>3, ContinuesWithNext
  <2>6. Continues(sent, At(Present, Taken), Rest)'
    BY <2>1, <2>5, <1>1, <1>5
  <2>7. CASE Present + 1 > Len(sent)
    BY <2>2, <2>6, <2>7, <1>1, <1>2, <1>5 DEF RestOK
  <2>8. CASE ~(Present + 1 > Len(sent))
    <3>1. Len(Rest) # 0
      <4> SUFFICES ASSUME Len(Rest) = 0 PROVE FALSE
        OBVIOUS
      <4>1. p = At(Len(sent), Prefix + sent[Len(sent)])
        BY <2>4 DEF Place
      <4>2. Present = Len(sent)
        BY <4>1, <2>1 DEF At
      <4> QED
        BY <4>2, <2>8, <1>2, SavedNumbers
    <3>2. Place(At(Present, Taken), Rest, Len(Rest))' = At(Len(sent), Prefix + sent[Len(sent)])
      BY <3>1, <2>4, <1>5 DEF Place
    <3> QED
      BY <3>2, <2>2, <2>6, <2>8, <1>1, <1>5 DEF RestOK
  <2> QED
    BY <2>7, <2>8
<1> QED
  BY <1>4, <1>6, <1>7

\* The invariant holds of the streams of linkd's sockets: the bytes on the way
\* continue those that read_message has saved.
THEOREM BytesInOrder == Spec => []FramingInv
<1>1. Init => FramingInv
  <2> SUFFICES ASSUME Init PROVE FramingInv
    OBVIOUS
  <2> USE DEF Init
  <2>1. FramingTypeOK /\ BoundsOK
    <3>1. /\ sent \in Seq(Nat) /\ unsent \in Seq(Byte) /\ socket \in Seq(Byte)
          /\ delivered \in Seq(Seq(Byte)) /\ hung \in BOOLEAN /\ reading \in BOOLEAN
      BY EmptySeq, Zenon
    <3>2. FramingTypeOK
      BY <3>1, NewStateTyped DEF FramingTypeOK
    <3>3. BoundsOK
      BY FramingAssumption DEF BoundsOK
    <3> QED
      BY <3>2, <3>3
  <2> USE DEF NewReadState
  <2>2. Present = 1 /\ Taken = 0 /\ Rest = <<>> /\ Len(sent) = 0
    BY DEF Present, Taken, Rest
  <2>3. SavedOK
    BY <2>2, FramingAssumption DEF SavedOK, Missing, Wanted
  <2>4. RestOK
    BY <2>2 DEF RestOK, Within, Continues
  <2> QED
    BY <2>1, <2>3, <2>4 DEF FramingInv
<1>2. FramingInv /\ [Next]_framingVars => FramingInv'
  <2> SUFFICES ASSUME FramingTypeOK, SavedOK, RestOK, BoundsOK, [Next]_framingVars
               PROVE  FramingInv'
    BY DEF FramingInv
  <2>1. ASSUME NEW len \in 0 .. MaxLen, Serialize(len)
        PROVE  FramingInv'
    <3>1. BoundsOK'
      <4>1. sent \in Seq(Nat) /\ len \in Nat /\ len <= MaxLen
        BY FramingAssumption DEF FramingTypeOK
      <4>2. sent' = Append(sent, len) /\ Len(sent) < MaxSent
        BY <2>1 DEF Serialize
      <4>3. Len(sent') <= MaxSent /\ \A m \in 1 .. Len(sent') : sent'[m] <= MaxLen
        BY <4>1, <4>2, FramingAssumption DEF BoundsOK
      <4> QED
        BY <4>3, <2>1 DEF BoundsOK, Serialize
    <3> QED
      BY <2>1, <3>1, SerializeKeeps DEF FramingInv
  <2>2. ASSUME NEW n \in 1 .. Prefix + MaxLen, WriteMessage(n)
        PROVE  FramingInv'
    BY <2>2, WriteKeeps DEF FramingInv, BoundsOK, WriteMessage
  <2>3. ASSUME NEW n \in 1 .. Prefix + MaxLen, ReadSome(n)
        PROVE  FramingInv'
    <3>1. n \in Nat /\ BoundsOK'
      BY <2>3, FramingAssumption DEF BoundsOK, ReadSome
    <3> QED
      BY <2>3, <3>1, ReadKeeps DEF FramingInv
  <2>4. CASE HangUp \/ Call \/ Cancel \/ EndOfFile
    <3>1. UNCHANGED <<sent, unsent, socket, state, delivered>>
      BY <2>4 DEF HangUp, Call, Cancel, EndOfFile
    <3>2. FramingTypeOK'
      BY <2>4, <3>1, Zenon DEF FramingTypeOK, HangUp, Call, Cancel, EndOfFile
    <3>3. BoundsOK'
      BY <2>4, <3>1 DEF BoundsOK, HangUp, Call, Cancel, EndOfFile
    <3> QED
      BY <3>1, <3>2, <3>3, SameBytes DEF FramingInv
  <2>5. CASE LenRead
    BY <2>5, LenReadKeeps DEF FramingInv, BoundsOK, LenRead
  <2>6. CASE ValRead
    <3>1. BoundsOK'
      BY <2>6 DEF BoundsOK, ValRead
    <3> QED
      BY <2>6, <3>1, ValReadKeeps DEF FramingInv
  <2>7. CASE UNCHANGED framingVars
    <3>1. UNCHANGED <<sent, unsent, socket, hung, state, reading, result, delivered>>
      BY <2>7 DEF framingVars
    <3> QED
      BY <3>1, SameBytes DEF FramingInv, FramingTypeOK, BoundsOK
  <2> QED
    BY <2>1, <2>2, <2>3, <2>4, <2>5, <2>6, <2>7 DEF Next
<1> QED
  BY <1>1, <1>2, PTL DEF Spec

-----------------------------------------------------------------------------
(***************************************************************************)
(* The channel of messages.                                                *)
(***************************************************************************)

\* The messages on the socket, and one more.
Values(s, n) == [m \in 1 .. n |-> Payload(m, s[m])]

LEMMA ValuesGrow ==
    ASSUME NEW s, NEW n \in Nat
    PROVE  /\ Len(Values(s, n)) = n
           /\ \A m \in 1 .. n : Values(s, n)[m] = Payload(m, s[m])
           /\ Values(s, n + 1) = Append(Values(s, n), Payload(n + 1, s[n + 1]))
           /\ \A t : (\A m \in 1 .. n : t[m] = s[m]) => Values(t, n) = Values(s, n)
<1> DEFINE P(m) == Payload(m, s[m])
<1>1. Values(s, n) = [m \in 1 .. n |-> P(m)] /\ Values(s, n + 1) = [m \in 1 .. n + 1 |-> P(m)]
  BY DEF Values
<1>4. \A t : (\A m \in 1 .. n : t[m] = s[m]) => Values(t, n) = Values(s, n)
  BY DEF Values
<1> HIDE DEF P
<1>2. Len(Values(s, n)) = n /\ \A m \in 1 .. n : Values(s, n)[m] = P(m)
  BY <1>1
<1>3. Values(s, n + 1) = Append(Values(s, n), P(n + 1))
  BY <1>1
<1> QED
  BY <1>2, <1>3, <1>4 DEF P

\* A message that is not written whole is the last one.
LEMMA WholeCount ==
    ASSUME FramingTypeOK, SavedOK, RestOK
    PROVE  /\ Whole \in Nat /\ Len(unsent) \in Nat /\ (unsent = <<>> <=> Len(unsent) = 0)
           /\ unsent = <<>> => Whole = Len(sent)
           /\ unsent # <<>> => Whole = Len(sent) - 1 /\ Len(sent) >= 1
<1>1. Len(unsent) \in Nat /\ Len(sent) \in Nat /\ (unsent = <<>> <=> Len(unsent) = 0)
  BY DEF FramingTypeOK
<1>2. ASSUME unsent # <<>>
      PROVE  Len(sent) >= 1
  <2>1. 1 \in 1 .. Len(unsent)
    BY <1>1, <1>2
  <2>2. unsent[1].msg = Len(sent)
    BY <2>1 DEF RestOK
  <2>3. Rest[Len(socket) + 1] = unsent[1] /\ Len(socket) + 1 \in 1 .. Len(Rest)
    BY <2>1, <1>1, RestParts
  <2>4. unsent[1].msg \in 1 .. Len(sent)
    BY <2>3 DEF RestOK, Within
  <2> QED
    BY <2>2, <2>4, <1>1
<1> QED
  BY <1>1, <1>2 DEF Whole

\* What the reader is at, when the bytes on the socket are used up: the message
\* behind the last one that is written whole.
LEMMA NothingMore ==
    ASSUME FramingTypeOK, SavedOK, RestOK, socket = <<>>, state.at = "ReadLen", Missing(state) > 0
    PROVE  Len(delivered) = Whole
<1>1. /\ Taken \in Nat /\ Taken < Prefix /\ Prefix \in Nat
      /\ Present \in Nat /\ Present \in 1 .. Len(sent) + 1 /\ Len(sent) \in Nat
  <2> DEFINE g == Len(state.got)
  <2>1. g \in Nat /\ Prefix - g > 0 /\ Taken = g /\ Prefix \in Nat
    BY SavedNumbers, FramingAssumption
  <2> HIDE DEF g
  <2>2. Taken \in Nat /\ Taken < Prefix
    BY <2>1
  <2> QED
    BY <2>1, <2>2, SavedNumbers DEF SavedOK
<1>2. Len(delivered) \in Nat /\ Present = Len(delivered) + 1
  BY DEF FramingTypeOK, Present
<1>3. Len(socket) = 0 /\ Len(Rest) = Len(unsent) /\ Rest \in Seq(Byte) /\ Len(unsent) \in Nat
  BY RestParts
<1>4. CASE unsent = <<>>
  <2>1. Len(Rest) = 0
    BY <1>3, <1>4
  <2>2. ASSUME ~(Present > Len(sent))
        PROVE  FALSE
    <3>1. At(Present, Taken) = At(Len(sent), Prefix + sent[Len(sent)])
      BY <2>1, <2>2 DEF RestOK, Place
    <3>2. Taken = Prefix + sent[Len(sent)] /\ Present = Len(sent)
      BY <3>1 DEF At
    <3>3. sent[Len(sent)] \in Nat
      BY <3>2, <2>2, <1>1, SavedNumbers
    <3> QED
      BY <3>2, <3>3, <1>1
  <2>3. Whole = Len(sent)
    BY <1>4 DEF Whole
  <2> QED
    BY <2>2, <2>3, <1>1, <1>2
<1>5. CASE unsent # <<>>
  <2>1. 1 \in 1 .. Len(unsent) /\ 1 \in 1 .. Len(Rest) /\ 0 \in 0 .. 1 - 1
    BY <1>5, <1>3, WholeCount
  <2>2. Rest[1] = unsent[1] /\ unsent[1].msg = Len(sent)
    <3>1. Rest[Len(socket) + 1] = unsent[1] /\ Len(socket) + 1 = 1
      BY <2>1, <1>3, RestParts
    <3> QED
      BY <3>1, <2>1 DEF RestOK
  <2>3. Rest[1].msg \in 1 .. Len(sent)
    BY <2>1 DEF RestOK, Within
  <2> DEFINE p == At(Present, Taken)
  <2>4. p.msg = Present /\ p.at = Taken /\ Place(p, Rest, 0) = p /\ Continues(sent, p, Rest)
    BY DEF At, Place, RestOK
  <2> HIDE DEF p
  <2>5. p.at + (1 - 0) <= Prefix + sent[p.msg] => Rest[1] = At(p.msg, p.at + (1 - 0))
    BY <2>1, <2>4 DEF Continues
  <2>6. Present \in 1 .. Len(sent)
    <3>1. ~(Present > Len(sent))
      BY <2>1, <1>3 DEF RestOK
    <3> QED
      BY <3>1, <1>1
  <2>7. Taken + (1 - 0) <= Prefix + sent[Present]
    <3>1. sent[Present] \in Nat
      BY <2>6, SavedNumbers
    <3> QED
      BY <3>1, <1>1
  <2>8. Present = Len(sent)
    BY <2>2, <2>4, <2>5, <2>7 DEF At
  <2> QED
    BY <2>8, <1>1, <1>2, <1>5, WholeCount
<1> QED
  BY <1>4, <1>5

\* The message a MessageReader is to return next is on the socket as a whole.
LEMMA ValueIsNext ==
    ASSUME FramingTypeOK, SavedOK, RestOK, state.at = "ReadVal", Missing(state) = 0
    PROVE  /\ Present \in 1 .. Whole
           /\ state.got = Payload(Present, sent[Present])
<1>1. /\ Present \in 1 .. Len(sent) /\ state.got = Payload(Present, sent[Present])
      /\ Present + 1 > Len(sent) => Rest = <<>>
  BY WholeValue
<1>2. Len(sent) \in Nat /\ Present \in Nat
  BY SavedNumbers
<1>3. ASSUME unsent # <<>>
      PROVE  Present + 1 <= Len(sent)
  <2>1. Len(Rest) = Len(socket) + Len(unsent) /\ Len(socket) \in Nat /\ Len(unsent) \in Nat
    BY RestParts
  <2>2. Len(unsent) # 0
    BY <1>3, WholeCount
  <2>3. Rest # <<>>
    BY <2>1, <2>2
  <2> QED
    BY <2>3, <1>1, <1>2
<1> QED
  BY <1>1, <1>2, <1>3, WholeCount

\* What a step of the framing does to the messages that are written whole.
LEMMA WholeSteps ==
    ASSUME FramingTypeOK, SavedOK, RestOK, BoundsOK
    PROVE  /\ \A len \in 0 .. MaxLen : Serialize(len) => Values(sent, Whole)' = Values(sent, Whole)
           /\ \A n \in 1 .. Prefix + MaxLen : WriteMessage(n) =>
                  \/ Values(sent, Whole)' = Values(sent, Whole)
                  \/ \E m \in 1 .. MaxSent, len \in 0 .. MaxLen :
                         Values(sent, Whole)' = Append(Values(sent, Whole), Payload(m, len))
<1>1. ASSUME NEW len \in 0 .. MaxLen, Serialize(len)
      PROVE  Values(sent, Whole)' = Values(sent, Whole)
  <2>1. sent \in Seq(Nat) /\ len \in Nat /\ sent' = Append(sent, len) /\ Len(sent) \in Nat
    BY <1>1, FramingAssumption DEF FramingTypeOK, Serialize
  <2>2. Len(sent') = Len(sent) + 1 /\ \A m \in 1 .. Len(sent) : sent'[m] = sent[m]
    BY <2>1
  <2>3. unsent' # <<>>
    <3>1. unsent' = [k \in 1 .. Prefix + len |-> [msg |-> Len(sent) + 1, at |-> k]]
      BY <1>1 DEF Serialize, Frame
    <3>2. Prefix + len \in Nat /\ Prefix + len # 0
      BY <2>1, FramingAssumption
    <3>3. Len(unsent') = Prefix + len
      BY <3>1, <3>2
    <3> QED
      BY <3>2, <3>3
  <2>4. Whole = Len(sent) /\ Whole' = Len(sent)
    BY <1>1, <2>1, <2>2, <2>3 DEF Whole, Serialize
  <2>5. Values(sent', Len(sent)) = Values(sent, Len(sent))
    BY <2>1, <2>2, ValuesGrow, Zenon
  <2> QED
    BY <2>4, <2>5
<1>2. ASSUME NEW n \in 1 .. Prefix + MaxLen, WriteMessage(n)
      PROVE  \/ Values(sent, Whole)' = Values(sent, Whole)
             \/ \E m \in 1 .. MaxSent, len \in 0 .. MaxLen :
                    Values(sent, Whole)' = Append(Values(sent, Whole), Payload(m, len))
  <2>1. sent' = sent /\ unsent # <<>> /\ Len(sent) \in Nat /\ Len(sent) >= 1 /\ Whole = Len(sent) - 1
    <3>1. n \in 1 .. Len(unsent) /\ Len(unsent) \in Nat /\ sent' = sent
      BY <1>2, WholeCount DEF WriteMessage
    <3>2. unsent # <<>>
      BY <3>1, WholeCount
    <3> QED
      BY <3>1, <3>2, SavedNumbers, WholeCount
  <2>2. CASE unsent' # <<>>
    <3>1. Whole' = Whole
      BY <2>1, <2>2 DEF Whole
    <3> QED
      BY <3>1, <2>1
  <2>3. CASE unsent' = <<>>
    <3>1. Whole' = Whole + 1 /\ Whole \in Nat /\ Len(sent) = Whole + 1
      BY <2>1, <2>3 DEF Whole
    <3>2. Values(sent, Whole + 1) = Append(Values(sent, Whole), Payload(Whole + 1, sent[Whole + 1]))
      BY <3>1, ValuesGrow, Zenon
    <3>3. Values(sent, Whole)' = Append(Values(sent, Whole), Payload(Len(sent), sent[Len(sent)]))
      BY <3>1, <3>2, <2>1
    <3>4. Len(sent) \in 1 .. MaxSent /\ sent[Len(sent)] \in 0 .. MaxLen
      BY <2>1, SavedNumbers, FramingAssumption DEF BoundsOK
    <3> QED
      BY <3>3, <3>4
  <2> QED
    BY <2>2, <2>3
<1> QED
  BY <1>1, <1>2

\* The framing of linkd's sockets is a channel of messages (IsFifo): read_message
\* returns the messages that were written whole, each once and in their order,
\* however writes and reads are split and wherever its future is dropped, and the
\* end of the connection is reported behind the last of them.
THEOREM FramingIsFifo == Spec => IsFifo
<1>1. Init => Fifo!Init
  <2> SUFFICES ASSUME Init PROVE Fifo!Init
    OBVIOUS
  <2>1. Whole = 0
    BY DEF Init, Whole
  <2>2. [m \in 1 .. Whole |-> Payload(m, sent[m])] = <<>>
    BY <2>1
  <2> QED
    BY <2>2 DEF Init, Fifo!Init
<1>2. FramingInv /\ [Next]_framingVars => [Fifo!Next]_(Fifo!fifoVars)
  <2> SUFFICES ASSUME FramingTypeOK, SavedOK, RestOK, BoundsOK, [Next]_framingVars
               PROVE  [Fifo!Next]_(Fifo!fifoVars)
    BY DEF FramingInv
  <2>0. ASSUME Values(sent, Whole)' = Values(sent, Whole), delivered' = delivered,
               (result = "closed")' = (result = "closed")
        PROVE  UNCHANGED Fifo!fifoVars
    BY <2>0 DEF Fifo!fifoVars, Values
  <2>1. ASSUME NEW len \in 0 .. MaxLen, Serialize(len)
        PROVE  UNCHANGED Fifo!fifoVars
    BY <2>0, <2>1, WholeSteps DEF Serialize
  <2>2. ASSUME NEW n \in 1 .. Prefix + MaxLen, WriteMessage(n)
        PROVE  [Fifo!Next]_(Fifo!fifoVars)
    <3>1. result' = result /\ delivered' = delivered /\ result # "closed"
      BY <2>2 DEF WriteMessage, BoundsOK
    <3>2. CASE Values(sent, Whole)' = Values(sent, Whole)
      BY <2>0, <3>1, <3>2
    <3>3. ASSUME NEW m \in 1 .. MaxSent, NEW len \in 0 .. MaxLen,
                 Values(sent, Whole)' = Append(Values(sent, Whole), Payload(m, len))
          PROVE  Fifo!Next
      <4>1. Fifo!Send(Payload(m, len))
        BY <3>1, <3>3, Zenon DEF Fifo!Send, Values
      <4>2. Payload(m, len) \in {Payload(k, l) : k \in 1 .. MaxSent, l \in 0 .. MaxLen}
        OBVIOUS
      <4> QED
        BY <4>1, <4>2 DEF Fifo!Next
    <3> QED
      BY <2>2, <3>2, <3>3, WholeSteps
  <2>3. CASE (\E n \in 1 .. Prefix + MaxLen : ReadSome(n)) \/ HangUp \/ Call \/ Cancel \/ LenRead
    <3>1. UNCHANGED <<sent, unsent, delivered, result>>
      BY <2>3 DEF ReadSome, HangUp, Call, Cancel, LenRead
    <3> QED
      BY <2>0, <3>1 DEF Whole
  <2>4. CASE ValRead
    <3>1. /\ state.at = "ReadVal" /\ Missing(state) = 0
          /\ delivered' = Append(delivered, state.got)
          /\ result' # "closed" /\ result # "closed"
          /\ UNCHANGED <<sent, unsent>>
      BY <2>4 DEF ValRead, BoundsOK
    <3>2. Present \in 1 .. Whole /\ state.got = Payload(Present, sent[Present])
      BY <3>1, ValueIsNext
    <3>3. Whole \in Nat /\ Whole' = Whole /\ Len(delivered) \in Nat /\ Present = Len(delivered) + 1
      BY <3>1, WholeCount DEF Whole, Present, FramingTypeOK
    <3>4. Len(Values(sent, Whole)) = Whole /\ Values(sent, Whole)[Present] = state.got
      BY <3>2, <3>3, ValuesGrow
    <3>5. /\ Len(delivered) < Len(Values(sent, Whole))
          /\ delivered' = Append(delivered, Values(sent, Whole)[Len(delivered) + 1])
          /\ Values(sent, Whole)' = Values(sent, Whole)
      BY <3>1, <3>2, <3>3, <3>4
    <3>6. Fifo!Receive
      BY <3>1, <3>5, Zenon DEF Fifo!Receive, Values
    <3> QED
      BY <3>6 DEF Fifo!Next
  <2>5. CASE EndOfFile
    <3>1. /\ UNCHANGED <<sent, unsent, delivered>> /\ socket = <<>> /\ Missing(state) > 0
          /\ result # "closed"
          /\ result' = IF state.at = "ReadLen" THEN "closed" ELSE "DecodeFailed"
      BY <2>5 DEF EndOfFile, BoundsOK
    <3>2. Values(sent, Whole)' = Values(sent, Whole)
      BY <3>1 DEF Whole
    <3>3. CASE state.at = "ReadLen"
      <4>1. Len(delivered) = Len(Values(sent, Whole))
        BY <3>1, <3>3, NothingMore, WholeCount, ValuesGrow
      <4>2. Fifo!End
        BY <4>1, <3>1, <3>2, <3>3 DEF Fifo!End, Values
      <4> QED
        BY <4>2 DEF Fifo!Next
    <3>4. CASE state.at # "ReadLen"
      BY <2>0, <3>1, <3>2, <3>4
    <3> QED
      BY <3>3, <3>4
  <2>6. CASE UNCHANGED framingVars
    BY <2>0, <2>6 DEF framingVars, Whole
  <2> QED
    BY <2>1, <2>2, <2>3, <2>4, <2>5, <2>6 DEF Next
<1> QED
  BY <1>1, <1>2, BytesInOrder, PTL DEF Spec, IsFifo, Fifo!Spec
=============================================================================
