------------------------- MODULE StreamDelta_proofs -------------------------
(***************************************************************************)
(* Theorems about StreamDelta, for any number of messages and tokens:      *)
(* type correctness, that no text of a tool call is shown, and that the    *)
(* deltas deliver every visible word once and in order.                    *)
(***************************************************************************)
EXTENDS StreamDelta, TLAPS, WellFoundedInduction, SequenceTheorems

\* The texts of the upstream have one place for a word, and what is written
\* later has the greater numbers.
TextInv ==
    /\ msgs[1].text = <<Ask>>
    /\ \A n \in DOMAIN msgs : InOrder(msgs[n].text) /\ (n > 1 => Ask \notin ToSet(msgs[n].text))
    /\ \A m, n \in DOMAIN msgs : m < n =>
          \A x \in Words(msgs[m].text), y \in Words(msgs[n].text) : x < y

\* The words that have been dealt with as visible: sent, or taken for others.
Given == Words(shown) \cup swallowed

\* What has been visible of a text is not going to be behind a marker.
HiddenInv ==
    /\ \A n \in DOMAIN msgs : HiddenWords(Trim(msgs[n].text)) \cap Given = {}
    /\ \A i \in DOMAIN last : Words(last[i]) \subseteq Given
    /\ Words(Sanitize(final)) \subseteq Given

\* Message c was the last one to be selected: nothing has been seen of a later
\* one, and an earlier one is not selected again.
LastSeen(c) ==
    /\ Usable # {} => c <= Selected
    /\ Usable = {} => c = 1
    /\ \A n \in DOMAIN seen : n > c => seen[n] = <<>>
    /\ ~ids => last[Unknown] = seen[c]

\* The last text that was seen of a message is the one the next delta is taken
\* from, and its words were written before those of the later messages.
OrderInv ==
    /\ \E c \in DOMAIN seen : LastSeen(c)
    /\ ids => \A n \in DOMAIN seen : last[n] = seen[n]
    /\ \A m \in DOMAIN seen, n \in DOMAIN msgs : m < n =>
          \A x \in Words(seen[m]), y \in Words(msgs[n].text) : x < y
    /\ grew => swallowed \subseteq WordsSeen
    /\ WordsDelivered

-----------------------------------------------------------------------------
(* Least and greatest members.                                             *)

Less == {p \in Nat \X Nat : p[1] < p[2]}

LEMMA LessWellFounded == IsWellFoundedOn(Less, Nat)
BY NatLessThanWellFounded, Zenon DEF Less, OpToRel

LEMMA LeastMember ==
    ASSUME NEW S \in SUBSET Nat, S # {}
    PROVE  Min(S) \in S /\ \A n \in S : Min(S) <= n
<1>1. PICK x \in S : \A y \in S : ~ (<<y, x>> \in Less)
  BY LessWellFounded, WFMin
<1>2. ASSUME NEW y \in S PROVE x <= y
  <2>1. x \in Nat /\ y \in Nat
    OBVIOUS
  <2>2. <<y, x>> \in Nat \X Nat /\ <<y, x>>[1] = y /\ <<y, x>>[2] = x
    BY <2>1
  <2>3. ~(y < x)
    BY <1>1, <2>2 DEF Less
  <2> QED
    BY <2>1, <2>3
<1> QED
  BY <1>2 DEF Min

LEMMA GreatestMember ==
    ASSUME NEW n \in Nat, NEW S \in SUBSET (0 .. n), S # {}
    PROVE  Max(S) \in S /\ \A k \in S : k <= Max(S)
<1> DEFINE T == {n - k : k \in S}
<1>1. \A t \in T : t \in Nat
  <2> SUFFICES ASSUME NEW k \in S PROVE n - k \in Nat
    OBVIOUS
  <2> QED
    OBVIOUS
<1>2. T # {} /\ T \in SUBSET Nat
  BY <1>1
<1> HIDE DEF T
<1>3. PICK x \in T : \A y \in T : x <= y
  BY <1>2, LeastMember
<1>4. PICK m \in S : x = n - m
  BY DEF T
<1>5. \A k \in S : n - m <= n - k
  BY <1>3, <1>4 DEF T
<1>6. \A k \in S : k <= m
  BY <1>5
<1> QED
  BY <1>6 DEF Max

-----------------------------------------------------------------------------
(* Texts                                                                   *)

\* The text u is the part of t from i to j, or nothing if i = j + 1.
IsPart(u, t, i, j) ==
    /\ 1 <= i /\ i <= j + 1 /\ j <= Len(t)
    /\ u = SubSeq(t, i, j)

LEMMA PartOfText ==
    ASSUME NEW t \in Seq(Int), NEW u, NEW i \in Nat, NEW j \in Nat, IsPart(u, t, i, j)
    PROVE  /\ u \in Seq(Int) /\ Len(u) = j - i + 1
           /\ \A k \in 1 .. j - i + 1 : u[k] = t[i + k - 1]
           /\ \A x \in Words(u) : \E k \in i .. j : t[k] > 0 /\ x = t[k]
           /\ \A k \in i .. j : t[k] > 0 => t[k] \in Words(u)
           /\ Words(u) \subseteq Words(t)
           /\ InOrder(t) => InOrder(u)
<1>0. 1 <= i /\ i <= j + 1 /\ j <= Len(t)
  BY DEF IsPart
<1>1. /\ u \in Seq(Int) /\ Len(u) = j - i + 1 /\ DOMAIN u = 1 .. j - i + 1
      /\ \A k \in 1 .. j - i + 1 : u[k] = t[i + k - 1]
      /\ DOMAIN t = 1 .. Len(t) /\ Len(t) \in Nat
  BY <1>0 DEF IsPart
<1>2. ASSUME NEW k \in 1 .. j - i + 1 PROVE i + k - 1 \in i .. j /\ i + k - 1 \in 1 .. Len(t)
  BY <1>0, <1>1
<1>3. ASSUME NEW k \in i .. j
      PROVE  k - i + 1 \in 1 .. j - i + 1 /\ u[k - i + 1] = t[k] /\ k \in DOMAIN t
  <2>1. k - i + 1 \in 1 .. j - i + 1 /\ i + (k - i + 1) - 1 = k
    BY <1>0
  <2> QED
    BY <1>0, <1>1, <2>1
<1>4. ASSUME NEW x \in Words(u) PROVE \E k \in i .. j : t[k] > 0 /\ x = t[k]
  <2>1. PICK l \in 1 .. j - i + 1 : x = u[l] /\ x > 0
    BY <1>1 DEF Words, ToSet
  <2> QED
    BY <1>1, <1>2, <2>1
<1>5. ASSUME NEW k \in i .. j, t[k] > 0 PROVE t[k] \in Words(u)
  BY <1>1, <1>3, <1>5 DEF Words, ToSet
<1>6. Words(u) \subseteq Words(t)
  BY <1>3, <1>4 DEF Words, ToSet
<1>7. ASSUME InOrder(t), NEW a \in 1 .. j - i + 1, NEW b \in 1 .. j - i + 1, a < b, u[b] > 0
      PROVE  u[a] < u[b]
  <2>1. i + a - 1 < i + b - 1
    BY <1>7
  <2> QED
    BY <1>1, <1>2, <1>7, <2>1 DEF InOrder
<1> QED
  BY <1>1, <1>4, <1>5, <1>6, <1>7 DEF InOrder

LEMMA PartWords ==
    ASSUME NEW t \in Seq(Int), NEW u, NEW i \in Nat, NEW j \in Nat, IsPart(u, t, i, j),
           NEW x \in Words(u)
    PROVE  \E k \in i .. j : t[k] > 0 /\ x = t[k]
<1>1. \A y \in Words(u) : \E k \in i .. j : t[k] > 0 /\ y = t[k]
  BY PartOfText
<1> QED
  BY <1>1

LEMMA WordsAreNumbers ==
    ASSUME NEW t \in Seq(Int), NEW x \in Words(t)
    PROVE  x \in Nat /\ x > 0
BY DEF Words, ToSet

LEMMA NoText == Words(<<>>) = {} /\ InOrder(<<>>) /\ Trim(<<>>) = <<>>
BY DEF Words, ToSet, InOrder, Trim

LEMMA JoinedTexts ==
    ASSUME NEW t \in Seq(Int), NEW u \in Seq(Int)
    PROVE  /\ t \o u \in Seq(Int)
           /\ Words(t \o u) = Words(t) \cup Words(u)
           /\ InOrder(t) /\ InOrder(u) /\ (\A x \in ToSet(t), y \in Words(u) : x < y)
                => InOrder(t \o u)
<1>1. /\ t \o u \in Seq(Int) /\ DOMAIN (t \o u) = 1 .. Len(t) + Len(u)
      /\ DOMAIN t = 1 .. Len(t) /\ DOMAIN u = 1 .. Len(u)
      /\ \A k \in DOMAIN t : (t \o u)[k] = t[k] /\ k \in DOMAIN (t \o u)
      /\ \A k \in DOMAIN u : (t \o u)[Len(t) + k] = u[k] /\ Len(t) + k \in DOMAIN (t \o u)
      /\ \A k \in DOMAIN (t \o u) : k \in DOMAIN t \/ (k - Len(t) \in DOMAIN u /\ (t \o u)[k] = u[k - Len(t)])
  OBVIOUS
<1>2. Words(t \o u) = Words(t) \cup Words(u)
  BY <1>1 DEF Words, ToSet
<1>3. ASSUME InOrder(t), InOrder(u), \A x \in ToSet(t), y \in Words(u) : x < y,
             NEW a \in DOMAIN (t \o u), NEW b \in DOMAIN (t \o u), a < b, (t \o u)[b] > 0
      PROVE  (t \o u)[a] < (t \o u)[b]
  <2>1. CASE b \in DOMAIN t
    <3>1. a \in DOMAIN t
      BY <1>1, <1>3, <2>1
    <3> QED
      BY <1>1, <1>3, <2>1, <3>1 DEF InOrder
  <2>2. CASE b \notin DOMAIN t /\ a \in DOMAIN t
    BY <1>1, <1>3, <2>2 DEF Words, ToSet
  <2>3. CASE b \notin DOMAIN t /\ a \notin DOMAIN t
    <3>1. a - Len(t) < b - Len(t)
      BY <1>1, <1>3
    <3> QED
      BY <1>1, <1>3, <2>3, <3>1 DEF InOrder
  <2> QED
    BY <2>1, <2>2, <2>3
<1> QED
  BY <1>1, <1>2, <1>3 DEF InOrder

\* Trim takes white space from both ends, and nothing else.
LEMMA TrimmedText ==
    ASSUME NEW t \in Seq(Int)
    PROVE  /\ Trim(t) \in Seq(Int) /\ Words(Trim(t)) = Words(t)
           /\ InOrder(t) => InOrder(Trim(t))
           /\ Trim(t) = <<>> <=> \A n \in DOMAIN t : t[n] \in Space
           /\ Trim(t) # <<>> => \E i, j \in DOMAIN t :
                 /\ i <= j /\ Trim(t) = SubSeq(t, i, j)
                 /\ t[i] \notin Space /\ t[j] \notin Space
                 /\ \A n \in DOMAIN t : n < i \/ n > j => t[n] \in Space
<1> DEFINE ink == {n \in DOMAIN t : t[n] \notin Space}
<1>0. DOMAIN t = 1 .. Len(t) /\ ink \subseteq DOMAIN t /\ ink \in SUBSET Nat /\ ink \in SUBSET (0 .. Len(t))
  OBVIOUS
<1>1. CASE ink = {}
  <2>1. Trim(t) = <<>> /\ \A n \in DOMAIN t : t[n] \in Space
    BY <1>1 DEF Trim
  <2>2. Words(t) = {}
    BY <2>1 DEF Words, ToSet, Space, Blank, NewLine
  <2> QED
    BY <2>1, <2>2, NoText
<1>2. CASE ink # {}
  <2> DEFINE i == Min(ink)
             j == Max(ink)
  <2>1. /\ i \in ink /\ j \in ink /\ \A n \in ink : i <= n /\ n <= j
    <3>1. i \in ink /\ \A n \in ink : i <= n
      BY <1>0, <1>2, LeastMember
    <3>2. Len(t) \in Nat
      OBVIOUS
    <3>3. j \in ink /\ \A n \in ink : n <= j
      BY <1>0, <1>2, <3>2, GreatestMember
    <3> QED
      BY <3>1, <3>3
  <2>2. Trim(t) = SubSeq(t, i, j)
    BY <1>2 DEF Trim
  <2> HIDE DEF i, j
  <2>3. /\ i \in DOMAIN t /\ j \in DOMAIN t /\ i <= j /\ t[i] \notin Space /\ t[j] \notin Space
        /\ \A n \in DOMAIN t : n < i \/ n > j => t[n] \in Space
    BY <1>0, <2>1
  <2> HIDE DEF ink
  <2>4. i \in Nat /\ j \in Nat /\ 1 <= i /\ j <= Len(t) /\ i <= j + 1
    BY <1>0, <2>3
  <2>5. /\ Trim(t) \in Seq(Int) /\ Len(Trim(t)) = j - i + 1
        /\ \A k \in i .. j : t[k] > 0 => t[k] \in Words(Trim(t))
        /\ Words(Trim(t)) \subseteq Words(t)
        /\ InOrder(t) => InOrder(Trim(t))
    <3>1. IsPart(Trim(t), t, i, j)
      BY <2>2, <2>4 DEF IsPart
    <3> QED
      BY <2>4, <3>1, PartOfText
  <2>6. Words(t) \subseteq Words(Trim(t))
    <3> SUFFICES ASSUME NEW n \in DOMAIN t, t[n] > 0 PROVE n \in i .. j
      BY <2>5 DEF Words, ToSet
    <3> QED
      BY <1>0, <2>3, <2>4 DEF Space, Blank, NewLine
  <2>7. Trim(t) # <<>>
    BY <2>3, <2>4, <2>5
  <2> QED
    BY <2>2, <2>3, <2>5, <2>6, <2>7
<1> QED
  BY <1>1, <1>2

-----------------------------------------------------------------------------
(* What is hidden, and what is shown of a text.                            *)

\* The token at k is one the client must not see.
Behind(t, k) == (\E p \in Markers(t) : p <= k) \/ (Markers(t) = {} /\ t[1] = Brace)

LEMMA FirstMarker ==
    ASSUME NEW t \in Seq(Int), Markers(t) # {}
    PROVE  \E p \in Nat : /\ Min(Markers(t)) = p
                          /\ 1 <= p /\ p + 1 <= Len(t) /\ p \in Markers(t)
                          /\ \A q \in Markers(t) : p <= q
<1>1. Markers(t) \in SUBSET Nat
  BY DEF Markers
<1>2. Min(Markers(t)) \in Markers(t) /\ \A q \in Markers(t) : Min(Markers(t)) <= q
  BY <1>1, LeastMember
<1>3. \A q \in Markers(t) : q \in Nat /\ 1 <= q /\ q + 1 <= Len(t)
  BY DEF Markers
<1> QED
  BY <1>2, <1>3

LEMMA HiddenText ==
    ASSUME NEW t \in Seq(Int)
    PROVE  /\ HiddenWords(t) \subseteq Words(t)
           /\ \A y \in HiddenWords(t) : \E k \in DOMAIN t : t[k] = y /\ y > 0 /\ Behind(t, k)
           /\ \A k \in DOMAIN t : t[k] > 0 /\ Behind(t, k) => t[k] \in HiddenWords(t)
<1>0. DOMAIN t = 1 .. Len(t) /\ Len(t) \in Nat /\ (t # <<>> => Head(t) = t[1])
  OBVIOUS
<1>1. CASE Markers(t) # {}
  <2>0. PICK p \in Nat : /\ Min(Markers(t)) = p
                         /\ 1 <= p /\ p + 1 <= Len(t) /\ p \in Markers(t)
                         /\ \A q \in Markers(t) : p <= q
    BY <1>1, FirstMarker
  <2>1. /\ p \in Nat /\ 1 <= p /\ p + 1 <= Len(t) /\ p \in Markers(t)
        /\ \A q \in Markers(t) : p <= q
    BY <2>0
  <2>2. PICK n \in Nat : n = Len(t)
    BY <1>0
  <2>u. PICK u : u = SubSeq(t, p, n)
    OBVIOUS
  <2>3. /\ HiddenWords(t) = Words(u)
        /\ \A x \in Words(u) : \E k \in p .. n : t[k] > 0 /\ x = t[k]
        /\ \A k \in p .. n : t[k] > 0 => t[k] \in Words(u)
        /\ Words(u) \subseteq Words(t)
    <3>2. HiddenWords(t) = Words(u)
      BY <1>1, <2>0, <2>2, <2>u DEF HiddenWords
    <3>3. IsPart(u, t, p, n)
      BY <2>1, <2>2, <2>u DEF IsPart
    <3>4. \A x \in Words(u) : \E k \in p .. n : t[k] > 0 /\ x = t[k]
      BY <3>3, PartOfText
    <3>5. \A k \in p .. n : t[k] > 0 => t[k] \in Words(u)
      BY <3>3, PartOfText
    <3>6. Words(u) \subseteq Words(t)
      BY <3>3, PartOfText
    <3> QED
      BY <3>2, <3>4, <3>5, <3>6
  <2>4. \A k \in DOMAIN t : Behind(t, k) <=> p <= k
    BY <1>0, <1>1, <2>1 DEF Behind
  <2>5. \A y \in HiddenWords(t) : \E k \in DOMAIN t : t[k] = y /\ y > 0 /\ Behind(t, k)
    <3>1. \A k \in p .. n : k \in DOMAIN t /\ p <= k
      BY <1>0, <2>1, <2>2
    <3> QED
      BY <2>3, <2>4, <3>1
  <2>6. \A k \in DOMAIN t : t[k] > 0 /\ Behind(t, k) => t[k] \in HiddenWords(t)
    BY <1>0, <2>1, <2>2, <2>3, <2>4
  <2> QED
    BY <2>2, <2>3, <2>5, <2>6
<1>2. CASE Markers(t) = {} /\ t # <<>> /\ Head(t) = Brace
  <2>1. HiddenWords(t) = Words(t)
    BY <1>2 DEF HiddenWords
  <2>2. \A k \in DOMAIN t : Behind(t, k)
    BY <1>0, <1>2 DEF Behind
  <2> QED
    BY <2>1, <2>2 DEF Words, ToSet
<1>3. CASE Markers(t) = {} /\ ~(t # <<>> /\ Head(t) = Brace)
  <2>1. HiddenWords(t) = {}
    BY <1>3, NoText DEF HiddenWords
  <2>2. \A k \in DOMAIN t : ~Behind(t, k)
    BY <1>0, <1>3 DEF Behind
  <2> QED
    BY <2>1, <2>2
<1> QED
  BY <1>1, <1>2, <1>3

LEMMA SanitizedText ==
    ASSUME NEW t \in Seq(Int)
    PROVE  /\ Sanitize(t) \in Seq(Int) /\ Words(Sanitize(t)) \subseteq Words(t)
           /\ InOrder(t) => InOrder(Sanitize(t))
           /\ InOrder(t) => HiddenWords(t) \cap Words(Sanitize(t)) = {}
<1>0. /\ DOMAIN t = 1 .. Len(t) /\ Len(t) \in Nat /\ (t # <<>> => Head(t) = t[1])
      /\ <<>> \in Seq(Int)
      /\ \A k \in DOMAIN t : t[k] \in Int /\ k \in Nat
      /\ \A q \in Markers(t) : q \in Nat
  <2>1. \A q \in Markers(t) : q \in Nat
    BY DEF Markers
  <2> QED
    BY <2>1
<1>1. CASE Markers(t) # {}
  <2>0. PICK p \in Nat : /\ Min(Markers(t)) = p
                         /\ 1 <= p /\ p + 1 <= Len(t) /\ p \in Markers(t)
                         /\ \A q \in Markers(t) : p <= q
    BY <1>1, FirstMarker
  <2>1. /\ p \in Nat /\ 1 <= p /\ p + 1 <= Len(t) /\ p \in Markers(t)
        /\ \A q \in Markers(t) : p <= q
    BY <2>0
  <2>n. PICK n \in Nat : n = p - 1
    BY <2>1
  <2>u. PICK u : u = SubSeq(t, 1, n)
    OBVIOUS
  <2>2. Sanitize(t) = Trim(u)
    BY <1>1, <2>0, <2>n, <2>u DEF Sanitize
  <2>3. /\ u \in Seq(Int)
        /\ \A x \in Words(u) : \E k \in 1 .. n : t[k] > 0 /\ x = t[k]
        /\ Words(u) \subseteq Words(t)
        /\ InOrder(t) => InOrder(u)
    <3>1. IsPart(u, t, 1, n)
      BY <1>0, <2>1, <2>n, <2>u DEF IsPart
    <3> QED
      BY <3>1, PartOfText
  <2>4. /\ Trim(u) \in Seq(Int) /\ Words(Trim(u)) = Words(u)
        /\ InOrder(u) => InOrder(Trim(u))
    BY <2>3, TrimmedText
  <2>5. ASSUME InOrder(t), NEW x \in HiddenWords(t), x \in Words(u) PROVE FALSE
    <3>1. PICK k \in DOMAIN t : t[k] = x /\ x > 0 /\ Behind(t, k)
      BY <1>0, <2>5, HiddenText
    <3>2. PICK l \in 1 .. n : x = t[l]
      BY <2>3, <2>5
    <3>3. p <= k
      <4>1. PICK q \in Markers(t) : q <= k
        BY <1>1, <3>1 DEF Behind
      <4> QED
        BY <1>0, <2>1, <4>1
    <3>4. l \in DOMAIN t /\ l < k
      BY <1>0, <2>1, <2>n, <3>2, <3>3
    <3>5. t[l] < t[k] /\ t[k] \in Int
      BY <1>0, <2>5, <3>1, <3>4 DEF InOrder
    <3> QED
      BY <3>1, <3>2, <3>5
  <2> QED
    BY <2>2, <2>3, <2>4, <2>5
<1>2. CASE Markers(t) = {} /\ Trim(t) # <<>> /\ Head(Trim(t)) = Brace
  <2>1. Sanitize(t) = <<>>
    BY <1>2 DEF Sanitize
  <2> QED
    BY <1>0, <2>1, NoText
<1>3. CASE Markers(t) = {} /\ ~(Trim(t) # <<>> /\ Head(Trim(t)) = Brace)
  <2>1. Sanitize(t) = t
    BY <1>3 DEF Sanitize
  <2>2. ASSUME t # <<>>, Head(t) = Brace PROVE FALSE
    <3>1. 1 \in DOMAIN t /\ t[1] \notin Space
      BY <1>0, <2>2 DEF Space, Brace, Blank, NewLine
    <3>2. PICK i, j \in DOMAIN t :
             /\ i <= j /\ Trim(t) = SubSeq(t, i, j)
             /\ \A n \in DOMAIN t : n < i \/ n > j => t[n] \in Space
      BY <3>1, TrimmedText
    <3>3. i = 1
      <4>1. ~(1 < i)
        BY <3>1, <3>2
      <4>2. i \in Nat /\ 1 <= i
        BY <1>0
      <4> QED
        BY <4>1, <4>2
    <3>4. Trim(t) # <<>> /\ Head(Trim(t)) = t[1]
      BY <1>0, <3>2, <3>3
    <3> QED
      BY <1>0, <1>3, <2>2, <3>4
  <2>3. HiddenWords(t) = {}
    BY <1>3, <2>2, NoText DEF HiddenWords
  <2> QED
    BY <2>1, <2>3
<1> QED
  BY <1>1, <1>2, <1>3

-----------------------------------------------------------------------------
(* A token is appended to a text.                                          *)

\* The text b is the text a, some white space, and x.
Grown(a, b, x) ==
    /\ Len(a) < Len(b) /\ b[Len(b)] = x
    /\ \A k \in 1 .. Len(a) : b[k] = a[k]
    /\ \A k \in Len(a) + 1 .. Len(b) - 1 : b[k] \in Space

LEMMA PartValues ==
    ASSUME NEW t \in Seq(Int), NEW u, NEW i \in Nat, NEW j \in Nat, NEW l \in Nat,
           IsPart(u, t, i, j), l + i = j + 1
    PROVE  Len(u) = l /\ \A k \in 1 .. l : u[k] = t[i + k - 1]
<1>1. j - i + 1 = l
  OBVIOUS
<1>2. Len(u) = j - i + 1
  BY PartOfText
<1>3. \A k \in 1 .. j - i + 1 : u[k] = t[i + k - 1]
  BY PartOfText
<1> QED
  BY <1>1, <1>2, <1>3, Zenon

LEMMA PartGrown ==
    ASSUME NEW t \in Seq(Int), NEW u \in Seq(Int), NEW v, NEW w, NEW x,
           NEW i \in Nat, NEW b \in Nat, NEW n \in Nat, 1 <= i, i <= b, b <= n,
           IsPart(v, t, i, b), IsPart(w, u, i, n + 1), u[n + 1] = x,
           \A k \in 1 .. n : u[k] = t[k], \A k \in b + 1 .. n : u[k] \in Space
    PROVE  Grown(v, w, x)
<1>1. PICK la \in Nat : la = b - i + 1
  OBVIOUS
<1>2. PICK lb \in Nat : lb = n + 2 - i
  OBVIOUS
<1>3. la < lb /\ lb \in 1 .. lb /\ i + lb - 1 = n + 1
  BY <1>1, <1>2
<1>4. ASSUME NEW k \in 1 .. la PROVE i + k - 1 \in 1 .. n /\ k \in 1 .. lb
  BY <1>1, <1>2
<1>5. ASSUME NEW k \in la + 1 .. lb - 1 PROVE i + k - 1 \in b + 1 .. n /\ k \in 1 .. lb
  BY <1>1, <1>2
<1>6. Len(v) = la /\ \A k \in 1 .. la : v[k] = t[i + k - 1]
  <2>1. la + i = b + 1
    BY <1>1
  <2> QED
    BY <2>1, PartValues
<1>7. Len(w) = lb /\ \A k \in 1 .. lb : w[k] = u[i + k - 1]
  <2>1. n + 1 \in Nat /\ lb + i = (n + 1) + 1
    BY <1>2
  <2> QED
    BY <2>1, PartValues
<1> QED
  BY <1>3, <1>4, <1>5, <1>6, <1>7 DEF Grown

LEMMA TrimAppended ==
    ASSUME NEW t \in Seq(Int), NEW x \in Int
    PROVE  Trim(Append(t, x)) = Trim(t) \/ Grown(Trim(t), Trim(Append(t, x)), x)
<1>1. PICK n \in Nat : n = Len(t)
  OBVIOUS
<1>2. PICK u \in Seq(Int) : u = Append(t, x)
  <2>1. Append(t, x) \in Seq(Int)
    OBVIOUS
  <2> QED
    BY <2>1, Zenon
<1>3. /\ DOMAIN t = 1 .. n /\ DOMAIN u = 1 .. n + 1
      /\ \A k \in 1 .. n : u[k] = t[k]
      /\ u[n + 1] = x /\ Len(u) = n + 1 /\ Len(t) = n
  BY <1>1, <1>2
<1>4. CASE x \in Space
  <2> DEFINE ink == {k \in DOMAIN t : t[k] \notin Space}
  <2>1. {k \in DOMAIN u : u[k] \notin Space} = ink
    BY <1>3, <1>4
  <2>2. CASE ink = {}
    BY <1>2, <2>1, <2>2 DEF Trim
  <2>3. CASE ink # {}
    <3>1. ink \in SUBSET Nat /\ ink \in SUBSET (0 .. n)
      BY <1>3
    <3>2. Min(ink) \in ink /\ Max(ink) \in ink
      BY <2>3, <3>1, LeastMember, GreatestMember
    <3>3. Min(ink) \in 1 .. n /\ Max(ink) \in 1 .. n
      BY <1>3, <3>2
    <3> HIDE DEF ink
    <3>4. ASSUME NEW i \in 1 .. n, NEW j \in 1 .. n PROVE SubSeq(u, i, j) = SubSeq(t, i, j)
      <4>1. SubSeq(u, i, j) = [k \in 1 .. j - i + 1 |-> u[i + k - 1]]
        BY <1>3
      <4>2. SubSeq(t, i, j) = [k \in 1 .. j - i + 1 |-> t[i + k - 1]]
        BY <1>3
      <4>3. \A k \in 1 .. j - i + 1 : i + k - 1 \in 1 .. n
        OBVIOUS
      <4> QED
        BY <1>3, <4>1, <4>2, <4>3
    <3>5. Trim(u) = SubSeq(u, Min(ink), Max(ink))
      BY <2>1, <2>3 DEF Trim
    <3>6. Trim(t) = SubSeq(t, Min(ink), Max(ink))
      BY <2>3 DEF Trim, ink
    <3> QED
      BY <1>2, <3>3, <3>4, <3>5, <3>6
  <2> QED
    BY <2>2, <2>3
<1>5. CASE x \notin Space
  <2>1. n + 1 \in DOMAIN u /\ u[n + 1] \notin Space
    BY <1>3, <1>5
  <2>2. PICK i, j \in DOMAIN u :
           /\ i <= j /\ Trim(u) = SubSeq(u, i, j)
           /\ u[i] \notin Space /\ u[j] \notin Space
           /\ \A m \in DOMAIN u : m < i \/ m > j => u[m] \in Space
    BY <2>1, TrimmedText
  <2>3. i \in 1 .. n + 1 /\ j \in 1 .. n + 1 /\ ~(n + 1 > j)
    BY <1>3, <2>1, <2>2
  <2>4. j = n + 1
    BY <2>3
  <2>5. /\ Trim(u) \in Seq(Int) /\ Len(Trim(u)) = n + 2 - i
        /\ \A k \in 1 .. n + 2 - i : Trim(u)[k] = u[i + k - 1]
    BY <1>3, <2>2, <2>3, <2>4
  <2>6. CASE Trim(t) = <<>>
    <3>1. \A k \in 1 .. n : u[k] \in Space
      BY <1>3, <2>6, TrimmedText
    <3>2. i = n + 1
      BY <2>2, <2>3, <3>1
    <3>3. Len(Trim(u)) = 1 /\ Trim(u)[1] = x /\ Len(Trim(t)) = 0
      BY <1>3, <2>5, <2>6, <3>2
    <3> QED
      BY <1>2, <3>3 DEF Grown
  <2>7. CASE Trim(t) # <<>>
    <3>1. PICK a, b \in DOMAIN t :
             /\ a <= b /\ Trim(t) = SubSeq(t, a, b)
             /\ t[a] \notin Space /\ t[b] \notin Space
             /\ \A m \in DOMAIN t : m < a \/ m > b => t[m] \in Space
      BY <2>7, TrimmedText
    <3>2. a \in 1 .. n /\ b \in 1 .. n /\ u[a] \notin Space
      BY <1>3, <3>1
    <3>3. ~(a < i)
      BY <1>3, <2>2, <3>2
    <3>4. i \in 1 .. n /\ t[i] \notin Space
      BY <1>3, <2>2, <2>3, <3>2, <3>3
    <3>5. ~(i < a)
      BY <1>3, <3>1, <3>4
    <3>6. i = a
      BY <3>2, <3>3, <3>4, <3>5
    <3>7. i <= b /\ b \in 1 .. n /\ Trim(t) = SubSeq(t, i, b)
      BY <3>1, <3>2, <3>6
    <3>8. ASSUME NEW k \in b + 1 .. n PROVE u[k] \in Space
      <4>1. k \in 1 .. n /\ k > b
        BY <3>7
      <4> QED
        BY <1>3, <3>1, <4>1
    <3>9. IsPart(Trim(t), t, i, b)
      BY <1>3, <3>4, <3>7 DEF IsPart
    <3>10. IsPart(Trim(u), u, i, n + 1)
      BY <1>3, <2>2, <2>4, <3>4 DEF IsPart
    <3>11. i \in Nat /\ b \in Nat /\ 1 <= i /\ b <= n
      BY <3>4, <3>7
    <3>12. Grown(Trim(t), Trim(u), x)
      BY <1>3, <3>7, <3>8, <3>9, <3>10, <3>11, PartGrown
    <3> QED
      BY <1>2, <3>12
  <2> QED
    BY <2>6, <2>7
<1> QED
  BY <1>4, <1>5

LEMMA HiddenGrown ==
    ASSUME NEW a \in Seq(Int), NEW b \in Seq(Int), NEW x \in Int, Grown(a, b, x)
    PROVE  \A y \in HiddenWords(b) : y \in HiddenWords(a) \/ y = x
<1>l. PICK la \in Nat, lb \in Nat : la = Len(a) /\ lb = Len(b)
  OBVIOUS
<1>1. /\ la < lb /\ b[lb] = x
      /\ DOMAIN a = 1 .. la /\ DOMAIN b = 1 .. lb
      /\ \A k \in 1 .. la : b[k] = a[k]
      /\ \A k \in la + 1 .. lb - 1 : b[k] \in Space
  BY <1>l DEF Grown
<1>0. Shut \notin Space /\ \A y \in Int : y > 0 => y \notin Space
  BY DEF Space, Shut, Blank, NewLine
<1>2. ASSUME NEW p \in Markers(b) PROVE p \in Markers(a) \/ p + 1 = lb
  <2>1. p \in 1 .. lb - 1 /\ b[p] = Open /\ b[p + 1] = Shut
    BY <1>l DEF Markers
  <2>2. ~(p + 1 \in la + 1 .. lb - 1)
    BY <1>0, <1>1, <2>1
  <2>3. CASE p + 1 <= la
    <3>1. p \in 1 .. la - 1 /\ p \in 1 .. la /\ p + 1 \in 1 .. la
      BY <1>1, <2>1, <2>3
    <3> QED
      BY <1>l, <1>1, <2>1, <3>1 DEF Markers
  <2> QED
    BY <1>1, <2>1, <2>2, <2>3
<1>3. Markers(b) = {} => Markers(a) = {}
  <2> SUFFICES ASSUME NEW p \in Markers(a) PROVE p \in Markers(b)
    OBVIOUS
  <2>1. p \in 1 .. la - 1 /\ a[p] = Open /\ a[p + 1] = Shut
    BY <1>l DEF Markers
  <2>2. p \in 1 .. lb - 1 /\ p \in 1 .. la /\ p + 1 \in 1 .. la
    BY <1>1, <2>1
  <2> QED
    BY <1>l, <1>1, <2>1, <2>2 DEF Markers
<1> SUFFICES ASSUME NEW y \in HiddenWords(b), y # x PROVE y \in HiddenWords(a)
  OBVIOUS
<1>4. PICK k \in DOMAIN b : b[k] = y /\ y > 0 /\ Behind(b, k)
  BY HiddenText
<1>5. k \in 1 .. la /\ k < lb /\ a[k] = y
  <2>1. k \in 1 .. lb /\ k # lb
    BY <1>1, <1>4
  <2>2. ~(k \in la + 1 .. lb - 1)
    BY <1>0, <1>1, <1>4
  <2> QED
    BY <1>1, <1>4, <2>1, <2>2
<1>6. Behind(a, k)
  <2>1. CASE \E p \in Markers(b) : p <= k
    <3>1. PICK p \in Markers(b) : p <= k
      BY <2>1
    <3>2. p \in 1 .. lb - 1 /\ b[p] = Open
      BY <1>l DEF Markers
    <3>3. p # k
      BY <1>4, <3>2 DEF Open
    <3>4. p \in Markers(a)
      BY <1>1, <1>2, <1>5, <3>1, <3>2, <3>3
    <3> QED
      BY <3>1, <3>4 DEF Behind
  <2>2. CASE Markers(b) = {} /\ b[1] = Brace
    <3>1. a[1] = b[1]
      BY <1>1, <1>5
    <3> QED
      BY <1>3, <2>2, <3>1 DEF Behind
  <2> QED
    BY <1>4, <2>1, <2>2 DEF Behind
<1> QED
  BY <1>1, <1>4, <1>5, <1>6, HiddenText

\* Appending a token hides nothing else than this token.
LEMMA HiddenAppended ==
    ASSUME NEW t \in Seq(Int), NEW x \in Int
    PROVE  \A y \in HiddenWords(Trim(Append(t, x))) : y \in HiddenWords(Trim(t)) \/ y = x
<1>1. Append(t, x) \in Seq(Int)
  OBVIOUS
<1>2. Trim(t) \in Seq(Int) /\ Trim(Append(t, x)) \in Seq(Int)
  BY <1>1, TrimmedText
<1> QED
  BY <1>2, TrimAppended, HiddenGrown

-----------------------------------------------------------------------------
(* The delta of a text.                                                    *)

LEMMA PrefixText ==
    ASSUME NEW b \in Seq(Int), NEW v \in Seq(Int), IsPrefix(b, v)
    PROVE  Len(b) <= Len(v) /\ \A k \in 1 .. Len(b) : b[k] = v[k]
<1>1. Len(b) <= Len(v) /\ SubSeq(b, 1, Len(b)) = SubSeq(v, 1, Len(b))
  BY DEF IsPrefix
<1>2. PICK n \in Nat : n = Len(b)
  OBVIOUS
<1>3. ASSUME NEW k \in 1 .. n PROVE b[k] = v[k]
  <2>1. SubSeq(b, 1, n)[k] = b[k] /\ SubSeq(v, 1, n)[k] = v[k]
    BY <1>1, <1>2
  <2> QED
    BY <1>1, <1>2, <2>1
<1> QED
  BY <1>1, <1>2, <1>3

LEMMA PrefixWords ==
    ASSUME NEW b \in Seq(Int), NEW v \in Seq(Int), IsPrefix(b, v)
    PROVE  Words(b) \subseteq Words(v)
<1>1. Len(b) <= Len(v) /\ \A k \in 1 .. Len(b) : b[k] = v[k]
  BY PrefixText
<1>2. \A k \in DOMAIN b : k \in DOMAIN v /\ b[k] = v[k]
  BY <1>1
<1> QED
  BY <1>2 DEF Words, ToSet

LEMMA PrefixBegins ==
    ASSUME NEW b \in Seq(Int), NEW v \in Seq(Int), IsPrefix(b, v)
    PROVE  BeginsWith(v, b)
<1>1. Len(b) <= Len(v) /\ \A k \in 1 .. Len(b) : b[k] = v[k]
  BY PrefixText
<1>2. \A k \in DOMAIN b : Reads(v[k]) = Reads(b[k])
  BY <1>1
<1> QED
  BY <1>1, <1>2 DEF BeginsWith

LEMMA DeltaText ==
    ASSUME NEW v \in Seq(Int), NEW b \in Seq(Int)
    PROVE  /\ Delta(v, b) \in Seq(Int) /\ Words(Delta(v, b)) \subseteq Words(v)
           /\ \A w \in Words(v) :
                 w \in Words(Delta(v, b)) \/ w \in Words(b) \/ w \in Swallows(v, b)
           /\ InOrder(v) => InOrder(Delta(v, b))
           /\ InOrder(v) /\ IsPrefix(b, v)
                => \A x \in Words(b), y \in Words(Delta(v, b)) : x < y
           /\ Swallows(v, b) \subseteq Words(v)
           /\ InOrder(v) => \A x \in Swallows(v, b), y \in Words(Delta(v, b)) : x < y
           /\ IsPrefix(b, v) => Swallows(v, b) = {}
<1>0. IsPrefix(b, v) => BeginsWith(v, b)
  BY PrefixBegins
<1>1. CASE BeginsWith(v, b)
  <2>1. PICK n \in Nat : n = Len(b)
    OBVIOUS
  <2>2. PICK m \in Nat : m = Len(v)
    OBVIOUS
  <2>3. n <= m /\ (IsPrefix(b, v) => \A k \in 1 .. n : b[k] = v[k])
    BY <1>1, <2>1, <2>2, PrefixText DEF BeginsWith
  <2>4. PICK u : u = SubSeq(v, n + 1, m)
    OBVIOUS
  <2>5. Delta(v, b) = Trim(u)
    BY <1>1, <2>1, <2>2, <2>4 DEF Delta
  <2>6. PICK i \in Nat : i = n + 1
    OBVIOUS
  <2>7. IsPart(u, v, i, m)
    BY <2>1, <2>2, <2>3, <2>4, <2>6 DEF IsPart
  <2>8. u \in Seq(Int) /\ Words(u) \subseteq Words(v)
    BY <2>7, PartOfText
  <2>9. \A y \in Words(u) : \E k \in i .. m : v[k] > 0 /\ y = v[k]
    BY <2>7, PartWords
  <2>10. \A k \in i .. m : v[k] > 0 => v[k] \in Words(u)
    BY <2>7, PartOfText
  <2>11. InOrder(v) => InOrder(u)
    BY <2>7, PartOfText
  <2>12. /\ Trim(u) \in Seq(Int) /\ Words(Trim(u)) = Words(u)
         /\ InOrder(u) => InOrder(Trim(u))
    BY <2>8, TrimmedText
  <2>13. DOMAIN v = 1 .. m /\ DOMAIN b = 1 .. n
    BY <2>1, <2>2
  <2>20. PICK h : h = SubSeq(v, 1, n)
    OBVIOUS
  <2>21. IsPart(h, v, 1, n)
    BY <2>1, <2>2, <2>3, <2>20 DEF IsPart
  <2>22. Words(h) \subseteq Words(v) /\ \A k \in 1 .. n : v[k] > 0 => v[k] \in Words(h)
    BY <2>21, PartOfText
  <2>23. \A x \in Words(h) : \E k \in 1 .. n : v[k] > 0 /\ x = v[k]
    BY <2>21, PartWords
  <2>24. Swallows(v, b) = Words(h) \ Words(b)
    BY <1>1, <2>1, <2>20 DEF Swallows
  <2>14. ASSUME NEW w \in Words(v) PROVE w \in Words(u) \/ w \in Words(b) \/ w \in Swallows(v, b)
    <3>1. PICK k \in 1 .. m : w = v[k] /\ w > 0
      BY <2>13 DEF Words, ToSet
    <3>2. CASE k \in i .. m
      BY <2>10, <3>1, <3>2
    <3>3. CASE k \in 1 .. n
      BY <2>22, <2>24, <3>1, <3>3
    <3> QED
      BY <2>6, <3>2, <3>3
  <2>16. ASSUME InOrder(v), NEW x \in Words(h), NEW y \in Words(u) PROVE x < y
    <3>1. PICK k \in 1 .. n : v[k] > 0 /\ x = v[k]
      BY <2>23
    <3>2. PICK l \in i .. m : v[l] > 0 /\ y = v[l]
      BY <2>9
    <3>3. k < l /\ k \in 1 .. m /\ l \in 1 .. m
      BY <2>3, <2>6
    <3> QED
      BY <2>13, <2>16, <3>1, <3>2, <3>3 DEF InOrder
  <2>17. ASSUME IsPrefix(b, v) PROVE Words(h) \subseteq Words(b)
    BY <2>3, <2>13, <2>17, <2>23 DEF Words, ToSet
  <2>15. ASSUME InOrder(v), IsPrefix(b, v), NEW x \in Words(b), NEW y \in Words(u) PROVE x < y
    <3>1. PICK k \in 1 .. n : x = b[k]
      BY <2>13 DEF Words, ToSet
    <3>2. PICK l \in i .. m : v[l] > 0 /\ y = v[l]
      BY <2>9
    <3>3. k < l /\ k \in 1 .. m /\ l \in 1 .. m
      BY <2>3, <2>6
    <3>4. v[k] < v[l]
      BY <2>13, <2>15, <3>2, <3>3 DEF InOrder
    <3> QED
      BY <2>3, <2>15, <3>1, <3>2, <3>4
  <2> QED
    BY <2>5, <2>8, <2>11, <2>12, <2>14, <2>15, <2>16, <2>17, <2>22, <2>24
<1>2. CASE ~BeginsWith(v, b) /\ b # <<>>
  <2>1. PICK l \in Seq(Int) : l = <<NewLine>>
    <3>1. <<NewLine>> \in Seq(Int)
      BY DEF NewLine
    <3> QED
      BY <3>1, Zenon
  <2>2. Words(l) = {} /\ InOrder(l)
    BY <2>1 DEF Words, ToSet, InOrder, NewLine
  <2>3. PICK u \in Seq(Int) : u = l \o v
    <3>1. l \o v \in Seq(Int)
      OBVIOUS
    <3> QED
      BY <3>1, Zenon
  <2>4. Delta(v, b) = Trim(u)
    BY <1>2, <2>1, <2>3 DEF Delta
  <2>5. Words(u) = Words(v)
    <3>1. Words(l \o v) = Words(l) \cup Words(v)
      BY JoinedTexts
    <3> QED
      BY <2>2, <2>3, <3>1
  <2>6. InOrder(v) => InOrder(u)
    <3>1. \A x \in ToSet(l), y \in Words(v) : x < y
      BY <2>1 DEF Words, ToSet, NewLine
    <3> QED
      BY <2>2, <2>3, <3>1, JoinedTexts
  <2>7. /\ Trim(u) \in Seq(Int) /\ Words(Trim(u)) = Words(u)
        /\ InOrder(u) => InOrder(Trim(u))
    BY TrimmedText
  <2>8. Swallows(v, b) = {}
    BY <1>2 DEF Swallows
  <2> QED
    BY <1>0, <1>2, <2>4, <2>5, <2>6, <2>7, <2>8
<1>3. CASE ~BeginsWith(v, b) /\ b = <<>>
  <2>1. Delta(v, b) = Trim(v) /\ Swallows(v, b) = {}
    BY <1>3 DEF Delta, Swallows
  <2> QED
    BY <1>0, <1>3, <2>1, TrimmedText
<1> QED
  BY <1>1, <1>2, <1>3

-----------------------------------------------------------------------------
(* Types.                                                                  *)

LEMMA TrimmedType ==
    ASSUME NEW T, T \subseteq Int, NEW t \in Seq(T)
    PROVE  Trim(t) \in Seq(T)
<1>1. t \in Seq(Int)
  BY SeqMonotonic
<1>2. CASE Trim(t) = <<>>
  BY <1>2
<1>3. CASE Trim(t) # <<>>
  <2>1. PICK i, j \in DOMAIN t : i <= j /\ Trim(t) = SubSeq(t, i, j)
    BY <1>1, <1>3, TrimmedText
  <2> QED
    BY <2>1
<1> QED
  BY <1>2, <1>3

LEMMA SanitizedType ==
    ASSUME NEW T, T \subseteq Int, NEW t \in Seq(T)
    PROVE  Sanitize(t) \in Seq(T)
<1>1. t \in Seq(Int)
  BY SeqMonotonic
<1>2. CASE Markers(t) # {}
  <2>1. PICK p \in Nat : Min(Markers(t)) = p /\ 1 <= p /\ p + 1 <= Len(t)
    BY <1>1, <1>2, FirstMarker
  <2>2. PICK u \in Seq(T) : u = SubSeq(t, 1, p - 1)
    <3>1. SubSeq(t, 1, p - 1) \in Seq(T)
      BY <2>1
    <3> QED
      BY <3>1, Zenon
  <2>3. Sanitize(t) = Trim(u)
    BY <1>2, <2>1, <2>2 DEF Sanitize
  <2>4. Trim(u) \in Seq(T)
    BY TrimmedType
  <2> QED
    BY <2>3, <2>4, Zenon
<1>3. CASE Markers(t) = {}
  <2>1. Sanitize(t) = <<>> \/ Sanitize(t) = t
    BY <1>3 DEF Sanitize
  <2>2. <<>> \in Seq(T)
    OBVIOUS
  <2> QED
    BY <2>1, <2>2, Zenon
<1> QED
  BY <1>2, <1>3

LEMMA DeltaType ==
    ASSUME NEW T, T \subseteq Int, NewLine \in T, NEW v \in Seq(T), NEW b \in Seq(T)
    PROVE  Delta(v, b) \in Seq(T)
<1>1. CASE BeginsWith(v, b)
  <2>1. SubSeq(v, Len(b) + 1, Len(v)) \in Seq(T)
    OBVIOUS
  <2>2. Delta(v, b) = Trim(SubSeq(v, Len(b) + 1, Len(v)))
    BY <1>1 DEF Delta
  <2> QED
    BY <2>1, <2>2, TrimmedType
<1>2. CASE ~BeginsWith(v, b) /\ b # <<>>
  <2>1. <<NewLine>> \o v \in Seq(T)
    OBVIOUS
  <2>2. Delta(v, b) = Trim(<<NewLine>> \o v)
    BY <1>2 DEF Delta
  <2> QED
    BY <2>1, <2>2, TrimmedType
<1>3. CASE ~BeginsWith(v, b) /\ b = <<>>
  <2>1. Delta(v, b) = Trim(v)
    BY <1>3 DEF Delta
  <2> QED
    BY <2>1, TrimmedType
<1> QED
  BY <1>1, <1>2, <1>3

LEMMA TokenTypes ==
    ASSUME written \in Nat
    PROVE  /\ Token \subseteq Int /\ NewLine \in Token /\ <<>> \in Seq(Token)
           /\ \A t \in Seq(Token) : t \in Seq(Int)
<1>1. Token \subseteq Int
  <2> SUFFICES ASSUME NEW x \in Token PROVE x \in Int
    OBVIOUS
  <2> QED
    BY DEF Token, Blank, NewLine, Open, Shut, Brace, Ask
<1>2. NewLine \in Token
  BY DEF Token
<1>3. \A t \in Seq(Token) : t \in Seq(Int)
  BY <1>1, SeqMonotonic
<1>4. <<>> \in Seq(Token)
  OBVIOUS
<1> QED
  BY <1>1, <1>2, <1>3, <1>4

\* The message that is selected is the last usable one, assistants first.
LEMMA SelectedMessage ==
    ASSUME TypeOK, Usable # {}
    PROVE  /\ Selected \in Usable /\ Selected \in DOMAIN msgs
           /\ Assistants # {} => Selected \in Assistants /\ \A n \in Assistants : n <= Selected
           /\ Assistants = {} => \A n \in Usable : n <= Selected
<1>1. PICK l \in Nat : l = Len(msgs)
  BY DEF TypeOK
<1>2. Usable \in SUBSET (0 .. l) /\ Assistants \in SUBSET (0 .. l) /\ Assistants \subseteq Usable
  BY <1>1 DEF Usable, Assistants, TypeOK
<1>3. CASE Assistants # {}
  BY <1>2, <1>3, GreatestMember DEF Selected, Usable
<1>4. CASE Assistants = {}
  BY <1>2, <1>4, GreatestMember DEF Selected, Usable
<1> QED
  BY <1>3, <1>4

-----------------------------------------------------------------------------
(* What a step does.                                                       *)

Shapes ==
    /\ Len(msgs) \in 1 .. MaxMessages + 1 /\ DOMAIN msgs = 1 .. Len(msgs)
    /\ DOMAIN last = 0 .. MaxMessages + 1 /\ DOMAIN seen = 1 .. MaxMessages + 1
    /\ written \in Nat /\ shown \in Seq(Int) /\ final \in Seq(Int)
    /\ \A n \in DOMAIN msgs : msgs[n].text \in Seq(Int) /\ msgs[n].assistant \in BOOLEAN
    /\ \A n \in DOMAIN msgs : \A x \in Words(msgs[n].text) : x <= written
    /\ \A i \in DOMAIN last : last[i] \in Seq(Int)
    /\ \A n \in DOMAIN seen : seen[n] \in Seq(Int)
    /\ \A x \in Words(shown) : x <= written
    /\ \A n \in DOMAIN seen : \A x \in Words(seen[n]) : x <= written

LEMMA TypedWords ==
    ASSUME written \in Nat, NEW t \in Seq(Token)
    PROVE  \A x \in Words(t) : x <= written
<1> SUFFICES ASSUME NEW x \in Words(t) PROVE x <= written
  OBVIOUS
<1>1. x \in Token /\ x > 0
  BY DEF Words, ToSet
<1> QED
  BY <1>1 DEF Token, Blank, NewLine, Open, Shut, Brace, Ask

LEMMA MessageTypes ==
    ASSUME NEW n \in DOMAIN msgs, TypeOK
    PROVE  msgs[n].text \in Seq(Token) /\ msgs[n].assistant \in BOOLEAN
<1>1. msgs \in Seq([text : Seq(Token), assistant : BOOLEAN]) /\ n \in 1 .. Len(msgs)
  BY DEF TypeOK
<1>2. msgs[n] \in [text : Seq(Token), assistant : BOOLEAN]
  BY <1>1, ElementOfSeq
<1> QED
  BY <1>2

LEMMA TypedShapes ==
    ASSUME TypeOK
    PROVE  Shapes
<1>1. written \in Nat
  BY DEF TypeOK
<1>2. \A t \in Seq(Token) : t \in Seq(Int) /\ \A x \in Words(t) : x <= written
  BY <1>1, TokenTypes, TypedWords
<1>3. /\ \A n \in DOMAIN msgs : msgs[n].text \in Seq(Token) /\ msgs[n].assistant \in BOOLEAN
      /\ \A i \in DOMAIN last : last[i] \in Seq(Token)
      /\ \A n \in DOMAIN seen : seen[n] \in Seq(Token)
      /\ shown \in Seq(Token) /\ final \in Seq(Token)
  BY MessageTypes DEF TypeOK
<1>4. /\ Len(msgs) \in 1 .. MaxMessages + 1 /\ DOMAIN msgs = 1 .. Len(msgs)
      /\ DOMAIN last = 0 .. MaxMessages + 1 /\ DOMAIN seen = 1 .. MaxMessages + 1
  BY DEF TypeOK
<1> QED
  BY <1>1, <1>2, <1>3, <1>4 DEF Shapes

\* A token x is written after the text, which is what the newest message
\* holds or nothing.
Wrote(text, x) ==
    /\ Len(msgs) > 1 /\ Len(msgs') = Len(msgs) /\ DOMAIN msgs' = DOMAIN msgs
    /\ text = msgs[Len(msgs)].text \/ (text = <<>> /\ x \notin Space)
    /\ msgs'[Len(msgs)].text = Append(text, x)
    /\ msgs'[Len(msgs)].assistant = msgs[Len(msgs)].assistant
    /\ \A n \in DOMAIN msgs : n # Len(msgs) => msgs'[n] = msgs[n]
    /\ \/ x = written + 1 /\ written' = written + 1
       \/ x \in {Blank, Open, Shut, Brace} /\ written' = written
    /\ Len(spelled') = written' /\ spelled' \in Seq(Spellings)
    /\ UNCHANGED <<ids, roles, last, shown, final, seen, grew, swallowed>>

LEMMA WriteStep ==
    ASSUME TypeOK, Extend \/ Rewrite
    PROVE  \E text \in Seq(Token), x \in Int : Wrote(text, x) /\ Write(text, x)
<1>0. Shapes /\ written \in Nat /\ <<>> \in Seq(Token)
  BY TypedShapes DEF TypeOK
<1>1. PICK text, x : Write(text, x) /\ x \in Ink \cup {Blank}
                     /\ (text = Last(msgs).text \/ (text = <<>> /\ x \in Ink))
  BY DEF Extend, Rewrite
<1>2. PICK m \in Nat : m = Len(msgs)
  BY DEF TypeOK
<1>3. m > 1 /\ m \in DOMAIN msgs /\ DOMAIN msgs = 1 .. m
  BY <1>1, <1>2 DEF Write, TypeOK
<1>4. Last(msgs).text = msgs[m].text /\ msgs[m].text \in Seq(Token)
  BY <1>2, <1>3, MessageTypes DEF Last
<1>5. text \in Seq(Token) /\ x \in Int
  <2>1. x = written + 1 \/ x \in {Blank, Open, Shut, Brace}
    BY <1>1 DEF Ink
  <2>2. x \in Int
    BY <1>0, <2>1 DEF Blank, Open, Shut, Brace
  <2> QED
    BY <1>0, <1>1, <1>4, <2>2
<1>6. /\ Len(msgs') = m /\ DOMAIN msgs' = DOMAIN msgs
      /\ msgs'[m].text = Append(text, x)
      /\ msgs'[m].assistant = msgs[m].assistant
      /\ \A n \in DOMAIN msgs : n # m => msgs'[n] = msgs[n]
  <2>1. msgs' = [msgs EXCEPT ![m].text = Append(text, x)]
    BY <1>1, <1>2 DEF Write
  <2>2. msgs \in Seq([text : Seq(Token), assistant : BOOLEAN])
    BY DEF TypeOK
  <2> QED
    BY <1>2, <1>3, <2>1, <2>2
<1>7. \/ x = written + 1 /\ written' = written + 1
      \/ x \in {Blank, Open, Shut, Brace} /\ written' = written
  <2>1. x = written + 1 \/ x \in {Blank, Open, Shut, Brace}
    BY <1>1 DEF Ink
  <2>2. written' = IF x = written + 1 THEN x ELSE written
    BY <1>1 DEF Write
  <2>3. x \in {Blank, Open, Shut, Brace} => x # written + 1
    BY <1>0 DEF Blank, Open, Shut, Brace
  <2> QED
    BY <2>1, <2>2, <2>3
<1>8. x \in Ink => x \notin Space
  BY <1>0 DEF Ink, Space, Blank, NewLine, Open, Shut, Brace
<1>9. Len(spelled') = written' /\ spelled' \in Seq(Spellings)
  <2>1. spelled \in Seq(Spellings) /\ Len(spelled) = written
    BY DEF TypeOK
  <2>2. CASE x = written + 1
    <3>1. PICK y \in Spellings : spelled' = Append(spelled, y)
      BY <1>1, <2>2 DEF Write
    <3>2. written' = written + 1
      BY <1>1, <2>2 DEF Write
    <3> QED
      BY <2>1, <3>1, <3>2
  <2>3. CASE x # written + 1
    <3>1. spelled' = spelled /\ written' = written
      BY <1>1, <2>3 DEF Write
    <3> QED
      BY <2>1, <3>1
  <2> QED
    BY <2>2, <2>3
<1>10. Wrote(text, x)
  BY <1>1, <1>2, <1>3, <1>4, <1>6, <1>7, <1>8, <1>9 DEF Wrote, Write
<1> QED
  BY <1>1, <1>5, <1>10

\* Message c is selected, and v is visible of it.
Showed(c, v, id) ==
    /\ c = Selected /\ Usable # {} /\ v = Visible(Trim(msgs[c].text))
    /\ id = IF ids THEN c ELSE Unknown
    /\ final' = Trim(msgs[c].text)
    /\ DOMAIN last' = DOMAIN last /\ last'[id] = v
    /\ \A i \in DOMAIN last : i # id => last'[i] = last[i]
    /\ shown' = shown \o Delta(v, last[id])
    /\ DOMAIN seen' = DOMAIN seen /\ seen'[c] = v
    /\ \A n \in DOMAIN seen : n # c => seen'[n] = seen[n]
    /\ grew' = (grew /\ IsPrefix(seen[c], v))
    /\ swallowed' = swallowed \cup Swallows(v, last[id])
    /\ UNCHANGED <<ids, roles, msgs, written, spelled, tokens>>

LEMMA SnapshotStep ==
    ASSUME TypeOK, Snapshot
    PROVE  \E c \in DOMAIN msgs, v \in Seq(Token), id \in DOMAIN last :
              /\ Showed(c, v, id) /\ c \in DOMAIN seen
              /\ last' = [last EXCEPT ![id] = v] /\ seen' = [seen EXCEPT ![c] = v]
              /\ Trim(msgs[c].text) \in Seq(Token)
<1>0. Shapes /\ written \in Nat
  BY TypedShapes DEF TypeOK
<1>1. PICK c : c = Selected
  OBVIOUS
<1>2. c \in DOMAIN msgs /\ Usable # {}
  BY <1>1, SelectedMessage DEF Snapshot
<1>3. Trim(msgs[c].text) \in Seq(Token)
  BY <1>0, <1>2, MessageTypes, TokenTypes, TrimmedType
<1>4. PICK v \in Seq(Token) : v = Visible(Trim(msgs[c].text))
  <2>1. Visible(Trim(msgs[c].text)) \in Seq(Token)
    BY <1>0, <1>3, TokenTypes, SanitizedType DEF Visible
  <2> QED
    BY <2>1, Zenon
<1>5. PICK id : id = IF ids THEN c ELSE Unknown
  OBVIOUS
<1>6. id \in DOMAIN last /\ c \in DOMAIN seen
  <2>1. c \in 1 .. MaxMessages + 1 /\ c \in 0 .. MaxMessages + 1 /\ 0 \in 0 .. MaxMessages + 1
    BY <1>0, <1>2, StreamAssumption DEF Shapes
  <2> QED
    BY <1>0, <1>5, <2>1 DEF Shapes, Unknown
<1>7. /\ final' = Trim(msgs[c].text)
      /\ last' = [last EXCEPT ![id] = v]
      /\ shown' = shown \o Delta(v, last[id])
      /\ seen' = [seen EXCEPT ![c] = v]
      /\ grew' = (grew /\ IsPrefix(seen[c], v))
      /\ swallowed' = swallowed \cup Swallows(v, last[id])
      /\ UNCHANGED <<ids, roles, msgs, written, spelled, tokens>>
  BY <1>1, <1>4, <1>5, Zenon DEF Snapshot, IdOf
<1>8. /\ DOMAIN last' = DOMAIN last /\ last'[id] = v
      /\ \A i \in DOMAIN last : i # id => last'[i] = last[i]
      /\ DOMAIN seen' = DOMAIN seen /\ seen'[c] = v
      /\ \A n \in DOMAIN seen : n # c => seen'[n] = seen[n]
  BY <1>6, <1>7
<1>9. Showed(c, v, id)
  BY <1>1, <1>2, <1>4, <1>5, <1>7, <1>8, Zenon DEF Showed
<1> QED
  BY <1>2, <1>3, <1>6, <1>7, <1>9

-----------------------------------------------------------------------------
LEMMA WiderType ==
    ASSUME TypeOK, NEW T, Token \subseteq T
    PROVE  /\ msgs \in Seq([text : Seq(T), assistant : BOOLEAN])
           /\ last \in [0 .. MaxMessages + 1 -> Seq(T)]
           /\ seen \in [1 .. MaxMessages + 1 -> Seq(T)]
           /\ shown \in Seq(T) /\ final \in Seq(T)
<1>1. \A t \in Seq(Token) : t \in Seq(T)
  BY SeqMonotonic
<1>2. msgs \in Seq([text : Seq(T), assistant : BOOLEAN])
  <2>1. [text : Seq(Token), assistant : BOOLEAN] \subseteq [text : Seq(T), assistant : BOOLEAN]
    BY <1>1
  <2> QED
    BY <2>1, SeqMonotonic DEF TypeOK
<1> QED
  BY <1>1, <1>2 DEF TypeOK

\* Type correctness: the state keeps the shape the declarations of the code
\* give it, and a message without an id is remembered under the empty key only.
THEOREM TypeCorrect == Spec => []TypeOK
<1>1. Init => TypeOK
  <2> SUFFICES ASSUME Init PROVE TypeOK
    OBVIOUS
  <2>1. Ask \in Token /\ <<Ask>> \in Seq(Token) /\ <<>> \in Seq(Token)
    BY DEF Token
  <2>2. <<[text |-> <<Ask>>, assistant |-> FALSE]>> \in Seq([text : Seq(Token), assistant : BOOLEAN])
    BY <2>1
  <2>3. Len(msgs) = 1 /\ MaxMessages \in Nat /\ MaxTokens \in Nat
    BY StreamAssumption DEF Init
  <2> QED
    BY <2>1, <2>2, <2>3 DEF Init, TypeOK
<1>2. TypeOK /\ [Next]_vars => TypeOK'
  <2> SUFFICES ASSUME TypeOK, [Next]_vars PROVE TypeOK'
    OBVIOUS
  <2>0. Shapes /\ written \in Nat /\ tokens \in Nat /\ written <= tokens /\ tokens <= MaxTokens
    BY TypedShapes DEF TypeOK
  <2>1. CASE NewMessage
    <3>1. Token' = Token
      BY <2>1 DEF NewMessage, Token
    <3>2. PICK a \in BOOLEAN : msgs' = Append(msgs, [text |-> <<>>, assistant |-> a])
      BY <2>1 DEF NewMessage
    <3>3. [text |-> <<>>, assistant |-> a] \in [text : Seq(Token), assistant : BOOLEAN]
      OBVIOUS
    <3>4. msgs' \in Seq([text : Seq(Token), assistant : BOOLEAN]) /\ Len(msgs') = Len(msgs) + 1
      BY <3>2, <3>3 DEF TypeOK
    <3>5. Len(msgs') \in 1 .. MaxMessages + 1 /\ DOMAIN msgs \subseteq DOMAIN msgs'
      BY <2>0, <2>1, <3>4, StreamAssumption DEF NewMessage, Shapes
    <3> QED
      BY <2>1, <3>1, <3>4, <3>5 DEF NewMessage, TypeOK
  <2>2. CASE Extend \/ Rewrite
    <3>1. PICK text \in Seq(Token), x \in Int : Wrote(text, x) /\ Write(text, x)
      BY <2>2, WriteStep
    <3>2. PICK T : T = Token'
      OBVIOUS
    <3>3. Token \subseteq T /\ x \in T /\ written' \in 0 .. tokens'
      <4>1. written' \in Nat /\ written <= written' /\ written' <= written + 1
        BY <2>0, <3>1 DEF Wrote
      <4>2. 1 .. written \subseteq 1 .. written'
        BY <2>0, <4>1
      <4>3. x \in Token'
        BY <2>0, <3>1, <4>1 DEF Wrote, Token
      <4>4. Token \subseteq Token'
        BY <4>2 DEF Token
      <4>5. tokens' = tokens + 1
        BY <3>1 DEF Write
      <4> QED
        BY <2>0, <3>2, <4>1, <4>3, <4>4, <4>5
    <3>4. /\ msgs \in Seq([text : Seq(T), assistant : BOOLEAN])
          /\ last \in [0 .. MaxMessages + 1 -> Seq(T)]
          /\ seen \in [1 .. MaxMessages + 1 -> Seq(T)]
          /\ shown \in Seq(T) /\ final \in Seq(T)
      BY <3>3, WiderType
    <3>5. msgs' \in Seq([text : Seq(T), assistant : BOOLEAN]) /\ Len(msgs') = Len(msgs)
      <4>1. PICK m : m = Len(msgs)
        OBVIOUS
      <4>2. m \in 1 .. Len(msgs) /\ msgs' = [msgs EXCEPT ![m].text = Append(text, x)]
        BY <2>0, <3>1, <4>1 DEF Write, Shapes
      <4>3. text \in Seq(T)
        BY <3>3, SeqMonotonic
      <4>4. PICK t : t = Append(text, x)
        OBVIOUS
      <4>5. t \in Seq(T)
        BY <3>3, <4>3, <4>4
      <4>6. msgs[m] \in [text : Seq(T), assistant : BOOLEAN]
        BY <3>4, <4>2, ElementOfSeq
      <4>7. PICK r : r = [msgs[m] EXCEPT !.text = t]
        OBVIOUS
      <4>8. r \in [text : Seq(T), assistant : BOOLEAN]
        BY <4>5, <4>6, <4>7
      <4>9. msgs' = [msgs EXCEPT ![m] = r]
        BY <4>2, <4>4, <4>7
      <4>10. PICK S : S = [text : Seq(T), assistant : BOOLEAN]
        OBVIOUS
      <4>11. r \in S /\ msgs \in Seq(S)
        BY <3>4, <4>8, <4>10
      <4>12. [msgs EXCEPT ![m] = r] \in Seq(S) /\ Len([msgs EXCEPT ![m] = r]) = Len(msgs)
        BY <4>2, <4>11, ExceptSeq
      <4> QED
        BY <4>9, <4>10, <4>12, Zenon
    <3>6. /\ DOMAIN msgs' = DOMAIN msgs
          /\ UNCHANGED <<ids, roles, last, shown, final, seen, grew, swallowed>>
          /\ Len(spelled') = written' /\ spelled' \in Seq(Spellings)
      BY <3>1 DEF Wrote
    <3>7. tokens' \in 0 .. MaxTokens
      BY <2>0, <3>1, StreamAssumption DEF Write
    <3>8. swallowed' \subseteq 1 .. written'
      <4>1. written' \in Nat /\ written <= written'
        BY <2>0, <3>1 DEF Wrote
      <4>2. swallowed \subseteq 1 .. written
        BY DEF TypeOK
      <4> QED
        BY <2>0, <3>6, <4>1, <4>2
    <3> QED
      BY <3>2, <3>3, <3>4, <3>5, <3>6, <3>7, <3>8 DEF TypeOK
  <2>3. CASE Snapshot
    <3>1. PICK c \in DOMAIN msgs, v \in Seq(Token), id \in DOMAIN last :
             /\ Showed(c, v, id) /\ c \in DOMAIN seen
             /\ last' = [last EXCEPT ![id] = v] /\ seen' = [seen EXCEPT ![c] = v]
             /\ Trim(msgs[c].text) \in Seq(Token)
      BY <2>3, SnapshotStep
    <3>2. Token' = Token
      BY <3>1 DEF Showed, Token
    <3>3. shown' \in Seq(Token)
      <4>1. last[id] \in Seq(Token)
        BY <3>1 DEF TypeOK
      <4>2. Delta(v, last[id]) \in Seq(Token)
        BY <2>0, <4>1, TokenTypes, DeltaType
      <4>3. shown' = shown \o Delta(v, last[id]) /\ shown \in Seq(Token)
        BY <3>1 DEF Showed, TypeOK
      <4> QED
        BY <4>2, <4>3
    <3>4. {i \in DOMAIN last' : last'[i] # <<>>} \subseteq (IF ids THEN DOMAIN msgs ELSE {Unknown})
      <4> SUFFICES ASSUME NEW i \in DOMAIN last', last'[i] # <<>>
                   PROVE  i \in (IF ids THEN DOMAIN msgs ELSE {Unknown})
        OBVIOUS
      <4>1. i \in DOMAIN last /\ (i # id => last'[i] = last[i])
        BY <3>1 DEF Showed
      <4>2. id \in (IF ids THEN DOMAIN msgs ELSE {Unknown})
        BY <3>1 DEF Showed
      <4> QED
        BY <4>1, <4>2 DEF TypeOK
    <3>5. /\ last' \in [0 .. MaxMessages + 1 -> Seq(Token)]
          /\ seen' \in [1 .. MaxMessages + 1 -> Seq(Token)]
      BY <3>1 DEF TypeOK
    <3>6. /\ final' \in Seq(Token) /\ grew' \in BOOLEAN
          /\ UNCHANGED <<ids, roles, msgs, written, spelled, tokens>>
      BY <3>1 DEF Showed, TypeOK
    <3>7. swallowed' \subseteq 1 .. written
      <4>1. last[id] \in Seq(Int) /\ v \in Seq(Int)
        BY <2>0, <3>1, TokenTypes DEF Shapes
      <4>2. Swallows(v, last[id]) \subseteq Words(v)
        BY <4>1, DeltaText
      <4>3. \A x \in Words(v) : x <= written /\ x \in Nat /\ x > 0
        BY <2>0, <4>1, TypedWords, WordsAreNumbers
      <4>4. \A x \in Swallows(v, last[id]) : x \in 1 .. written
        BY <2>0, <4>2, <4>3
      <4> QED
        BY <3>1, <4>4 DEF Showed, TypeOK
    <3> QED
      BY <3>2, <3>3, <3>4, <3>5, <3>6, <3>7 DEF TypeOK
  <2>4. CASE UNCHANGED vars
    BY <2>4 DEF vars, TypeOK, Token
  <2> QED
    BY <2>1, <2>2, <2>3, <2>4 DEF Next
<1> QED
  BY <1>1, <1>2, PTL DEF Spec

-----------------------------------------------------------------------------
(* The texts of the upstream.                                              *)

LEMMA AppendedText ==
    ASSUME NEW t \in Seq(Int), NEW x \in Int
    PROVE  /\ Append(t, x) \in Seq(Int)
           /\ \A y \in ToSet(Append(t, x)) : y \in ToSet(t) \/ y = x
           /\ \A y \in Words(Append(t, x)) : y > 0 /\ (y \in Words(t) \/ y = x)
           /\ InOrder(t) /\ (x > 0 => \A y \in Words(t) : y < x) => InOrder(Append(t, x))
<1>1. PICK n \in Nat : n = Len(t)
  OBVIOUS
<1>2. PICK u \in Seq(Int) : u = Append(t, x)
  <2>1. Append(t, x) \in Seq(Int)
    OBVIOUS
  <2> QED
    BY <2>1, Zenon
<1>3. /\ DOMAIN t = 1 .. n /\ DOMAIN u = 1 .. n + 1
      /\ \A k \in 1 .. n : u[k] = t[k] /\ t[k] \in Int
      /\ u[n + 1] = x
  BY <1>1, <1>2
<1>4. \A y \in ToSet(u) : y \in ToSet(t) \/ y = x
  BY <1>3 DEF ToSet
<1>5. \A y \in Words(u) : y > 0 /\ (y \in Words(t) \/ y = x)
  BY <1>4 DEF Words
<1>6. ASSUME InOrder(t), x > 0 => \A y \in Words(t) : y < x,
             NEW j \in 1 .. n + 1, NEW k \in 1 .. n + 1, j < k, u[k] > 0
      PROVE  u[j] < u[k]
  <2>1. j \in 1 .. n
    BY <1>6
  <2>2. CASE k \in 1 .. n
    BY <1>3, <1>6, <2>1, <2>2 DEF InOrder
  <2>3. CASE k = n + 1
    <3>1. x > 0 /\ u[k] = x /\ u[j] = t[j] /\ t[j] \in Int
      BY <1>3, <1>6, <2>1, <2>3
    <3>2. t[j] > 0 => t[j] \in Words(t)
      BY <1>3, <2>1 DEF Words, ToSet
    <3> QED
      BY <1>6, <3>1, <3>2
  <2> QED
    BY <2>2, <2>3
<1>7. InOrder(t) /\ (x > 0 => \A y \in Words(t) : y < x) => InOrder(u)
  BY <1>3, <1>6 DEF InOrder
<1> QED
  BY <1>2, <1>4, <1>5, <1>7

LEMMA InitText ==
    ASSUME Init
    PROVE  TextInv
<1>1. DOMAIN msgs = {1} /\ msgs[1].text = <<Ask>>
  BY DEF Init
<1>2. InOrder(<<Ask>>)
  BY DEF InOrder
<1>3. \A m, n \in DOMAIN msgs : ~(m < n)
  BY <1>1
<1> QED
  BY <1>1, <1>2, <1>3 DEF TextInv

LEMMA StepText ==
    ASSUME TypeOK, TextInv, [Next]_vars
    PROVE  TextInv'
<1>0. Shapes
  BY TypedShapes
<1>1. CASE NewMessage
  <2>1. PICK m \in Nat : m = Len(msgs)
    BY DEF TypeOK
  <2>2. PICK a : msgs' = Append(msgs, [text |-> <<>>, assistant |-> a])
    BY <1>1 DEF NewMessage
  <2>3. /\ DOMAIN msgs = 1 .. m /\ DOMAIN msgs' = 1 .. m + 1 /\ m >= 1
        /\ \A n \in 1 .. m : msgs'[n] = msgs[n]
        /\ msgs'[m + 1].text = <<>>
    BY <1>0, <2>1, <2>2 DEF Shapes, TypeOK
  <2>4. msgs'[1].text = <<Ask>>
    BY <2>3 DEF TextInv
  <2>5. ASSUME NEW n \in DOMAIN msgs'
        PROVE  InOrder(msgs'[n].text) /\ (n > 1 => Ask \notin ToSet(msgs'[n].text))
    <3>1. CASE n \in 1 .. m
      BY <2>3, <3>1 DEF TextInv
    <3>2. CASE n = m + 1
      BY <2>3, <3>2, NoText DEF ToSet
    <3> QED
      BY <2>3, <3>1, <3>2
  <2>6. ASSUME NEW l \in DOMAIN msgs', NEW n \in DOMAIN msgs', l < n,
               NEW x \in Words(msgs'[l].text), NEW y \in Words(msgs'[n].text)
        PROVE  x < y
    <3>1. n \in 1 .. m
      BY <2>3, <2>6, NoText
    <3>2. l \in 1 .. m
      BY <2>3, <2>6, <3>1
    <3> QED
      BY <2>3, <2>6, <3>1, <3>2 DEF TextInv
  <2> QED
    BY <2>4, <2>5, <2>6 DEF TextInv
<1>2. CASE Extend \/ Rewrite
  <2>1. PICK text \in Seq(Token), x \in Int : Wrote(text, x)
    BY <1>2, WriteStep
  <2>2. PICK m \in Nat : m = Len(msgs)
    BY DEF TypeOK
  <2>3. /\ DOMAIN msgs = 1 .. m /\ DOMAIN msgs' = 1 .. m /\ m > 1
        /\ \A n \in 1 .. m : n # m => msgs'[n] = msgs[n]
        /\ msgs'[m].text = Append(text, x)
        /\ (text = msgs[m].text \/ text = <<>>)
    BY <1>0, <2>1, <2>2 DEF Shapes, Wrote
  <2>4. x # Ask /\ (x > 0 => x = written + 1) /\ written \in Nat
    BY <1>0, <2>1 DEF Wrote, Blank, Open, Shut, Brace, Ask, Shapes
  <2>5. text \in Seq(Int)
    BY <1>0, TokenTypes DEF Shapes
  <2>6. InOrder(text) /\ Ask \notin ToSet(text) /\ \A y \in Words(text) : y \in Words(msgs[m].text)
    BY <2>3, NoText DEF TextInv, ToSet
  <2>7. \A n \in 1 .. m : \A y \in Words(msgs[n].text) : y <= written /\ y \in Nat
    <3> SUFFICES ASSUME NEW n \in 1 .. m, NEW y \in Words(msgs[n].text)
                 PROVE  y <= written /\ y \in Nat
      OBVIOUS
    <3>1. y \in Nat
      BY <1>0, <2>3, WordsAreNumbers DEF Shapes
    <3>2. y <= written
      BY <1>0, <2>3 DEF Shapes
    <3> QED
      BY <3>1, <3>2
  <2>8. /\ \A y \in ToSet(Append(text, x)) : y \in ToSet(text) \/ y = x
        /\ \A y \in Words(Append(text, x)) : y > 0 /\ (y \in Words(text) \/ y = x)
        /\ InOrder(Append(text, x))
    <3>1. ASSUME x > 0, NEW y \in Words(text) PROVE y < x
      <4>1. y <= written /\ y \in Nat
        BY <2>3, <2>6, <2>7
      <4> QED
        BY <2>4, <3>1, <4>1
    <3> QED
      BY <2>5, <2>6, <3>1, AppendedText
  <2>9. msgs'[1].text = <<Ask>>
    BY <2>3 DEF TextInv
  <2>10. ASSUME NEW n \in DOMAIN msgs'
         PROVE  InOrder(msgs'[n].text) /\ (n > 1 => Ask \notin ToSet(msgs'[n].text))
    <3>1. CASE n # m
      BY <2>3, <3>1 DEF TextInv
    <3>2. CASE n = m
      BY <2>3, <2>4, <2>6, <2>8, <3>2
    <3> QED
      BY <3>1, <3>2
  <2>11. ASSUME NEW l \in DOMAIN msgs', NEW n \in DOMAIN msgs', l < n,
                NEW y \in Words(msgs'[l].text), NEW z \in Words(msgs'[n].text)
         PROVE  y < z
    <3>1. l \in 1 .. m /\ n \in 1 .. m /\ l # m
      BY <2>3, <2>11
    <3>2. y \in Words(msgs[l].text)
      BY <2>3, <3>1
    <3>3. CASE z \in Words(msgs[n].text)
      BY <2>3, <2>11, <3>1, <3>2, <3>3 DEF TextInv
    <3>4. CASE n = m /\ z = x /\ z > 0
      <4>1. y <= written /\ y \in Nat
        BY <2>7, <3>1, <3>2
      <4> QED
        BY <2>4, <3>4, <4>1
    <3> QED
      BY <2>3, <2>6, <2>8, <3>1, <3>3, <3>4
  <2> QED
    BY <2>9, <2>10, <2>11 DEF TextInv
<1>3. CASE UNCHANGED msgs
  BY <1>3 DEF TextInv
<1> QED
  BY <1>1, <1>2, <1>3 DEF Next, Snapshot, vars

-----------------------------------------------------------------------------
(* What is hidden of a text has not been shown.                            *)

LEMMA NothingHidden == HiddenWords(Trim(<<>>)) = {}
<1>1. <<>> \in Seq(Int)
  OBVIOUS
<1> QED
  BY <1>1, NoText, HiddenText

LEMMA HiddenInText ==
    ASSUME NEW t \in Seq(Int)
    PROVE  HiddenWords(Trim(t)) \subseteq Words(t)
<1>1. Trim(t) \in Seq(Int) /\ Words(Trim(t)) = Words(t)
  BY TrimmedText
<1> QED
  BY <1>1, HiddenText

LEMMA InitHidden ==
    ASSUME Init
    PROVE  HiddenInv
<1>1. Given = {} /\ \A i \in DOMAIN last : Words(last[i]) = {}
  BY NoText DEF Init, Given
<1>2. Sanitize(final) = <<>>
  BY DEF Init, Sanitize, Markers, Trim
<1> QED
  BY <1>1, <1>2, NoText DEF HiddenInv

LEMMA WriteHidden ==
    ASSUME TypeOK, HiddenInv, Extend \/ Rewrite
    PROVE  HiddenInv'
<1>0. Shapes
  BY TypedShapes
<1>1. PICK text \in Seq(Token), x \in Int : Wrote(text, x)
  BY WriteStep
<1>2. PICK m : m = Len(msgs)
  OBVIOUS
<1>3. /\ m \in DOMAIN msgs /\ DOMAIN msgs' = DOMAIN msgs
      /\ \A n \in DOMAIN msgs : n # m => msgs'[n] = msgs[n]
      /\ msgs'[m].text = Append(text, x)
      /\ (text = msgs[m].text \/ text = <<>>)
      /\ Given' = Given /\ last' = last /\ final' = final
      /\ \A y \in Given : y <= written
  <2>1. \A y \in swallowed : y <= written
    BY DEF TypeOK
  <2> QED
    BY <1>0, <1>1, <1>2, <2>1 DEF Shapes, Wrote, Given
<1>4. (x > 0 => x = written + 1) /\ written \in Nat /\ text \in Seq(Int)
  BY <1>0, <1>1, TokenTypes DEF Wrote, Blank, Open, Shut, Brace, Shapes
<1>5. ASSUME NEW y \in HiddenWords(Trim(text)) PROVE y \notin Given
  BY <1>3, NothingHidden DEF HiddenInv
<1>6. ASSUME NEW y \in HiddenWords(Trim(Append(text, x))) PROVE y \notin Given
  <2>1. y \in HiddenWords(Trim(text)) \/ y = x
    BY <1>4, HiddenAppended
  <2>2. y > 0
    <3>1. Append(text, x) \in Seq(Int)
      BY <1>4
    <3> QED
      BY <3>1, HiddenInText, WordsAreNumbers
  <2>3. CASE y = x
    BY <1>3, <1>4, <2>2, <2>3
  <2> QED
    BY <1>5, <2>1, <2>3
<1>7. ASSUME NEW n \in DOMAIN msgs' PROVE HiddenWords(Trim(msgs'[n].text)) \cap Given' = {}
  BY <1>3, <1>6 DEF HiddenInv
<1> QED
  BY <1>3, <1>7 DEF HiddenInv

LEMMA SnapshotHidden ==
    ASSUME TypeOK, TextInv, HiddenInv, Tools, Snapshot
    PROVE  HiddenInv'
<1>0. Shapes
  BY TypedShapes
<1>1. PICK c \in DOMAIN msgs, v \in Seq(Token), id \in DOMAIN last : Showed(c, v, id)
  BY SnapshotStep
<1>2. PICK u : u = Trim(msgs[c].text)
  OBVIOUS
<1>3. /\ v = Sanitize(u) /\ final' = u /\ msgs' = msgs
      /\ DOMAIN last' = DOMAIN last /\ last'[id] = v
      /\ \A i \in DOMAIN last : i # id => last'[i] = last[i]
      /\ shown' = shown \o Delta(v, last[id])
      /\ swallowed' = swallowed \cup Swallows(v, last[id])
  BY <1>1, <1>2 DEF Showed, Visible
<1>4. v \in Seq(Int) /\ last[id] \in Seq(Int) /\ shown \in Seq(Int) /\ msgs[c].text \in Seq(Int)
  BY <1>0, TokenTypes DEF Shapes
<1>5. PICK d, S : d = Delta(v, last[id]) /\ S = Swallows(v, last[id])
  OBVIOUS
<1>6. /\ d \in Seq(Int) /\ Words(d) \cup S \subseteq Words(v)
      /\ \A w \in Words(v) : w \in Words(d) \cup S \/ w \in Words(last[id])
  BY <1>4, <1>5, DeltaText
<1>7. Given' = Given \cup (Words(d) \cup S)
  <2>1. Words(shown') = Words(shown) \cup Words(d)
    BY <1>3, <1>4, <1>5, <1>6, JoinedTexts
  <2> QED
    BY <1>3, <1>5, <2>1 DEF Given
<1>8. /\ u \in Seq(Int) /\ Words(u) = Words(msgs[c].text) /\ InOrder(u)
  BY <1>2, <1>4, TrimmedText DEF TextInv
<1>9. Words(v) \subseteq Words(u) /\ HiddenWords(u) \cap Words(v) = {}
  BY <1>3, <1>8, SanitizedText
<1>10. ASSUME NEW n \in DOMAIN msgs, NEW y \in HiddenWords(Trim(msgs[n].text)) PROVE y \notin Words(d) \cup S
  <2>1. CASE n = c
    BY <1>2, <1>6, <1>9, <1>10, <2>1
  <2>2. CASE n # c
    <3>1. y \in Words(msgs[n].text) /\ y \in Nat
      BY <1>0, <1>10, HiddenInText, WordsAreNumbers DEF Shapes
    <3>2. n < c \/ c < n
      BY <1>0, <2>2 DEF Shapes
    <3>3. ASSUME y \in Words(msgs[c].text) PROVE FALSE
      <4>1. y < y
        BY <3>1, <3>2, <3>3 DEF TextInv
      <4> QED
        BY <3>1, <4>1
    <3> QED
      BY <1>6, <1>8, <1>9, <3>3
  <2> QED
    BY <2>1, <2>2
<1>11. \A n \in DOMAIN msgs' : HiddenWords(Trim(msgs'[n].text)) \cap Given' = {}
  BY <1>3, <1>7, <1>10 DEF HiddenInv
<1>12. ASSUME NEW i \in DOMAIN last' PROVE Words(last'[i]) \subseteq Given'
  BY <1>3, <1>6, <1>7 DEF HiddenInv
<1>13. Words(Sanitize(final')) \subseteq Given'
  BY <1>3, <1>12
<1> QED
  BY <1>11, <1>12, <1>13 DEF HiddenInv

LEMMA StepHidden ==
    ASSUME TypeOK, TextInv, HiddenInv, Tools, [Next]_vars
    PROVE  HiddenInv'
<1>1. CASE NewMessage
  <2>1. PICK a : msgs' = Append(msgs, [text |-> <<>>, assistant |-> a])
    BY <1>1 DEF NewMessage
  <2>2. /\ \A n \in DOMAIN msgs' : (n \in DOMAIN msgs /\ msgs'[n] = msgs[n]) \/ msgs'[n].text = <<>>
        /\ Given' = Given /\ last' = last /\ final' = final
    BY <1>1, <2>1 DEF NewMessage, TypeOK, Given
  <2>3. ASSUME NEW n \in DOMAIN msgs' PROVE HiddenWords(Trim(msgs'[n].text)) \cap Given' = {}
    BY <2>2, NothingHidden DEF HiddenInv
  <2> QED
    BY <2>2, <2>3 DEF HiddenInv
<1>2. CASE UNCHANGED vars
  BY <1>2 DEF vars, HiddenInv, Given
<1> QED
  BY <1>1, <1>2, WriteHidden, SnapshotHidden DEF Next

\* No text of a tool call reaches the client of a request that offers tools,
\* however the upstream writes, cuts and rewrites its messages.
THEOREM ToolTextNeverShown == Spec => []ToolTextHidden
<1> DEFINE IInv == TypeOK /\ TextInv /\ (Tools => HiddenInv)
<1>1. Init /\ TypeOK => IInv
  BY InitText, InitHidden
<1>2. IInv /\ TypeOK' /\ [Next]_vars => IInv'
  BY StepText, StepHidden
<1>3. ASSUME TypeOK, HiddenInv, Tools, NEW n \in DOMAIN msgs,
             NEW y \in HiddenWords(Trim(msgs[n].text)), y \in ToSet(shown \o Sanitize(final))
      PROVE  FALSE
  <2>1. Shapes
    BY <1>3, TypedShapes
  <2>2. Sanitize(final) \in Seq(Int) /\ shown \in Seq(Int)
    BY <2>1, SanitizedText DEF Shapes
  <2>3. y \in Words(msgs[n].text) /\ y > 0
    BY <1>3, <2>1, HiddenInText, WordsAreNumbers DEF Shapes
  <2>4. y \in Words(shown \o Sanitize(final))
    BY <1>3, <2>3 DEF Words
  <2>5. y \in Words(shown) \cup Words(Sanitize(final))
    BY <2>2, <2>4, JoinedTexts
  <2> QED
    BY <1>3, <2>5 DEF HiddenInv, Given
<1>4. IInv => ToolTextHidden
  BY <1>3 DEF ToolTextHidden
<1> HIDE DEF IInv
<1> QED
  BY <1>1, <1>2, <1>4, TypeCorrect, PTL DEF Spec

-----------------------------------------------------------------------------
(* The message that is selected.                                           *)

\* The text holds more than white space.
Inked(t) == \E k \in DOMAIN t : t[k] \notin Space

LEMMA UsableText ==
    ASSUME NEW t \in Seq(Int), Ask \notin ToSet(t)
    PROVE  Trim(t) \notin {<<>>, <<Ask>>} <=> Inked(t)
<1>1. ASSUME Trim(t) = <<Ask>> PROVE FALSE
  <2>1. Trim(t) # <<>>
    BY <1>1
  <2>2. PICK i, j \in DOMAIN t : i <= j /\ Trim(t) = SubSeq(t, i, j)
    BY <2>1, TrimmedText
  <2>3. Trim(t)[1] = t[i]
    BY <2>2
  <2>4. Trim(t)[1] = Ask
    BY <1>1
  <2> QED
    BY <2>3, <2>4 DEF ToSet
<1>2. Trim(t) = <<>> <=> \A n \in DOMAIN t : t[n] \in Space
  BY TrimmedText
<1> QED
  BY <1>1, <1>2 DEF Inked

LEMMA AskUnusable == Trim(<<Ask>>) = <<Ask>>
<1>1. PICK t \in Seq(Int) : t = <<Ask>>
  <2>1. <<Ask>> \in Seq(Int)
    BY DEF Ask
  <2> QED
    BY <2>1, Zenon
<1>2. DOMAIN t = {1} /\ t[1] = Ask /\ SubSeq(t, 1, 1) = t
  <2>1. Len(t) = 1 /\ t[1] = Ask
    BY <1>1
  <2>2. DOMAIN t = 1 .. 1
    BY <2>1
  <2>3. SubSeq(t, 1, 1) = t
    BY <2>1, SubSeqFull
  <2> QED
    BY <2>1, <2>2, <2>3
<1>3. Ask \notin Space
  BY DEF Ask, Space, Blank, NewLine
<1>4. Trim(t) # <<>>
  BY <1>2, <1>3, TrimmedText
<1>5. PICK i, j \in DOMAIN t : i <= j /\ Trim(t) = SubSeq(t, i, j)
  BY <1>4, TrimmedText
<1> QED
  BY <1>1, <1>2, <1>5

LastOf(A, U) == Max(IF A # {} THEN A ELSE U)

LEMMA LastGrows ==
    ASSUME NEW l \in Nat, NEW m \in Nat, NEW U \in SUBSET (0 .. l), NEW V \in SUBSET (0 .. l),
           NEW A \in SUBSET U, NEW B \in SUBSET V, U # {}, U \subseteq V, A \subseteq B,
           \A n \in B : n \in A \/ n = m, \A n \in U : n <= m
    PROVE  LastOf(A, U) <= LastOf(B, V)
<1>1. CASE A # {}
  <2>1. Max(A) \in A
    BY <1>1, GreatestMember
  <2>2. \A n \in B : n <= Max(B)
    BY <1>1, GreatestMember
  <2> QED
    BY <1>1, <2>1, <2>2 DEF LastOf
<1>2. CASE A = {} /\ B # {}
  <2>1. Max(U) \in U
    BY GreatestMember
  <2>2. Max(B) \in B
    BY <1>2, GreatestMember
  <2>3. Max(B) = m
    BY <1>2, <2>2
  <2> QED
    BY <1>2, <2>1, <2>3 DEF LastOf
<1>3. CASE A = {} /\ B = {}
  <2>1. Max(U) \in U
    BY GreatestMember
  <2>2. \A n \in V : n <= Max(V)
    BY GreatestMember
  <2> QED
    BY <1>3, <2>1, <2>2 DEF LastOf
<1> QED
  BY <1>1, <1>2, <1>3

LEMMA NextTexts ==
    ASSUME TypeOK', NEW n \in DOMAIN msgs'
    PROVE  msgs'[n].text \in Seq(Int)
<1>1. PICK f : f = msgs'
  OBVIOUS
<1>2. PICK T : T = Token'
  OBVIOUS
<1>3. f \in Seq([text : Seq(T), assistant : BOOLEAN]) /\ n \in 1 .. Len(f)
  BY <1>1, <1>2 DEF TypeOK
<1>4. f[n] \in [text : Seq(T), assistant : BOOLEAN]
  BY <1>3, ElementOfSeq
<1>5. T \subseteq Int
  <2> SUFFICES ASSUME NEW x \in Token' PROVE x \in Int
    BY <1>2
  <2>1. written' \in Nat
    BY DEF TypeOK
  <2> QED
    BY <2>1 DEF Token, Blank, NewLine, Open, Shut, Brace, Ask
<1> QED
  BY <1>1, <1>4, <1>5, SeqMonotonic

LEMMA NextSelected ==
    ASSUME TypeOK', Usable' # {}
    PROVE  Selected' \in Nat /\ 1 <= Selected'
<1>1. PICK l \in Nat : DOMAIN msgs' = 1 .. l
  BY DEF TypeOK
<1>2. Usable' \in SUBSET (0 .. l) /\ Assistants' \in SUBSET (0 .. l) /\ Assistants' \subseteq Usable'
  BY <1>1 DEF Usable, Assistants
<1>3. Selected' \in Usable'
  <2>1. CASE Assistants' # {}
    BY <1>2, <2>1, GreatestMember DEF Selected
  <2>2. CASE Assistants' = {}
    BY <1>2, <2>2, GreatestMember DEF Selected
  <2> QED
    BY <2>1, <2>2
<1>4. \A n \in Usable' : n \in 1 .. l
  BY <1>1 DEF Usable
<1> QED
  BY <1>3, <1>4

\* What is usable stays usable, and the selection never goes back.
LEMMA SelectedGrows ==
    ASSUME TypeOK, TypeOK', TextInv, TextInv', NewMessage \/ Extend \/ Rewrite
    PROVE  Usable # {} => Usable' # {} /\ Selected <= Selected'
<1>0. Shapes
  BY TypedShapes
<1>1. PICK m \in Nat :
         /\ m \in DOMAIN msgs' /\ DOMAIN msgs \subseteq DOMAIN msgs'
         /\ \A n \in DOMAIN msgs : n <= m
         /\ \A n \in DOMAIN msgs' : n # m => n \in DOMAIN msgs /\ msgs'[n] = msgs[n]
         /\ m \in DOMAIN msgs =>
               /\ msgs'[m].assistant = msgs[m].assistant
               /\ Inked(msgs[m].text) => Inked(msgs'[m].text)
         /\ m > 1
  <2>1. CASE NewMessage
    <3>1. PICK a : msgs' = Append(msgs, [text |-> <<>>, assistant |-> a])
      BY <2>1 DEF NewMessage
    <3>2. PICK l \in Nat : l = Len(msgs)
      BY DEF TypeOK
    <3>3. /\ DOMAIN msgs = 1 .. l /\ DOMAIN msgs' = 1 .. l + 1 /\ l >= 1
          /\ \A n \in 1 .. l : msgs'[n] = msgs[n]
      BY <1>0, <3>1, <3>2 DEF Shapes, TypeOK
    <3>4. l + 1 \in Nat /\ l + 1 \in 1 .. l + 1 /\ l + 1 > 1
      BY <3>3
    <3> QED
      BY <3>3, <3>4
  <2>2. CASE Extend \/ Rewrite
    <3>1. PICK text \in Seq(Token), x \in Int : Wrote(text, x)
      BY <2>2, WriteStep
    <3>2. PICK l \in Nat : l = Len(msgs)
      BY DEF TypeOK
    <3>3. /\ DOMAIN msgs = 1 .. l /\ DOMAIN msgs' = 1 .. l /\ l > 1
          /\ \A n \in 1 .. l : n # l => msgs'[n] = msgs[n]
          /\ msgs'[l].assistant = msgs[l].assistant
          /\ msgs'[l].text = Append(text, x)
          /\ text = msgs[l].text \/ (text = <<>> /\ x \notin Space)
      BY <1>0, <3>1, <3>2 DEF Shapes, Wrote
    <3>4. PICK q \in Nat : q = Len(text)
      OBVIOUS
    <3>5. /\ DOMAIN text = 1 .. q /\ DOMAIN Append(text, x) = 1 .. q + 1
          /\ \A k \in 1 .. q : Append(text, x)[k] = text[k]
          /\ Append(text, x)[q + 1] = x
      BY <3>4
    <3>6. Inked(text) \/ x \notin Space => Inked(Append(text, x))
      BY <3>5 DEF Inked
    <3>7. /\ l \in DOMAIN msgs' /\ DOMAIN msgs \subseteq DOMAIN msgs'
          /\ \A n \in DOMAIN msgs : n <= l
          /\ \A n \in DOMAIN msgs' : n # l => n \in DOMAIN msgs /\ msgs'[n] = msgs[n]
      BY <3>3
    <3>8. Inked(msgs[l].text) => Inked(msgs'[l].text)
      BY <3>3, <3>6 DEF Inked
    <3> QED
      BY <3>3, <3>7, <3>8
  <2> QED
    BY <2>1, <2>2
<1>2. \A n \in DOMAIN msgs : msgs[n].text \in Seq(Int)
  BY <1>0 DEF Shapes
<1>3. ASSUME NEW n \in Usable PROVE n \in DOMAIN msgs /\ n \in Usable'
  <2>1. n \in DOMAIN msgs /\ n \in DOMAIN msgs'
    BY <1>1 DEF Usable
  <2>2. CASE n # m
    BY <1>1, <2>1, <2>2 DEF Usable
  <2>3. CASE n = m
    <3>1. Ask \notin ToSet(msgs[m].text) /\ Ask \notin ToSet(msgs'[m].text)
      BY <1>1, <2>1, <2>3 DEF TextInv
    <3>2. Inked(msgs[m].text)
      BY <1>2, <2>1, <2>3, <3>1, UsableText DEF Usable
    <3>3. Inked(msgs'[m].text)
      BY <1>1, <2>1, <2>3, <3>2
    <3>4. msgs'[m].text \in Seq(Int)
      BY <1>1, NextTexts
    <3>5. Trim(msgs'[m].text) \notin {<<>>, <<Ask>>}
      BY <3>1, <3>3, <3>4, UsableText
    <3> QED
      BY <1>1, <2>1, <2>3, <3>5 DEF Usable
  <2> QED
    BY <2>1, <2>2, <2>3
<1>4. ASSUME NEW n \in Assistants PROVE n \in Assistants'
  <2>1. n \in Usable /\ n \in DOMAIN msgs /\ n \in Usable' /\ msgs[n].assistant
    BY <1>3 DEF Assistants, Usable
  <2>2. n \in DOMAIN msgs' /\ msgs'[n].assistant = msgs[n].assistant
    <3>1. n \in DOMAIN msgs'
      BY <1>1, <2>1
    <3>2. CASE n = m
      BY <1>1, <2>1, <3>1, <3>2
    <3>3. CASE n # m
      BY <1>1, <3>1, <3>3
    <3> QED
      BY <3>1, <3>2, <3>3
  <2> QED
    BY <2>1, <2>2 DEF Assistants
<1>5. ASSUME NEW n \in Assistants' PROVE n \in Assistants \/ n = m
  BY <1>1 DEF Assistants, Usable
<1>6. PICK l \in Nat : DOMAIN msgs' = 1 .. l
  BY DEF TypeOK
<1>7. PICK U, V, A, B : U = Usable /\ V = Usable' /\ A = Assistants /\ B = Assistants'
  OBVIOUS
<1>8. /\ U \in SUBSET (0 .. l) /\ V \in SUBSET (0 .. l) /\ A \in SUBSET U /\ B \in SUBSET V
      /\ \A n \in U : n <= m
  BY <1>1, <1>3, <1>6, <1>7 DEF Usable, Assistants
<1>9. U \subseteq V /\ A \subseteq B /\ \A n \in B : n \in A \/ n = m
  BY <1>3, <1>4, <1>5, <1>7
<1>10. ASSUME U # {}
       PROVE  LastOf(A, U) <= LastOf(B, V)
  BY <1>8, <1>9, <1>10, LastGrows
<1> QED
  BY <1>7, <1>9, <1>10 DEF Selected, LastOf

-----------------------------------------------------------------------------
(* What has been shown.                                                    *)

LEMMA InitOrder ==
    ASSUME Init
    PROVE  OrderInv
<1>1. DOMAIN seen = 1 .. MaxMessages + 1 /\ 1 \in DOMAIN seen
  BY StreamAssumption DEF Init
<1>2. \A n \in DOMAIN seen : seen[n] = <<>> /\ last[n] = <<>>
  BY StreamAssumption DEF Init
<1>3. Usable = {}
  BY AskUnusable DEF Init, Usable
<1>4. LastSeen(1)
  <2>1. 1 \in 1 .. MaxMessages + 1 /\ 0 \in 0 .. MaxMessages + 1
    BY StreamAssumption
  <2>2. last[Unknown] = seen[1]
    BY <2>1 DEF Init, Unknown
  <2> QED
    BY <1>2, <1>3, <2>2 DEF LastSeen
<1>5. /\ Words(shown) = WordsSeen \ swallowed
      /\ InOrder(shown) /\ swallowed = {}
  <2>1. \A n \in DOMAIN seen : Words(seen[n]) = {}
    BY <1>2, NoText
  <2>2. shown = <<>> /\ swallowed = {}
    BY DEF Init
  <2>3. WordsSeen = {}
    BY <2>1 DEF WordsSeen
  <2> QED
    BY <2>2, <2>3, NoText
<1> QED
  BY <1>1, <1>2, <1>4, <1>5, NoText DEF OrderInv, WordsDelivered

LEMMA GrowOrder ==
    ASSUME TypeOK, TypeOK', TextInv, TextInv', OrderInv, NewMessage \/ Extend \/ Rewrite
    PROVE  OrderInv'
<1>0. Shapes
  BY TypedShapes
<1>1. UNCHANGED <<ids, last, shown, seen, grew, swallowed>>
  <2>1. Extend \/ Rewrite => UNCHANGED <<ids, last, shown, seen, grew, swallowed>>
    BY WriteStep DEF Wrote
  <2> QED
    BY <2>1 DEF NewMessage
<1>2. \E c \in DOMAIN seen : LastSeen(c)'
  <2>1. PICK c \in DOMAIN seen : LastSeen(c)
    BY DEF OrderInv
  <2>2. Usable' # {} => c <= Selected'
    <3>1. CASE Usable # {}
      <4>1. c <= Selected /\ Selected <= Selected'
        BY <2>1, <3>1, SelectedGrows DEF LastSeen
      <4>2. c \in Nat /\ Selected \in Nat
        BY <1>0, <3>1, SelectedMessage DEF Shapes
      <4>3. Usable' # {} => Selected' \in Nat
        BY NextSelected
      <4> QED
        BY <4>1, <4>2, <4>3
    <3>2. CASE Usable = {}
      <4>1. c = 1
        BY <2>1, <3>2 DEF LastSeen
      <4>2. Usable' # {} => Selected' \in Nat /\ 1 <= Selected'
        BY NextSelected
      <4> QED
        BY <4>1, <4>2
    <3> QED
      BY <3>1, <3>2
  <2>3. Usable' = {} => c = 1
    BY <2>1, SelectedGrows DEF LastSeen
  <2> QED
    BY <1>1, <2>1, <2>2, <2>3 DEF LastSeen
<1>3. ASSUME NEW m \in DOMAIN seen, NEW n \in DOMAIN msgs', m < n,
             NEW x \in Words(seen[m]), NEW y \in Words(msgs'[n].text)
      PROVE  x < y
  <2>1. CASE n \in DOMAIN msgs /\ y \in Words(msgs[n].text)
    BY <1>3, <2>1 DEF OrderInv
  <2>2. CASE NewMessage
    <3>1. PICK a : msgs' = Append(msgs, [text |-> <<>>, assistant |-> a])
      BY <2>2 DEF NewMessage
    <3>2. (n \in DOMAIN msgs /\ msgs'[n] = msgs[n]) \/ msgs'[n].text = <<>>
      BY <3>1 DEF TypeOK
    <3> QED
      BY <1>3, <2>1, <3>2, NoText
  <2>3. CASE Extend \/ Rewrite
    <3>1. PICK text \in Seq(Token), z \in Int : Wrote(text, z)
      BY <2>3, WriteStep
    <3>2. /\ n \in DOMAIN msgs
          /\ n # Len(msgs) => msgs'[n] = msgs[n]
          /\ n = Len(msgs) => msgs'[n].text = Append(text, z)
          /\ n = Len(msgs) => text = msgs[n].text \/ text = <<>>
      BY <3>1 DEF Wrote
    <3>3. CASE n # Len(msgs)
      BY <1>3, <2>1, <3>2, <3>3
    <3>4. CASE n = Len(msgs)
      <4>1. text \in Seq(Int)
        BY <1>0, TokenTypes DEF Shapes
      <4>2. y > 0 /\ (y \in Words(text) \/ y = z)
        <5>1. y \in Words(Append(text, z))
          <6>1. msgs'[n].text = Append(text, z)
            BY <3>2, <3>4
          <6> QED
            BY <6>1, Zenon
        <5> QED
          BY <4>1, <5>1, AppendedText
      <4>3. CASE y \in Words(text)
        BY <1>3, <2>1, <3>2, <3>4, <4>3, NoText
      <4>4. CASE y = z
        <5>1. y = written + 1
          BY <3>1, <4>2, <4>4 DEF Wrote, Blank, Open, Shut, Brace
        <5>2. x \in Nat /\ x <= written /\ written \in Nat
          BY <1>0, <1>3, WordsAreNumbers DEF Shapes
        <5> QED
          BY <5>1, <5>2
      <4> QED
        BY <4>2, <4>3, <4>4
    <3> QED
      BY <3>3, <3>4
  <2> QED
    BY <2>2, <2>3
<1>4. WordsDelivered' /\ WordsSeen' = WordsSeen
  BY <1>1 DEF OrderInv, WordsDelivered, WordsSeen
<1>5. ids' => \A n \in DOMAIN seen' : last'[n] = seen'[n]
  BY <1>1 DEF OrderInv
<1> QED
  BY <1>1, <1>2, <1>3, <1>4, <1>5 DEF OrderInv

LEMMA SnapshotOrder ==
    ASSUME TypeOK, TextInv, OrderInv, Snapshot
    PROVE  OrderInv'
<1>0. Shapes
  BY TypedShapes
<1>1. PICK c \in DOMAIN msgs, v \in Seq(Token), id \in DOMAIN last :
         Showed(c, v, id) /\ c \in DOMAIN seen
  BY SnapshotStep
<1>2. /\ c = Selected /\ Usable # {} /\ v = Visible(Trim(msgs[c].text))
      /\ id = IF ids THEN c ELSE Unknown
      /\ DOMAIN last' = DOMAIN last /\ last'[id] = v
      /\ \A i \in DOMAIN last : i # id => last'[i] = last[i]
      /\ shown' = shown \o Delta(v, last[id])
      /\ DOMAIN seen' = DOMAIN seen /\ seen'[c] = v
      /\ \A n \in DOMAIN seen : n # c => seen'[n] = seen[n]
      /\ grew' = (grew /\ IsPrefix(seen[c], v))
      /\ swallowed' = swallowed \cup Swallows(v, last[id])
      /\ ids' = ids /\ msgs' = msgs
  BY <1>1 DEF Showed
<1>3. PICK e \in DOMAIN seen : LastSeen(e)
  BY DEF OrderInv
<1>4. /\ e <= c /\ e \in Nat /\ c \in Nat
      /\ \A n \in DOMAIN seen : n \in Nat /\ (n > c => seen[n] = <<>>)
      /\ ~ids => last[Unknown] = seen[e]
  BY <1>0, <1>1, <1>2, <1>3 DEF LastSeen, Shapes
<1>5. /\ v \in Seq(Int) /\ last[id] \in Seq(Int) /\ shown \in Seq(Int)
      /\ msgs[c].text \in Seq(Int) /\ seen[c] \in Seq(Int)
  BY <1>0, <1>1, TokenTypes DEF Shapes
<1>6. InOrder(v) /\ Words(v) \subseteq Words(msgs[c].text)
  <2>1. PICK u : u = Trim(msgs[c].text)
    OBVIOUS
  <2>2. u \in Seq(Int) /\ InOrder(u) /\ Words(u) = Words(msgs[c].text)
    BY <1>5, <2>1, TrimmedText DEF TextInv
  <2>3. v = u \/ v = Sanitize(u)
    BY <1>2, <2>1 DEF Visible
  <2> QED
    BY <2>2, <2>3, SanitizedText
<1>7. LastSeen(c)'
  <2>1. Selected' = Selected /\ Usable' = Usable
    BY <1>2 DEF Selected, Assistants, Usable
  <2>2. \A n \in DOMAIN seen' : n > c => seen'[n] = <<>>
    BY <1>2, <1>4
  <2>3. ~ids' => last'[Unknown] = seen'[c]
    BY <1>2
  <2>4. c <= Selected'
    BY <1>2, <1>4, <2>1
  <2> QED
    BY <1>2, <2>1, <2>2, <2>3, <2>4 DEF LastSeen
<1>8. ids' => \A n \in DOMAIN seen' : last'[n] = seen'[n]
  <2>1. DOMAIN seen \subseteq DOMAIN last
    BY <1>0, StreamAssumption DEF Shapes
  <2> QED
    BY <1>2, <2>1 DEF OrderInv
<1>9. ASSUME NEW m \in DOMAIN seen', NEW n \in DOMAIN msgs', m < n,
             NEW x \in Words(seen'[m]), NEW y \in Words(msgs'[n].text)
      PROVE  x < y
  <2>1. CASE m = c
    BY <1>1, <1>2, <1>6, <1>9, <2>1 DEF TextInv
  <2>2. CASE m # c
    BY <1>2, <1>9, <2>2 DEF OrderInv
  <2> QED
    BY <2>1, <2>2
<1>10. ASSUME grew'
       PROVE  /\ Words(shown') = WordsSeen' \ swallowed'
              /\ InOrder(shown')
              /\ ids' => swallowed' = {}
              /\ swallowed' \subseteq WordsSeen'
  <2>1. PICK d, S, U, V : /\ d = Delta(v, last[id]) /\ S = Swallows(v, last[id])
                          /\ U = WordsSeen /\ V = WordsSeen'
    OBVIOUS
  <2>u. /\ \A x : x \in U <=> \E n \in DOMAIN seen : x \in Words(seen[n])
        /\ \A x : x \in V <=> \E n \in DOMAIN seen' : x \in Words(seen'[n])
    BY <2>1 DEF WordsSeen
  <2>2. /\ d \in Seq(Int) /\ Words(d) \subseteq Words(v)
        /\ \A w \in Words(v) : w \in Words(d) \/ w \in Words(last[id]) \/ w \in S
        /\ InOrder(d)
        /\ IsPrefix(last[id], v) => \A x \in Words(last[id]), y \in Words(d) : x < y
        /\ S \subseteq Words(v) /\ \A x \in S, y \in Words(d) : x < y
        /\ IsPrefix(last[id], v) => S = {}
    BY <1>5, <1>6, <2>1, DeltaText
  <2>3. IsPrefix(seen[c], v) /\ grew
    BY <1>2, <1>10
  <2>4. /\ Words(shown) = U \ swallowed /\ InOrder(shown)
        /\ ids => swallowed = {}
        /\ swallowed \subseteq U
    BY <2>1, <2>3 DEF OrderInv, WordsDelivered
  <2>5. Words(shown') = Words(shown) \cup Words(d) /\ swallowed' = swallowed \cup S
    BY <1>2, <1>5, <2>1, <2>2, JoinedTexts
  <2>6. /\ last[id] = seen[c] \/ (seen[c] = <<>> /\ last[id] = seen[e])
        /\ ids => last[id] = seen[c]
    <3>1. CASE ids
      BY <1>1, <1>2, <3>1 DEF OrderInv
    <3>2. CASE ~ids /\ e = c
      BY <1>2, <1>4, <3>2
    <3>3. CASE ~ids /\ e < c
      <4>1. seen[c] = <<>>
        BY <1>1, <1>3, <1>4, <3>3 DEF LastSeen
      <4> QED
        BY <1>2, <1>4, <3>3, <4>1
    <3> QED
      BY <1>4, <3>1, <3>2, <3>3
  <2>7. Words(seen[c]) \subseteq Words(v)
    BY <1>5, <2>3, PrefixWords
  <2>8. V = U \cup Words(v)
    <3>1. ASSUME NEW x \in V PROVE x \in U \cup Words(v)
      <4>1. PICK n \in DOMAIN seen' : x \in Words(seen'[n])
        BY <2>u, <3>1
      <4> QED
        BY <1>2, <2>u, <4>1
    <3>2. ASSUME NEW x \in U PROVE x \in V
      <4>1. PICK n \in DOMAIN seen : x \in Words(seen[n])
        BY <2>u, <3>2
      <4>2. x \in Words(seen'[n]) /\ n \in DOMAIN seen'
        BY <1>2, <2>7, <4>1
      <4> QED
        BY <2>u, <4>2
    <3>3. Words(v) \subseteq V
      BY <1>1, <1>2, <2>u
    <3> QED
      BY <3>1, <3>2, <3>3
  <2>9. Words(last[id]) \subseteq U
    BY <1>1, <1>3, <2>u, <2>6
  <2>10. ASSUME NEW x \in U, NEW y \in Words(v), y \in Words(d) \/ y \in S PROVE x < y
    <3>1. PICK n \in DOMAIN seen : x \in Words(seen[n])
      BY <2>u
    <3>2. CASE n < c
      BY <1>6, <3>1, <3>2 DEF OrderInv
    <3>3. CASE n = c
      <4>1. seen[c] # <<>>
        BY <3>1, <3>3, NoText
      <4>2. last[id] = seen[c] /\ S = {}
        BY <2>2, <2>3, <2>6, <4>1
      <4> QED
        BY <2>2, <2>3, <2>10, <3>1, <3>3, <4>2
    <3>4. CASE n > c
      BY <1>4, <3>1, <3>4, NoText
    <3> QED
      BY <1>4, <3>2, <3>3, <3>4
  <2>11. U \cap Words(d) = {} /\ U \cap S = {} /\ S \cap Words(d) = {}
    <3>1. \A x \in Words(v) : x \in Nat
      BY <1>5, WordsAreNumbers
    <3> QED
      BY <2>2, <2>10, <3>1
  <2>12. Words(shown') = V \ swallowed'
    <3>1. ASSUME NEW x \in Words(shown') PROVE x \in V \ swallowed'
      BY <2>2, <2>4, <2>5, <2>8, <2>11
    <3>2. ASSUME NEW x \in V \ swallowed' PROVE x \in Words(shown')
      BY <2>2, <2>4, <2>5, <2>8, <2>9
    <3> QED
      BY <3>1, <3>2
  <2>13. InOrder(shown')
    <3>1. \A x \in ToSet(shown), y \in Words(d) : x < y
      <4> SUFFICES ASSUME NEW x \in ToSet(shown), NEW y \in Words(d) PROVE x < y
        OBVIOUS
      <4>1. x \in Int /\ y \in Nat /\ y > 0
        BY <1>5, <2>2, WordsAreNumbers DEF ToSet
      <4>2. CASE x > 0
        <5>1. x \in Words(shown)
          BY <4>2 DEF Words
        <5>2. x \in U /\ y \in Words(v)
          BY <2>2, <2>4, <5>1
        <5> QED
          BY <2>10, <5>2
      <4> QED
        BY <4>1, <4>2
    <3> QED
      BY <1>2, <1>5, <2>1, <2>2, <2>4, <3>1, JoinedTexts
  <2>14. ids' => swallowed' = {}
    BY <1>2, <2>2, <2>3, <2>4, <2>5, <2>6
  <2>15. swallowed' \subseteq V
    BY <2>2, <2>4, <2>5, <2>8
  <2> QED
    BY <2>1, <2>12, <2>13, <2>14, <2>15
<1>11. WordsDelivered'
  BY <1>10 DEF WordsDelivered
<1> QED
  BY <1>1, <1>2, <1>7, <1>8, <1>9, <1>10, <1>11 DEF OrderInv

\* While what is visible of a message only grows, the deltas give the client
\* the visible words of every selected message once and in order: all of them
\* where messages have ids; where they have none, all but those by which a
\* message begins like the one shown before it.
THEOREM DeltasDeliver == Spec => []WordsDelivered
<1>1. Init => TextInv /\ OrderInv
  BY InitText, InitOrder
<1>2. TypeOK /\ TypeOK' /\ TextInv /\ OrderInv /\ [Next]_vars => TextInv' /\ OrderInv'
  <2> SUFFICES ASSUME TypeOK, TypeOK', TextInv, OrderInv, [Next]_vars PROVE TextInv' /\ OrderInv'
    OBVIOUS
  <2>1. TextInv'
    BY StepText
  <2>2. CASE UNCHANGED vars
    <3>1. UNCHANGED <<ids, msgs, last, shown, seen, grew, swallowed>>
      BY <2>2 DEF vars
    <3>2. UNCHANGED <<Usable, Selected, WordsSeen>>
      BY <3>1 DEF Selected, Assistants, Usable, WordsSeen
    <3>3. WordsDelivered'
      BY <3>1, <3>2 DEF OrderInv, WordsDelivered
    <3>4. \E c \in DOMAIN seen : LastSeen(c)'
      BY <3>1, <3>2 DEF OrderInv, LastSeen
    <3>5. OrderInv'
      BY <3>1, <3>2, <3>3, <3>4 DEF OrderInv
    <3> QED
      BY <2>1, <3>5
  <2>3. CASE NewMessage \/ Extend \/ Rewrite
    BY <2>1, <2>3, GrowOrder
  <2>4. CASE Snapshot
    BY <2>1, <2>4, SnapshotOrder
  <2> QED
    BY <2>2, <2>3, <2>4 DEF Next
<1>3. OrderInv => WordsDelivered
  BY DEF OrderInv
<1> QED
  BY <1>1, <1>2, <1>3, TypeCorrect, PTL DEF Spec
=============================================================================
