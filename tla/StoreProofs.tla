----------------------------- MODULE StoreProofs ------------------------------
(***************************************************************************)
(* Theorems about Store.tla for any number of calls, ids, users and time   *)
(* stamps, with any number of parts: every key has one of four shapes; if  *)
(* no name goes on where another one ends, the map of strings is the four  *)
(* tables of Archive.tla; and what is saved under an id of two parts is    *)
(* never found.                                                            *)
(***************************************************************************)
EXTENDS Store, SequenceTheorems, TLAPS

(* What keys are made of.                                                  *)
Parts == STRING \cup Sources \cup Origins
           \cup {"audio", "text", "context", "user", Empty}

-------------------------------------------------------------------------------
(* JOINING PARTS                                                           *)

(* The key k is the kind h, the name x, and n parts more.                  *)
Begins(k, h, x, n) ==
  /\ k \in Seq(Parts)
  /\ Len(k) = Len(x) + 1 + n
  /\ k[1] = h
  /\ \A m \in 1..Len(x) : k[m + 1] = x[m]

LEMMA Headed ==
  ASSUME NEW g \in Seq(Parts), NEW x \in Seq(Parts), Len(g) = 1
  PROVE  Begins(g \o x, g[1], x, 0)
<1> DEFINE k == g \o x
<1>1. Len(x) \in Nat
  BY LenProperties
<1>2. /\ k \in Seq(Parts) /\ Len(k) = 1 + Len(x)
      /\ \A m \in 1..1 + Len(x) : k[m] = IF m <= 1 THEN g[m] ELSE x[m - 1]
  BY ConcatProperties
<1> HIDE DEF k
<1>3. \A m \in 1..Len(x) : m + 1 \in 1..1 + Len(x) /\ (m + 1) - 1 = m /\ ~(m + 1 <= 1)
  BY <1>1
<1>4. \A m \in 1..Len(x) : k[m + 1] = x[m]
  BY <1>2, <1>3
<1>5. k[1] = g[1]
  BY <1>1, <1>2
<1>6. Begins(k, g[1], x, 0)
  BY <1>1, <1>2, <1>4, <1>5 DEF Begins
<1> QED BY <1>6 DEF k

(* A key that goes on keeps its beginning.                                 *)
LEMMA GoesOn ==
  ASSUME NEW h \in Parts, NEW x \in Seq(Parts), NEW n \in Nat,
         NEW k \in Seq(Parts), Begins(k, h, x, n),
         NEW c \in Seq(Parts)
  PROVE  /\ Begins(k \o c, h, x, n + Len(c))
         /\ \A m \in 1..Len(k) : (k \o c)[m] = k[m]
<1>1. Len(x) \in Nat /\ Len(c) \in Nat
  BY LenProperties
<1>2. k \in Seq(Parts) /\ Len(k) = Len(x) + 1 + n
  BY DEF Begins
<1> DEFINE q == k \o c
<1>3. /\ q \in Seq(Parts) /\ Len(q) = Len(k) + Len(c)
      /\ \A m \in 1..Len(k) + Len(c) :
           q[m] = IF m <= Len(k) THEN k[m] ELSE c[m - Len(k)]
  BY <1>2, ConcatProperties
<1> HIDE DEF q
<1>4. \A m \in 1..Len(k) : q[m] = k[m]
  BY <1>1, <1>2, <1>3
<1>5. q[1] = h
  BY <1>1, <1>2, <1>4 DEF Begins
<1>6. \A m \in 1..Len(x) : q[m + 1] = x[m]
  <2> TAKE m \in 1..Len(x)
  <2>1. m + 1 \in 1..Len(k)
    BY <1>1, <1>2
  <2> QED BY <1>4, <2>1 DEF Begins
<1>7. Begins(q, h, x, n + Len(c))
  BY <1>1, <1>2, <1>3, <1>5, <1>6 DEF Begins
<1> QED BY <1>4, <1>7 DEF q

LEMMA Tacked ==
  ASSUME NEW k \in Seq(Parts), NEW c \in Seq(Parts), NEW m \in 1..Len(c)
  PROVE  (k \o c)[Len(k) + m] = c[m]
<1>1. Len(k) \in Nat /\ Len(c) \in Nat
  BY LenProperties
<1>2. /\ Len(k) + m \in 1..Len(k) + Len(c) /\ ~(Len(k) + m <= Len(k))
      /\ (Len(k) + m) - Len(k) = m
  BY <1>1
<1>3. \A j \in 1..Len(k) + Len(c) :
        (k \o c)[j] = IF j <= Len(k) THEN k[j] ELSE c[j - Len(k)]
  BY ConcatProperties
<1> QED BY <1>2, <1>3

LEMMA Longer ==
  ASSUME NEW k \in Seq(Parts), NEW c \in Seq(Parts), c # <<>>
  PROVE  InRange(k \o c, k)
<1>0. Len(c) > 0
  BY EmptySeq
<1>1. Len(k) \in Nat /\ Len(c) \in Nat
  BY LenProperties
<1>2. Len(k \o c) = Len(k) + Len(c) /\ \A m \in 1..Len(k) : (k \o c)[m] = k[m]
  BY <1>1, ConcatProperties
<1> QED BY <1>1, <1>2 DEF InRange

(* A kind and a name, with one part more and with two.                     *)
LEMMA Framed ==
  ASSUME NEW g \in Seq(Parts), NEW x \in Seq(Parts), Len(g) = 1,
         NEW c \in Seq(Parts), NEW d \in Seq(Parts), Len(c) = 1, Len(d) = 1
  PROVE  /\ Begins((g \o x) \o c, g[1], x, 1)
         /\ ((g \o x) \o c)[Len(x) + 2] = c[1]
         /\ Begins(((g \o x) \o c) \o d, g[1], x, 2)
         /\ (((g \o x) \o c) \o d)[Len(x) + 2] = c[1]
         /\ (((g \o x) \o c) \o d)[Len(x) + 3] = d[1]
         /\ InRange(((g \o x) \o c) \o d, (g \o x) \o c)
<1> DEFINE k == g \o x
           p == k \o c
           q == p \o d
<1>1. Len(x) \in Nat /\ c # <<>> /\ d # <<>> /\ g[1] \in Parts
  BY LenProperties, ElementOfSeq
<1>2. Begins(k, g[1], x, 0) /\ k \in Seq(Parts)
  BY Headed DEF Begins
<1> HIDE DEF k
<1>3. Begins(p, g[1], x, 0 + Len(c)) /\ p \in Seq(Parts)
  BY <1>1, <1>2, GoesOn, ConcatProperties
<1>4. Begins(p, g[1], x, 1)
  BY <1>3
<1>5. p[Len(k) + 1] = c[1] /\ Len(k) + 1 = Len(x) + 2
  BY <1>1, <1>2, Tacked DEF Begins
<1> HIDE DEF p
<1>6. \A m \in 1..Len(p) : q[m] = p[m]
  BY <1>1, <1>3, <1>4, GoesOn
<1>7. Begins(q, g[1], x, 2)
  <2>1. Begins(q, g[1], x, 1 + Len(d))
    BY <1>1, <1>3, <1>4, GoesOn
  <2> QED BY <2>1
<1>8. q[Len(p) + 1] = d[1] /\ Len(p) + 1 = Len(x) + 3
  BY <1>1, <1>3, <1>4, Tacked DEF Begins
<1>9. q[Len(x) + 2] = c[1]
  BY <1>1, <1>4, <1>5, <1>6 DEF Begins
<1>10. InRange(q, p)
  BY <1>1, <1>3, Longer
<1> QED BY <1>4, <1>5, <1>7, <1>8, <1>9, <1>10 DEF k, p

LEMMA FramedTwice ==
  ASSUME NEW g \in Seq(Parts), NEW x \in Seq(Parts), Len(g) = 1,
         NEW c \in Seq(Parts), Len(c) = 2
  PROVE  /\ Begins((g \o x) \o c, g[1], x, 2)
         /\ ((g \o x) \o c)[Len(x) + 2] = c[1]
         /\ ((g \o x) \o c)[Len(x) + 3] = c[2]
         /\ InRange((g \o x) \o c, g \o x)
<1> DEFINE k == g \o x
           r == k \o c
<1>1. Len(x) \in Nat /\ c # <<>> /\ g[1] \in Parts
  <2>1. c # <<>>
    BY EmptySeq
  <2>2. g[1] \in Parts
    BY 1 \in 1..Len(g), ElementOfSeq
  <2> QED BY <2>1, <2>2, LenProperties
<1>2. Begins(k, g[1], x, 0) /\ k \in Seq(Parts)
  BY Headed DEF Begins
<1> HIDE DEF k
<1>3. Begins(r, g[1], x, 2)
  <2>1. Begins(r, g[1], x, 0 + Len(c))
    BY <1>1, <1>2, GoesOn
  <2> QED BY <2>1
<1>4. r[Len(k) + 1] = c[1] /\ r[Len(k) + 2] = c[2]
  BY <1>1, <1>2, Tacked
<1>5. Len(k) + 1 = Len(x) + 2 /\ Len(k) + 2 = Len(x) + 3
  BY <1>1, <1>2 DEF Begins
<1>6. InRange(r, k)
  BY <1>1, <1>2, Longer
<1> QED BY <1>3, <1>4, <1>5, <1>6 DEF k

-------------------------------------------------------------------------------
(* SHAPES OF KEYS                                                          *)

LEMMA NamesAreParts ==
  /\ \A x \in Ids \cup Users : x \in Seq(Parts) /\ Len(x) \in Nat /\ Len(x) > 0
  /\ Times \subseteq Parts /\ Sources \subseteq Parts /\ Origins \subseteq Parts
  /\ {"audio", "text", "context", "user", Empty} \subseteq Parts
<1>1. STRING \subseteq Parts
  BY DEF Parts
<1>2. ASSUME NEW x \in Ids \cup Users
      PROVE  x \in Seq(Parts) /\ Len(x) \in Nat /\ Len(x) > 0
  <2>1. x \in Seq(STRING) /\ x # <<>>
    BY StoreAssumption
  <2>2. x \in Seq(Parts)
    BY <1>1, <2>1, SeqMonotonic
  <2>3. Len(x) \in Nat \ {0}
    BY <2>1, EmptySeq
  <2> QED BY <2>2, <2>3
<1> QED BY <1>2, StoreAssumption DEF Parts

LEMMA SessionKeys ==
  ASSUME NEW i \in Ids, NEW s \in Parts, NEW t \in Parts
  PROVE  /\ Begins(AudioPrefix(i, s), "audio", i, 1)
         /\ AudioPrefix(i, s)[Len(i) + 2] = s
         /\ Begins(FrameKey(i, s, t), "audio", i, 2)
         /\ FrameKey(i, s, t)[Len(i) + 2] = s /\ FrameKey(i, s, t)[Len(i) + 3] = t
         /\ Begins(TextPrefix(i), "text", i, 0)
         /\ Begins(PhraseKey(i, s, t), "text", i, 2)
         /\ PhraseKey(i, s, t)[Len(i) + 2] = s /\ PhraseKey(i, s, t)[Len(i) + 3] = t
         /\ InRange(FrameKey(i, s, t), AudioPrefix(i, s))
         /\ InRange(PhraseKey(i, s, t), TextPrefix(i))
<1> DEFINE g == <<"audio">>
           h == <<"text">>
           c == <<s>>
           d == <<t>>
           e == <<s, t>>
<1>1. i \in Seq(Parts) /\ "audio" \in Parts /\ "text" \in Parts
  BY NamesAreParts
<1>2. /\ g \in Seq(Parts) /\ Len(g) = 1 /\ g[1] = "audio"
      /\ h \in Seq(Parts) /\ Len(h) = 1 /\ h[1] = "text"
      /\ c \in Seq(Parts) /\ Len(c) = 1 /\ c[1] = s
      /\ d \in Seq(Parts) /\ Len(d) = 1 /\ d[1] = t
      /\ e \in Seq(Parts) /\ Len(e) = 2 /\ e[1] = s /\ e[2] = t
  BY <1>1
<1>3. /\ AudioPrefix(i, s) = (g \o i) \o c
      /\ FrameKey(i, s, t) = ((g \o i) \o c) \o d
      /\ TextPrefix(i) = h \o i
      /\ PhraseKey(i, s, t) = (h \o i) \o e
  BY DEF AudioPrefix, FrameKey, TextPrefix, PhraseKey
<1> HIDE DEF g, h, c, d, e
<1>4. /\ Begins((g \o i) \o c, g[1], i, 1)
      /\ ((g \o i) \o c)[Len(i) + 2] = c[1]
      /\ Begins(((g \o i) \o c) \o d, g[1], i, 2)
      /\ (((g \o i) \o c) \o d)[Len(i) + 2] = c[1]
      /\ (((g \o i) \o c) \o d)[Len(i) + 3] = d[1]
      /\ InRange(((g \o i) \o c) \o d, (g \o i) \o c)
  BY <1>1, <1>2, Framed
<1>5. Begins(h \o i, h[1], i, 0)
  BY <1>1, <1>2, Headed
<1>6. /\ Begins((h \o i) \o e, h[1], i, 2)
      /\ ((h \o i) \o e)[Len(i) + 2] = e[1]
      /\ ((h \o i) \o e)[Len(i) + 3] = e[2]
      /\ InRange((h \o i) \o e, h \o i)
  BY <1>1, <1>2, FramedTwice
<1> QED BY <1>2, <1>3, <1>4, <1>5, <1>6

LEMMA UserKeys ==
  ASSUME NEW u \in Users, NEW o \in Parts, NEW t \in Parts
  PROVE  /\ Begins(ContextKey(u), "context", u, 0)
         /\ Begins(VisitPrefix(u, o), "user", u, 1)
         /\ VisitPrefix(u, o)[Len(u) + 2] = o
         /\ Begins(VisitKey(u, o, t), "user", u, 2)
         /\ VisitKey(u, o, t)[Len(u) + 2] = o /\ VisitKey(u, o, t)[Len(u) + 3] = t
         /\ InRange(VisitKey(u, o, t), VisitPrefix(u, o))
         /\ InRange(ContextKey(u), <<"context">>)
<1> DEFINE g == <<"context">>
           h == <<"user">>
           c == <<o>>
           d == <<t>>
<1>1. u \in Seq(Parts) /\ u # <<>> /\ "context" \in Parts /\ "user" \in Parts
  BY NamesAreParts, StoreAssumption
<1>2. /\ g \in Seq(Parts) /\ Len(g) = 1 /\ g[1] = "context"
      /\ h \in Seq(Parts) /\ Len(h) = 1 /\ h[1] = "user"
      /\ c \in Seq(Parts) /\ Len(c) = 1 /\ c[1] = o
      /\ d \in Seq(Parts) /\ Len(d) = 1 /\ d[1] = t
  BY <1>1
<1>3. /\ ContextKey(u) = g \o u
      /\ VisitPrefix(u, o) = (h \o u) \o c
      /\ VisitKey(u, o, t) = ((h \o u) \o c) \o d
      /\ <<"context">> = g
  BY DEF ContextKey, VisitPrefix, VisitKey
<1> HIDE DEF g, h, c, d
<1>4. Begins(g \o u, g[1], u, 0) /\ InRange(g \o u, g)
  BY <1>1, <1>2, Headed, Longer
<1>5. /\ Begins((h \o u) \o c, h[1], u, 1)
      /\ ((h \o u) \o c)[Len(u) + 2] = c[1]
      /\ Begins(((h \o u) \o c) \o d, h[1], u, 2)
      /\ (((h \o u) \o c) \o d)[Len(u) + 2] = c[1]
      /\ (((h \o u) \o c) \o d)[Len(u) + 3] = d[1]
      /\ InRange(((h \o u) \o c) \o d, (h \o u) \o c)
  BY <1>1, <1>2, Framed
<1> QED BY <1>2, <1>3, <1>4, <1>5

(* Keys that begin with a kind and a name are equal only if both are.      *)
LEMMA SameBeginning ==
  ASSUME NEW k, NEW h, NEW g, NEW n \in Nat,
         NEW x \in Seq(Parts), NEW y \in Seq(Parts),
         Begins(k, h, x, n), Begins(k, g, y, n)
  PROVE  h = g /\ x = y
<1>1. Len(x) = Len(y)
  BY LenProperties DEF Begins
<1>2. \A m \in 1..Len(x) : x[m] = y[m]
  BY <1>1 DEF Begins
<1> QED BY <1>1, <1>2, SeqEqual DEF Begins

(* Two keys are equal only if they name the same record.                   *)
LEMMA KeysDiffer ==
  /\ \A i, j \in Ids, s, r \in Sources, t, m \in Times :
       /\ FrameKey(i, s, t) = FrameKey(j, r, m) => i = j /\ s = r /\ t = m
       /\ PhraseKey(i, s, t) = PhraseKey(j, r, m) => i = j /\ s = r /\ t = m
       /\ FrameKey(i, s, t) # PhraseKey(j, r, m)
  /\ \A u, w \in Users : ContextKey(u) = ContextKey(w) => u = w
  /\ \A u, w \in Users, o, p \in Origins, t, m \in Times :
       VisitKey(u, o, t) = VisitKey(w, p, m) => u = w /\ o = p /\ t = m
  /\ \A u, w \in Users, p \in Origins, m \in Times :
       ContextKey(u) # VisitKey(w, p, m)
  /\ \A i \in Ids, s \in Sources, t \in Times, u \in Users :
       ContextKey(u) \notin {FrameKey(i, s, t), PhraseKey(i, s, t)}
  /\ \A i \in Ids, s \in Sources, t \in Times,
        u \in Users, o \in Origins, m \in Times :
       VisitKey(u, o, m) \notin {FrameKey(i, s, t), PhraseKey(i, s, t)}
<1>1. /\ Times \subseteq Parts /\ Sources \subseteq Parts /\ Origins \subseteq Parts
      /\ Ids \cup Users \subseteq Seq(Parts)
  BY NamesAreParts
<1>2. \A i \in Ids, s \in Sources, t \in Times :
        /\ Begins(FrameKey(i, s, t), "audio", i, 2)
        /\ FrameKey(i, s, t)[Len(i) + 2] = s /\ FrameKey(i, s, t)[Len(i) + 3] = t
        /\ Begins(PhraseKey(i, s, t), "text", i, 2)
        /\ PhraseKey(i, s, t)[Len(i) + 2] = s /\ PhraseKey(i, s, t)[Len(i) + 3] = t
  BY <1>1, SessionKeys
<1>3. \A u \in Users : Begins(ContextKey(u), "context", u, 0)
  BY UserKeys, NamesAreParts
<1>4. \A u \in Users, o \in Origins, t \in Times :
        /\ Begins(VisitKey(u, o, t), "user", u, 2)
        /\ VisitKey(u, o, t)[Len(u) + 2] = o /\ VisitKey(u, o, t)[Len(u) + 3] = t
  BY <1>1, UserKeys
<1>5. ASSUME NEW i \in Ids, NEW j \in Ids, NEW s \in Sources, NEW r \in Sources,
             NEW t \in Times, NEW m \in Times
      PROVE  /\ FrameKey(i, s, t) = FrameKey(j, r, m) => i = j /\ s = r /\ t = m
             /\ PhraseKey(i, s, t) = PhraseKey(j, r, m) => i = j /\ s = r /\ t = m
             /\ FrameKey(i, s, t) # PhraseKey(j, r, m)
  <2>1. FrameKey(i, s, t) = FrameKey(j, r, m) => i = j
    BY <1>1, <1>2, SameBeginning
  <2>2. PhraseKey(i, s, t) = PhraseKey(j, r, m) => i = j
    BY <1>1, <1>2, SameBeginning
  <2>3. FrameKey(i, s, t) # PhraseKey(j, r, m)
    BY <1>2 DEF Begins
  <2> QED BY <1>2, <2>1, <2>2, <2>3
<1>6. ASSUME NEW u \in Users, NEW w \in Users, ContextKey(u) = ContextKey(w)
      PROVE  u = w
  BY <1>1, <1>3, <1>6, SameBeginning
<1>7. ASSUME NEW u \in Users, NEW o \in Origins, NEW t \in Times,
             NEW w \in Users, NEW p \in Origins, NEW m \in Times
      PROVE  /\ VisitKey(u, o, t) = VisitKey(w, p, m) => u = w /\ o = p /\ t = m
             /\ ContextKey(u) # VisitKey(w, p, m)
  <2>1. VisitKey(u, o, t) = VisitKey(w, p, m) => u = w
    BY <1>1, <1>4, SameBeginning
  <2>2. ContextKey(u) # VisitKey(w, p, m)
    BY <1>3, <1>4 DEF Begins
  <2> QED BY <1>4, <2>1, <2>2
<1>8. ASSUME NEW i \in Ids, NEW s \in Sources, NEW u \in Users, NEW t \in Times
      PROVE  ContextKey(u) \notin {FrameKey(i, s, t), PhraseKey(i, s, t)}
  BY <1>2, <1>3 DEF Begins
<1>9. ASSUME NEW i \in Ids, NEW s \in Sources, NEW t \in Times,
             NEW u \in Users, NEW o \in Origins, NEW m \in Times
      PROVE  VisitKey(u, o, m) \notin {FrameKey(i, s, t), PhraseKey(i, s, t)}
  BY <1>2, <1>4 DEF Begins
<1> QED BY <1>5, <1>6, <1>7, <1>8, <1>9

(* Names that agree as far as both go are the same name.                   *)
LEMMA AgreeingNames ==
  ASSUME PrefixFree, NEW names \in {Ids, Users}, NEW x \in names, NEW y \in names,
         \A n \in 1..Len(x) : n \in 1..Len(y) => x[n] = y[n]
  PROVE  x = y
<1>1. /\ x \in Seq(Parts) /\ Len(x) \in Nat
      /\ y \in Seq(Parts) /\ Len(y) \in Nat
  BY NamesAreParts
<1>2. ~InRange(x, y) /\ ~InRange(y, x)
  BY DEF PrefixFree
<1>3. Len(x) = Len(y)
  BY <1>1, <1>2 DEF InRange
<1> QED BY <1>1, <1>3, SeqEqual

(* A key in the range of a prefix is of its kind, and if the prefix is     *)
(* long enough to tell, of its name.                                       *)
LEMMA RangeAgrees ==
  ASSUME PrefixFree, NEW h, NEW g, NEW n \in {0, 1, 2}, NEW l \in {0, 1},
         NEW names \in {Ids, Users}, NEW x \in names, NEW y \in names,
         NEW k, NEW p, Begins(k, h, x, n), Begins(p, g, y, l), InRange(k, p)
  PROVE  x = y
<1>1. Len(x) \in Nat /\ Len(y) \in Nat
  BY NamesAreParts
<1>2. \A m \in 1..Len(x) : m \in 1..Len(y) => x[m] = y[m]
  <2> SUFFICES ASSUME NEW m \in 1..Len(x), m \in 1..Len(y)
               PROVE  x[m] = y[m]
    OBVIOUS
  <2>1. m + 1 \in 1..Len(p)
    BY <1>1 DEF Begins
  <2> QED BY <2>1 DEF Begins, InRange
<1> QED BY <1>2, AgreeingNames

LEMMA RangeOfKind ==
  ASSUME NEW h, NEW g, NEW n \in Nat, NEW l \in Nat,
         NEW x \in Seq(Parts), NEW y \in Seq(Parts),
         NEW k, NEW p, Begins(k, h, x, n), Begins(p, g, y, l), InRange(k, p)
  PROVE  h = g
<1>1. 1 \in 1..Len(p)
  BY LenProperties DEF Begins
<1> QED BY <1>1 DEF Begins, InRange

(* Which keys a prefix finds: those of the records it names, and no other. *)
LEMMA Shapes ==
  /\ \A x \in Ids \cup Users : x \in Seq(Parts)
  /\ \A i \in Ids, s \in Sources, t \in Times :
       /\ Begins(FrameKey(i, s, t), "audio", i, 2)
       /\ Begins(PhraseKey(i, s, t), "text", i, 2)
  /\ \A u \in Users : Begins(ContextKey(u), "context", u, 0)
  /\ \A u \in Users, o \in Origins, t \in Times :
       Begins(VisitKey(u, o, t), "user", u, 2)
BY NamesAreParts, SessionKeys, UserKeys

LEMMA RangeOfFrames ==
  ASSUME PrefixFree, NEW i \in Ids, NEW s \in Sources \cup {Empty}
  PROVE  /\ \A j \in Ids, r \in Sources, t \in Times :
              /\ InRange(FrameKey(j, r, t), AudioPrefix(i, s)) <=> j = i /\ r = s
              /\ ~InRange(PhraseKey(j, r, t), AudioPrefix(i, s))
         /\ \A u \in Users : ~InRange(ContextKey(u), AudioPrefix(i, s))
         /\ \A u \in Users, o \in Origins, t \in Times :
              ~InRange(VisitKey(u, o, t), AudioPrefix(i, s))
<1> DEFINE p == AudioPrefix(i, s)
<1>1. s \in Parts /\ Sources \subseteq Parts /\ Times \subseteq Parts /\ Len(i) \in Nat
  BY NamesAreParts
<1>2. Begins(p, "audio", i, 1) /\ p[Len(i) + 2] = s
  BY <1>1, SessionKeys
<1> HIDE DEF p
<1>3. ASSUME NEW j \in Ids, NEW r \in Sources, NEW t \in Times,
             InRange(FrameKey(j, r, t), p)
      PROVE  j = i /\ r = s
  <2>1. j = i
    <3>1. Begins(FrameKey(j, r, t), "audio", j, 2)
      BY Shapes
    <3> QED BY <1>2, <1>3, <3>1, Ids \in {Ids, Users}, RangeAgrees
  <2>2. FrameKey(j, r, t)[Len(j) + 2] = r
    BY <1>1, SessionKeys
  <2>3. Len(i) + 2 \in 1..Len(p)
    BY <1>1, <1>2 DEF Begins
  <2> QED BY <1>2, <1>3, <2>1, <2>2, <2>3 DEF InRange
<1>4. \A t \in Times : s \in Sources => InRange(FrameKey(i, s, t), p)
  BY <1>1, SessionKeys DEF p
<1>5. ASSUME NEW j \in Ids, NEW r \in Sources, NEW t \in Times
      PROVE  ~InRange(PhraseKey(j, r, t), p)
  BY <1>2, Shapes, RangeOfKind
<1>6. ASSUME NEW u \in Users
      PROVE  ~InRange(ContextKey(u), p)
  BY <1>2, Shapes, RangeOfKind
<1>7. ASSUME NEW u \in Users, NEW o \in Origins, NEW t \in Times
      PROVE  ~InRange(VisitKey(u, o, t), p)
  BY <1>2, Shapes, RangeOfKind
<1> QED BY <1>3, <1>4, <1>5, <1>6, <1>7 DEF p

LEMMA RangeOfPhrases ==
  ASSUME PrefixFree, NEW i \in Ids
  PROVE  /\ \A j \in Ids, r \in Sources, t \in Times :
              /\ ~InRange(FrameKey(j, r, t), TextPrefix(i))
              /\ InRange(PhraseKey(j, r, t), TextPrefix(i)) <=> j = i
         /\ \A u \in Users : ~InRange(ContextKey(u), TextPrefix(i))
         /\ \A u \in Users, o \in Origins, t \in Times :
              ~InRange(VisitKey(u, o, t), TextPrefix(i))
<1> DEFINE p == TextPrefix(i)
<1>1. Sources \subseteq Parts /\ Times \subseteq Parts
  BY NamesAreParts
<1>2. Begins(p, "text", i, 0)
  BY NamesAreParts, SessionKeys
<1> HIDE DEF p
<1>3. ASSUME NEW j \in Ids, NEW r \in Sources, NEW t \in Times,
             InRange(PhraseKey(j, r, t), p)
      PROVE  j = i
  <2>1. Begins(PhraseKey(j, r, t), "text", j, 2)
    BY Shapes
  <2> QED BY <1>2, <1>3, <2>1, Ids \in {Ids, Users}, RangeAgrees
<1>4. \A r \in Sources, t \in Times : InRange(PhraseKey(i, r, t), p)
  BY <1>1, SessionKeys DEF p
<1>5. ASSUME NEW j \in Ids, NEW r \in Sources, NEW t \in Times
      PROVE  ~InRange(FrameKey(j, r, t), p)
  BY <1>2, Shapes, RangeOfKind
<1>6. ASSUME NEW u \in Users
      PROVE  ~InRange(ContextKey(u), p)
  BY <1>2, Shapes, RangeOfKind
<1>7. ASSUME NEW u \in Users, NEW o \in Origins, NEW t \in Times
      PROVE  ~InRange(VisitKey(u, o, t), p)
  BY <1>2, Shapes, RangeOfKind
<1> QED BY <1>3, <1>4, <1>5, <1>6, <1>7 DEF p

LEMMA RangeOfContexts ==
  /\ \A j \in Ids, r \in Sources, t \in Times :
       /\ ~InRange(FrameKey(j, r, t), <<"context">>)
       /\ ~InRange(PhraseKey(j, r, t), <<"context">>)
  /\ \A u \in Users : InRange(ContextKey(u), <<"context">>)
  /\ \A u \in Users, o \in Origins, t \in Times :
       ~InRange(VisitKey(u, o, t), <<"context">>)
<1>1. ASSUME NEW k, InRange(k, <<"context">>)
      PROVE  k[1] = "context"
  BY <1>1 DEF InRange
<1>2. \A u \in Users : InRange(ContextKey(u), <<"context">>)
  BY NamesAreParts, UserKeys
<1> QED BY <1>1, <1>2, Shapes DEF Begins

LEMMA RangeOfVisits ==
  ASSUME PrefixFree, NEW w \in Users, NEW o \in Origins
  PROVE  /\ \A j \in Ids, r \in Sources, t \in Times :
              /\ ~InRange(FrameKey(j, r, t), VisitPrefix(w, o))
              /\ ~InRange(PhraseKey(j, r, t), VisitPrefix(w, o))
         /\ \A u \in Users : ~InRange(ContextKey(u), VisitPrefix(w, o))
         /\ \A u \in Users, q \in Origins, t \in Times :
              InRange(VisitKey(u, q, t), VisitPrefix(w, o)) <=> u = w /\ q = o
<1> DEFINE p == VisitPrefix(w, o)
<1>1. Origins \subseteq Parts /\ Times \subseteq Parts /\ Len(w) \in Nat
  BY NamesAreParts
<1>2. Begins(p, "user", w, 1) /\ p[Len(w) + 2] = o
  BY <1>1, UserKeys
<1> HIDE DEF p
<1>3. ASSUME NEW u \in Users, NEW q \in Origins, NEW t \in Times,
             InRange(VisitKey(u, q, t), p)
      PROVE  u = w /\ q = o
  <2>1. u = w
    BY <1>2, <1>3, Shapes, RangeAgrees
  <2>2. VisitKey(u, q, t)[Len(u) + 2] = q
    BY <1>1, UserKeys
  <2>3. Len(w) + 2 \in 1..Len(p)
    BY <1>1, <1>2 DEF Begins
  <2> QED BY <1>2, <1>3, <2>1, <2>2, <2>3 DEF InRange
<1>4. \A t \in Times : InRange(VisitKey(w, o, t), p)
  BY <1>1, UserKeys DEF p
<1>5. ASSUME NEW j \in Ids, NEW r \in Sources, NEW t \in Times
      PROVE  ~InRange(FrameKey(j, r, t), p) /\ ~InRange(PhraseKey(j, r, t), p)
  BY <1>2, Shapes, RangeOfKind
<1>6. ASSUME NEW u \in Users
      PROVE  ~InRange(ContextKey(u), p)
  BY <1>2, Shapes, RangeOfKind
<1> QED BY <1>3, <1>4, <1>5, <1>6 DEF p

(* What the readers take from a key: the fourth part is the time if the id *)
(* has one part.                                                           *)
LEMMA PartsOfSessionKeys ==
  ASSUME NEW i \in Ids, Len(i) = 1, NEW s \in Sources, NEW t \in Times
  PROVE  /\ TimeInFourth(FrameKey(i, s, t)) /\ FrameKey(i, s, t)[4] = t
         /\ TimeInFourth(PhraseKey(i, s, t)) /\ PhraseKey(i, s, t)[4] = t
         /\ PhraseKey(i, s, t)[3] = s
<1>1. s \in Parts /\ t \in Parts
  BY NamesAreParts
<1>2. Begins(FrameKey(i, s, t), "audio", i, 2) /\ Begins(PhraseKey(i, s, t), "text", i, 2)
  BY Shapes
<1>3. Len(FrameKey(i, s, t)) = 4 /\ Len(PhraseKey(i, s, t)) = 4
  BY <1>2 DEF Begins
<1>4. FrameKey(i, s, t)[Len(i) + 3] = t
  BY <1>1, SessionKeys
<1>5. PhraseKey(i, s, t)[Len(i) + 2] = s
  BY <1>1, SessionKeys
<1>6. PhraseKey(i, s, t)[Len(i) + 3] = t
  BY <1>1, SessionKeys
<1>7. Len(i) + 2 = 3 /\ Len(i) + 3 = 4
  OBVIOUS
<1> QED BY <1>3, <1>4, <1>5, <1>6, <1>7 DEF TimeInFourth

LEMMA PartsOfUserKeys ==
  /\ \A u \in Users : Tail(ContextKey(u)) = u
  /\ \A u \in Users, o \in Origins, t \in Times :
       VisitKey(u, o, t)[Len(VisitKey(u, o, t))] = t
<1>1. Origins \subseteq Parts /\ Times \subseteq Parts
      /\ \A u \in Users : u \in Seq(Parts) /\ Len(u) \in Nat
  BY NamesAreParts
<1>2. ASSUME NEW u \in Users
      PROVE  Tail(ContextKey(u)) = u
  <2> DEFINE k == ContextKey(u)
  <2>1. k \in Seq(Parts) /\ Len(k) = Len(u) + 1 /\ \A m \in 1..Len(u) : k[m + 1] = u[m]
    BY <1>1, Shapes DEF Begins
  <2> HIDE DEF k
  <2>2. k # <<>>
    BY <1>1, <2>1, EmptySeq
  <2>3. /\ Tail(k) \in Seq(Parts) /\ Len(Tail(k)) = Len(u)
        /\ \A m \in 1..Len(Tail(k)) : Tail(k)[m] = k[m + 1]
    BY <1>1, <2>1, <2>2, HeadTailProperties
  <2>4. Tail(k) = u
    BY <1>1, <2>1, <2>3, SeqEqual
  <2> QED BY <2>4 DEF k
<1>3. ASSUME NEW u \in Users, NEW o \in Origins, NEW t \in Times
      PROVE  VisitKey(u, o, t)[Len(VisitKey(u, o, t))] = t
  <2>1. Len(VisitKey(u, o, t)) = Len(u) + 3
    BY <1>1, Shapes DEF Begins
  <2> QED BY <1>1, <2>1, UserKeys
<1> QED BY <1>2, <1>3

-------------------------------------------------------------------------------
(* TYPES                                                                   *)

(* x is what the readers take the value of the key k for.                  *)
Fits(k, x) ==
  \/ /\ \E i \in Ids, s \in Sources, t \in Times :
          k \in {FrameKey(i, s, t), PhraseKey(i, s, t)}
     /\ x \in Values
  \/ /\ \E u \in Users : k = ContextKey(u)
     /\ x \in Values
  \/ /\ \E u \in Users, o \in Origins, t \in Times : k = VisitKey(u, o, t)
     /\ x \in Ids

KeysFit == \A k \in DOMAIN db : Fits(k, db[k])

LEMMA TypeOKParts == TypeOK <=> KeysFit /\ request.number \in 0..MaxCalls
BY DEF TypeOK, KeysFit, Fits

LEMMA SetFits ==
  ASSUME KeysFit, NEW k, NEW x, Fits(k, x), Set(k, x)
  PROVE  KeysFit'
BY DEF KeysFit, Set

LEMMA RetainFits ==
  ASSUME KeysFit, NEW kept \in SUBSET DOMAIN db, Retain(kept)
  PROVE  KeysFit'
BY DEF KeysFit, Retain

LEMMA TypeInit == Init => TypeOK
BY StoreAssumption DEF Init, TypeOK

LEMMA TypeNext ==
  ASSUME TypeOK, [Next]_vars
  PROVE  TypeOK'
<1>0. KeysFit /\ request.number \in 0..MaxCalls
  BY TypeOKParts
<1>1. ASSUME UNCHANGED vars
      PROVE  KeysFit' /\ request'.number \in 0..MaxCalls
  BY <1>0, <1>1 DEF vars, KeysFit
<1>2. ASSUME Next
      PROVE  request'.number \in 0..MaxCalls
  BY <1>0, <1>2, StoreAssumption
     DEF Next, Called, SaveOpusFrame, SaveDialogPhrase, SaveUserSession,
         SetContext, DeleteContext, DeleteOpusFrames, DeleteDialogTexts
<1>3. ASSUME NEW i \in Ids, NEW s \in Sources, NEW t \in Times, NEW v \in Values,
             SaveOpusFrame(i, s, t, v)
      PROVE  KeysFit'
  <2>1. Fits(FrameKey(i, s, t), v)
    BY DEF Fits
  <2> QED BY <1>0, <1>3, <2>1, SetFits DEF SaveOpusFrame
<1>4. ASSUME NEW i \in Ids, NEW s \in Sources, NEW t \in Times, NEW v \in Values,
             SaveDialogPhrase(i, s, t, v)
      PROVE  KeysFit'
  <2>1. Fits(PhraseKey(i, s, t), v)
    BY DEF Fits
  <2> QED BY <1>0, <1>4, <2>1, SetFits DEF SaveDialogPhrase
<1>5. ASSUME NEW u \in Users, NEW o \in Origins, NEW t \in Times, NEW i \in Ids,
             SaveUserSession(u, o, t, i)
      PROVE  KeysFit'
  <2>1. Fits(VisitKey(u, o, t), i)
    BY DEF Fits
  <2> QED BY <1>0, <1>5, <2>1, SetFits DEF SaveUserSession
<1>6. ASSUME NEW u \in Users, NEW v \in Values, SetContext(u, v)
      PROVE  KeysFit'
  <2>1. Fits(ContextKey(u), v)
    BY DEF Fits
  <2> QED BY <1>0, <1>6, <2>1, SetFits DEF SetContext
<1>7. ASSUME NEW u \in Users, DeleteContext(u)
      PROVE  KeysFit'
  BY <1>0, <1>7, RetainFits DEF DeleteContext, Delete
<1>8. ASSUME NEW i \in Ids, NEW s \in Sources \cup {Empty}, DeleteOpusFrames(i, s)
      PROVE  KeysFit'
  BY <1>0, <1>8, RetainFits DEF DeleteOpusFrames, DeleteByPrefix
<1>9. ASSUME NEW i \in Ids, DeleteDialogTexts(i)
      PROVE  KeysFit'
  BY <1>0, <1>9, RetainFits DEF DeleteDialogTexts, DeleteByPrefix
<1>10. Next => KeysFit'
  BY <1>3, <1>4, <1>5, <1>6, <1>7, <1>8, <1>9 DEF Next
<1>11. KeysFit' /\ request'.number \in 0..MaxCalls => TypeOK'
  BY DEF TypeOK, KeysFit, Fits
<1> QED BY <1>1, <1>2, <1>10, <1>11

(* Every key the store ever holds has one of the four shapes its readers   *)
(* know, whatever the ids and users look like.                             *)
THEOREM StoreTypeCorrect == Spec => []TypeOK
BY TypeInit, TypeNext, PTL DEF Spec

-------------------------------------------------------------------------------
(* READERS                                                                 *)

(* The tables of users by key, as FramesKept and PhrasesKept in Store.tla. *)
ContextTable ==
  [u \in {w \in Users : ContextKey(w) \in DOMAIN db} |-> db[ContextKey(u)]]

VisitTable(u, o) ==
  [t \in {m \in Times : VisitKey(u, o, m) \in DOMAIN db} |->
     db[VisitKey(u, o, t)]]

(* A key that is there is of one of the four kinds.                        *)
LEMMA KeyKinds ==
  ASSUME KeysFit, NEW k \in DOMAIN db
  PROVE  \/ \E i \in Ids, s \in Sources, t \in Times : k = FrameKey(i, s, t)
         \/ \E i \in Ids, s \in Sources, t \in Times : k = PhraseKey(i, s, t)
         \/ \E u \in Users : k = ContextKey(u)
         \/ \E u \in Users, o \in Origins, t \in Times : k = VisitKey(u, o, t)
BY DEF KeysFit, Fits

LEMMA FramesRead ==
  ASSUME PrefixFree, KeysFit, NEW i \in Ids, Len(i) = 1, NEW s \in Sources
  PROVE  GetOpusFrames(i, s) = FramesKept(i, s)
<1> DEFINE keys == {k \in Filter(AudioPrefix(i, s)) : TimeInFourth(k)}
           times == {m \in Times : FrameKey(i, s, m) \in DOMAIN db}
<1>1. \A k \in keys : \E t \in times : k = FrameKey(i, s, t)
  <2> TAKE k \in keys
  <2>1. k \in DOMAIN db /\ InRange(k, AudioPrefix(i, s))
    BY DEF Filter
  <2>2. \E t \in Times : k = FrameKey(i, s, t)
    BY <2>1, KeyKinds, RangeOfFrames
  <2> QED BY <2>1, <2>2
<1>2. \A t \in times : FrameKey(i, s, t) \in keys /\ FrameKey(i, s, t)[4] = t
  BY RangeOfFrames, PartsOfSessionKeys DEF Filter
<1>3. GetOpusFrames(i, s) =
        [t \in {k[4] : k \in keys} |-> db[CHOOSE k \in keys : k[4] = t]]
  BY DEF GetOpusFrames
<1>4. FramesKept(i, s) = [t \in times |-> db[FrameKey(i, s, t)]]
  BY DEF FramesKept
<1> HIDE DEF keys, times
<1>5. {k[4] : k \in keys} = times
  BY <1>1, <1>2
<1>6. \A t \in times : (CHOOSE k \in keys : k[4] = t) = FrameKey(i, s, t)
  BY <1>1, <1>2
<1> QED BY <1>3, <1>4, <1>5, <1>6

LEMMA PhrasesRead ==
  ASSUME PrefixFree, KeysFit, NEW i \in Ids, Len(i) = 1
  PROVE  PhrasesFound(i) = PhrasesKept(i)
<1> DEFINE said == GetDialogTexts(i)
           when == {sm \in Sources \X Times :
                      PhraseKey(i, sm[1], sm[2]) \in DOMAIN db}
           Said(st) == [time |-> st[2], source |-> st[1],
                        phrase |-> db[PhraseKey(i, st[1], st[2])]]
<1> DEFINE keys == {k \in Filter(TextPrefix(i)) : TimeInFourth(k)}
<1>1. \A k \in keys : \E st \in when : k = PhraseKey(i, st[1], st[2])
  <2> TAKE k \in keys
  <2>1. k \in DOMAIN db /\ InRange(k, TextPrefix(i))
    BY DEF Filter
  <2>2. PICK s \in Sources, t \in Times : k = PhraseKey(i, s, t)
    BY <2>1, KeyKinds, RangeOfPhrases
  <2>3. <<s, t>> \in when
    BY <2>1, <2>2
  <2> QED BY <2>2, <2>3
<1>2. \A st \in when : /\ PhraseKey(i, st[1], st[2]) \in keys
                       /\ PhraseKey(i, st[1], st[2])[4] = st[2]
                       /\ PhraseKey(i, st[1], st[2])[3] = st[1]
  BY RangeOfPhrases, PartsOfSessionKeys DEF Filter
<1>3. said = {[time |-> k[4], source |-> k[3], phrase |-> db[k]] : k \in keys}
  BY DEF GetDialogTexts
<1>4. \A st \in when : st = <<st[1], st[2]>>
  OBVIOUS
<1>5. PhrasesFound(i) = [st \in {<<p.source, p.time>> : p \in said} |->
                        (CHOOSE p \in said : <<p.source, p.time>> = st).phrase]
  BY DEF PhrasesFound
<1>6. PhrasesKept(i) = [st \in when |-> db[PhraseKey(i, st[1], st[2])]]
  BY DEF PhrasesKept
<1> HIDE DEF said, keys, when
<1>7. \A p \in said : \E st \in when : p = Said(st)
  BY <1>1, <1>2, <1>3
<1>8. \A st \in when : Said(st) \in said
  BY <1>2, <1>3
<1>9. \A st \in when : /\ <<Said(st).source, Said(st).time>> = st
                       /\ Said(st).phrase = db[PhraseKey(i, st[1], st[2])]
  BY <1>4
<1> HIDE DEF Said
<1>10. {<<p.source, p.time>> : p \in said} = when
  BY <1>7, <1>8, <1>9
<1>11. ASSUME NEW st \in when
       PROVE  (CHOOSE p \in said : <<p.source, p.time>> = st) = Said(st)
  <2>1. \A p \in said : <<p.source, p.time>> = st => p = Said(st)
    BY <1>7, <1>9
  <2> QED BY <1>8, <1>9, <2>1
<1> QED BY <1>5, <1>6, <1>9, <1>10, <1>11

LEMMA ContextsRead ==
  ASSUME KeysFit
  PROVE  ListContexts = ContextTable
<1> DEFINE keys == Filter(<<"context">>)
           known == {w \in Users : ContextKey(w) \in DOMAIN db}
<1>1. \A k \in keys : \E u \in known : k = ContextKey(u)
  <2> TAKE k \in keys
  <2>1. k \in DOMAIN db /\ InRange(k, <<"context">>)
    BY DEF Filter
  <2>2. \E u \in Users : k = ContextKey(u)
    BY <2>1, KeyKinds, RangeOfContexts
  <2> QED BY <2>1, <2>2
<1>2. \A u \in known : ContextKey(u) \in keys /\ Tail(ContextKey(u)) = u
  BY RangeOfContexts, PartsOfUserKeys DEF Filter
<1>3. ListContexts = [u \in {Tail(k) : k \in keys} |-> db[ContextKey(u)]]
  BY DEF ListContexts, ContextKey
<1>4. ContextTable = [u \in known |-> db[ContextKey(u)]]
  BY DEF ContextTable
<1> HIDE DEF keys, known
<1>5. {Tail(k) : k \in keys} = known
  BY <1>1, <1>2
<1> QED BY <1>3, <1>4, <1>5

LEMMA VisitsRead ==
  ASSUME PrefixFree, KeysFit, NEW u \in Users, NEW o \in Origins
  PROVE  VisitsOf(u, o) = VisitTable(u, o)
<1> DEFINE keys == Filter(VisitPrefix(u, o))
           times == {m \in Times : VisitKey(u, o, m) \in DOMAIN db}
<1>1. \A k \in keys : \E t \in times : k = VisitKey(u, o, t)
  <2> TAKE k \in keys
  <2>1. k \in DOMAIN db /\ InRange(k, VisitPrefix(u, o))
    BY DEF Filter
  <2>2. \E t \in Times : k = VisitKey(u, o, t)
    BY <2>1, KeyKinds, RangeOfVisits
  <2> QED BY <2>1, <2>2
<1>2. \A t \in times : VisitKey(u, o, t) \in keys
                       /\ VisitKey(u, o, t)[Len(VisitKey(u, o, t))] = t
  BY RangeOfVisits, PartsOfUserKeys DEF Filter
<1>3. VisitsOf(u, o) = [t \in {k[Len(k)] : k \in keys} |-> db[VisitKey(u, o, t)]]
  BY DEF VisitsOf
<1>4. VisitTable(u, o) = [t \in times |-> db[VisitKey(u, o, t)]]
  BY DEF VisitTable
<1> HIDE DEF keys, times
<1>5. {k[Len(k)] : k \in keys} = times
  BY <1>1, <1>2
<1> QED BY <1>3, <1>4, <1>5

(* Every frame and phrase saved under an id of one part is found, at its   *)
(* time, and nothing else is.                                              *)
OnePartIsFound ==
  \A i \in Ids : Len(i) = 1 =>
    /\ \A s \in Sources : GetOpusFrames(i, s) = FramesKept(i, s)
    /\ PhrasesFound(i) = PhrasesKept(i)

THEOREM StoreFindsOnePart == ASSUME PrefixFree PROVE Spec => []OnePartIsFound
<1>1. TypeOK /\ PrefixFree => OnePartIsFound
  BY TypeOKParts, FramesRead, PhrasesRead DEF OnePartIsFound
<1> QED BY <1>1, StoreTypeCorrect, PTL

(* With one colon in the id nothing that was saved is found: the fourth    *)
(* part of the key is the source.  With more, whatever is found has the    *)
(* third part of the id for its time.                                      *)
ColonIdIsLost ==
  \A i \in Ids :
    /\ Len(i) = 2 =>
         /\ \A s \in Sources : DOMAIN GetOpusFrames(i, s) = {}
         /\ GetDialogTexts(i) = {}
    /\ Len(i) > 2 =>
         /\ \A s \in Sources : DOMAIN GetOpusFrames(i, s) \subseteq {i[3]}
         /\ \A p \in GetDialogTexts(i) : p.time = i[3]

LEMMA FourthOfFrames ==
  ASSUME NEW i \in Ids, NEW s \in Sources, NEW k \in Filter(AudioPrefix(i, s))
  PROVE  /\ Len(i) = 2 => k[4] = s
         /\ Len(i) > 2 => k[4] = i[3]
<1> DEFINE p == AudioPrefix(i, s)
<1>1. Begins(p, "audio", i, 1) /\ p[Len(i) + 2] = s /\ Len(i) \in Nat
  BY NamesAreParts, SessionKeys
<1>2. InRange(k, p)
  BY DEF Filter
<1> HIDE DEF p
<1>3. CASE Len(i) = 2
  <2>1. 4 \in 1..Len(p) /\ p[4] = s
    BY <1>1, <1>3 DEF Begins
  <2> QED BY <1>2, <1>3, <2>1 DEF InRange
<1>4. CASE Len(i) > 2
  <2>1. 4 \in 1..Len(p) /\ 3 \in 1..Len(i) /\ 3 + 1 = 4
    BY <1>1, <1>4 DEF Begins
  <2>2. p[4] = i[3]
    BY <1>1, <2>1 DEF Begins
  <2> QED BY <1>2, <1>4, <2>1, <2>2 DEF InRange
<1> QED BY <1>3, <1>4

LEMMA FourthOfPhrases ==
  ASSUME PrefixFree, KeysFit, NEW i \in Ids, NEW k \in Filter(TextPrefix(i))
  PROVE  /\ Len(i) = 2 => k[4] \in Sources
         /\ Len(i) > 2 => k[4] = i[3]
<1>1. Sources \subseteq Parts /\ Times \subseteq Parts /\ Len(i) \in Nat
  BY NamesAreParts
<1>2. k \in DOMAIN db /\ InRange(k, TextPrefix(i))
  BY DEF Filter
<1>3. PICK s \in Sources, t \in Times : k = PhraseKey(i, s, t)
  BY <1>2, KeyKinds, RangeOfPhrases
<1>4. Begins(k, "text", i, 2) /\ k[Len(i) + 2] = s
  BY <1>1, <1>3, SessionKeys
<1>5. CASE Len(i) = 2
  BY <1>4, <1>5
<1>6. CASE Len(i) > 2
  <2>1. 3 \in 1..Len(i) /\ 3 + 1 = 4
    BY <1>1, <1>6
  <2> QED BY <1>4, <1>6, <2>1 DEF Begins
<1> QED BY <1>5, <1>6

THEOREM StoreLosesColonIds == ASSUME PrefixFree PROVE Spec => []ColonIdIsLost
<1>1. ASSUME TypeOK, PrefixFree, NEW i \in Ids, NEW s \in Sources
      PROVE  /\ Len(i) = 2 => DOMAIN GetOpusFrames(i, s) = {}
             /\ Len(i) > 2 => DOMAIN GetOpusFrames(i, s) \subseteq {i[3]}
  <2>1. \A k \in Filter(AudioPrefix(i, s)) :
          /\ Len(i) = 2 => ~TimeInFourth(k)
          /\ Len(i) > 2 => k[4] = i[3]
    BY FourthOfFrames, StoreAssumption DEF TimeInFourth
  <2> QED BY <2>1 DEF GetOpusFrames
<1>2. ASSUME TypeOK, PrefixFree, NEW i \in Ids
      PROVE  /\ Len(i) = 2 => GetDialogTexts(i) = {}
             /\ Len(i) > 2 => \A p \in GetDialogTexts(i) : p.time = i[3]
  <2>1. \A k \in Filter(TextPrefix(i)) :
          /\ Len(i) = 2 => ~TimeInFourth(k)
          /\ Len(i) > 2 => k[4] = i[3]
    BY <1>2, TypeOKParts, FourthOfPhrases, StoreAssumption DEF TimeInFourth
  <2> QED BY <2>1 DEF GetDialogTexts
<1>3. TypeOK /\ PrefixFree => ColonIdIsLost
  BY <1>1, <1>2 DEF ColonIdIsLost
<1> QED BY <1>3, StoreTypeCorrect, PTL

-------------------------------------------------------------------------------
(* REFINEMENT                                                              *)

(* The readers show the tables.                                            *)
Readers ==
  /\ \A i \in Ids, s \in Sources : FramesOf(i, s) = FramesKept(i, s)
  /\ \A i \in Ids : PhrasesOf(i) = PhrasesKept(i)
  /\ ListContexts = ContextTable
  /\ \A u \in Users, o \in Origins : VisitsOf(u, o) = VisitTable(u, o)

LEMMA ReadersShowTables == PrefixFree /\ TypeOK => Readers
BY TypeOKParts, FramesRead, PhrasesRead, ContextsRead, VisitsRead
   DEF Readers, FramesOf, PhrasesOf

(* What a call does to the tables: changes of each, or none.               *)
SameFrames == \A i \in Ids, s \in Sources : FramesKept(i, s)' = FramesKept(i, s)
SamePhrases == \A i \in Ids : PhrasesKept(i)' = PhrasesKept(i)
SameContexts == ContextTable' = ContextTable
SameVisits == \A u \in Users, o \in Origins : VisitTable(u, o)' = VisitTable(u, o)

LEMMA SavedFrame ==
  ASSUME NEW i \in Ids, NEW s \in Sources, NEW t \in Times, NEW v,
         Set(FrameKey(i, s, t), v)
  PROVE  /\ \A j \in Ids, r \in Sources :
              FramesKept(j, r)' = IF j = i /\ r = s
                                  THEN Records!Insert(FramesKept(i, s), t, v)
                                  ELSE FramesKept(j, r)
         /\ SamePhrases /\ SameContexts /\ SameVisits
<1>1. ASSUME NEW j \in Ids, NEW r \in Sources, j # i \/ r # s
      PROVE  FramesKept(j, r)' = FramesKept(j, r)
  BY <1>1, KeysDiffer DEF FramesKept, Set
<1>2. FramesKept(i, s)' = Records!Insert(FramesKept(i, s), t, v)
  BY KeysDiffer DEF FramesKept, Set, Records!Insert
<1>3. SamePhrases
  BY KeysDiffer DEF SamePhrases, PhrasesKept, Set
<1>4. SameContexts
  BY KeysDiffer DEF SameContexts, ContextTable, Set
<1>5. SameVisits
  BY KeysDiffer DEF SameVisits, VisitTable, Set
<1> QED BY <1>1, <1>2, <1>3, <1>4, <1>5

LEMMA SavedPhrase ==
  ASSUME NEW i \in Ids, NEW s \in Sources, NEW t \in Times, NEW v,
         Set(PhraseKey(i, s, t), v)
  PROVE  /\ \A j \in Ids :
              PhrasesKept(j)' = IF j = i
                                THEN Records!Insert(PhrasesKept(i), <<s, t>>, v)
                                ELSE PhrasesKept(j)
         /\ SameFrames /\ SameContexts /\ SameVisits
<1>1. ASSUME NEW j \in Ids, j # i
      PROVE  PhrasesKept(j)' = PhrasesKept(j)
  BY <1>1, KeysDiffer DEF PhrasesKept, Set
<1>2. PhrasesKept(i)' = Records!Insert(PhrasesKept(i), <<s, t>>, v)
  BY KeysDiffer DEF PhrasesKept, Set, Records!Insert
<1>3. SameFrames
  BY KeysDiffer DEF SameFrames, FramesKept, Set
<1>4. SameContexts
  BY KeysDiffer DEF SameContexts, ContextTable, Set
<1>5. SameVisits
  BY KeysDiffer DEF SameVisits, VisitTable, Set
<1> QED BY <1>1, <1>2, <1>3, <1>4, <1>5

LEMMA SavedContext ==
  ASSUME NEW u \in Users, NEW v, Set(ContextKey(u), v)
  PROVE  /\ ContextTable' = Records!Insert(ContextTable, u, v)
         /\ SameFrames /\ SamePhrases /\ SameVisits
<1>1. ContextTable' = Records!Insert(ContextTable, u, v)
  BY KeysDiffer DEF ContextTable, Set, Records!Insert
<1>2. SameFrames
  BY KeysDiffer DEF SameFrames, FramesKept, Set
<1>3. SamePhrases
  BY KeysDiffer DEF SamePhrases, PhrasesKept, Set
<1>4. SameVisits
  BY KeysDiffer DEF SameVisits, VisitTable, Set
<1> QED BY <1>1, <1>2, <1>3, <1>4

LEMMA SavedVisit ==
  ASSUME NEW u \in Users, NEW o \in Origins, NEW t \in Times, NEW v,
         Set(VisitKey(u, o, t), v)
  PROVE  /\ \A w \in Users, p \in Origins :
              VisitTable(w, p)' = IF w = u /\ p = o
                                  THEN Records!Insert(VisitTable(u, o), t, v)
                                  ELSE VisitTable(w, p)
         /\ SameFrames /\ SamePhrases /\ SameContexts
<1>1. ASSUME NEW w \in Users, NEW p \in Origins, w # u \/ p # o
      PROVE  VisitTable(w, p)' = VisitTable(w, p)
  BY <1>1, KeysDiffer DEF VisitTable, Set
<1>2. VisitTable(u, o)' = Records!Insert(VisitTable(u, o), t, v)
  BY KeysDiffer DEF VisitTable, Set, Records!Insert
<1>3. SameFrames
  BY KeysDiffer DEF SameFrames, FramesKept, Set
<1>4. SamePhrases
  BY KeysDiffer DEF SamePhrases, PhrasesKept, Set
<1>5. SameContexts
  BY KeysDiffer DEF SameContexts, ContextTable, Set
<1> QED BY <1>1, <1>2, <1>3, <1>4, <1>5

LEMMA DroppedFrames ==
  ASSUME PrefixFree, NEW i \in Ids, NEW s \in Sources \cup {Empty},
         DeleteByPrefix(AudioPrefix(i, s))
  PROVE  /\ \A j \in Ids, r \in Sources :
              FramesKept(j, r)' = IF j = i /\ r = s
                                  THEN Records!Nothing
                                  ELSE FramesKept(j, r)
         /\ SamePhrases /\ SameContexts /\ SameVisits
<1>1. ASSUME NEW j \in Ids, NEW r \in Sources, j # i \/ r # s
      PROVE  FramesKept(j, r)' = FramesKept(j, r)
  BY <1>1, RangeOfFrames DEF FramesKept, DeleteByPrefix, Retain, Filter
<1>2. ASSUME NEW r \in Sources, r = s
      PROVE  FramesKept(i, r)' = Records!Nothing
  BY <1>2, RangeOfFrames
     DEF FramesKept, DeleteByPrefix, Retain, Filter, Records!Nothing
<1>3. SamePhrases
  BY RangeOfFrames DEF SamePhrases, PhrasesKept, DeleteByPrefix, Retain, Filter
<1>4. SameContexts
  BY RangeOfFrames DEF SameContexts, ContextTable, DeleteByPrefix, Retain, Filter
<1>5. SameVisits
  BY RangeOfFrames DEF SameVisits, VisitTable, DeleteByPrefix, Retain, Filter
<1> QED BY <1>1, <1>2, <1>3, <1>4, <1>5

LEMMA DroppedPhrases ==
  ASSUME PrefixFree, NEW i \in Ids, DeleteByPrefix(TextPrefix(i))
  PROVE  /\ \A j \in Ids :
              PhrasesKept(j)' = IF j = i THEN Records!Nothing ELSE PhrasesKept(j)
         /\ SameFrames /\ SameContexts /\ SameVisits
<1>1. ASSUME NEW j \in Ids, j # i
      PROVE  PhrasesKept(j)' = PhrasesKept(j)
  BY <1>1, RangeOfPhrases DEF PhrasesKept, DeleteByPrefix, Retain, Filter
<1>2. PhrasesKept(i)' = Records!Nothing
  BY RangeOfPhrases
     DEF PhrasesKept, DeleteByPrefix, Retain, Filter, Records!Nothing
<1>3. SameFrames
  BY RangeOfPhrases DEF SameFrames, FramesKept, DeleteByPrefix, Retain, Filter
<1>4. SameContexts
  BY RangeOfPhrases DEF SameContexts, ContextTable, DeleteByPrefix, Retain, Filter
<1>5. SameVisits
  BY RangeOfPhrases DEF SameVisits, VisitTable, DeleteByPrefix, Retain, Filter
<1> QED BY <1>1, <1>2, <1>3, <1>4, <1>5

LEMMA DroppedContext ==
  ASSUME NEW u \in Users, Delete(ContextKey(u))
  PROVE  /\ ContextTable' = [w \in DOMAIN ContextTable \ {u} |-> ContextTable[w]]
         /\ SameFrames /\ SamePhrases /\ SameVisits
<1>1. ContextTable' = [w \in DOMAIN ContextTable \ {u} |-> ContextTable[w]]
  BY KeysDiffer DEF ContextTable, Delete, Retain
<1>2. SameFrames
  BY KeysDiffer DEF SameFrames, FramesKept, Delete, Retain
<1>3. SamePhrases
  BY KeysDiffer DEF SamePhrases, PhrasesKept, Delete, Retain
<1>4. SameVisits
  BY KeysDiffer DEF SameVisits, VisitTable, Delete, Retain
<1> QED BY <1>1, <1>2, <1>3, <1>4

(* A call that leaves a table alone leaves alone what its reader returns.  *)
LEMMA Untouched ==
  ASSUME Readers, Readers'
  PROVE  /\ SameFrames =>
              UNCHANGED [i \in Ids |-> [s \in Sources |-> FramesOf(i, s)]]
         /\ SamePhrases => UNCHANGED [i \in Ids |-> PhrasesOf(i)]
         /\ SameContexts => UNCHANGED ListContexts
         /\ SameVisits =>
              UNCHANGED [u \in Users |-> [o \in Origins |-> VisitsOf(u, o)]]
BY DEF Readers, SameFrames, SamePhrases, SameContexts, SameVisits

(* Changing one entry of a table of tables.                                *)
LEMMA ExceptTwice ==
  ASSUME NEW I, NEW S, NEW i \in I, NEW s \in S, NEW x, NEW f, NEW g,
         f = [j \in I |-> [r \in S |-> f[j][r]]],
         g = [j \in I |-> [r \in S |-> g[j][r]]],
         \A j \in I, r \in S : g[j][r] = IF j = i /\ r = s THEN x ELSE f[j][r]
  PROVE  g = [f EXCEPT ![i][s] = x]
<1> DEFINE h == [f EXCEPT ![i][s] = x]
<1>1. h = [j \in I |-> IF j = i THEN [f[i] EXCEPT ![s] = x] ELSE f[j]]
  OBVIOUS
<1>2. \A j \in I : f[j] = [r \in S |-> f[j][r]]
  OBVIOUS
<1>3. [f[i] EXCEPT ![s] = x] = [r \in S |-> IF r = s THEN x ELSE f[i][r]]
  BY <1>2
<1>4. \A j \in I : g[j] = IF j = i THEN [f[i] EXCEPT ![s] = x] ELSE f[j]
  <2> TAKE j \in I
  <2>1. g[j] = [r \in S |-> g[j][r]]
    OBVIOUS
  <2>2. CASE j = i
    BY <1>3, <2>1, <2>2
  <2>3. CASE j # i
    <3>1. \A r \in S : g[j][r] = f[j][r]
      BY <2>3
    <3>2. g[j] = [r \in S |-> f[j][r]]
      BY <2>1, <3>1
    <3> QED BY <1>2, <2>3, <3>2
  <2> QED BY <2>2, <2>3
<1>5. g = [j \in I |-> g[j]]
  OBVIOUS
<1>6. g = h
  BY <1>1, <1>4, <1>5
<1> QED BY <1>6

LEMMA RefinesInit == PrefixFree /\ Init => Records!ArchiveInit
<1> SUFFICES ASSUME PrefixFree, Init
             PROVE  Records!ArchiveInit
  OBVIOUS
<1>1. DOMAIN db = {}
  BY DEF Init
<1>2. Readers
  BY TypeInit, ReadersShowTables
<1>3. \A i \in Ids, s \in Sources : FramesOf(i, s) = Records!Nothing
  BY <1>1, <1>2 DEF Readers, FramesKept, Records!Nothing
<1>4. \A i \in Ids : PhrasesOf(i) = Records!Nothing
  BY <1>1, <1>2 DEF Readers, PhrasesKept, Records!Nothing
<1>5. ListContexts = Records!Nothing
  BY <1>1, <1>2 DEF Readers, ContextTable, Records!Nothing
<1>6. \A u \in Users, o \in Origins : VisitsOf(u, o) = Records!Nothing
  BY <1>1, <1>2 DEF Readers, VisitTable, Records!Nothing
<1> QED BY <1>3, <1>4, <1>5, <1>6 DEF Init, Records!ArchiveInit

LEMMA RefinesNext ==
  ASSUME PrefixFree, Readers, Readers', Next
  PROVE  Records!ArchiveNext
<1>1. ASSUME NEW i \in Ids, NEW s \in Sources, NEW t \in Times, NEW v \in Values,
             SaveOpusFrame(i, s, t, v)
      PROVE  Records!PutFrame(i, s, t, v)
  <2>1. /\ SamePhrases /\ SameContexts /\ SameVisits
        /\ \A j \in Ids, r \in Sources :
             FramesKept(j, r)' = IF j = i /\ r = s
                                 THEN Records!Insert(FramesKept(i, s), t, v)
                                 ELSE FramesKept(j, r)
    BY <1>1, SavedFrame DEF SaveOpusFrame
  <2>2. \A j \in Ids, r \in Sources :
          FramesOf(j, r)' = IF j = i /\ r = s
                                 THEN Records!Insert(FramesOf(i, s), t, v)
                                 ELSE FramesOf(j, r)
    BY <2>1 DEF Readers
  <2> DEFINE f == [j \in Ids |-> [r \in Sources |-> FramesOf(j, r)]]
             g == [j \in Ids |-> [r \in Sources |-> FramesOf(j, r)']]
  <2>3. g = [f EXCEPT ![i][s] = Records!Insert(FramesOf(i, s), t, v)]
    BY <2>2, ExceptTwice
  <2>4. f[i][s] = FramesOf(i, s)
    OBVIOUS
  <2> QED BY <1>1, <2>1, <2>3, <2>4, Untouched
          DEF SaveOpusFrame, Called, Records!PutFrame, Records!Called
<1>2. ASSUME NEW i \in Ids, NEW s \in Sources, NEW t \in Times, NEW v \in Values,
             SaveDialogPhrase(i, s, t, v)
      PROVE  Records!PutPhrase(i, s, t, v)
  <2>1. /\ SameFrames /\ SameContexts /\ SameVisits
        /\ \A j \in Ids :
             PhrasesKept(j)' = IF j = i
                               THEN Records!Insert(PhrasesKept(i), <<s, t>>, v)
                               ELSE PhrasesKept(j)
    BY <1>2, SavedPhrase DEF SaveDialogPhrase
  <2>2. \A j \in Ids :
          PhrasesOf(j)' = IF j = i
                          THEN Records!Insert(PhrasesOf(i), <<s, t>>, v)
                          ELSE PhrasesOf(j)
    BY <2>1 DEF Readers
  <2> QED BY <1>2, <2>1, <2>2, Untouched
          DEF SaveDialogPhrase, Called, Records!PutPhrase, Records!Called
<1>3. ASSUME NEW u \in Users, NEW v \in Values, SetContext(u, v)
      PROVE  Records!PutContext(u, v)
  <2>1. /\ SameFrames /\ SamePhrases /\ SameVisits
        /\ ContextTable' = Records!Insert(ContextTable, u, v)
    BY <1>3, SavedContext DEF SetContext
  <2> QED BY <1>3, <2>1, Untouched
          DEF SetContext, Called, Readers, Records!PutContext, Records!Called
<1>4. ASSUME NEW u \in Users, NEW o \in Origins, NEW t \in Times, NEW i \in Ids,
             SaveUserSession(u, o, t, i)
      PROVE  Records!PutVisit(u, o, t, i)
  <2>1. /\ SameFrames /\ SamePhrases /\ SameContexts
        /\ \A w \in Users, p \in Origins :
             VisitTable(w, p)' = IF w = u /\ p = o
                                 THEN Records!Insert(VisitTable(u, o), t, i)
                                 ELSE VisitTable(w, p)
    BY <1>4, SavedVisit DEF SaveUserSession
  <2>2. \A w \in Users, p \in Origins :
          VisitsOf(w, p)' = IF w = u /\ p = o
                            THEN Records!Insert(VisitsOf(u, o), t, i)
                            ELSE VisitsOf(w, p)
    BY <2>1 DEF Readers
  <2> DEFINE f == [j \in Users |-> [r \in Origins |-> VisitsOf(j, r)]]
             g == [j \in Users |-> [r \in Origins |-> VisitsOf(j, r)']]
  <2>3. g = [f EXCEPT ![u][o] = Records!Insert(VisitsOf(u, o), t, i)]
    BY <2>2, ExceptTwice
  <2>4. f[u][o] = VisitsOf(u, o)
    OBVIOUS
  <2> QED BY <1>4, <2>1, <2>3, <2>4, Untouched
          DEF SaveUserSession, Called, Records!PutVisit, Records!Called
<1>5. ASSUME NEW i \in Ids, NEW s \in Sources, DeleteOpusFrames(i, s)
      PROVE  Records!DropFrames(i, s)
  <2>1. /\ SamePhrases /\ SameContexts /\ SameVisits
        /\ \A j \in Ids, r \in Sources :
             FramesKept(j, r)' = IF j = i /\ r = s THEN Records!Nothing
                                                   ELSE FramesKept(j, r)
    BY <1>5, DroppedFrames DEF DeleteOpusFrames
  <2>2. \A j \in Ids, r \in Sources :
          FramesOf(j, r)' = IF j = i /\ r = s THEN Records!Nothing
                                                   ELSE FramesOf(j, r)
    BY <2>1 DEF Readers
  <2> DEFINE f == [j \in Ids |-> [r \in Sources |-> FramesOf(j, r)]]
             g == [j \in Ids |-> [r \in Sources |-> FramesOf(j, r)']]
  <2>3. g = [f EXCEPT ![i][s] = Records!Nothing]
    BY <2>2, ExceptTwice
  <2>4. f[i][s] = FramesOf(i, s)
    OBVIOUS
  <2> QED BY <1>5, <2>1, <2>3, <2>4, Untouched
          DEF DeleteOpusFrames, Called, Records!DropFrames, Records!Called
<1>6. ASSUME NEW i \in Ids, DeleteOpusFrames(i, Empty)
      PROVE  Records!DropUnnamed(i)
  <2>1. \A s \in Sources : s # Empty
    BY DEF Sources, Empty
  <2>2. SameFrames /\ SamePhrases /\ SameContexts /\ SameVisits
    BY <1>6, <2>1, DroppedFrames DEF DeleteOpusFrames, SameFrames
  <2> QED BY <1>6, <2>2, Untouched
          DEF DeleteOpusFrames, Called, Empty, Records!DropUnnamed, Records!Called
<1>7. ASSUME NEW i \in Ids, DeleteDialogTexts(i)
      PROVE  Records!DropPhrases(i)
  <2>1. /\ SameFrames /\ SameContexts /\ SameVisits
        /\ \A j \in Ids :
             PhrasesKept(j)' = IF j = i THEN Records!Nothing ELSE PhrasesKept(j)
    BY <1>7, DroppedPhrases DEF DeleteDialogTexts
  <2>2. \A j \in Ids :
          PhrasesOf(j)' = IF j = i THEN Records!Nothing ELSE PhrasesOf(j)
    BY <2>1 DEF Readers
  <2> QED BY <1>7, <2>1, <2>2, Untouched
          DEF DeleteDialogTexts, Called, Records!DropPhrases, Records!Called
<1>8. ASSUME NEW u \in Users, DeleteContext(u)
      PROVE  Records!DropContext(u)
  <2>1. /\ SameFrames /\ SamePhrases /\ SameVisits
        /\ ContextTable' = [w \in DOMAIN ContextTable \ {u} |-> ContextTable[w]]
    BY <1>8, DroppedContext DEF DeleteContext
  <2> QED BY <1>8, <2>1, Untouched
          DEF DeleteContext, Called, Readers, Records!DropContext, Records!Called
<1> QED BY <1>1, <1>2, <1>3, <1>4, <1>5, <1>6, <1>7, <1>8
        DEF Next, Records!ArchiveNext

LEMMA RefinesStutter ==
  ASSUME Readers, Readers', UNCHANGED vars
  PROVE  UNCHANGED Records!archiveVars
<1>1. SameFrames /\ SamePhrases /\ SameContexts /\ SameVisits
  BY DEF vars, SameFrames, SamePhrases, SameContexts, SameVisits,
         FramesKept, PhrasesKept, ContextTable, VisitTable
<1> QED BY <1>1, Untouched DEF vars, Records!archiveVars

LEMMA RefinesStep ==
  PrefixFree /\ Readers /\ Readers' /\ [Next]_vars
    => [Records!ArchiveNext]_Records!archiveVars
BY RefinesNext, RefinesStutter

(* If no name goes on where another one ends, one map of strings written   *)
(* and deleted by prefix is four separate tables: no call takes or changes *)
(* a record it does not name, and the readers return exactly the records   *)
(* under a name (frames and phrases: of the ids with one part).            *)
THEOREM StoreIsArchive == ASSUME PrefixFree PROVE Spec => ImplementsArchive
<1>1. Init => Records!ArchiveInit
  BY RefinesInit
<1>2. TypeOK /\ PrefixFree => Readers
  BY ReadersShowTables
<1>3. TypeOK' /\ PrefixFree => Readers'
  BY ReadersShowTables, PTL
<1> QED BY <1>1, <1>2, <1>3, RefinesStep, StoreTypeCorrect, PTL
        DEF Spec, ImplementsArchive, Records!ArchiveSpec
===============================================================================
