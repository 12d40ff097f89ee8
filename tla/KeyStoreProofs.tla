--------------------------- MODULE KeyStoreProofs ---------------------------
(***************************************************************************)
(* Proofs about KeyStore: for any terminals, aliases, patterns, imports    *)
(* and number of keys.                                                     *)
(***************************************************************************)
EXTENDS KeyStore, SequenceTheorems, WellFoundedInduction, TLAPS

(* A set of numbers has a least one. *)
LEMMA LeastNat ==
  ASSUME NEW S \in SUBSET Nat, S # {}
  PROVE  \E n \in S : \A m \in S : n <= m
<1> DEFINE R == {ss \in Nat \X Nat : ss[1] < ss[2]}
<1>1. IsWellFoundedOn(R, Nat)
  BY NatLessThanWellFounded, Zenon DEF OpToRel
<1>2. PICK n \in S : \A m \in S : <<m, n>> \notin R
  <2> HIDE DEF R
  <2> QED BY <1>1, WFMin
<1>3. \A m \in S : ~(m < n)
  BY <1>2
<1> QED BY <1>3

(* A function on a segment of numbers is a sequence, as long as the segment. *)
LEMMA SegmentSeq ==
  ASSUME NEW S, NEW n \in Nat, NEW f \in [1..n -> S]
  PROVE  f \in Seq(S) /\ Len(f) = n
<1>1. f \in Seq(S)
  OBVIOUS
<1>2. Len(f) \in Nat /\ DOMAIN f = 1..Len(f)
  BY <1>1, LenProperties
<1>3. 1..Len(f) = 1..n
  BY <1>2
<1> QED BY <1>1, <1>2, <1>3

(* Induction on sequences, over the set of those with the property.          *)
LEMMA SeqInduct ==
  ASSUME NEW S, NEW G, <<>> \in G,
         ASSUME NEW s \in Seq(S), NEW e \in S, s \in G
         PROVE  Append(s, e) \in G
  PROVE  Seq(S) \subseteq G
<1> SUFFICES ASSUME NEW r \in Seq(S), r \notin G
             PROVE  FALSE
  OBVIOUS
<1> DEFINE L == {n \in Nat : \E s \in Seq(S) : s \notin G /\ Len(s) = n}
<1>1. Len(r) \in L
  BY LenProperties
<1>2. PICK n \in L : \A m \in L : n <= m
  <2> HIDE DEF L
  <2>1. L \in SUBSET Nat
    BY DEF L
  <2> QED BY <1>1, <2>1, LeastNat
<1>3. PICK s \in Seq(S) : s \notin G /\ Len(s) = n
  BY <1>2
<1>4. PICK t \in Seq(S), e \in S : s = Append(t, e)
  BY <1>3, SequenceEmptyOrAppend
<1>5. Len(t) \in Nat /\ Len(s) = Len(t) + 1
  BY <1>4, LenProperties, AppendProperties
<1>6. t \in G
  BY <1>2, <1>3, <1>5
<1> QED BY <1>3, <1>4, <1>6
-----------------------------------------------------------------------------
(* Selecting keys by their alias.  The function that Named chooses: there    *)
(* is one, and only one, since a key more extends it by one value.           *)
Grows(s, as, f) ==
  f = [n \in 0..Len(s) |-> IF n = 0 THEN <<>>
                           ELSE IF s[n].alias \in as THEN Append(f[n - 1], s[n])
                           ELSE f[n - 1]]

LEMMA GrowsEmpty ==
  ASSUME NEW as, NEW f
  PROVE  Grows(<<>>, as, f) <=> f = [n \in {0} |-> <<>>]
<1>1. 0..Len(<<>>) = {0}
  OBVIOUS
<1> QED BY <1>1 DEF Grows

(* What is selected of a sequence and one key more. *)
Longer(s, e, as, f) ==
  [n \in 0..Len(s) + 1 |->
     IF n <= Len(s) THEN f[n]
     ELSE IF e.alias \in as THEN Append(f[Len(s)], e) ELSE f[Len(s)]]

LEMMA GrowsLonger ==
  ASSUME NEW s \in Seq(Entry), NEW e \in Entry, NEW as, NEW f, Grows(s, as, f)
  PROVE  Grows(Append(s, e), as, Longer(s, e, as, f))
<1> DEFINE t == Append(s, e)
           g == Longer(s, e, as, f)
<1>1. Len(s) \in Nat /\ Len(t) = Len(s) + 1 /\ t[Len(s) + 1] = e
      /\ \A n \in 1..Len(s) : t[n] = s[n]
  BY LenProperties, AppendProperties
<1> HIDE DEF t
<1>2. ASSUME NEW n \in 0..Len(t)
      PROVE  g[n] = IF n = 0 THEN <<>>
                    ELSE IF t[n].alias \in as THEN Append(g[n - 1], t[n]) ELSE g[n - 1]
  <2>1. CASE n = 0
    <3>1. f[0] = <<>>
      BY <1>1 DEF Grows
    <3> QED BY <1>1, <2>1, <3>1 DEF Longer
  <2>2. CASE n \in 1..Len(s)
    <3>1. n \in 0..Len(s) /\ n - 1 \in 0..Len(s) /\ n # 0 /\ t[n] = s[n]
          /\ n \in 0..Len(s) + 1 /\ n - 1 \in 0..Len(s) + 1 /\ n <= Len(s) /\ n - 1 <= Len(s)
      BY <1>1, <2>2
    <3>2. f[n] = IF s[n].alias \in as THEN Append(f[n - 1], s[n]) ELSE f[n - 1]
      BY <3>1, Zenon DEF Grows
    <3>3. g[n] = f[n] /\ g[n - 1] = f[n - 1]
      BY <3>1, Zenon DEF Longer
    <3> HIDE DEF g
    <3> QED BY <3>1, <3>2, <3>3
  <2>3. CASE n = Len(s) + 1
    <3>1. n - 1 = Len(s) /\ n \in 0..Len(s) + 1 /\ n - 1 \in 0..Len(s) + 1 /\ n # 0
          /\ n - 1 <= Len(s) /\ ~(n <= Len(s)) /\ t[n] = e
      BY <1>1, <2>3
    <3>2. g[n - 1] = f[n - 1]
      BY <3>1, Zenon DEF Longer
    <3>3. g[n] = IF e.alias \in as THEN Append(f[Len(s)], e) ELSE f[Len(s)]
      BY <3>1, Zenon DEF Longer
    <3> HIDE DEF g
    <3> QED BY <3>1, <3>2, <3>3
  <2>4. n = 0 \/ n \in 1..Len(s) \/ n = Len(s) + 1
    BY <1>1
  <2> HIDE DEF g
  <2> QED BY <2>1, <2>2, <2>3, <2>4
<1>3. g = [n \in 0..Len(t) |-> g[n]]
  BY <1>1 DEF Longer
<1> QED
  <2> HIDE DEF g
  <2> QED BY <1>2, <1>3 DEF Grows, t, g

LEMMA GrowsUnique ==
  ASSUME NEW as
  PROVE  \A s \in Seq(Entry) :
           \E f : Grows(s, as, f) /\ \A g : Grows(s, as, g) => g = f
<1> DEFINE G == {s \in Seq(Entry) :
                   \E f : Grows(s, as, f) /\ \A g : Grows(s, as, g) => g = f}
<1>1. <<>> \in G
  <2>1. Grows(<<>>, as, [n \in {0} |-> <<>>])
    BY GrowsEmpty
  <2>2. \A g : Grows(<<>>, as, g) => g = [n \in {0} |-> <<>>]
    BY GrowsEmpty
  <2> QED BY <2>1, <2>2
<1>2. ASSUME NEW s \in Seq(Entry), NEW e \in Entry, s \in G
      PROVE  Append(s, e) \in G
  <2> DEFINE t == Append(s, e)
  <2>1. PICK f : Grows(s, as, f) /\ \A g : Grows(s, as, g) => g = f
    BY <1>2
  <2>2. Len(s) \in Nat /\ t \in Seq(Entry) /\ Len(t) = Len(s) + 1 /\ t[Len(s) + 1] = e
        /\ \A n \in 1..Len(s) : t[n] = s[n]
    BY LenProperties, AppendProperties
  <2> HIDE DEF t
  <2>3. ASSUME NEW h, Grows(t, as, h)
        PROVE  h = Longer(s, e, as, f)
    <3> DEFINE p == [n \in 0..Len(s) |-> h[n]]
    <3>1. \A n \in 0..Len(s) : p[n] = IF n = 0 THEN <<>>
             ELSE IF s[n].alias \in as THEN Append(p[n - 1], s[n]) ELSE p[n - 1]
      <4> SUFFICES ASSUME NEW n \in 0..Len(s)
                   PROVE  p[n] = IF n = 0 THEN <<>>
                            ELSE IF s[n].alias \in as THEN Append(p[n - 1], s[n]) ELSE p[n - 1]
        OBVIOUS
      <4>1. h[n] = IF n = 0 THEN <<>>
              ELSE IF t[n].alias \in as THEN Append(h[n - 1], t[n]) ELSE h[n - 1]
        BY <2>2, <2>3 DEF Grows
      <4>2. CASE n = 0
        BY <4>1, <4>2
      <4>3. CASE n # 0
        <5>1. t[n] = s[n] /\ p[n] = h[n] /\ p[n - 1] = h[n - 1]
          BY <2>2, <4>3
        <5> HIDE DEF p
        <5> QED BY <4>1, <4>3, <5>1
      <4> QED BY <4>2, <4>3
    <3>2. p = f
      <4>1. Grows(s, as, p)
        <5>1. p = [n \in 0..Len(s) |-> p[n]]
          OBVIOUS
        <5> HIDE DEF p
        <5> QED BY <3>1, <5>1 DEF Grows
      <4> QED BY <2>1, <4>1
    <3>3. h[Len(s) + 1] = IF e.alias \in as THEN Append(h[Len(s)], e) ELSE h[Len(s)]
      BY <2>2, <2>3 DEF Grows
    <3>4. \A n \in 0..Len(s) : h[n] = f[n]
      BY <3>2
    <3>5. h = [n \in 0..Len(s) + 1 |-> h[n]]
      BY <2>2, <2>3 DEF Grows
    <3> QED BY <2>2, <3>3, <3>4, <3>5 DEF Longer
  <2>4. Grows(t, as, Longer(s, e, as, f))
    BY <2>1, GrowsLonger DEF t
  <2> QED BY <2>2, <2>3, <2>4 DEF t
<1>3. Seq(Entry) \subseteq G
  <2> HIDE DEF G
  <2> QED BY <1>1, <1>2, SeqInduct
<1> QED BY <1>3

LEMMA NamedIs ==
  ASSUME NEW s \in Seq(Entry), NEW as, NEW f, Grows(s, as, f)
  PROVE  Named(s, as) = f[Len(s)]
<1>1. (CHOOSE g : Grows(s, as, g)) = f
  BY GrowsUnique
<1>2. Named(s, as) = (CHOOSE g : Grows(s, as, g))[Len(s)]
  BY DEF Named, Grows
<1> QED BY <1>1, <1>2

(* Named goes through the keys from the first to the last. *)
LEMMA NamedEmpty ==
  ASSUME NEW as
  PROVE  Named(<<>>, as) = <<>>
<1>1. <<>> \in Seq(Entry) /\ Len(<<>>) = 0
  OBVIOUS
<1>2. Grows(<<>>, as, [n \in {0} |-> <<>>])
  BY GrowsEmpty
<1> QED BY <1>1, <1>2, NamedIs

LEMMA NamedAppend ==
  ASSUME NEW s \in Seq(Entry), NEW e \in Entry, NEW as
  PROVE  Named(Append(s, e), as) = IF e.alias \in as THEN Append(Named(s, as), e)
                                   ELSE Named(s, as)
<1>1. PICK f : Grows(s, as, f)
  BY GrowsUnique
<1>2. Len(s) \in Nat /\ Append(s, e) \in Seq(Entry) /\ Len(Append(s, e)) = Len(s) + 1
  BY LenProperties, AppendProperties
<1>3. Named(s, as) = f[Len(s)]
  BY <1>1, NamedIs
<1>4. Named(Append(s, e), as) = Longer(s, e, as, f)[Len(s) + 1]
  BY <1>1, <1>2, GrowsLonger, NamedIs
<1> QED BY <1>2, <1>3, <1>4 DEF Longer
-----------------------------------------------------------------------------
(* The values on record for an alias, along the same way.                    *)
LEMMA NamedType ==
  ASSUME NEW as
  PROVE  \A s \in Seq(Entry) : Named(s, as) \in Seq(Entry)
<1> DEFINE G == {s \in Seq(Entry) : Named(s, as) \in Seq(Entry)}
<1>1. <<>> \in G
  <2>1. <<>> \in Seq(Entry) /\ Named(<<>>, as) = <<>>
    BY NamedEmpty, EmptySeq, Zenon
  <2> QED BY <2>1, Zenon
<1>2. ASSUME NEW s \in Seq(Entry), NEW e \in Entry, s \in G
      PROVE  Append(s, e) \in G
  <2>1. Named(s, as) \in Seq(Entry)
    BY <1>2, Zenon
  <2>2. Append(s, e) \in Seq(Entry) /\ Append(Named(s, as), e) \in Seq(Entry)
    BY <2>1, AppendProperties, Zenon
  <2>3. Named(Append(s, e), as) \in Seq(Entry)
    BY <2>1, <2>2, NamedAppend, Zenon
  <2> QED BY <2>2, <2>3, Zenon
<1>3. Seq(Entry) \subseteq G
  <2> HIDE DEF G
  <2> QED BY <1>1, <1>2, SeqInduct
<1> QED BY <1>3

LEMMA ValuesType ==
  ASSUME NEW s \in Seq(Entry), NEW a
  PROVE  ValuesOf(s, a) \in Seq(Values) /\ Len(ValuesOf(s, a)) = Len(Named(s, {a}))
<1> DEFINE m == Named(s, {a})
<1>1. m \in Seq(Entry) /\ Len(m) \in Nat
  BY NamedType, LenProperties
<1> HIDE DEF m
<1>2. \A i \in 1..Len(m) : m[i] \in Entry
  BY <1>1
<1> DEFINE f == [i \in 1..Len(m) |-> m[i].value]
<1>3. f \in [1..Len(m) -> Values]
  BY <1>2 DEF Entry
<1>4. ValuesOf(s, a) = f
  BY DEF ValuesOf, m
<1> HIDE DEF f
<1>5. f \in Seq(Values) /\ Len(f) = Len(m)
  BY <1>1, <1>3, SegmentSeq
<1> QED BY <1>4, <1>5 DEF m

LEMMA ValuesEmpty ==
  ASSUME NEW a
  PROVE  ValuesOf(<<>>, a) = <<>>
<1>1. <<>> \in Seq(Entry) /\ Len(<<>>) = 0
  BY EmptySeq
<1>2. ValuesOf(<<>>, a) \in Seq(Values) /\ Len(ValuesOf(<<>>, a)) = 0
  BY <1>1, NamedEmpty, ValuesType, Zenon
<1> QED BY <1>2, EmptySeq, 0 \notin Nat \ {0}, Zenon

LEMMA ValuesAppend ==
  ASSUME NEW s \in Seq(Entry), NEW e \in Entry, NEW a
  PROVE  ValuesOf(Append(s, e), a) = IF e.alias = a THEN Append(ValuesOf(s, a), e.value)
                                     ELSE ValuesOf(s, a)
<1>1. CASE e.alias # a
  <2>1. Named(Append(s, e), {a}) = Named(s, {a})
    BY <1>1, NamedAppend
  <2> QED BY <1>1, <2>1 DEF ValuesOf
<1>2. CASE e.alias = a
  <2> DEFINE m == Named(s, {a})
             n == Append(m, e)
             v == ValuesOf(s, a)
             w == Append(v, e.value)
             r == ValuesOf(Append(s, e), a)
  <2>1. m \in Seq(Entry) /\ v \in Seq(Values) /\ Len(v) = Len(m) /\ Len(m) \in Nat
    BY NamedType, ValuesType, LenProperties
  <2>2. n = Named(Append(s, e), {a})
    BY <1>2, NamedAppend
  <2>3. e.value \in Values
    BY DEF Entry
  <2>4. Append(s, e) \in Seq(Entry)
    BY AppendProperties
  <2>5. r \in Seq(Values) /\ Len(r) = Len(n)
    BY <2>2, <2>4, ValuesType
  <2>6. w \in Seq(Values) /\ Len(w) = Len(v) + 1 /\ w[Len(v) + 1] = e.value
        /\ \A i \in 1..Len(v) : w[i] = v[i]
    <3> HIDE DEF v, m
    <3> QED BY <2>1, <2>3, AppendProperties
  <2>7. Len(n) = Len(m) + 1 /\ n[Len(m) + 1] = e /\ \A i \in 1..Len(m) : n[i] = m[i]
    BY <2>1, AppendProperties
  <2>8. r = [i \in 1..Len(n) |-> n[i].value] /\ v = [i \in 1..Len(m) |-> m[i].value]
    BY <2>2 DEF ValuesOf
  <2> HIDE DEF m, n, v, w, r
  <2>9. ASSUME NEW i \in 1..Len(r)
        PROVE  r[i] = w[i]
    <3>1. CASE i = Len(m) + 1
      BY <2>1, <2>5, <2>6, <2>7, <2>8, <3>1
    <3>2. CASE i \in 1..Len(m)
      BY <2>1, <2>5, <2>6, <2>7, <2>8, <3>2
    <3> QED BY <2>1, <2>5, <2>7, <3>1, <3>2
  <2>10. r = w
    BY <2>1, <2>5, <2>6, <2>7, <2>9, SeqEqual
  <2> QED BY <1>2, <2>10 DEF r, w, v
<1> QED BY <1>1, <1>2

LEMMA ValuesConcat ==
  ASSUME NEW s \in Seq(Entry), NEW a
  PROVE  \A t \in Seq(Entry) : ValuesOf(s \o t, a) = ValuesOf(s, a) \o ValuesOf(t, a)
<1> DEFINE G == {t \in Seq(Entry) : ValuesOf(s \o t, a) = ValuesOf(s, a) \o ValuesOf(t, a)}
<1>1. <<>> \in G
  <2>1. s \o <<>> = s /\ ValuesOf(s, a) \o <<>> = ValuesOf(s, a) /\ <<>> \in Seq(Entry)
    BY ConcatEmptySeq, ValuesType, EmptySeq, Zenon
  <2> QED BY <2>1, ValuesEmpty, Zenon
<1>2. ASSUME NEW t \in Seq(Entry), NEW e \in Entry, t \in G
      PROVE  Append(t, e) \in G
  <2> DEFINE st == s \o t
             v == ValuesOf(s, a)
             w == ValuesOf(t, a)
  <2>1. st \in Seq(Entry) /\ s \o Append(t, e) = Append(st, e)
    OBVIOUS
  <2>2. v \in Seq(Values) /\ w \in Seq(Values) /\ e.value \in Values
    BY ValuesType DEF Entry
  <2>3. v \o Append(w, e.value) = Append(v \o w, e.value)
    <3> HIDE DEF v, w
    <3> QED BY <2>2
  <2>4. ValuesOf(st, a) = v \o w
    BY <1>2
  <2>5. ValuesOf(Append(st, e), a) = IF e.alias = a THEN Append(ValuesOf(st, a), e.value)
                                     ELSE ValuesOf(st, a)
    <3> HIDE DEF st
    <3> QED BY <2>1, ValuesAppend
  <2>6. ValuesOf(Append(t, e), a) = IF e.alias = a THEN Append(w, e.value) ELSE w
    BY ValuesAppend
  <2>7. Append(t, e) \in Seq(Entry)
    BY AppendProperties
  <2>8. ValuesOf(s \o Append(t, e), a) = v \o ValuesOf(Append(t, e), a)
    <3> HIDE DEF v, w, st
    <3> QED BY <2>1, <2>3, <2>4, <2>5, <2>6
  <2> QED BY <2>7, <2>8
<1>3. Seq(Entry) \subseteq G
  <2> HIDE DEF G
  <2> QED BY <1>1, <1>2, SeqInduct
<1> QED BY <1>3

LEMMA ValuesNone ==
  ASSUME NEW a
  PROVE  \A s \in Seq(Entry) :
           (\A i \in 1..Len(s) : s[i].alias # a) => ValuesOf(s, a) = <<>>
<1> DEFINE G == {s \in Seq(Entry) :
                   (\A i \in 1..Len(s) : s[i].alias # a) => ValuesOf(s, a) = <<>>}
<1>1. <<>> \in G
  BY ValuesEmpty
<1>2. ASSUME NEW s \in Seq(Entry), NEW e \in Entry, s \in G
      PROVE  Append(s, e) \in G
  <2> DEFINE t == Append(s, e)
  <2>1. t \in Seq(Entry) /\ Len(s) \in Nat /\ Len(t) = Len(s) + 1 /\ t[Len(s) + 1] = e
        /\ \A i \in 1..Len(s) : t[i] = s[i]
    BY LenProperties, AppendProperties
  <2>2. ValuesOf(t, a) = IF e.alias = a THEN Append(ValuesOf(s, a), e.value)
                         ELSE ValuesOf(s, a)
    BY ValuesAppend
  <2>3. (\A i \in 1..Len(s) : s[i].alias # a) => ValuesOf(s, a) = <<>>
    BY <1>2
  <2> HIDE DEF t
  <2>4. (\A i \in 1..Len(t) : t[i].alias # a) => ValuesOf(t, a) = <<>>
    <3> SUFFICES ASSUME \A i \in 1..Len(t) : t[i].alias # a
                 PROVE  ValuesOf(t, a) = <<>>
      OBVIOUS
    <3>1. e.alias # a
      BY <2>1
    <3>2. \A i \in 1..Len(s) : s[i].alias # a
      BY <2>1
    <3> QED BY <2>2, <2>3, <3>1, <3>2
  <2> QED BY <2>1, <2>4 DEF t
<1>3. Seq(Entry) \subseteq G
  <2> HIDE DEF G
  <2> QED BY <1>1, <1>2, SeqInduct
<1> QED BY <1>3

LEMMA ValuesAgree ==
  ASSUME NEW a
  PROVE  \A s \in Seq(Entry) : \A t \in Seq(Entry) :
           /\ Len(s) = Len(t)
           /\ \A i \in 1..Len(s) : /\ s[i].alias = a <=> t[i].alias = a
                                   /\ s[i].alias = a => s[i].value = t[i].value
           => ValuesOf(s, a) = ValuesOf(t, a)
<1> DEFINE Alike(s, t) ==
      /\ Len(s) = Len(t)
      /\ \A i \in 1..Len(s) : /\ s[i].alias = a <=> t[i].alias = a
                              /\ s[i].alias = a => s[i].value = t[i].value
    G == {s \in Seq(Entry) :
            \A t \in Seq(Entry) : Alike(s, t) => ValuesOf(s, a) = ValuesOf(t, a)}
<1>1. <<>> \in G
  <2>1. \A t \in Seq(Entry) : Len(t) = 0 => t = <<>>
    BY EmptySeq, 0 \notin Nat \ {0}, Zenon
  <2>2. <<>> \in Seq(Entry) /\ Len(<<>>) = 0
    BY EmptySeq
  <2> QED BY <2>1, <2>2, Zenon
<1>2. ASSUME NEW s \in Seq(Entry), NEW e \in Entry, s \in G
      PROVE  Append(s, e) \in G
  <2> DEFINE r == Append(s, e)
  <2>1. r \in Seq(Entry) /\ Len(s) \in Nat /\ Len(r) = Len(s) + 1 /\ r[Len(s) + 1] = e
        /\ \A i \in 1..Len(s) : r[i] = s[i]
    BY LenProperties, AppendProperties
  <2>2. ValuesOf(r, a) = IF e.alias = a THEN Append(ValuesOf(s, a), e.value)
                         ELSE ValuesOf(s, a)
    BY ValuesAppend
  <2> HIDE DEF r
  <2>3. ASSUME NEW t \in Seq(Entry), Alike(r, t)
        PROVE  ValuesOf(r, a) = ValuesOf(t, a)
    <3>1. Len(t) = Len(s) + 1 /\ t # <<>>
      BY <2>1, <2>3
    <3>2. PICK u \in Seq(Entry), d \in Entry : t = Append(u, d)
      BY <3>1, SequenceEmptyOrAppend
    <3>3. Len(u) \in Nat /\ Len(t) = Len(u) + 1 /\ t[Len(u) + 1] = d
          /\ \A i \in 1..Len(u) : t[i] = u[i]
      BY <3>2, LenProperties, AppendProperties
    <3>4. Len(u) = Len(s)
      BY <2>1, <3>1, <3>3
    <3>5. Alike(s, u)
      BY <2>1, <2>3, <3>3, <3>4
    <3>6. /\ e.alias = a <=> d.alias = a
          /\ e.alias = a => e.value = d.value
      <4>1. Len(s) + 1 \in 1..Len(r) /\ r[Len(s) + 1] = e /\ t[Len(s) + 1] = d
        BY <2>1, <3>3, <3>4
      <4>2. /\ r[Len(s) + 1].alias = a <=> t[Len(s) + 1].alias = a
            /\ r[Len(s) + 1].alias = a => r[Len(s) + 1].value = t[Len(s) + 1].value
        BY <2>3, <4>1, Zenon
      <4> QED BY <4>1, <4>2
    <3>7. ValuesOf(s, a) = ValuesOf(u, a)
      BY <1>2, <3>5
    <3>8. ValuesOf(t, a) = IF d.alias = a THEN Append(ValuesOf(u, a), d.value)
                           ELSE ValuesOf(u, a)
      BY <3>2, ValuesAppend
    <3> QED BY <2>2, <3>6, <3>7, <3>8
  <2> HIDE DEF Alike
  <2> QED BY <2>1, <2>3, Zenon DEF r
<1>3. Seq(Entry) \subseteq G
  <2> HIDE DEF G
  <2> QED BY <1>1, <1>2, SeqInduct
<1> QED BY <1>3

LEMMA ValuesNamed ==
  ASSUME NEW as, NEW a
  PROVE  \A s \in Seq(Entry) :
           ValuesOf(Named(s, as), a) = IF a \in as THEN ValuesOf(s, a) ELSE <<>>
<1> DEFINE G == {s \in Seq(Entry) :
                   ValuesOf(Named(s, as), a) = IF a \in as THEN ValuesOf(s, a) ELSE <<>>}
<1>1. <<>> \in G
  <2>1. <<>> \in Seq(Entry) /\ Named(<<>>, as) = <<>> /\ ValuesOf(<<>>, a) = <<>>
    BY NamedEmpty, ValuesEmpty, EmptySeq, Zenon
  <2> QED BY <2>1, Zenon
<1>2. ASSUME NEW s \in Seq(Entry), NEW e \in Entry, s \in G
      PROVE  Append(s, e) \in G
  <2> DEFINE m == Named(s, as)
             n == Named(Append(s, e), as)
  <2>1. m \in Seq(Entry) /\ Append(s, e) \in Seq(Entry)
    BY NamedType, AppendProperties
  <2>2. n = IF e.alias \in as THEN Append(m, e) ELSE m
    BY NamedAppend
  <2>3. ValuesOf(m, a) = IF a \in as THEN ValuesOf(s, a) ELSE <<>>
    BY <1>2, Zenon
  <2>4. ValuesOf(Append(s, e), a) = IF e.alias = a THEN Append(ValuesOf(s, a), e.value)
                                    ELSE ValuesOf(s, a)
    BY ValuesAppend
  <2> HIDE DEF m
  <2>5. ValuesOf(Append(m, e), a) = IF e.alias = a THEN Append(ValuesOf(m, a), e.value)
                                    ELSE ValuesOf(m, a)
    BY <2>1, ValuesAppend
  <2> HIDE DEF n
  <2>6. ValuesOf(n, a) = IF a \in as THEN ValuesOf(Append(s, e), a) ELSE <<>>
    <3>1. CASE a \in as /\ e.alias = a
      BY <2>2, <2>3, <2>4, <2>5, <3>1
    <3>2. CASE a \in as /\ e.alias # a
      BY <2>2, <2>3, <2>4, <2>5, <3>2
    <3>3. CASE a \notin as
      BY <2>2, <2>3, <2>5, <3>3
    <3> QED BY <3>1, <3>2, <3>3
  <2> QED BY <2>1, <2>6, Zenon DEF n
<1>3. Seq(Entry) \subseteq G
  <2> HIDE DEF G
  <2> QED BY <1>1, <1>2, SeqInduct
<1> QED BY <1>3

(* The keys before a place, the one there, and those after it.               *)
Before(s, i) == SubSeq(s, 1, i - 1)
After(s, i) == SubSeq(s, i + 1, Len(s))

LEMMA Split ==
  ASSUME NEW s \in Seq(Entry), NEW i \in 1..Len(s)
  PROVE  /\ Before(s, i) \in Seq(Entry) /\ After(s, i) \in Seq(Entry)
         /\ Len(Before(s, i)) = i - 1 /\ Len(After(s, i)) = Len(s) - i
         /\ \A k \in 1..i - 1 : Before(s, i)[k] = s[k]
         /\ \A k \in 1..Len(s) - i : After(s, i)[k] = s[k + i]
         /\ s = (Before(s, i) \o <<s[i]>>) \o After(s, i)
         /\ i \in Nat \ {0} /\ Len(s) \in Nat /\ s[i] \in Entry
<1>1. i \in Nat \ {0} /\ Len(s) \in Nat /\ \A k \in 1..Len(s) : s[k] \in Entry
  BY LenProperties
<1>2. \A k \in 1..i - 1 : s[k] \in Entry
  BY <1>1
<1>3. \A k \in i + 1..Len(s) : s[k] \in Entry
  BY <1>1
<1>4. /\ Before(s, i) \in Seq(Entry)
      /\ Len(Before(s, i)) = IF 1 <= i - 1 THEN i - 1 - 1 + 1 ELSE 0
      /\ \A k \in 1..i - 1 - 1 + 1 : Before(s, i)[k] = s[1 + k - 1]
  BY <1>1, <1>2, SubSeqProperties DEF Before
<1>5. /\ After(s, i) \in Seq(Entry)
      /\ Len(After(s, i)) = IF i + 1 <= Len(s) THEN Len(s) - (i + 1) + 1 ELSE 0
      /\ \A k \in 1..Len(s) - (i + 1) + 1 : After(s, i)[k] = s[i + 1 + k - 1]
  BY <1>1, <1>3, SubSeqProperties DEF After
<1>6. SubSeq(s, 1, i) = Before(s, i) \o <<s[i]>>
  BY <1>1, SubSeqRecursiveSecond DEF Before
<1>7. SubSeq(s, 1, i) \o After(s, i) = s
  BY <1>1, ConcatAdjacentSubSeq, SubSeqFull DEF After
<1>8. /\ Len(Before(s, i)) = i - 1 /\ Len(After(s, i)) = Len(s) - i
      /\ \A k \in 1..i - 1 : Before(s, i)[k] = s[k]
      /\ \A k \in 1..Len(s) - i : After(s, i)[k] = s[k + i]
  BY <1>1, <1>4, <1>5
<1> QED BY <1>1, <1>4, <1>5, <1>6, <1>7, <1>8, Zenon

LEMMA ValuesAround ==
  ASSUME NEW s \in Seq(Entry), NEW i \in 1..Len(s), NEW a
  PROVE  ValuesOf(s, a) =
           IF s[i].alias = a
           THEN (ValuesOf(Before(s, i), a) \o <<s[i].value>>) \o ValuesOf(After(s, i), a)
           ELSE ValuesOf(Before(s, i), a) \o ValuesOf(After(s, i), a)
<1> DEFINE b == Before(s, i)
           v == ValuesOf(b, a)
<1>1. b \in Seq(Entry) /\ After(s, i) \in Seq(Entry) /\ s[i] \in Entry
      /\ s = (b \o <<s[i]>>) \o After(s, i)
  BY Split
<1> HIDE DEF b
<1>2. b \o <<s[i]>> = Append(b, s[i]) /\ Append(b, s[i]) \in Seq(Entry)
  BY <1>1, AppendIsConcat, AppendProperties
<1>3. ValuesOf(s, a) = ValuesOf(Append(b, s[i]), a) \o ValuesOf(After(s, i), a)
  <2>1. s = Append(b, s[i]) \o After(s, i)
    BY <1>1, <1>2
  <2> QED BY <1>1, <1>2, <2>1, ValuesConcat, Zenon
<1>4. ValuesOf(Append(b, s[i]), a) = IF s[i].alias = a THEN Append(v, s[i].value) ELSE v
  BY <1>1, ValuesAppend
<1>5. Append(v, s[i].value) = v \o <<s[i].value>>
  <2>1. v \in Seq(Values) /\ s[i].value \in Values
    BY <1>1, ValuesType DEF Entry
  <2> HIDE DEF v
  <2> QED BY <2>1, AppendIsConcat
<1> QED BY <1>3, <1>4, <1>5 DEF b

LEMMA OneAndRest ==
  ASSUME NEW S, NEW x \in S, NEW s \in Seq(S)
  PROVE  /\ <<x>> \o s \in Seq(S) /\ <<x>> \o s # <<>>
         /\ (<<x>> \o s)[1] = x /\ Tail(<<x>> \o s) = s
<1> DEFINE c == <<x>> \o s
<1>1. <<x>> \in Seq(S) /\ Len(<<x>>) = 1 /\ Len(s) \in Nat
  BY LenProperties
<1>2. c \in Seq(S) /\ Len(c) = 1 + Len(s) /\ c[1] = x
      /\ \A i \in 1..Len(s) : c[i + 1] = s[i]
  <2>1. /\ c \in Seq(S) /\ Len(c) = Len(<<x>>) + Len(s)
        /\ \A i \in 1..Len(<<x>>) + Len(s) : c[i] = IF i <= Len(<<x>>) THEN <<x>>[i]
                                                  ELSE s[i - Len(<<x>>)]
    BY <1>1, ConcatProperties
  <2> HIDE DEF c
  <2> QED BY <1>1, <2>1
<1> HIDE DEF c
<1>3. c # <<>>
  BY <1>1, <1>2, EmptySeq
<1>4. Tail(c) \in Seq(S) /\ Len(Tail(c)) = Len(s) /\ \A i \in 1..Len(s) : Tail(c)[i] = s[i]
  BY <1>1, <1>2, <1>3, HeadTailProperties
<1>5. Tail(c) = s
  BY <1>4, SeqEqual
<1> QED BY <1>2, <1>3, <1>5 DEF c

LEMMA FirstIs ==
  ASSUME NEW S \in SUBSET Nat, S # {}
  PROVE  First(S) \in S /\ \A k \in S : First(S) <= k
<1>1. \E i \in S : \A k \in S : i <= k
  BY LeastNat
<1> QED BY <1>1, Zenon DEF First

LEMMA FirstIndex ==
  ASSUME NEW keys \in Seq(Entry), NEW as, IndexesOf(keys, as) # {}
  PROVE  /\ First(IndexesOf(keys, as)) \in 1..Len(keys)
         /\ keys[First(IndexesOf(keys, as))].alias \in as
         /\ \A k \in 1..First(IndexesOf(keys, as)) - 1 : keys[k].alias \notin as
<1> DEFINE I == IndexesOf(keys, as)
           i == First(I)
<1>1. Len(keys) \in Nat /\ I = {k \in 1..Len(keys) : keys[k].alias \in as}
  BY LenProperties DEF IndexesOf
<1>2. i \in I /\ \A k \in I : i <= k
  <2>1. I # {}
    OBVIOUS
  <2> HIDE DEF I
  <2>2. \A k \in I : k \in Nat
    BY <1>1
  <2>3. I \in SUBSET Nat
    BY <2>2
  <2> QED BY <2>1, <2>3, FirstIs
<1> HIDE DEF I, i
<1>3. i \in 1..Len(keys) /\ keys[i].alias \in as
  BY <1>1, <1>2
<1>4. ASSUME NEW k \in 1..i - 1, keys[k].alias \in as
      PROVE  FALSE
  <2>1. k \in 1..Len(keys) /\ ~(i <= k)
    BY <1>1, <1>3
  <2> QED BY <1>1, <1>2, <1>4, <2>1
<1> QED BY <1>3, <1>4 DEF I, i

(* The first key of an alias is the first of its values. *)
LEMMA ValuesFirst ==
  ASSUME NEW keys \in Seq(Entry), NEW i \in 1..Len(keys), NEW a, keys[i].alias = a,
         \A k \in 1..i - 1 : keys[k].alias # a
  PROVE  /\ ValuesOf(keys, a) = <<keys[i].value>> \o ValuesOf(After(keys, i), a)
         /\ ValuesOf(Before(keys, i), a) = <<>>
<1>1. /\ Before(keys, i) \in Seq(Entry) /\ Len(Before(keys, i)) = i - 1
      /\ \A k \in 1..i - 1 : Before(keys, i)[k] = keys[k]
      /\ keys[i] \in Entry
  BY Split
<1>2. \A k \in 1..Len(Before(keys, i)) : Before(keys, i)[k].alias # a
  BY <1>1
<1>3. ValuesOf(Before(keys, i), a) = <<>>
  BY <1>1, <1>2, ValuesNone
<1>4. ValuesOf(keys, a) = (<<>> \o <<keys[i].value>>) \o ValuesOf(After(keys, i), a)
  BY <1>3, ValuesAround
<1>5. <<>> \o <<keys[i].value>> = <<keys[i].value>>
  <2>1. <<keys[i].value>> \in Seq(Values)
    BY <1>1 DEF Entry
  <2> QED BY <2>1, ConcatEmptySeq
<1> QED BY <1>3, <1>4, <1>5

LEMMA SigningKey ==
  ASSUME NEW keys \in Seq(Entry), NEW a
  PROVE  /\ IndexesOf(keys, {a}) = {} <=> ValuesOf(keys, a) = <<>>
         /\ KeyForAlias(keys, a) =
              IF ValuesOf(keys, a) = <<>> THEN NoKey ELSE ValuesOf(keys, a)[1]
<1>1. CASE IndexesOf(keys, {a}) = {}
  <2>1. \A i \in 1..Len(keys) : keys[i].alias # a
    BY <1>1 DEF IndexesOf
  <2>2. ValuesOf(keys, a) = <<>>
    BY <2>1, ValuesNone
  <2> QED BY <1>1, <2>2 DEF KeyForAlias
<1>2. CASE IndexesOf(keys, {a}) # {}
  <2> DEFINE i == First(IndexesOf(keys, {a}))
             r == ValuesOf(After(keys, i), a)
  <2>1. i \in 1..Len(keys) /\ keys[i].alias \in {a}
        /\ \A k \in 1..i - 1 : keys[k].alias \notin {a}
    BY <1>2, FirstIndex
  <2>2. KeyForAlias(keys, a) = keys[i].value
    BY <1>2 DEF KeyForAlias
  <2> HIDE DEF i
  <2>3. ValuesOf(keys, a) = <<keys[i].value>> \o r
    <3>1. keys[i].alias = a /\ \A k \in 1..i - 1 : keys[k].alias # a
      BY <2>1
    <3> QED BY <2>1, <3>1, ValuesFirst
  <2>4. keys[i].value \in Values /\ r \in Seq(Values)
    BY <2>1, Split, ValuesType DEF Entry
  <2> HIDE DEF r
  <2>5. ValuesOf(keys, a) # <<>> /\ ValuesOf(keys, a)[1] = keys[i].value
    BY <2>3, <2>4, OneAndRest
  <2> QED BY <1>2, <2>2, <2>5
<1> QED BY <1>1, <1>2
-----------------------------------------------------------------------------
(* What each change does to the values of an alias.                          *)
LEMMA DeleteKeeps ==
  ASSUME NEW keys \in Seq(Entry), NEW match, IndexesOf(keys, match) # {}
  PROVE  /\ Delete(keys, match) \in Seq(Entry)
         /\ \A a : ValuesOf(Delete(keys, match), a) =
                     IF a = keys[First(IndexesOf(keys, match))].alias
                     THEN Tail(ValuesOf(keys, a)) ELSE ValuesOf(keys, a)
<1> DEFINE i == First(IndexesOf(keys, match))
           b == Before(keys, i)
           c == After(keys, i)
<1>1. i \in 1..Len(keys) /\ keys[i].alias \in match
      /\ \A k \in 1..i - 1 : keys[k].alias \notin match
  BY FirstIndex
<1>2. Delete(keys, match) = b \o c
  BY DEF Delete, RemoveAt, Before, After
<1> HIDE DEF i
<1>3. b \in Seq(Entry) /\ c \in Seq(Entry) /\ keys[i] \in Entry
  BY <1>1, Split
<1> HIDE DEF b, c
<1>4. b \o c \in Seq(Entry)
  BY <1>3, ConcatProperties
<1>5. ASSUME NEW a
      PROVE  ValuesOf(b \o c, a) = IF a = keys[i].alias THEN Tail(ValuesOf(keys, a))
                                   ELSE ValuesOf(keys, a)
  <2> DEFINE v == ValuesOf(b, a)
             w == ValuesOf(c, a)
  <2>1. ValuesOf(b \o c, a) = v \o w
    BY <1>3, ValuesConcat
  <2>2. v \in Seq(Values) /\ w \in Seq(Values) /\ keys[i].value \in Values
    BY <1>3, ValuesType DEF Entry
  <2>3. CASE a = keys[i].alias
    <3>1. \A k \in 1..i - 1 : keys[k].alias # a
      BY <1>1, <2>3
    <3>2. ValuesOf(keys, a) = <<keys[i].value>> \o w /\ v = <<>>
      BY <1>1, <2>3, <3>1, ValuesFirst DEF b, c
    <3> HIDE DEF v, w
    <3>3. v \o w = w /\ Tail(<<keys[i].value>> \o w) = w
      BY <2>2, <3>2, ConcatEmptySeq, OneAndRest
    <3> QED BY <2>1, <2>3, <3>2, <3>3
  <2>4. CASE a # keys[i].alias
    <3>1. ValuesOf(keys, a) = v \o w
      BY <1>1, <2>4, ValuesAround DEF b, c
    <3> QED BY <2>1, <2>4, <3>1
  <2> QED BY <2>3, <2>4
<1> QED BY <1>2, <1>4, <1>5 DEF i

(* Store, for entries of which no two have one alias. *)
Distinct(entries) ==
  \A i \in 1..Len(entries) : \A k \in 1..Len(entries) :
    entries[i].alias = entries[k].alias => i = k

(* The entries for an alias; and the keys, those replaced that have an entry *)
(* and are the first with their alias.                                       *)
NewFor(entries, a) == {k \in 1..Len(entries) : entries[k].alias = a}
Replaced(keys, entries) ==
  [i \in 1..Len(keys) |->
     IF NewFor(entries, keys[i].alias) # {} /\ i = First(IndexesOf(keys, {keys[i].alias}))
     THEN entries[First(NewFor(entries, keys[i].alias))] ELSE keys[i]]

LEMMA OneEntry ==
  ASSUME NEW entries \in Seq(Entry), Distinct(entries), NEW a, NewFor(entries, a) # {}
  PROVE  /\ First(NewFor(entries, a)) \in 1..Len(entries)
         /\ entries[First(NewFor(entries, a))].alias = a
         /\ ValuesOf(entries, a) = <<entries[First(NewFor(entries, a))].value>>
<1> DEFINE N == NewFor(entries, a)
           k == First(N)
<1>1. k \in N
  <2>1. Len(entries) \in Nat
    BY LenProperties
  <2>2. \A j \in N : j \in Nat
    BY <2>1 DEF NewFor
  <2> HIDE DEF N
  <2>3. N \in SUBSET Nat
    BY <2>2
  <2> QED BY <2>3, FirstIs DEF N
<1> HIDE DEF k
<1>2. k \in 1..Len(entries) /\ entries[k].alias = a
  BY <1>1 DEF NewFor
<1>3. /\ After(entries, k) \in Seq(Entry) /\ Len(After(entries, k)) = Len(entries) - k
      /\ \A j \in 1..Len(entries) - k : After(entries, k)[j] = entries[j + k]
      /\ k \in Nat \ {0} /\ Len(entries) \in Nat /\ entries[k] \in Entry
  BY <1>2, Split
<1>4. \A j \in 1..k - 1 : entries[j].alias # a
  BY <1>2, <1>3 DEF Distinct
<1>5. \A j \in 1..Len(After(entries, k)) : After(entries, k)[j].alias # a
  <2> SUFFICES ASSUME NEW j \in 1..Len(After(entries, k))
               PROVE  After(entries, k)[j].alias # a
    OBVIOUS
  <2>1. After(entries, k)[j] = entries[j + k] /\ j + k \in 1..Len(entries) /\ j + k # k
    BY <1>2, <1>3
  <2> QED BY <1>2, <2>1 DEF Distinct
<1>6. ValuesOf(After(entries, k), a) = <<>>
  BY <1>3, <1>5, ValuesNone
<1>7. ValuesOf(entries, a) = <<entries[k].value>> \o <<>>
  BY <1>2, <1>4, <1>6, ValuesFirst
<1>8. <<entries[k].value>> \o <<>> = <<entries[k].value>>
  <2>1. <<entries[k].value>> \in Seq(Values)
    BY <1>3 DEF Entry
  <2> QED BY <2>1, ConcatEmptySeq
<1> QED BY <1>2, <1>7, <1>8 DEF k

LEMMA ReplacedType ==
  ASSUME NEW keys \in Seq(Entry), NEW entries \in Seq(Entry), Distinct(entries)
  PROVE  /\ Replaced(keys, entries) \in Seq(Entry)
         /\ Len(Replaced(keys, entries)) = Len(keys)
         /\ \A i \in 1..Len(keys) : Replaced(keys, entries)[i].alias = keys[i].alias
<1> DEFINE r == Replaced(keys, entries)
<1>1. ASSUME NEW i \in 1..Len(keys)
      PROVE  r[i] \in Entry /\ r[i].alias = keys[i].alias
  <2> DEFINE a == keys[i].alias
  <2>1. keys[i] \in Entry
    OBVIOUS
  <2>2. r[i] = IF NewFor(entries, a) # {} /\ i = First(IndexesOf(keys, {a}))
               THEN entries[First(NewFor(entries, a))] ELSE keys[i]
    BY DEF Replaced
  <2> HIDE DEF r
  <2>3. CASE r[i] = keys[i]
    BY <2>1, <2>3
  <2>4. CASE NewFor(entries, a) # {} /\ r[i] = entries[First(NewFor(entries, a))]
    <3>1. First(NewFor(entries, a)) \in 1..Len(entries)
          /\ entries[First(NewFor(entries, a))].alias = a
      BY <2>4, OneEntry
    <3> QED BY <2>4, <3>1
  <2> QED BY <2>2, <2>3, <2>4
<1>2. Len(keys) \in Nat
  BY LenProperties
<1>3. r = [i \in 1..Len(keys) |-> r[i]]
  BY DEF Replaced
<1> HIDE DEF r
<1>4. r \in [1..Len(keys) -> Entry]
  BY <1>1, <1>3
<1>5. r \in Seq(Entry) /\ Len(r) = Len(keys)
  BY <1>2, <1>4, SegmentSeq
<1> QED BY <1>1, <1>5 DEF r

LEMMA ReplacedValues ==
  ASSUME NEW keys \in Seq(Entry), NEW entries \in Seq(Entry), Distinct(entries), NEW a
  PROVE  ValuesOf(Replaced(keys, entries), a) =
           IF ValuesOf(keys, a) = <<>> \/ ValuesOf(entries, a) = <<>>
           THEN ValuesOf(keys, a)
           ELSE ValuesOf(entries, a) \o Tail(ValuesOf(keys, a))
<1> DEFINE r == Replaced(keys, entries)
           I == IndexesOf(keys, {a})
           i == First(I)
           N == NewFor(entries, a)
           d == entries[First(N)]
<1>1. r \in Seq(Entry) /\ Len(r) = Len(keys) /\ Len(keys) \in Nat
      /\ \A k \in 1..Len(keys) : r[k].alias = keys[k].alias
  BY ReplacedType, LenProperties
<1>2. \A k \in 1..Len(keys) :
        keys[k].alias = a => r[k] = IF N # {} /\ k = i THEN d ELSE keys[k]
  BY DEF Replaced
<1>3. ValuesOf(keys, a) = <<>> <=> I = {}
  BY SigningKey
<1>4. CASE N = {}
  <2>1. \A k \in 1..Len(entries) : entries[k].alias # a
    BY <1>4 DEF NewFor
  <2>2. ValuesOf(entries, a) = <<>>
    BY <2>1, ValuesNone
  <2> HIDE DEF r, N, i
  <2>3. ValuesOf(r, a) = ValuesOf(keys, a)
    BY <1>1, <1>2, <1>4, ValuesAgree
  <2> QED BY <2>2, <2>3 DEF r
<1>5. CASE N # {} /\ I = {}
  <2>1. \A k \in 1..Len(keys) : keys[k].alias # a
    BY <1>5 DEF IndexesOf
  <2> HIDE DEF r
  <2>2. ValuesOf(r, a) = <<>>
    BY <1>1, <2>1, ValuesNone
  <2> QED BY <1>3, <1>5, <2>2 DEF r
<1>6. CASE N # {} /\ I # {}
  <2>1. i \in 1..Len(keys) /\ keys[i].alias \in {a}
        /\ \A k \in 1..i - 1 : keys[k].alias \notin {a}
    BY <1>6, FirstIndex
  <2>2. First(N) \in 1..Len(entries) /\ d.alias = a /\ ValuesOf(entries, a) = <<d.value>>
    BY <1>6, OneEntry
  <2>3. d \in Entry
    <3> HIDE DEF N
    <3> QED BY <2>2
  <2> HIDE DEF r, I, i, N, d
  <2>4. keys[i].alias = a /\ \A k \in 1..i - 1 : keys[k].alias # a
    BY <2>1
  <2>5. r[i] = d /\ \A k \in 1..Len(keys) : k # i /\ keys[k].alias = a => r[k] = keys[k]
    BY <1>2, <1>6, <2>1
  <2>6. i \in 1..Len(r) /\ r[i].alias = a /\ \A k \in 1..i - 1 : r[k].alias # a
    BY <1>1, <2>1, <2>4
  <2> DEFINE u == After(r, i)
             v == After(keys, i)
  <2>7. /\ u \in Seq(Entry) /\ Len(u) = Len(keys) - i
        /\ v \in Seq(Entry) /\ Len(v) = Len(keys) - i
        /\ \A k \in 1..Len(keys) - i : u[k] = r[k + i] /\ v[k] = keys[k + i]
        /\ i \in Nat \ {0} /\ keys[i] \in Entry
    <3>1. /\ u \in Seq(Entry) /\ Len(u) = Len(r) - i
          /\ \A k \in 1..Len(r) - i : u[k] = r[k + i]
      BY <1>1, <2>6, Split
    <3>2. /\ v \in Seq(Entry) /\ Len(v) = Len(keys) - i
          /\ \A k \in 1..Len(keys) - i : v[k] = keys[k + i]
          /\ i \in Nat \ {0} /\ keys[i] \in Entry
      BY <2>1, Split
    <3> HIDE DEF u, v
    <3> QED BY <1>1, <3>1, <3>2
  <2>8. ValuesOf(r, a) = <<d.value>> \o ValuesOf(u, a)
        /\ ValuesOf(keys, a) = <<keys[i].value>> \o ValuesOf(v, a)
    BY <1>1, <2>1, <2>4, <2>5, <2>6, ValuesFirst
  <2> HIDE DEF u, v
  <2>9. ValuesOf(u, a) = ValuesOf(v, a)
    <3>1. ASSUME NEW k \in 1..Len(u)
          PROVE  /\ u[k].alias = a <=> v[k].alias = a
                 /\ u[k].alias = a => u[k].value = v[k].value
      <4>1. k + i \in 1..Len(keys) /\ k + i # i /\ u[k] = r[k + i] /\ v[k] = keys[k + i]
        BY <1>1, <2>7
      <4> QED BY <1>1, <2>5, <4>1
    <3> QED BY <2>7, <3>1, ValuesAgree
  <2>10. ValuesOf(keys, a) # <<>> /\ Tail(ValuesOf(keys, a)) = ValuesOf(v, a)
         /\ ValuesOf(entries, a) # <<>>
    <3>1. ValuesOf(v, a) \in Seq(Values) /\ keys[i].value \in Values
      BY <2>7, ValuesType DEF Entry
    <3> QED BY <2>2, <2>8, <3>1, OneAndRest
  <2> QED BY <2>2, <2>8, <2>9, <2>10 DEF r
<1> QED BY <1>4, <1>5, <1>6

LEMMA StoreKeeps ==
  ASSUME NEW keys \in Seq(Entry), NEW entries \in Seq(Entry), Distinct(entries)
  PROVE  /\ Store(keys, entries) \in Seq(Entry)
         /\ \A a \in Aliases :
              ValuesOf(Store(keys, entries), a) =
                IF ValuesOf(keys, a) = <<>> \/ ValuesOf(entries, a) = <<>>
                THEN ValuesOf(keys, a) \o ValuesOf(entries, a)
                ELSE ValuesOf(entries, a) \o Tail(ValuesOf(keys, a))
<1> DEFINE absent == {a \in Aliases : IndexesOf(keys, {a}) = {}}
           r == Replaced(keys, entries)
           n == Named(entries, absent)
<1>1. Store(keys, entries) = r \o n
  BY DEF Store, Replaced, NewFor
<1>2. r \in Seq(Entry) /\ n \in Seq(Entry)
  BY ReplacedType, NamedType
<1>3. ASSUME NEW a \in Aliases
      PROVE  ValuesOf(r \o n, a) =
               IF ValuesOf(keys, a) = <<>> \/ ValuesOf(entries, a) = <<>>
               THEN ValuesOf(keys, a) \o ValuesOf(entries, a)
               ELSE ValuesOf(entries, a) \o Tail(ValuesOf(keys, a))
  <2> DEFINE v == ValuesOf(keys, a)
             w == ValuesOf(entries, a)
  <2>1. a \in absent <=> v = <<>>
    BY SigningKey
  <2>2. ValuesOf(n, a) = IF v = <<>> THEN w ELSE <<>>
    <3> HIDE DEF absent, v
    <3> QED BY <2>1, ValuesNamed
  <2>3. ValuesOf(r, a) = IF v = <<>> \/ w = <<>> THEN v ELSE w \o Tail(v)
    BY ReplacedValues
  <2> HIDE DEF n, r
  <2>4. ValuesOf(r \o n, a) = ValuesOf(r, a) \o ValuesOf(n, a)
    BY <1>2, ValuesConcat
  <2>5. v \in Seq(Values) /\ w \in Seq(Values)
    BY ValuesType
  <2> HIDE DEF v, w
  <2>6. v # <<>> => Tail(v) \in Seq(Values)
    BY <2>5, HeadTailProperties
  <2>7. v # <<>> => w \o Tail(v) \in Seq(Values)
    BY <2>5, <2>6, ConcatProperties
  <2>8. v \o <<>> = v /\ (v # <<>> => (w \o Tail(v)) \o <<>> = w \o Tail(v))
    BY <2>5, <2>7, ConcatEmptySeq
  <2>9. ValuesOf(r \o n, a) = IF v = <<>> \/ w = <<>> THEN v \o w ELSE w \o Tail(v)
    BY <2>2, <2>3, <2>4, <2>8
  <2> QED BY <2>9 DEF v, w
<1> QED
  <2> HIDE DEF r, n
  <2> QED BY <1>1, <1>2, <1>3, ConcatProperties
-----------------------------------------------------------------------------
(* The commands: a change is one of the three, a store has one entry for an  *)
(* alias, and a delete that writes has found a key.                          *)
CommandInv == \A t \in Terminals :
  /\ proc[t].pc # "idle" => proc[t].change.op # "none"
  /\ proc[t].pc # "idle" /\ proc[t].change.op = "store" => Distinct(proc[t].change.entries)
  /\ proc[t].pc = "writing" /\ proc[t].change.op = "delete" =>
       IndexesOf(proc[t].copy, proc[t].change.match) # {}

(* Two that write at once spoil the file. *)
OneWriter == ~spoiled => \A t \in Writing : \A o \in Writing : t = o

IInv == TypeOK /\ CommandInv /\ OneWriter /\ NothingLost

Command == [op : {"none", "add", "store", "delete"}, entries : Seq(Entry), match : SUBSET Aliases]

(* A change that a command can begin with. *)
Begun(c) == /\ c \in Command /\ c.op # "none"
            /\ c.op = "store" => Distinct(c.entries)

LEMMA KeyedIs ==
  ASSUME TypeOK, NEW aliases \in Seq(Aliases),
         made + Len(Keyed(aliases)) <= MaxKeys
  PROVE  /\ Keyed(aliases) \in Seq(Entry) /\ Len(Keyed(aliases)) = Len(aliases)
         /\ \A i \in 1..Len(aliases) : Keyed(aliases)[i].alias = aliases[i]
<1> DEFINE k == Keyed(aliases)
<1>1. Len(aliases) \in Nat /\ made \in Nat /\ MaxKeys \in Nat
  BY LenProperties, KeysAssumption DEF TypeOK
<1>2. k = [i \in 1..Len(aliases) |-> [alias |-> aliases[i], value |-> made + i]]
  BY DEF Keyed
<1> HIDE DEF k
<1>3. k \in [1..Len(aliases) -> [alias : Aliases, value : Nat]]
  BY <1>1, <1>2
<1>4. Len(k) = Len(aliases)
  BY <1>1, <1>3, SegmentSeq
<1>5. k \in [1..Len(aliases) -> Entry]
  <2> SUFFICES ASSUME NEW i \in 1..Len(aliases)
               PROVE  [alias |-> aliases[i], value |-> made + i] \in Entry
    BY <1>2
  <2>1. made + i \in 1..MaxKeys
    BY <1>1, <1>4 DEF k
  <2> QED BY <2>1 DEF Entry, Values
<1>6. k \in Seq(Entry)
  BY <1>1, <1>5, SegmentSeq
<1> QED BY <1>2, <1>4, <1>6 DEF k

(* A command begins with one of the three changes, or goes on with its own.  *)
LEMMA Steps ==
  ASSUME TypeOK, Next
  PROVE  \E t \in Terminals : \/ \E c \in Command : Begun(c) /\ Load(t, c)
                              \/ NoMatch(t) \/ Truncate(t) \/ Save(t) \/ Die(t)
<1> PICK t \in Terminals :
      \/ \E a \in Aliases : Create(t, a) \/ StoreKey(t, a) \/ DeleteKeys(t, {a})
      \/ \E as \in Patterns : DeleteKeys(t, as)
      \/ ImportGanache(t)
      \/ \E as \in Geth : ImportGeth(t, as)
      \/ NoMatch(t) \/ Truncate(t) \/ Save(t) \/ Die(t)
  BY DEF Next
<1> DEFINE add(es) == [NoCommand EXCEPT !.op = "add", !.entries = es]
           store(es) == [NoCommand EXCEPT !.op = "store", !.entries = es]
           delete(as) == [NoCommand EXCEPT !.op = "delete", !.match = as]
<1>1. ASSUME NEW aliases \in Seq(Aliases), Load(t, add(Keyed(aliases)))
      PROVE  \E c \in Command : Begun(c) /\ Load(t, c)
  <2>1. Keyed(aliases) \in Seq(Entry)
    <3>1. made + Len(Keyed(aliases)) <= MaxKeys
      BY <1>1 DEF Load, NoCommand
    <3> QED BY <3>1, KeyedIs
  <2>2. add(Keyed(aliases)) \in Command /\ add(Keyed(aliases)).op = "add"
    BY <2>1 DEF Command, NoCommand
  <2> HIDE DEF add
  <2> QED BY <1>1, <2>2 DEF Begun
<1>2. ASSUME NEW aliases \in Seq(Aliases), Load(t, store(Keyed(aliases))),
             \A i \in 1..Len(aliases) : \A j \in 1..Len(aliases) :
               aliases[i] = aliases[j] => i = j
      PROVE  \E c \in Command : Begun(c) /\ Load(t, c)
  <2>1. Keyed(aliases) \in Seq(Entry) /\ Distinct(Keyed(aliases))
    <3>1. made + Len(Keyed(aliases)) <= MaxKeys
      BY <1>2 DEF Load, NoCommand
    <3>2. /\ Keyed(aliases) \in Seq(Entry) /\ Len(Keyed(aliases)) = Len(aliases)
          /\ \A i \in 1..Len(aliases) : Keyed(aliases)[i].alias = aliases[i]
      BY <3>1, KeyedIs
    <3> QED BY <1>2, <3>2 DEF Distinct
  <2>2. store(Keyed(aliases)) \in Command /\ store(Keyed(aliases)).op = "store"
        /\ store(Keyed(aliases)).entries = Keyed(aliases)
    BY <2>1 DEF Command, NoCommand
  <2> HIDE DEF store
  <2> QED BY <1>2, <2>1, <2>2 DEF Begun
<1>3. ASSUME NEW as \in SUBSET Aliases, Load(t, delete(as))
      PROVE  \E c \in Command : Begun(c) /\ Load(t, c)
  <2>1. delete(as) \in Command /\ delete(as).op = "delete"
    BY EmptySeq DEF Command, NoCommand
  <2> HIDE DEF delete
  <2> QED BY <1>3, <2>1 DEF Begun
<1>4. ASSUME NEW a \in Aliases
      PROVE  /\ <<a>> \in Seq(Aliases)
             /\ \A i \in 1..Len(<<a>>) : \A j \in 1..Len(<<a>>) : <<a>>[i] = <<a>>[j] => i = j
  OBVIOUS
<1>5. Ganache \in Seq(Aliases) /\ \A i \in 1..Len(Ganache) : \A j \in 1..Len(Ganache) :
                                    Ganache[i] = Ganache[j] => i = j
  <2>1. Ganache \in Seq(Aliases) /\ IsInjective(Ganache)
    BY KeysAssumption
  <2>2. DOMAIN Ganache = 1..Len(Ganache)
    BY <2>1, LenProperties
  <2> QED BY <2>1, <2>2 DEF IsInjective
<1>6. Geth \subseteq Seq(Aliases) /\ Patterns \subseteq SUBSET Aliases
  BY KeysAssumption
<1>7. CASE \E a \in Aliases : Create(t, a)
  BY <1>1, <1>4, <1>7 DEF Create
<1>8. CASE \E a \in Aliases : StoreKey(t, a)
  BY <1>2, <1>4, <1>8 DEF StoreKey
<1>9. CASE \E as \in SUBSET Aliases : DeleteKeys(t, as)
  BY <1>3, <1>9 DEF DeleteKeys
<1>10. CASE ImportGanache(t)
  BY <1>2, <1>5, <1>10 DEF ImportGanache
<1>11. CASE \E as \in Geth : ImportGeth(t, as)
  BY <1>1, <1>6, <1>11 DEF ImportGeth
<1>12. CASE NoMatch(t) \/ Truncate(t) \/ Save(t) \/ Die(t)
  BY <1>12
<1>13. ASSUME NEW a \in Aliases
       PROVE  {a} \in SUBSET Aliases
  OBVIOUS
<1> QED BY <1>6, <1>7, <1>8, <1>9, <1>10, <1>11, <1>12, <1>13

(* The change that a command saves does to each alias what it means.         *)
LEMMA ChangedIs ==
  ASSUME NEW c \in Command, Begun(c), NEW keys \in Seq(Entry),
         c.op = "delete" => IndexesOf(keys, c.match) # {}
  PROVE  /\ Changed(c, keys) \in Seq(Entry)
         /\ \A a \in Aliases : bucket[a] = ValuesOf(keys, a) =>
                                 Kept(c, keys, a) = ValuesOf(Changed(c, keys), a)
<1>1. c.op \in {"add", "store", "delete"} /\ c.entries \in Seq(Entry)
  BY DEF Begun, Command
<1>2. CASE c.op = "add"
  <2>1. Changed(c, keys) = keys \o c.entries
    BY <1>2 DEF Changed, Add
  <2>2. keys \o c.entries \in Seq(Entry)
    BY <1>1, ConcatProperties
  <2>3. \A a \in Aliases : Kept(c, keys, a) = bucket[a] \o ValuesOf(c.entries, a)
    BY <1>2 DEF Kept
  <2>4. \A a \in Aliases :
          ValuesOf(keys \o c.entries, a) = ValuesOf(keys, a) \o ValuesOf(c.entries, a)
    BY <1>1, ValuesConcat
  <2> QED BY <2>1, <2>2, <2>3, <2>4
<1>3. CASE c.op = "store"
  <2>1. Changed(c, keys) = Store(keys, c.entries)
    BY <1>3 DEF Changed
  <2>2. \A a \in Aliases :
          Kept(c, keys, a) = IF bucket[a] = <<>> \/ ValuesOf(c.entries, a) = <<>>
                             THEN bucket[a] \o ValuesOf(c.entries, a)
                             ELSE ValuesOf(c.entries, a) \o Tail(bucket[a])
    BY <1>3 DEF Kept
  <2>3. Distinct(c.entries)
    BY <1>3 DEF Begun
  <2>4. /\ Store(keys, c.entries) \in Seq(Entry)
        /\ \A a \in Aliases :
             ValuesOf(Store(keys, c.entries), a) =
               IF ValuesOf(keys, a) = <<>> \/ ValuesOf(c.entries, a) = <<>>
               THEN ValuesOf(keys, a) \o ValuesOf(c.entries, a)
               ELSE ValuesOf(c.entries, a) \o Tail(ValuesOf(keys, a))
    BY <1>1, <2>3, StoreKeeps
  <2> QED BY <2>1, <2>2, <2>4, Zenon
<1>4. CASE c.op = "delete"
  <2>1. Changed(c, keys) = Delete(keys, c.match)
    BY <1>4 DEF Changed
  <2>2. \A a \in Aliases :
          Kept(c, keys, a) = IF a = keys[First(IndexesOf(keys, c.match))].alias
                             THEN Tail(bucket[a]) ELSE bucket[a]
    BY <1>4 DEF Kept
  <2>3. /\ Delete(keys, c.match) \in Seq(Entry)
        /\ \A a \in Aliases :
             ValuesOf(Delete(keys, c.match), a) =
               IF a = keys[First(IndexesOf(keys, c.match))].alias
               THEN Tail(ValuesOf(keys, a)) ELSE ValuesOf(keys, a)
    BY <1>4, DeleteKeeps
  <2> QED BY <2>1, <2>2, <2>3, Zenon
<1> QED BY <1>1, <1>2, <1>3, <1>4

LEMMA CommandType ==
  ASSUME TypeOK, NEW t \in Terminals
  PROVE  /\ proc \in [Terminals -> [pc : {"idle", "loaded", "writing"},
                                    change : Command, copy : Seq(Entry)]]
         /\ proc[t] \in [pc : {"idle", "loaded", "writing"},
                         change : Command, copy : Seq(Entry)]
         /\ file \in Seq(Entry) /\ made \in 0..MaxKeys /\ spoiled \in BOOLEAN
         /\ bucket \in [Aliases -> Seq(Values)] /\ Writing \subseteq Terminals
BY DEF TypeOK, Command, Writing

LEMMA SameRecord ==
  ASSUME Writing' = Writing, file' = file, \A t \in Writing : proc'[t] = proc[t]
  PROVE  OnRecord' = OnRecord
<1> DEFINE w == CHOOSE t \in Writing : TRUE
<1>1. CASE Writing = {}
  BY <1>1 DEF OnRecord
<1>2. CASE Writing # {}
  <2>1. w \in Writing
    BY <1>2
  <2>2. OnRecord = proc[w].copy /\ OnRecord' = proc'[w].copy
    BY <1>2 DEF OnRecord
  <2> HIDE DEF w
  <2> QED BY <2>1, <2>2
<1> QED BY <1>1, <1>2

LEMMA TheirRecord ==
  ASSUME NEW t \in Writing, \A o \in Writing : o = t
  PROVE  OnRecord = proc[t].copy
<1>1. (CHOOSE o \in Writing : TRUE) = t
  OBVIOUS
<1> QED BY <1>1 DEF OnRecord

(* A step that does not spoil the file leaves the keys on record as they     *)
(* are, or saves the change of the one command that writes.                  *)
Saves(t) == /\ Save(t) /\ proc[t].pc = "writing" /\ Begun(proc[t].change)
            /\ proc[t].change.op = "delete" =>
                 IndexesOf(proc[t].copy, proc[t].change.match) # {}
            /\ OnRecord = proc[t].copy
            /\ OnRecord' = Changed(proc[t].change, proc[t].copy)

LEMMA RecordStep ==
  ASSUME IInv, [Next]_vars, ~spoiled'
  PROVE  /\ ~spoiled
         /\ \/ OnRecord' = OnRecord /\ bucket' = bucket
            \/ \E t \in Terminals : Saves(t)
<1>1. CASE UNCHANGED vars
  <2>1. Writing' = Writing /\ file' = file /\ proc' = proc /\ bucket' = bucket
        /\ spoiled' = spoiled
    BY <1>1 DEF vars, Writing
  <2> QED BY <2>1, SameRecord
<1>2. CASE Next
  <2> PICK t \in Terminals : \/ \E c \in Command : Begun(c) /\ Load(t, c)
                             \/ NoMatch(t) \/ Truncate(t) \/ Save(t) \/ Die(t)
    BY <1>2, Steps DEF IInv
  <2>1. /\ proc \in [Terminals -> [pc : {"idle", "loaded", "writing"},
                                   change : Command, copy : Seq(Entry)]]
        /\ proc[t] \in [pc : {"idle", "loaded", "writing"},
                        change : Command, copy : Seq(Entry)]
        /\ Writing \subseteq Terminals
    BY CommandType DEF IInv
  <2>2. ASSUME proc[t].pc # "writing", proc'[t].pc # "writing", file' = file,
               \A o \in Terminals : o # t => proc'[o] = proc[o]
        PROVE  OnRecord' = OnRecord
    <3>1. Writing' = Writing /\ \A o \in Writing : proc'[o] = proc[o]
      BY <2>2 DEF Writing
    <3> QED BY <2>2, <3>1, SameRecord
  <2>3. ASSUME NEW c \in Command, Load(t, c)
        PROVE  OnRecord' = OnRecord /\ bucket' = bucket /\ ~spoiled
    BY <2>1, <2>2, <2>3 DEF Load
  <2>4. CASE NoMatch(t)
    BY <2>1, <2>2, <2>4 DEF NoMatch, Idle
  <2>5. CASE Die(t)
    BY <2>1, <2>2, <2>5 DEF Die, Judge, Idle
  <2>6. CASE Truncate(t)
    <3>1. ~spoiled /\ bucket' = bucket /\ file = proc[t].copy
          /\ \A o \in Terminals : proc[o].pc # "writing"
      BY <2>6 DEF Truncate, Judge
    <3>2. Writing = {}
      BY <3>1 DEF Writing
    <3>3. proc'[t].pc = "writing" /\ proc'[t].copy = proc[t].copy
          /\ \A o \in Terminals : o # t => proc'[o] = proc[o]
      BY <2>1, <2>6 DEF Truncate
    <3>4. Writing' = {t}
      BY <3>1, <3>3 DEF Writing
    <3>5. OnRecord = file
      BY <3>2 DEF OnRecord
    <3>6. OnRecord' = proc'[t].copy
      <4>1. (CHOOSE o \in Writing' : TRUE) = t /\ Writing' # {}
        BY <3>4
      <4> QED BY <4>1 DEF OnRecord
    <3> QED BY <3>1, <3>3, <3>5, <3>6
  <2>7. CASE Save(t)
    <3>1. ~spoiled /\ proc[t].pc = "writing"
          /\ file' = Changed(proc[t].change, proc[t].copy)
      BY <2>7 DEF Save
    <3>2. t \in Writing /\ \A o \in Writing : o = t
      BY <3>1 DEF IInv, OneWriter, Writing
    <3>3. OnRecord = proc[t].copy
      BY <3>2, TheirRecord
    <3>4. proc'[t].pc = "idle" /\ \A o \in Terminals : o # t => proc'[o] = proc[o]
      BY <2>1, <2>7 DEF Save, Idle
    <3>5. Writing' = {}
      BY <3>2, <3>4 DEF Writing
    <3>6. OnRecord' = file'
      BY <3>5 DEF OnRecord
    <3>7. Begun(proc[t].change)
          /\ (proc[t].change.op = "delete" =>
                IndexesOf(proc[t].copy, proc[t].change.match) # {})
      BY <2>1, <3>1 DEF IInv, CommandInv, Begun
    <3> QED BY <2>7, <3>1, <3>3, <3>6, <3>7 DEF Saves
  <2> QED BY <2>3, <2>4, <2>5, <2>6, <2>7
<1> QED BY <1>1, <1>2

LEMMA CommandStep ==
  ASSUME IInv, [Next]_vars
  PROVE  TypeOK' /\ CommandInv' /\ OneWriter'
<1>1. CASE UNCHANGED vars
  BY <1>1 DEF vars, IInv, TypeOK, CommandInv, OneWriter, Writing
<1>2. CASE Next
  <2> PICK t \in Terminals : \/ \E c \in Command : Begun(c) /\ Load(t, c)
                             \/ NoMatch(t) \/ Truncate(t) \/ Save(t) \/ Die(t)
    BY <1>2, Steps DEF IInv
  <2> DEFINE Procs == [pc : {"idle", "loaded", "writing"}, change : Command,
                       copy : Seq(Entry)]
             Fine(p) == /\ p.pc # "idle" => p.change.op # "none"
                        /\ p.pc # "idle" /\ p.change.op = "store" => Distinct(p.change.entries)
                        /\ p.pc = "writing" /\ p.change.op = "delete" =>
                             IndexesOf(p.copy, p.change.match) # {}
  <2>1. /\ proc \in [Terminals -> Procs] /\ proc[t] \in Procs
        /\ file \in Seq(Entry) /\ made \in 0..MaxKeys /\ spoiled \in BOOLEAN
        /\ bucket \in [Aliases -> Seq(Values)] /\ MaxKeys \in Nat
    BY CommandType, KeysAssumption DEF IInv
  <2>2. \A o \in Terminals : Fine(proc[o])
    BY DEF IInv, CommandInv
  <2>3. Idle \in Procs /\ Fine(Idle)
    BY EmptySeq DEF Idle, NoCommand, Command
  <2>4. ASSUME NEW p \in Procs, Fine(p), proc' = [proc EXCEPT ![t] = p],
               file' \in Seq(Entry), made' \in 0..MaxKeys, spoiled' \in BOOLEAN,
               bucket' \in [Aliases -> Seq(Values)]
        PROVE  TypeOK' /\ CommandInv'
    <3>1. proc' \in [Terminals -> Procs]
          /\ \A o \in Terminals : proc'[o] = IF o = t THEN p ELSE proc[o]
      BY <2>1, <2>4
    <3>2. \A o \in Terminals : Fine(proc'[o])
      BY <2>2, <2>4, <3>1
    <3>3. TypeOK'
      BY <2>4, <3>1 DEF TypeOK, Command
    <3>4. CommandInv'
      BY <3>2 DEF CommandInv
    <3> QED BY <3>3, <3>4
  <2>5. ASSUME proc'[t].pc # "writing", spoiled' \/ ~spoiled,
               \A o \in Terminals : o # t => proc'[o] = proc[o]
        PROVE  OneWriter'
    <3>1. Writing' \subseteq Writing
      BY <2>5 DEF Writing
    <3> QED BY <2>5, <3>1 DEF IInv, OneWriter
  <2>6. [a \in Aliases |-> <<>>] \in [Aliases -> Seq(Values)]
    BY EmptySeq
  <2>7. ASSUME NEW c \in Command, Begun(c), Load(t, c)
        PROVE  TypeOK' /\ CommandInv' /\ OneWriter'
    <3> DEFINE p == [pc |-> "loaded", change |-> c, copy |-> file]
    <3>1. p \in Procs /\ Fine(p) /\ p.pc # "writing"
      BY <2>1, <2>7 DEF Begun
    <3>2. proc' = [proc EXCEPT ![t] = p]
      BY <2>7 DEF Load
    <3>3. made' \in 0..MaxKeys
      <4>1. c.entries \in Seq(Entry)
        BY DEF Command
      <4>2. Len(c.entries) \in Nat
        BY <4>1, LenProperties
      <4>3. made' = made + Len(c.entries) /\ made + Len(c.entries) <= MaxKeys
        BY <2>7 DEF Load
      <4> QED BY <2>1, <4>2, <4>3
    <3>4. file' = file /\ bucket' = bucket /\ spoiled' = spoiled
      BY <2>7 DEF Load
    <3> HIDE DEF p, Fine
    <3>5. TypeOK' /\ CommandInv'
      BY <2>1, <2>4, <3>1, <3>2, <3>3, <3>4
    <3>6. proc'[t] = p /\ \A o \in Terminals : o # t => proc'[o] = proc[o]
      BY <2>1, <3>2
    <3> QED BY <2>1, <2>5, <3>1, <3>4, <3>5, <3>6
  <2>8. ASSUME proc' = [proc EXCEPT ![t] = Idle], spoiled' \/ ~spoiled,
               file' \in Seq(Entry), made' = made, spoiled' \in BOOLEAN,
               bucket' \in [Aliases -> Seq(Values)]
        PROVE  TypeOK' /\ CommandInv' /\ OneWriter'
    <3>1. proc'[t].pc # "writing" /\ \A o \in Terminals : o # t => proc'[o] = proc[o]
      BY <2>1, <2>8 DEF Idle
    <3> HIDE DEF Fine, Procs
    <3> QED BY <2>1, <2>3, <2>4, <2>5, <2>8, <3>1
  <2>9. CASE NoMatch(t)
    BY <2>1, <2>8, <2>9 DEF NoMatch
  <2>10. CASE Die(t)
    <3>1. spoiled' \in BOOLEAN /\ bucket' \in [Aliases -> Seq(Values)]
          /\ (spoiled' \/ ~spoiled)
      BY <2>1, <2>6, <2>10 DEF Die, Judge
    <3> QED BY <2>1, <2>8, <2>10, <3>1 DEF Die
  <2>11. CASE Truncate(t)
    <3> DEFINE p == [proc[t] EXCEPT !.pc = "writing"]
    <3>1. p \in Procs /\ Fine(p)
      <4>1. proc[t].pc = "loaded" /\ (proc[t].change.op = "delete" =>
                                        IndexesOf(proc[t].copy, proc[t].change.match) # {})
        BY <2>11 DEF Truncate
      <4>2. p \in Procs /\ p.pc = "writing" /\ p.change = proc[t].change /\ p.copy = proc[t].copy
        BY <2>1
      <4> HIDE DEF p, Procs
      <4> QED BY <2>2, <4>1, <4>2
    <3>2. proc' = [proc EXCEPT ![t] = p] /\ file' = <<>> /\ made' = made
      BY <2>11 DEF Truncate
    <3>3. spoiled' \in BOOLEAN /\ bucket' \in [Aliases -> Seq(Values)]
      BY <2>1, <2>6, <2>11 DEF Truncate, Judge
    <3> HIDE DEF p, Fine
    <3>4. TypeOK' /\ CommandInv'
      BY <2>1, <2>4, <3>1, <3>2, <3>3, EmptySeq
    <3>5. ~spoiled' => \A o \in Terminals : proc[o].pc # "writing"
      BY <2>11 DEF Truncate, Judge
    <3>6. \A o \in Terminals : o # t => proc'[o] = proc[o]
      BY <2>1, <3>2
    <3>7. OneWriter'
      BY <3>5, <3>6 DEF OneWriter, Writing
    <3> QED BY <3>4, <3>7
  <2>12. CASE Save(t)
    <3>1. /\ proc' = [proc EXCEPT ![t] = Idle] /\ made' = made /\ spoiled' = spoiled
          /\ file' = Changed(proc[t].change, proc[t].copy)
          /\ proc[t].pc = "writing"
          /\ bucket' = IF spoiled THEN bucket
                       ELSE [a \in Aliases |-> Kept(proc[t].change, proc[t].copy, a)]
      BY <2>12 DEF Save
    <3>2. Begun(proc[t].change) /\ proc[t].change \in Command /\ proc[t].copy \in Seq(Entry)
          /\ (proc[t].change.op = "delete" =>
                IndexesOf(proc[t].copy, proc[t].change.match) # {})
      BY <2>1, <2>2, <3>1 DEF Begun
    <3>3. file' \in Seq(Entry)
      BY <3>1, <3>2, ChangedIs
    <3>4. bucket' \in [Aliases -> Seq(Values)]
      <4>1. CASE spoiled
        BY <2>1, <3>1, <4>1
      <4>2. CASE ~spoiled
        <5>1. t \in Writing /\ \A o \in Writing : o = t
          BY <3>1, <4>2 DEF IInv, OneWriter, Writing
        <5>2. OnRecord = proc[t].copy
          BY <5>1, TheirRecord
        <5>3. \A a \in Aliases : bucket[a] = ValuesOf(proc[t].copy, a)
          BY <4>2, <5>2 DEF IInv, NothingLost
        <5>4. \A a \in Aliases : Kept(proc[t].change, proc[t].copy, a)
                                   = ValuesOf(Changed(proc[t].change, proc[t].copy), a)
          BY <3>2, <5>3, ChangedIs
        <5>5. \A a \in Aliases : Kept(proc[t].change, proc[t].copy, a) \in Seq(Values)
          BY <3>2, <5>4, ChangedIs, ValuesType
        <5> QED BY <3>1, <4>2, <5>5
      <4> QED BY <4>1, <4>2
    <3> HIDE DEF Fine, Procs
    <3> QED BY <2>1, <2>8, <3>1, <3>3, <3>4
  <2> QED BY <2>7, <2>9, <2>10, <2>11, <2>12
<1> QED BY <1>1, <1>2

(* As long as the file is not spoiled, the keys on record are those that the *)
(* finished commands gave each alias.                                        *)
LEMMA RecordKept ==
  ASSUME IInv, [Next]_vars
  PROVE  NothingLost'
<1> SUFFICES ASSUME ~spoiled', NEW a \in Aliases
             PROVE  ValuesOf(OnRecord', a) = bucket'[a]
  BY DEF NothingLost
<1>1. ~spoiled /\ \/ OnRecord' = OnRecord /\ bucket' = bucket
                  \/ \E t \in Terminals : Saves(t)
  BY RecordStep
<1>2. \A b \in Aliases : ValuesOf(OnRecord, b) = bucket[b]
  BY <1>1 DEF IInv, NothingLost
<1>3. CASE OnRecord' = OnRecord /\ bucket' = bucket
  BY <1>2, <1>3
<1>4. ASSUME NEW t \in Terminals, Saves(t)
      PROVE  ValuesOf(OnRecord', a) = bucket'[a]
  <2>1. proc[t].change \in Command /\ proc[t].copy \in Seq(Entry)
    BY CommandType DEF IInv
  <2>2. bucket[a] = ValuesOf(proc[t].copy, a)
    BY <1>2, <1>4 DEF Saves
  <2>3. bucket'[a] = Kept(proc[t].change, proc[t].copy, a)
    BY <1>1, <1>4 DEF Saves, Save
  <2>4. Kept(proc[t].change, proc[t].copy, a)
          = ValuesOf(Changed(proc[t].change, proc[t].copy), a)
    BY <1>4, <2>1, <2>2, ChangedIs DEF Saves
  <2> QED BY <1>4, <2>3, <2>4 DEF Saves
<1> QED BY <1>1, <1>3, <1>4

(* The key an alias signs with, when its command is none that may change it. *)
LEMMA SigningStep ==
  ASSUME IInv, [Next]_vars, NEW a \in Aliases, ~spoiled',
         KeyForAlias(OnRecord, a) # NoKey, KeyForAlias(OnRecord', a) # KeyForAlias(OnRecord, a)
  PROVE  \E t \in Writing :
           \/ a \in proc[t].change.match
           \/ /\ proc[t].change.op = "store"
              /\ \E i \in 1..Len(proc[t].change.entries) : proc[t].change.entries[i].alias = a
<1>1. PICK t \in Terminals : ~spoiled /\ Saves(t)
  BY RecordStep
<1> DEFINE c == proc[t].change
           keys == proc[t].copy
           v == ValuesOf(keys, a)
           w == ValuesOf(c.entries, a)
           new == Changed(c, keys)
<1>2. c \in Command /\ keys \in Seq(Entry) /\ c.entries \in Seq(Entry)
      /\ c.op \in {"add", "store", "delete"} /\ (c.op = "store" => Distinct(c.entries))
      /\ (c.op = "delete" => IndexesOf(keys, c.match) # {}) /\ Begun(c)
  BY <1>1, CommandType DEF IInv, Saves, Begun, Command
<1>3. KeyForAlias(keys, a) # NoKey /\ KeyForAlias(new, a) # KeyForAlias(keys, a)
  BY <1>1 DEF Saves
<1>4. t \in Writing
  BY <1>1 DEF Saves, Writing
<1> HIDE DEF c, keys
<1>5. new \in Seq(Entry)
  BY <1>2, ChangedIs
<1>6. v # <<>> /\ v \in Seq(Values) /\ w \in Seq(Values) /\ Len(v) \in Nat \ {0}
  <2>1. v # <<>>
    BY <1>2, <1>3, SigningKey
  <2> QED BY <1>2, <2>1, ValuesType, EmptySeq
<1>7. ~(ValuesOf(new, a) # <<>> /\ ValuesOf(new, a)[1] = v[1])
  BY <1>2, <1>3, <1>5, <1>6, SigningKey
<1>8. CASE c.op = "add"
  <2>1. ValuesOf(new, a) = v \o w
    BY <1>2, <1>8, ValuesConcat DEF Changed, Add
  <2> HIDE DEF v, w
  <2>2. v \o w # <<>> /\ (v \o w)[1] = v[1]
    <3>1. /\ v \o w \in Seq(Values) /\ Len(v \o w) = Len(v) + Len(w)
          /\ \A i \in 1..Len(v) + Len(w) : (v \o w)[i] = IF i <= Len(v) THEN v[i]
                                                     ELSE w[i - Len(v)]
      BY <1>6, ConcatProperties
    <3>2. Len(w) \in Nat
      BY <1>6, LenProperties
    <3>3. Len(v \o w) # 0 /\ (v \o w)[1] = v[1]
      BY <1>6, <3>1, <3>2
    <3> QED BY <3>3, EmptySeq
  <2> QED BY <1>7, <2>1, <2>2
<1>9. CASE c.op = "store"
  <2>1. CASE \A i \in 1..Len(c.entries) : c.entries[i].alias # a
    <3>1. w = <<>>
      BY <1>2, <2>1, ValuesNone
    <3>2. ValuesOf(Store(keys, c.entries), a) =
            IF v = <<>> \/ w = <<>> THEN v \o w ELSE w \o Tail(v)
      BY <1>2, <1>9, StoreKeeps
    <3>3. v \o <<>> = v
      BY <1>6, ConcatEmptySeq
    <3>4. new = Store(keys, c.entries)
      BY <1>9 DEF Changed
    <3> HIDE DEF v, w
    <3> QED BY <1>6, <1>7, <3>1, <3>2, <3>3, <3>4
  <2> QED BY <1>4, <1>9, <2>1 DEF c
<1>10. CASE c.op = "delete"
  <2>1. CASE a \notin c.match
    <3>1. keys[First(IndexesOf(keys, c.match))].alias \in c.match
      BY <1>2, <1>10, FirstIndex
    <3>2. ValuesOf(Delete(keys, c.match), a) = v
      BY <1>2, <1>10, <2>1, <3>1, DeleteKeeps
    <3>3. new = Delete(keys, c.match)
      BY <1>10 DEF Changed
    <3> QED BY <1>6, <1>7, <3>2, <3>3
  <2> QED BY <1>4, <2>1 DEF c
<1> QED BY <1>2, <1>8, <1>9, <1>10
-----------------------------------------------------------------------------
(* The inductive invariant: no key is on record at first, and no alias has   *)
(* one; what a command saves is what its change means for each alias.        *)
THEOREM Invariance == Spec => []IInv
<1>1. Init => IInv
  <2> SUFFICES ASSUME Init
               PROVE  IInv
    OBVIOUS
  <2>1. TypeOK
    <3>1. <<>> \in Seq(Entry) /\ <<>> \in Seq(Values) /\ MaxKeys \in Nat
      BY EmptySeq, KeysAssumption
    <3>2. NoCommand \in [op : {"none", "add", "store", "delete"}, entries : Seq(Entry),
                          match : SUBSET Aliases]
      BY <3>1 DEF NoCommand
    <3>3. Idle \in [pc : {"idle", "loaded", "writing"},
                     change : [op : {"none", "add", "store", "delete"},
                               entries : Seq(Entry), match : SUBSET Aliases],
                     copy : Seq(Entry)]
      BY <3>1, <3>2 DEF Idle
    <3>4. /\ file = <<>> /\ made = 0 /\ spoiled = FALSE
          /\ proc = [t \in Terminals |-> Idle] /\ bucket = [a \in Aliases |-> <<>>]
      BY DEF Init
    <3>5. bucket \in [Aliases -> Seq(Values)]
      BY <3>1, <3>4
    <3>6. proc \in [Terminals -> [pc : {"idle", "loaded", "writing"},
                     change : [op : {"none", "add", "store", "delete"},
                               entries : Seq(Entry), match : SUBSET Aliases],
                     copy : Seq(Entry)]]
      BY <3>3, <3>4
    <3>7. made \in 0..MaxKeys /\ spoiled \in BOOLEAN
      <4>1. 0 \in 0..MaxKeys
        BY <3>1
      <4> QED BY <3>4, <4>1, Zenon
    <3>8. file \in Seq(Entry)
      BY <3>1, <3>4, Zenon
    <3> QED BY <3>5, <3>6, <3>7, <3>8, Zenon DEF TypeOK
  <2>2. \A t \in Terminals : proc[t].pc = "idle"
    BY DEF Init, Idle
  <2>3. Writing = {}
    BY <2>2 DEF Writing
  <2>4. OnRecord = <<>>
    BY <2>3 DEF OnRecord, Init
  <2>5. NothingLost
    BY <2>4, ValuesEmpty DEF Init, NothingLost
  <2> QED BY <2>1, <2>2, <2>3, <2>5 DEF IInv, CommandInv, OneWriter
<1>2. IInv /\ [Next]_vars => IInv'
  BY CommandStep, RecordKept DEF IInv
<1> QED BY <1>1, <1>2, PTL DEF Spec

(* Variables have values of their types: what is read, changed and written   *)
(* is a sequence of keys.                                                    *)
THEOREM TypeCorrect == Spec => []TypeOK
<1>1. IInv => TypeOK
  BY DEF IInv
<1> QED BY <1>1, Invariance, PTL

(* Each alias has the keys that finished commands gave it, however commands  *)
(* of several terminals interleave, as long as none of them wrote a stale    *)
(* copy or died in its write.                                                *)
THEOREM KeysKept == Spec => []NothingLost
<1>1. IInv => NothingLost
  BY DEF IInv
<1> QED BY <1>1, Invariance, PTL

(* Only store, import-ganache and delete of an alias change the key that it  *)
(* signs with.                                                               *)
THEOREM SigningKeyStays == Spec => SigningKeyKept
<1> DEFINE A == \A a \in Aliases :
       LET before == KeyForAlias(OnRecord, a)
       IN  ~spoiled' /\ before # NoKey /\ KeyForAlias(OnRecord', a) # before
           => \E t \in Writing :
                \/ a \in proc[t].change.match
                \/ /\ proc[t].change.op = "store"
                   /\ \E i \in 1..Len(proc[t].change.entries) :
                        proc[t].change.entries[i].alias = a
<1>1. IInv /\ [Next]_vars => [A]_vars
  BY SigningStep
<1>2. Spec => [][A]_vars
  <2> HIDE DEF A
  <2> QED BY <1>1, Invariance, PTL DEF Spec
<1> QED BY <1>2 DEF SigningKeyKept
=============================================================================
