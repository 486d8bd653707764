----------------------------- MODULE ListLemmas -----------------------------
(***************************************************************************)
(* Sequences as lists of distinct items: what an append, a pop and an      *)
(* unlink do to the set of items, to their distinctness and to the last.   *)
(***************************************************************************)
EXTENDS Integers, Sequences, SequencesExt, TLAPS

\* Appending adds the item to the set, and repeats none when it is new.
LEMMA AppendNew ==
  ASSUME NEW S, NEW s \in Seq(S), NEW t \in S
  PROVE  /\ Append(s, t) \in Seq(S)
         /\ ToSet(Append(s, t)) = ToSet(s) \cup {t}
         /\ IsInjective(s) /\ t \notin ToSet(s) => IsInjective(Append(s, t))
         /\ Append(s, t) # <<>>
         /\ Last(Append(s, t)) = t
  BY DEF ToSet, IsInjective, Last

\* Popping takes exactly the head out of a list without repeats.
LEMMA PopHead ==
  ASSUME NEW S, NEW s \in Seq(S), s # <<>>
  PROVE  /\ Head(s) \in S
         /\ Tail(s) \in Seq(S)
         /\ ToSet(s) = {Head(s)} \cup ToSet(Tail(s))
         /\ IsInjective(s) => IsInjective(Tail(s)) /\ Head(s) \notin ToSet(Tail(s))
         /\ Tail(s) # <<>> => Last(Tail(s)) = Last(s)
<1>1. /\ Len(s) \in Nat \ {0}
      /\ Len(Tail(s)) = Len(s) - 1
      /\ Tail(s) \in Seq(S)
      /\ Head(s) = s[1]
      /\ \A i \in 1..(Len(s) - 1) : Tail(s)[i] = s[i + 1]
  OBVIOUS
<1>2. Head(s) \in S
  BY <1>1
<1>3. ToSet(s) = {Head(s)} \cup ToSet(Tail(s))
  <2>1. ASSUME NEW x \in ToSet(s) PROVE x \in {Head(s)} \cup ToSet(Tail(s))
    <3>1. PICK i \in 1..Len(s) : x = s[i]
      BY DEF ToSet
    <3>2. CASE i = 1
      BY <1>1, <3>1, <3>2
    <3>3. CASE i # 1
      <4>1. i - 1 \in DOMAIN Tail(s) /\ Tail(s)[i - 1] = x
        BY <1>1, <3>1, <3>3
      <4>2. x \in ToSet(Tail(s))
        BY <4>1, Zenon DEF ToSet
      <4>3. QED
        BY <4>2
    <3>4. QED
      BY <3>2, <3>3
  <2>2. ASSUME NEW x \in {Head(s)} \cup ToSet(Tail(s)) PROVE x \in ToSet(s)
    <3>1. CASE x = Head(s)
      BY <1>1, <3>1 DEF ToSet
    <3>2. CASE x \in ToSet(Tail(s))
      <4>1. PICK j \in 1..(Len(s) - 1) : x = Tail(s)[j]
        BY <1>1, <3>2 DEF ToSet
      <4>2. j + 1 \in 1..Len(s) /\ x = s[j + 1]
        BY <1>1, <4>1
      <4>3. QED
        BY <4>2 DEF ToSet
    <3>3. QED
      BY <2>2, <3>1, <3>2
  <2>3. QED
    BY <2>1, <2>2
<1>4. IsInjective(s) => IsInjective(Tail(s)) /\ Head(s) \notin ToSet(Tail(s))
  BY <1>1 DEF ToSet, IsInjective
<1>5. Tail(s) # <<>> => Last(Tail(s)) = Last(s)
  BY <1>1 DEF Last
<1>6. QED
  BY <1>1, <1>2, <1>3, <1>4, <1>5

\* Unlinking moves the items behind the unlinked one up.
LEMMA RemoveAtItems ==
  ASSUME NEW S, NEW s \in Seq(S), NEW i \in 1..Len(s)
  PROVE  /\ RemoveAt(s, i) \in Seq(S)
         /\ Len(RemoveAt(s, i)) = Len(s) - 1
         /\ \A j \in 1..(Len(s) - 1) : RemoveAt(s, i)[j] = IF j < i THEN s[j] ELSE s[j + 1]
<1> DEFINE r == RemoveAt(s, i)
           a == SubSeq(s, 1, i - 1)
           b == SubSeq(s, i + 1, Len(s))
<1>1. /\ a \in Seq(S) /\ Len(a) = i - 1
      /\ \A j \in 1..(i - 1) : a[j] = s[j]
  OBVIOUS
<1>2. /\ b \in Seq(S) /\ Len(b) = Len(s) - i
      /\ \A j \in 1..(Len(s) - i) : b[j] = s[j + i]
  OBVIOUS
<1>3. r = a \o b
  BY DEF RemoveAt
<1> HIDE DEF r, a, b
<1>4. /\ r \in Seq(S) /\ Len(r) = Len(s) - 1
      /\ \A j \in 1..(Len(s) - 1) : r[j] = IF j < i THEN a[j] ELSE b[j - (i - 1)]
  BY <1>1, <1>2, <1>3
<1>5. /\ r \in Seq(S) /\ Len(r) = Len(s) - 1
      /\ \A j \in 1..(Len(s) - 1) : r[j] = IF j < i THEN s[j] ELSE s[j + 1]
  BY <1>1, <1>2, <1>4
<1>6. QED
  BY <1>5 DEF r

\* Unlinking takes exactly that item out of a list without repeats.
LEMMA UnlinkItem ==
  ASSUME NEW S, NEW s \in Seq(S), NEW i \in 1..Len(s), IsInjective(s)
  PROVE  /\ RemoveAt(s, i) \in Seq(S)
         /\ IsInjective(RemoveAt(s, i))
         /\ ToSet(RemoveAt(s, i)) = ToSet(s) \ {s[i]}
         /\ s[i] # Last(s) => RemoveAt(s, i) # <<>> /\ Last(RemoveAt(s, i)) = Last(s)
<1> DEFINE r == RemoveAt(s, i)
<1>1. /\ r \in Seq(S)
      /\ Len(r) = Len(s) - 1
      /\ \A j \in 1..(Len(s) - 1) : r[j] = IF j < i THEN s[j] ELSE s[j + 1]
  BY RemoveAtItems
<1> HIDE DEF r
<1>2. IsInjective(r)
  <2>1. SUFFICES ASSUME NEW a \in 1..(Len(s) - 1), NEW b \in 1..(Len(s) - 1), r[a] = r[b]
                 PROVE  a = b
    <3>1. DOMAIN r = 1..(Len(s) - 1)
      BY <1>1
    <3>2. QED
      BY <3>1 DEF IsInjective
  <2> DEFINE at(j) == IF j < i THEN j ELSE j + 1
  <2>2. at(a) \in DOMAIN s /\ at(b) \in DOMAIN s
    OBVIOUS
  <2>3. s[at(a)] = r[a] /\ s[at(b)] = r[b]
    BY <1>1
  <2>4. at(a) = at(b)
    BY <2>1, <2>2, <2>3 DEF IsInjective
  <2>5. QED
    BY <2>4
<1>3. ToSet(r) = ToSet(s) \ {s[i]}
  <2>1. ASSUME NEW x \in ToSet(r) PROVE x \in ToSet(s) \ {s[i]}
    <3>1. PICK j \in 1..(Len(s) - 1) : x = r[j]
      BY <1>1, <2>1 DEF ToSet
    <3>2. PICK k \in 1..Len(s) : x = s[k] /\ k # i
      BY <1>1, <3>1
    <3>3. QED
      BY <3>2 DEF ToSet, IsInjective
  <2>2. ASSUME NEW x \in ToSet(s) \ {s[i]} PROVE x \in ToSet(r)
    <3>1. PICK j \in 1..Len(s) : x = s[j] /\ j # i
      BY <2>2 DEF ToSet
    <3>2. CASE j < i
      <4>1. j \in 1..Len(r) /\ r[j] = x
        BY <1>1, <3>1, <3>2
      <4>2. QED
        BY <4>1 DEF ToSet
    <3>3. CASE j > i
      <4>1. j - 1 \in 1..Len(r) /\ r[j - 1] = x
        BY <1>1, <3>1, <3>3
      <4>2. QED
        BY <4>1 DEF ToSet
    <3>4. QED
      BY <3>1, <3>2, <3>3
  <2>3. QED
    BY <2>1, <2>2
<1>4. s[i] # Last(s) => r # <<>> /\ Last(r) = Last(s)
  BY <1>1 DEF Last
<1>5. QED
  BY <1>1, <1>2, <1>3, <1>4 DEF r

\* A list is its head and the rest.
LEMMA FrontOfRest ==
  ASSUME NEW S, NEW s \in Seq(S), s # <<>>
  PROVE  <<Head(s)>> \o Tail(s) = s
<1>1. /\ Len(s) \in Nat \ {0}
      /\ Tail(s) \in Seq(S) /\ Len(Tail(s)) = Len(s) - 1
      /\ Head(s) = s[1]
      /\ \A i \in 1..(Len(s) - 1) : Tail(s)[i] = s[i + 1]
  OBVIOUS
<1> DEFINE f == <<Head(s)>> \o Tail(s)
<1>2. f \in Seq(S) /\ Len(f) = Len(s) /\ \A i \in 1..Len(s) : f[i] = s[i]
  BY <1>1
<1> HIDE DEF f
<1>3. f = s
  BY <1>2
<1>4. QED
  BY <1>3 DEF f

\* Taking an item put in front off again leaves the list.
LEMMA TailOfFront ==
  ASSUME NEW S, NEW s \in Seq(S), NEW x \in S
  PROVE  /\ <<x>> \o s # <<>>
         /\ Head(<<x>> \o s) = x
         /\ Tail(<<x>> \o s) = s
         /\ <<>> \o s = s
<1> DEFINE f == <<x>> \o s
<1>1. f \in Seq(S) /\ Len(f) = Len(s) + 1 /\ f[1] = x /\ \A i \in 1..Len(s) : f[i + 1] = s[i]
  OBVIOUS
<1>2. <<>> \o s = s
  OBVIOUS
<1> HIDE DEF f
<1>3. f # <<>> /\ Head(f) = x
  BY <1>1
<1>4. Tail(f) \in Seq(S) /\ Len(Tail(f)) = Len(s) /\ \A i \in 1..Len(s) : Tail(f)[i] = s[i]
  BY <1>1
<1>5. Tail(f) = s
  BY <1>4
<1>6. QED
  BY <1>2, <1>3, <1>5 DEF f

\* Appending to the list appends behind whatever is in front of it.
LEMMA AppendBehind ==
  ASSUME NEW S, NEW a \in Seq(S), NEW s \in Seq(S), NEW x \in S
  PROVE  a \o Append(s, x) = Append(a \o s, x)
OBVIOUS

\* Unlinking from the list unlinks one place further behind an item in front.
LEMMA RemoveBehind ==
  ASSUME NEW S, NEW s \in Seq(S), NEW x \in S, NEW i \in 1..Len(s)
  PROVE  <<x>> \o RemoveAt(s, i) = RemoveAt(<<x>> \o s, i + 1)
<1> DEFINE r == RemoveAt(s, i)
           f == <<x>> \o s
           g == RemoveAt(f, i + 1)
           h == <<x>> \o r
<1>1. /\ r \in Seq(S) /\ Len(r) = Len(s) - 1
      /\ \A j \in 1..(Len(s) - 1) : r[j] = IF j < i THEN s[j] ELSE s[j + 1]
  BY RemoveAtItems
<1>2. f \in Seq(S) /\ Len(f) = Len(s) + 1 /\ f[1] = x /\ \A j \in 1..Len(s) : f[j + 1] = s[j]
  OBVIOUS
<1> HIDE DEF r, f
<1>3. /\ g \in Seq(S) /\ Len(g) = Len(s)
      /\ \A j \in 1..Len(s) : g[j] = IF j < i + 1 THEN f[j] ELSE f[j + 1]
  <2>1. i + 1 \in 1..Len(f) /\ Len(f) - 1 = Len(s)
    BY <1>2
  <2> HIDE DEF g
  <2>2. /\ g \in Seq(S) /\ Len(g) = Len(f) - 1
        /\ \A j \in 1..(Len(f) - 1) : g[j] = IF j < i + 1 THEN f[j] ELSE f[j + 1]
    BY <1>2, <2>1, RemoveAtItems DEF g
  <2>3. QED
    BY <2>1, <2>2
<1>4. /\ h \in Seq(S) /\ Len(h) = Len(s) /\ h[1] = x
      /\ \A j \in 1..(Len(s) - 1) : h[j + 1] = r[j]
  BY <1>1
<1> HIDE DEF g, h
<1>5. ASSUME NEW j \in 1..Len(s) PROVE g[j] = h[j]
  <2>1. CASE j = 1
    BY <1>2, <1>3, <1>4, <2>1
  <2>2. CASE j # 1
    <3>1. PICK k \in 1..(Len(s) - 1) : j = k + 1
      BY <2>2
    <3>2. h[j] = IF k < i THEN s[k] ELSE s[j]
      BY <1>1, <1>4, <3>1
    <3>3. f[j] = s[k] /\ f[j + 1] = s[j]
      BY <1>2, <3>1
    <3>4. g[j] = IF k < i THEN s[k] ELSE s[j]
      BY <1>3, <3>1, <3>3
    <3>5. QED
      BY <3>2, <3>4
  <2>3. QED
    BY <2>1, <2>2
<1>6. g = h
  <2>1. /\ g \in Seq(S) /\ h \in Seq(S) /\ Len(g) = Len(h)
        /\ \A j \in 1..Len(g) : g[j] = h[j]
    BY <1>3, <1>4, <1>5
  <2>2. QED
    BY <2>1
<1>7. QED
  BY <1>6 DEF r, f, g, h

=============================================================================
