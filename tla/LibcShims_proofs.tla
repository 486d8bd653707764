-------------------------- MODULE LibcShims_proofs --------------------------
(***************************************************************************)
(* Proofs about LibcShims, for strings, buffers, files and lists of any    *)
(* length: the C functions do what their manual pages say, the resolver    *)
(* and openscreen know the network as it is.  And for any ranges and any   *)
(* size of the table, of none even: what a child of a program over the     *)
(* emulated MADV_WIPEONFORK keeps and what it does not.                    *)
(***************************************************************************)
EXTENDS LibcShims, WellFoundedInduction, FiniteSetTheorems, TLAPS

(***************************************************************************)
(* The least and the greatest of a set of numbers: where a loop stops, and *)
(* the first place where two things differ.                                *)
(***************************************************************************)

LEMMA MinIs ==
  ASSUME NEW S \in SUBSET Nat, S # {}
  PROVE  Min(S) \in S /\ \A k \in S : Min(S) <= k
<1>1. PICK m \in S : \A k \in S : ~(<<k, m>> \in OpToRel(<, Nat))
  BY NatLessThanWellFounded, WFMin
<1>2. \A k \in S : ~(k < m)
  BY <1>1 DEF OpToRel
<1>3. \A k \in S : m <= k
  BY <1>2
<1> QED
  BY <1>3 DEF Min

LEMMA MinOf ==
  ASSUME NEW S \in SUBSET Nat, NEW m \in S, \A k \in S : m <= k
  PROVE  Min(S) = m
<1>1. Min(S) \in S /\ \A k \in S : Min(S) <= k
  BY MinIs
<1>2. Min(S) \in Nat /\ m \in Nat
  BY <1>1
<1>3. Min(S) <= m /\ m <= Min(S)
  BY <1>1
<1> QED
  BY <1>2, <1>3

LEMMA MaxIs ==
  ASSUME NEW S \in SUBSET Nat, S # {}, NEW n \in Nat, \A k \in S : k <= n
  PROVE  \E m \in S : \A k \in S : k <= m
<1> DEFINE R == {n - k : k \in S}
<1>1. R \in SUBSET Nat /\ R # {}
  <2>1. \A k \in S : n - k \in Nat
    OBVIOUS
  <2> QED
    BY <2>1, Zenon
<1>2. Min(R) \in R /\ \A r \in R : Min(R) <= r
  BY <1>1, MinIs
<1>3. PICK m \in S : Min(R) = n - m
  BY <1>2
<1>4. ASSUME NEW k \in S PROVE k <= m
  <2>1. n - m <= n - k
    BY <1>2, <1>3
  <2>2. m \in Nat /\ k \in Nat
    OBVIOUS
  <2> QED
    BY <2>1, <2>2
<1> QED
  BY <1>4

LEMMA MaxOf ==
  ASSUME NEW S \in SUBSET Nat, NEW m \in S, \A k \in S : k <= m
  PROVE  Max(S) = m
<1>1. \A k \in S : k >= m => k = m
  OBVIOUS
<1> QED
  BY <1>1 DEF Max

(***************************************************************************)
(* Places in a sequence: the r-th of a set of them, the last of them       *)
(***************************************************************************)

\* The places up to i.
Before(P, i) == {j \in P : j <= i}

LEMMA RankIs ==
  ASSUME NEW P \in SUBSET Nat, IsFiniteSet(P), NEW x \in P
  PROVE  /\ Rank(P, x) \in 1..Cardinality(P)
         /\ \A y \in P : x < y => Rank(P, x) < Rank(P, y)
<1> DEFINE B(i) == {j \in P : j <= i}
<1>1. ASSUME NEW i PROVE IsFiniteSet(B(i)) /\ Cardinality(B(i)) \in Nat /\ Cardinality(B(i)) <= Cardinality(P)
  <2>1. B(i) \in SUBSET P
    OBVIOUS
  <2> HIDE DEF B
  <2> QED
    BY <2>1, FS_Subset, FS_CardinalityType
<1>2. Cardinality(P) \in Nat
  BY FS_CardinalityType
<1>3. x \in B(x)
  OBVIOUS
<1>4. Cardinality(B(x)) # 0
  <2> HIDE DEF B
  <2> QED
    BY <1>1, <1>3, FS_EmptySet
<1>5. ASSUME NEW y \in P, x < y PROVE Cardinality(B(x)) < Cardinality(B(y))
  <2>1. B(x) \in SUBSET B(y)
    <3>1. x \in Nat /\ y \in Nat
      OBVIOUS
    <3>2. \A j \in P : j <= x => j <= y
      BY <1>5, <3>1
    <3> QED
      BY <3>2
  <2>2. y \in B(y) /\ y \notin B(x)
    BY <1>5
  <2> HIDE DEF B
  <2>3. Cardinality(B(x)) <= Cardinality(B(y)) /\ (Cardinality(B(y)) = Cardinality(B(x)) => B(y) = B(x))
    BY <1>1, <2>1, FS_Subset
  <2>4. Cardinality(B(y)) # Cardinality(B(x))
    BY <2>2, <2>3
  <2> QED
    BY <1>1, <2>3, <2>4
<1>6. \A i : Rank(P, i) = Cardinality(B(i))
  BY DEF Rank
<1> HIDE DEF B
<1> QED
  BY <1>1, <1>2, <1>4, <1>5, <1>6

\* The place of a rank is the only one.
LEMMA NthOfRank ==
  ASSUME NEW P \in SUBSET Nat, IsFiniteSet(P), NEW x \in P
  PROVE  Nth(P, Rank(P, x)) = x
<1> DEFINE S == {i \in P : Rank(P, i) = Rank(P, x)}
<1>1. \A i \in P : Rank(P, i) \in Nat
  BY RankIs
<1>2. ASSUME NEW i \in S PROVE i = x
  <2>1. i \in P /\ Rank(P, i) = Rank(P, x)
    OBVIOUS
  <2>2. ~(i < x) /\ ~(x < i)
    BY <1>1, <2>1, RankIs
  <2> QED
    BY <2>1, <2>2
<1>3. x \in S /\ S \in SUBSET Nat
  OBVIOUS
<1>4. Nth(P, Rank(P, x)) = Min(S)
  BY DEF Nth
<1>5. \A i \in S : x <= i
  BY <1>2
<1> HIDE DEF S
<1> QED
  BY <1>3, <1>4, <1>5, MinOf

\* One place more, behind the others.
LEMMA NthOfMore ==
  ASSUME NEW P \in SUBSET Nat, IsFiniteSet(P), NEW i \in Nat, \A j \in P : j < i
  PROVE  LET Q == P \cup {i}
         IN /\ IsFiniteSet(Q) /\ Cardinality(Q) = Cardinality(P) + 1
            /\ \A r \in 1..Cardinality(P) : Nth(Q, r) = Nth(P, r)
            /\ Nth(Q, Cardinality(P) + 1) = i
<1> DEFINE Q == P \cup {i}
<1>1. i \notin P
  OBVIOUS
<1>2. IsFiniteSet(Q) /\ Cardinality(Q) = Cardinality(P) + 1 /\ Cardinality(P) \in Nat
  BY <1>1, FS_AddElement, FS_CardinalityType
<1>3. Q \in SUBSET Nat
  OBVIOUS
<1>4. ASSUME NEW x \in P PROVE Rank(Q, x) = Rank(P, x)
  <2>1. {j \in Q : j <= x} = {j \in P : j <= x}
    OBVIOUS
  <2> QED
    BY <2>1 DEF Rank
<1>5. Rank(Q, i) = Cardinality(P) + 1
  <2>1. {j \in Q : j <= i} = Q
    <3>1. \A j \in P : j <= i
      OBVIOUS
    <3>2. i <= i
      OBVIOUS
    <3> QED
      BY <3>1, <3>2
  <2> QED
    BY <1>2, <2>1 DEF Rank
<1>6. ASSUME NEW r \in 1..Cardinality(P) PROVE Nth(Q, r) = Nth(P, r)
  <2>1. {x \in Q : Rank(Q, x) = r} = {x \in P : Rank(P, x) = r}
    <3>1. Rank(Q, i) # r
      BY <1>2, <1>5
    <3> QED
      BY <1>4, <3>1
  <2> QED
    BY <2>1 DEF Nth
<1>7. Nth(Q, Cardinality(P) + 1) = i
  <2>1. i \in Q
    OBVIOUS
  <2> HIDE DEF Q
  <2> QED
    BY <1>2, <1>3, <1>5, <2>1, NthOfRank
<1> QED
  BY <1>2, <1>6, <1>7

LEMMA BeforeIs ==
  ASSUME NEW n \in Nat, NEW P \in SUBSET (1..n)
  PROVE  /\ Before(P, 0) = {} /\ Before(P, n) = P
         /\ \A i \in 0..n : Before(P, i) \in SUBSET Nat /\ IsFiniteSet(Before(P, i))
         /\ \A i \in 1..n : /\ \A j \in Before(P, i - 1) : j < i
                            /\ Before(P, i) = IF i \in P THEN Before(P, i - 1) \cup {i} ELSE Before(P, i - 1)
<1>1. Before(P, 0) = {} /\ Before(P, n) = P
  <2>1. \A j \in P : j \in Nat /\ ~(j <= 0) /\ j <= n
    OBVIOUS
  <2> QED
    BY <2>1 DEF Before
<1>2. ASSUME NEW i \in 0..n PROVE Before(P, i) \in SUBSET Nat /\ IsFiniteSet(Before(P, i))
  <2>1. Before(P, i) \in SUBSET (1..n)
    BY DEF Before
  <2>2. IsFiniteSet(1..n)
    BY FS_Interval
  <2>3. IsFiniteSet(Before(P, i))
    BY <2>1, <2>2, FS_Subset
  <2> QED
    BY <2>1, <2>3
<1>3. ASSUME NEW i \in 1..n
      PROVE  /\ \A j \in Before(P, i - 1) : j < i
             /\ Before(P, i) = IF i \in P THEN Before(P, i - 1) \cup {i} ELSE Before(P, i - 1)
  <2>1. \A j \in P : j <= i <=> j <= i - 1 \/ j = i
    OBVIOUS
  <2>2. \A j \in P : j <= i - 1 => j < i
    OBVIOUS
  <2>3. CASE i \in P
    BY <2>1, <2>2, <2>3 DEF Before
  <2>4. CASE i \notin P
    BY <2>1, <2>2, <2>4 DEF Before
  <2> QED
    BY <2>3, <2>4
<1> QED
  BY <1>1, <1>2, <1>3

\* There is a place of every rank.
LEMMA NthIs ==
  ASSUME NEW n \in Nat, NEW P \in SUBSET (1..n), NEW i \in 0..n, NEW r \in 1..Cardinality(Before(P, i))
  PROVE  Nth(Before(P, i), r) \in Before(P, i)
<1> DEFINE Ok(k) == \A s \in 1..Cardinality(Before(P, k)) : Nth(Before(P, k), s) \in Before(P, k)
           Bad == {k \in 0..n : ~Ok(k)}
<1>1. SUFFICES Bad = {}
  OBVIOUS
<1>2. SUFFICES ASSUME Bad # {} PROVE FALSE
  OBVIOUS
<1>3. PICK k \in Bad : \A j \in Bad : k <= j
  <2>1. Bad \in SUBSET Nat
    OBVIOUS
  <2> HIDE DEF Bad
  <2> QED
    BY <1>2, <2>1, MinIs
<1>4. k \in 0..n /\ ~Ok(k)
  OBVIOUS
<1>5. CASE k = 0
  <2>1. Cardinality(Before(P, 0)) = 0
    BY BeforeIs, FS_EmptySet
  <2>2. Ok(0)
    BY <2>1
  <2> HIDE DEF Ok
  <2> QED
    BY <1>4, <1>5, <2>2
<1>6. CASE k # 0
  <2>1. k \in 1..n /\ k - 1 \in 0..n /\ ~(k <= k - 1)
    BY <1>4, <1>6
  <2>2. Ok(k - 1)
    <3>1. k - 1 \notin Bad
      <4> HIDE DEF Bad
      <4> QED
        BY <1>3, <2>1
    <3> QED
      BY <2>1, <3>1
  <2> DEFINE A == Before(P, k - 1)
             B == Before(P, k)
  <2>3. A \in SUBSET Nat /\ IsFiniteSet(A)
    <3>1. \A j \in 0..n : Before(P, j) \in SUBSET Nat /\ IsFiniteSet(Before(P, j))
      BY BeforeIs
    <3> QED
      BY <2>1, <3>1, Zenon
  <2>9. \A j \in A : j < k
    <3>1. \A j \in P : j \in Nat
      OBVIOUS
    <3> QED
      BY <2>1, <3>1 DEF Before
  <2>4. B = A \/ B = A \cup {k}
    <3>1. \A j \in P : j \in Nat
      OBVIOUS
    <3>2. \A j \in P : j <= k <=> j <= k - 1 \/ j = k
      BY <2>1, <3>1
    <3>3. CASE k \in P
      BY <3>2, <3>3 DEF Before
    <3>4. CASE k \notin P
      BY <3>2, <3>4 DEF Before
    <3> QED
      BY <3>3, <3>4
  <2>5. Ok(k - 1) <=> \A s \in 1..Cardinality(A) : Nth(A, s) \in A
    OBVIOUS
  <2>6. Ok(k) <=> \A s \in 1..Cardinality(B) : Nth(B, s) \in B
    OBVIOUS
  <2> HIDE DEF Ok, A, B
  <2>7. CASE B = A
    BY <1>4, <2>2, <2>5, <2>6, <2>7
  <2>8. CASE B = A \cup {k}
    <3>3. k \in Nat
      BY <2>1
    <3>1. /\ Cardinality(A) \in Nat /\ Cardinality(B) = Cardinality(A) + 1
          /\ \A s \in 1..Cardinality(A) : Nth(B, s) = Nth(A, s)
          /\ Nth(B, Cardinality(A) + 1) = k
      BY <2>3, <2>8, <2>9, <3>3, NthOfMore, FS_CardinalityType
    <3>2. ASSUME NEW s \in 1..Cardinality(B) PROVE Nth(B, s) \in B
      <4>1. CASE s = Cardinality(A) + 1
        BY <2>8, <3>1, <4>1
      <4>2. CASE s # Cardinality(A) + 1
        <5>1. s \in 1..Cardinality(A)
          BY <3>1, <4>2
        <5> QED
          BY <2>2, <2>5, <2>8, <3>1, <5>1
      <4> QED
        BY <4>1, <4>2
    <3> QED
      BY <1>4, <2>6, <3>2
  <2> QED
    BY <2>4, <2>7, <2>8
<1> QED
  BY <1>5, <1>6

\* The value at the last of the places up to i.
LastBefore(lines, P, i, field, default) ==
  IF Before(P, i) = {} THEN default ELSE lines[Max(Before(P, i))][field]

LEMMA LastBeforeNext ==
  ASSUME NEW lines, NEW i \in Nat, NEW P \in SUBSET Nat, NEW field, NEW default
  PROVE  LastBefore(lines, P, i, field, default) =
           IF i \in P THEN lines[i][field] ELSE LastBefore(lines, P, i - 1, field, default)
<1>0. \A j \in P : j \in Nat
  OBVIOUS
<1>1. CASE i \in P
  <2>1. i \in Before(P, i) /\ Before(P, i) \in SUBSET Nat /\ \A k \in Before(P, i) : k <= i
    <3>1. i <= i
      OBVIOUS
    <3> QED
      BY <1>0, <1>1, <3>1 DEF Before
  <2>2. Max(Before(P, i)) = i
    BY <2>1, MaxOf
  <2> QED
    BY <1>1, <2>1, <2>2 DEF LastBefore
<1>2. CASE i \notin P
  <2>1. \A j \in P : j <= i <=> j <= i - 1
    BY <1>0, <1>2
  <2>2. Before(P, i) = Before(P, i - 1)
    BY <2>1 DEF Before
  <2> QED
    BY <1>2, <2>2 DEF LastBefore
<1> QED
  BY <1>1, <1>2

(***************************************************************************)
(* The resolver                                                            *)
(***************************************************************************)

LEMMA ReadLinesAre ==
  ASSUME NEW lines, NEW room, Len(lines) \in Nat, NEW g,
         g = [i \in 0..Len(lines) |-> IF i = 0 THEN Defaults ELSE ReadLine(g[i - 1], lines[i], room)]
  PROVE  ReadLines(lines, room) = g
<1> DEFINE conf == ReadLines(lines, room)
           Differ == {i \in 0..Len(lines) : conf[i] # g[i]}
<1>1. conf = [i \in 0..Len(lines) |-> IF i = 0 THEN Defaults ELSE ReadLine(conf[i - 1], lines[i], room)]
  BY DEF ReadLines
<1> HIDE DEF conf
<1>2. Differ = {}
  <2>1. SUFFICES ASSUME Differ # {} PROVE FALSE
    OBVIOUS
  <2>2. PICK k \in Differ : \A j \in Differ : k <= j
    <3>1. Differ \in SUBSET Nat
      OBVIOUS
    <3> HIDE DEF Differ
    <3> QED
      BY <2>1, <3>1, MinIs
  <2>3. k \in 0..Len(lines) /\ conf[k] # g[k]
    OBVIOUS
  <2>4. k # 0
    BY <1>1, <2>3
  <2>5. k - 1 \in 0..Len(lines) /\ k - 1 \notin Differ
    <3>1. k - 1 \in 0..Len(lines) /\ ~(k <= k - 1)
      BY <2>3, <2>4
    <3> HIDE DEF Differ
    <3> QED
      BY <2>2, <3>1
  <2>6. conf[k - 1] = g[k - 1]
    BY <2>5
  <2>7. conf[k] = ReadLine(conf[k - 1], lines[k], room)
    BY <1>1, <2>3, <2>4
  <2>8. g[k] = ReadLine(g[k - 1], lines[k], room)
    BY <2>3, <2>4
  <2> QED
    BY <2>3, <2>6, <2>7, <2>8
<1>3. \A i \in 0..Len(lines) : conf[i] = g[i]
  BY <1>2
<1> QED
  BY <1>1, <1>3 DEF conf

LEMMA ReadOptionsOf ==
  ASSUME NEW ns, NEW ndots, NEW timeout, NEW attempts, NEW search, NEW line
  PROVE  ReadOptions([ns |-> ns, ndots |-> ndots, timeout |-> timeout, attempts |-> attempts,
                      search |-> search], line) =
           [ns |-> ns, ndots |-> Capped(line.ndots, 15, ndots), timeout |-> Capped(line.timeout, 60, timeout),
            attempts |-> Capped(line.attempts, 10, attempts), search |-> search]
<1> DEFINE conf == [ns |-> ns, ndots |-> ndots, timeout |-> timeout, attempts |-> attempts, search |-> search]
           x == Capped(line.ndots, 15, ndots)
           y == Capped(line.attempts, 10, attempts)
           z == Capped(line.timeout, 60, timeout)
           first == [conf EXCEPT !.ndots = x]
           second == [first EXCEPT !.attempts = y]
           third == [second EXCEPT !.timeout = z]
<1>1. ReadOptions(conf, line) = [conf EXCEPT !.ndots = x, !.attempts = y, !.timeout = z]
  BY DEF ReadOptions
<1> HIDE DEF x, y, z
<1>2. [conf EXCEPT !.ndots = x, !.attempts = y, !.timeout = z] = third
  OBVIOUS
<1>3. first = [ns |-> ns, ndots |-> x, timeout |-> timeout, attempts |-> attempts, search |-> search]
  OBVIOUS
<1> HIDE DEF first
<1>4. second = [ns |-> ns, ndots |-> x, timeout |-> timeout, attempts |-> y, search |-> search]
  BY <1>3
<1> HIDE DEF second
<1>5. third = [ns |-> ns, ndots |-> x, timeout |-> z, attempts |-> y, search |-> search]
  BY <1>4
<1> QED
  BY <1>1, <1>2, <1>5 DEF x, y, z

LEMMA ReadLinesKnows ==
  ASSUME NEW lines, NEW room, Len(lines) \in Nat, DOMAIN lines = 1..Len(lines)
  PROVE  LET servers == Given(lines, "nameserver", "address")
         IN ReadLines(lines, room)[Len(lines)] =
              [ns |-> [r \in 1..AtMost(Cardinality(servers), MAXNS) |-> lines[Nth(servers, r)].address],
               ndots |-> AtMost(Option(lines, "ndots", 1), 15),
               timeout |-> AtMost(Option(lines, "timeout", 5), 60),
               attempts |-> AtMost(Option(lines, "attempts", 2), 10),
               search |-> LastOf(lines, Fitting(lines, room), "list", NULL)]
<1> DEFINE n == Len(lines)
           servers == Given(lines, "nameserver", "address")
           ndots == Given(lines, "options", "ndots")
           timeout == Given(lines, "options", "timeout")
           attempts == Given(lines, "options", "attempts")
           search == Fitting(lines, room)
           Ns(i) == [r \in 1..AtMost(Cardinality(Before(servers, i)), MAXNS) |->
                      lines[Nth(Before(servers, i), r)].address]
           Ndots(i) == LastBefore(lines, ndots, i, "ndots", 1)
           Timeout(i) == LastBefore(lines, timeout, i, "timeout", 5)
           Attempts(i) == LastBefore(lines, attempts, i, "attempts", 2)
           Search(i) == LastBefore(lines, search, i, "list", NULL)
           Known(i) == [ns |-> Ns(i), ndots |-> AtMost(Ndots(i), 15), timeout |-> AtMost(Timeout(i), 60),
                        attempts |-> AtMost(Attempts(i), 10), search |-> Search(i)]
           g == [i \in 0..n |-> Known(i)]
<1>1. /\ servers \in SUBSET (1..n) /\ ndots \in SUBSET (1..n) /\ timeout \in SUBSET (1..n)
      /\ attempts \in SUBSET (1..n) /\ search \in SUBSET (1..n)
  BY DEF Given, Fitting
<1>2. ASSUME NEW i \in 1..n
      PROVE  /\ i \in servers <=> lines[i].whole /\ lines[i].kind = "nameserver" /\ lines[i].address # NULL
             /\ i \in ndots <=> lines[i].whole /\ lines[i].kind = "options" /\ lines[i].ndots # NULL
             /\ i \in timeout <=> lines[i].whole /\ lines[i].kind = "options" /\ lines[i].timeout # NULL
             /\ i \in attempts <=> lines[i].whole /\ lines[i].kind = "options" /\ lines[i].attempts # NULL
             /\ i \in search <=> lines[i].whole /\ lines[i].kind = "search" /\ lines[i].length < room
  BY DEF Given, Fitting
<1> HIDE DEF servers, ndots, timeout, attempts, search
<1>3. /\ Ndots(0) = 1 /\ Timeout(0) = 5 /\ Attempts(0) = 2 /\ Search(0) = NULL
      /\ \A i \in 1..n : /\ Ndots(i) = IF i \in ndots THEN lines[i].ndots ELSE Ndots(i - 1)
                         /\ Timeout(i) = IF i \in timeout THEN lines[i].timeout ELSE Timeout(i - 1)
                         /\ Attempts(i) = IF i \in attempts THEN lines[i].attempts ELSE Attempts(i - 1)
                         /\ Search(i) = IF i \in search THEN lines[i].list ELSE Search(i - 1)
  <2>1. 1..n \in SUBSET Nat /\ 1..n \in SUBSET (Nat \ {0})
    OBVIOUS
  <2>2. \A i \in 1..n : Ndots(i) = IF i \in ndots THEN lines[i].ndots ELSE Ndots(i - 1)
    BY <1>1, <2>1, LastBeforeNext
  <2>3. \A i \in 1..n : Timeout(i) = IF i \in timeout THEN lines[i].timeout ELSE Timeout(i - 1)
    BY <1>1, <2>1, LastBeforeNext
  <2>4. \A i \in 1..n : Attempts(i) = IF i \in attempts THEN lines[i].attempts ELSE Attempts(i - 1)
    BY <1>1, <2>1, LastBeforeNext
  <2>5. \A i \in 1..n : Search(i) = IF i \in search THEN lines[i].list ELSE Search(i - 1)
    BY <1>1, <2>1, LastBeforeNext
  <2>6. \A P \in SUBSET (1..n) : Before(P, 0) = {}
    BY BeforeIs
  <2>7. Ndots(0) = 1 /\ Timeout(0) = 5 /\ Attempts(0) = 2 /\ Search(0) = NULL
    BY <1>1, <2>6 DEF LastBefore
  <2> QED
    BY <2>2, <2>3, <2>4, <2>5, <2>7
<1>4. /\ Before(servers, 0) = {} /\ Before(servers, n) = servers
      /\ \A i \in 0..n : Before(servers, i) \in SUBSET Nat /\ IsFiniteSet(Before(servers, i))
      /\ \A i \in 1..n : /\ \A j \in Before(servers, i - 1) : j < i
                         /\ Before(servers, i) = IF i \in servers THEN Before(servers, i - 1) \cup {i}
                                                ELSE Before(servers, i - 1)
  BY <1>1, BeforeIs
<1>5. ASSUME NEW i \in 0..n
      PROVE  /\ Cardinality(Before(servers, i)) \in Nat
             /\ AtMost(Cardinality(Before(servers, i)), MAXNS) \in 0..MAXNS
             /\ Ns(i) \in Seq({lines[Nth(Before(servers, i), r)].address : r \in Nat})
             /\ Len(Ns(i)) = AtMost(Cardinality(Before(servers, i)), MAXNS)
  <2>1. Cardinality(Before(servers, i)) \in Nat
    BY <1>4, FS_CardinalityType
  <2>2. AtMost(Cardinality(Before(servers, i)), MAXNS) \in 0..MAXNS
    BY <2>1, MaxnsAssumption DEF AtMost
  <2> DEFINE m == AtMost(Cardinality(Before(servers, i)), MAXNS)
  <2>3. m \in Nat
    BY <2>2, MaxnsAssumption
  <2> HIDE DEF m
  <2>4. /\ [r \in 1..m |-> lines[Nth(Before(servers, i), r)].address] \in
             Seq({lines[Nth(Before(servers, i), r)].address : r \in Nat})
        /\ Len([r \in 1..m |-> lines[Nth(Before(servers, i), r)].address]) = m
    BY <2>3
  <2> QED
    BY <2>1, <2>2, <2>4 DEF m
<1>6. ASSUME NEW i \in 1..n
      PROVE  Ns(i) = IF i \in servers /\ Len(Ns(i - 1)) < MAXNS THEN Append(Ns(i - 1), lines[i].address)
                     ELSE Ns(i - 1)
  <2> DEFINE A == Before(servers, i - 1)
             B == Before(servers, i)
  <2>0. i - 1 \in 0..n /\ i \in Nat
    OBVIOUS
  <2>1. /\ A \in SUBSET Nat /\ IsFiniteSet(A) /\ \A j \in A : j < i
        /\ B = IF i \in servers THEN A \cup {i} ELSE A
    BY <1>4, <2>0
  <2>2. /\ Cardinality(A) \in Nat /\ Len(Ns(i - 1)) = AtMost(Cardinality(A), MAXNS)
        /\ Ns(i - 1) \in Seq({lines[Nth(A, r)].address : r \in Nat})
    BY <1>5, <2>0
  <2>3. /\ Ns(i - 1) = [r \in 1..AtMost(Cardinality(A), MAXNS) |-> lines[Nth(A, r)].address]
        /\ Ns(i) = [r \in 1..AtMost(Cardinality(B), MAXNS) |-> lines[Nth(B, r)].address]
    OBVIOUS
  <2> HIDE DEF A, B, Ns
  <2>4. CASE i \notin servers
    BY <2>1, <2>3, <2>4
  <2>5. CASE i \in servers
    <3>1. /\ Cardinality(B) = Cardinality(A) + 1
          /\ \A r \in 1..Cardinality(A) : Nth(B, r) = Nth(A, r)
          /\ Nth(B, Cardinality(A) + 1) = i
      BY <2>0, <2>1, <2>5, NthOfMore
    <3>2. CASE Cardinality(A) < MAXNS
      <4>1. AtMost(Cardinality(A), MAXNS) = Cardinality(A) /\ AtMost(Cardinality(B), MAXNS) = Cardinality(A) + 1
        BY <2>2, <3>1, <3>2, MaxnsAssumption DEF AtMost
      <4>2. Ns(i) = Append(Ns(i - 1), lines[i].address)
        BY <2>2, <2>3, <3>1, <4>1
      <4> QED
        BY <2>2, <2>5, <3>2, <4>1, <4>2
    <3>3. CASE ~(Cardinality(A) < MAXNS)
      <4>1. AtMost(Cardinality(A), MAXNS) = MAXNS /\ AtMost(Cardinality(B), MAXNS) = MAXNS
        BY <2>2, <3>1, <3>3, MaxnsAssumption DEF AtMost
      <4>2. \A r \in 1..MAXNS : Nth(B, r) = Nth(A, r)
        BY <2>2, <3>1, <3>3, MaxnsAssumption
      <4>3. Ns(i) = Ns(i - 1)
        BY <2>3, <4>1, <4>2
      <4> QED
        BY <2>2, <4>1, <4>3, MaxnsAssumption
    <3> QED
      BY <3>2, <3>3
  <2> QED
    BY <2>4, <2>5
<1>7. Ns(0) = <<>>
  <2>1. Cardinality(Before(servers, 0)) = 0
    BY <1>4, FS_EmptySet
  <2>2. AtMost(0, MAXNS) = 0
    BY MaxnsAssumption DEF AtMost
  <2> QED
    BY <2>1, <2>2
<1>8. \A i \in 0..n : Len(Ns(i)) \in Nat
  <2>1. 0..MAXNS \in SUBSET Nat
    BY MaxnsAssumption
  <2> HIDE DEF Ns
  <2> QED
    BY <1>5, <2>1
<1> HIDE DEF Ns, Ndots, Timeout, Attempts, Search
<1>9. Known(0) = Defaults
  BY <1>3, <1>7 DEF Defaults, AtMost
<1>10. ASSUME NEW i \in 1..n PROVE Known(i) = ReadLine(Known(i - 1), lines[i], room)
  <2>0. Known(i - 1) = [ns |-> Ns(i - 1), ndots |-> AtMost(Ndots(i - 1), 15),
                        timeout |-> AtMost(Timeout(i - 1), 60),
                        attempts |-> AtMost(Attempts(i - 1), 10), search |-> Search(i - 1)]
    OBVIOUS
  <2>1. CASE ~lines[i].whole
    <3>1. i \notin servers /\ i \notin ndots /\ i \notin timeout /\ i \notin attempts /\ i \notin search
      BY <1>2, <2>1
    <3>2. ReadLine(Known(i - 1), lines[i], room) = Known(i - 1)
      BY <2>1 DEF ReadLine
    <3> QED
      BY <1>3, <1>6, <3>1, <3>2
  <2>2. CASE lines[i].whole /\ lines[i].kind = "options"
    <3>1. i \notin servers /\ i \notin search
      BY <1>2, <2>2
    <3>2. ReadLine(Known(i - 1), lines[i], room) = ReadOptions(Known(i - 1), lines[i])
      BY <2>2 DEF ReadLine
    <3>3. Ns(i) = Ns(i - 1) /\ Search(i) = Search(i - 1)
      BY <1>3, <1>6, <3>1
    <3>4. AtMost(Ndots(i), 15) = Capped(lines[i].ndots, 15, AtMost(Ndots(i - 1), 15))
      BY <1>2, <1>3, <2>2 DEF Capped, AtMost
    <3>5. AtMost(Timeout(i), 60) = Capped(lines[i].timeout, 60, AtMost(Timeout(i - 1), 60))
      BY <1>2, <1>3, <2>2 DEF Capped, AtMost
    <3>6. AtMost(Attempts(i), 10) = Capped(lines[i].attempts, 10, AtMost(Attempts(i - 1), 10))
      BY <1>2, <1>3, <2>2 DEF Capped, AtMost
    <3>7. ReadOptions(Known(i - 1), lines[i]) =
            [ns |-> Ns(i - 1), ndots |-> Capped(lines[i].ndots, 15, AtMost(Ndots(i - 1), 15)),
             timeout |-> Capped(lines[i].timeout, 60, AtMost(Timeout(i - 1), 60)),
             attempts |-> Capped(lines[i].attempts, 10, AtMost(Attempts(i - 1), 10)),
             search |-> Search(i - 1)]
      BY ReadOptionsOf
    <3> QED
      BY <3>2, <3>3, <3>4, <3>5, <3>6, <3>7
  <2>3. CASE lines[i].whole /\ lines[i].kind = "nameserver"
    <3>1. i \notin ndots /\ i \notin timeout /\ i \notin attempts /\ i \notin search
      BY <1>2, <2>3
    <3>2. ReadLine(Known(i - 1), lines[i], room) = ReadNameserver(Known(i - 1), lines[i])
      BY <2>3 DEF ReadLine
    <3>3. /\ Ndots(i) = Ndots(i - 1) /\ Timeout(i) = Timeout(i - 1)
          /\ Attempts(i) = Attempts(i - 1) /\ Search(i) = Search(i - 1)
      BY <1>3, <3>1
    <3>4. Len(Ns(i - 1)) \in Nat
      BY <1>8
    <3>5. Ns(i) = IF Len(Ns(i - 1)) >= MAXNS \/ lines[i].address = NULL THEN Ns(i - 1)
                  ELSE Append(Ns(i - 1), lines[i].address)
      BY <1>2, <1>6, <2>3, <3>4, MaxnsAssumption
    <3>6. ReadNameserver(Known(i - 1), lines[i]) = [Known(i - 1) EXCEPT !.ns = Ns(i)]
      <4> DEFINE r == Known(i - 1)
      <4>1. r.ns = Ns(i - 1) /\ r = [r EXCEPT !.ns = Ns(i - 1)]
        BY <2>0
      <4> HIDE DEF r
      <4>2. ReadNameserver(r, lines[i]) = IF Len(Ns(i - 1)) >= MAXNS \/ lines[i].address = NULL THEN r
                                          ELSE [r EXCEPT !.ns = Append(Ns(i - 1), lines[i].address)]
        BY <4>1 DEF ReadNameserver
      <4>3. ReadNameserver(r, lines[i]) = [r EXCEPT !.ns = Ns(i)]
        BY <3>5, <4>1, <4>2
      <4> QED
        BY <4>3 DEF r
    <3> QED
      BY <3>2, <3>3, <3>6
  <2>4. CASE lines[i].whole /\ lines[i].kind = "search"
    <3>1. /\ i \notin ndots /\ i \notin timeout /\ i \notin attempts /\ i \notin servers
          /\ i \in search <=> lines[i].length < room
      BY <1>2, <2>4
    <3>2. ReadLine(Known(i - 1), lines[i], room) = ReadSearch(Known(i - 1), lines[i], room)
      BY <2>4 DEF ReadLine
    <3>3. /\ Ndots(i) = Ndots(i - 1) /\ Timeout(i) = Timeout(i - 1)
          /\ Attempts(i) = Attempts(i - 1) /\ Ns(i) = Ns(i - 1)
      BY <1>3, <1>6, <3>1
    <3>4. CASE lines[i].length < room
      <4>1. ReadSearch(Known(i - 1), lines[i], room) = [Known(i - 1) EXCEPT !.search = lines[i].list]
        BY <3>4 DEF ReadSearch
      <4>2. Search(i) = lines[i].list
        BY <1>3, <3>1, <3>4
      <4> QED
        BY <3>2, <3>3, <4>1, <4>2
    <3>5. CASE ~(lines[i].length < room)
      <4>1. ReadSearch(Known(i - 1), lines[i], room) = Known(i - 1)
        BY <3>5 DEF ReadSearch
      <4>2. Search(i) = Search(i - 1)
        BY <1>3, <3>1, <3>5
      <4> QED
        BY <3>2, <3>3, <4>1, <4>2
    <3> QED
      BY <3>4, <3>5
  <2>5. CASE lines[i].whole /\ lines[i].kind \notin {"options", "nameserver", "search"}
    <3>1. i \notin servers /\ i \notin ndots /\ i \notin timeout /\ i \notin attempts /\ i \notin search
      BY <1>2, <2>5
    <3>2. ReadLine(Known(i - 1), lines[i], room) = Known(i - 1)
      BY <2>5 DEF ReadLine
    <3> QED
      BY <1>3, <1>6, <3>1, <3>2
  <2> QED
    BY <2>1, <2>2, <2>3, <2>4, <2>5
<1> HIDE DEF Known
<1>11. g = [i \in 0..n |-> IF i = 0 THEN Defaults ELSE ReadLine(g[i - 1], lines[i], room)]
  <2>1. ASSUME NEW i \in 0..n PROVE g[i] = IF i = 0 THEN Defaults ELSE ReadLine(g[i - 1], lines[i], room)
    <3>1. CASE i = 0
      BY <1>9, <3>1
    <3>2. CASE i # 0
      <4>1. i \in 1..n /\ i - 1 \in 0..n
        BY <3>2
      <4> QED
        BY <1>10, <3>2, <4>1
    <3> QED
      BY <3>1, <3>2
  <2> QED
    BY <2>1
<1>12. ReadLines(lines, room) = g
  <2> HIDE DEF g
  <2> QED
    BY <1>11, ReadLinesAre
<1>13. ReadLines(lines, room)[n] = Known(n)
  BY <1>12
<1>14. /\ Ndots(n) = Option(lines, "ndots", 1)
       /\ Timeout(n) = Option(lines, "timeout", 5)
       /\ Attempts(n) = Option(lines, "attempts", 2)
       /\ Search(n) = LastOf(lines, Fitting(lines, room), "list", NULL)
  <2>1. \A P \in SUBSET (1..n) : Before(P, n) = P
    BY BeforeIs
  <2>2. /\ Before(ndots, n) = ndots /\ Before(timeout, n) = timeout
        /\ Before(attempts, n) = attempts /\ Before(search, n) = search
    BY <1>1, <2>1
  <2> QED
    BY <2>2 DEF Ndots, Timeout, Attempts, Search, LastBefore, LastOf, Option, ndots, timeout, attempts, search
<1>15. Ns(n) = [r \in 1..AtMost(Cardinality(servers), MAXNS) |-> lines[Nth(servers, r)].address]
  BY <1>4 DEF Ns
<1> QED
  BY <1>13, <1>14, <1>15 DEF Known, servers

Numbered(line) ==
  /\ line.ndots = NULL \/ line.ndots \in Nat
  /\ line.timeout = NULL \/ line.timeout \in Nat
  /\ line.attempts = NULL \/ line.attempts \in Nat

\* An option's number is a number.
LEMMA OptionNumber ==
  ASSUME NEW lines, Len(lines) \in Nat, DOMAIN lines = 1..Len(lines), NEW field, NEW default \in Nat,
         \A i \in DOMAIN lines : lines[i].kind = "options" => lines[i][field] = NULL \/ lines[i][field] \in Nat
  PROVE  Option(lines, field, default) \in Nat
<1> DEFINE given == Given(lines, "options", field)
<1>1. given \in SUBSET (1..Len(lines)) /\ \A i \in given : lines[i][field] \in Nat
  BY DEF Given
<1>2. given # {} => Max(given) \in given
  <2> HIDE DEF given
  <2>1. SUFFICES ASSUME given # {} PROVE Max(given) \in given
    OBVIOUS
  <2>2. given \in SUBSET Nat /\ \A k \in given : k <= Len(lines)
    BY <1>1
  <2>3. PICK m \in given : \A k \in given : k <= m
    BY <2>1, <2>2, MaxIs
  <2> QED
    BY <2>2, <2>3, MaxOf
<1> HIDE DEF given
<1>3. LastOf(lines, given, field, default) \in Nat
  BY <1>1, <1>2 DEF LastOf
<1> QED
  BY <1>3 DEF Option, given

LEMMA ResolvConfRead ==
  ASSUME NEW file, NEW room, Len(file.lines) \in Nat, DOMAIN file.lines = 1..Len(file.lines),
         \A i \in DOMAIN file.lines : file.lines[i].kind = "options" => Numbered(file.lines[i]),
         NEW android, ~android, GetResolvConf(android, file, room) # NULL
  PROVE  Limited(GetResolvConf(android, file, room)) = Limited(ResolvConf(file, room))
<1> DEFINE lines == file.lines
           servers == Given(lines, "nameserver", "address")
           most == AtMost(Cardinality(servers), MAXNS)
           ns == [r \in 1..most |-> lines[Nth(servers, r)].address]
           conf == ReadLines(lines, room)[Len(lines)]
           ndots == Option(lines, "ndots", 1)
           timeout == Option(lines, "timeout", 5)
           attempts == Option(lines, "attempts", 2)
           search == LastOf(lines, Fitting(lines, room), "list", NULL)
<1>1. conf = [ns |-> ns, ndots |-> AtMost(ndots, 15), timeout |-> AtMost(timeout, 60),
              attempts |-> AtMost(attempts, 10), search |-> search]
  BY ReadLinesKnows
<1>2. servers # {} => most > 0
  <2>1. servers \in SUBSET (1..Len(lines))
    BY DEF Given
  <2>2. IsFiniteSet(servers) /\ Cardinality(servers) \in Nat /\ (servers # {} => Cardinality(servers) # 0)
    <3> HIDE DEF servers
    <3>1. IsFiniteSet(1..Len(lines))
      BY FS_Interval
    <3>2. IsFiniteSet(servers)
      BY <2>1, <3>1, FS_Subset
    <3> QED
      BY <3>2, FS_CardinalityType, FS_EmptySet
  <2> HIDE DEF servers
  <2> QED
    BY <2>2, MaxnsAssumption DEF AtMost
<1>3. servers = {} => most = 0
  <2>1. AtMost(0, MAXNS) = 0
    BY MaxnsAssumption DEF AtMost
  <2> HIDE DEF servers
  <2> QED
    BY <2>1, FS_EmptySet
<1>4. most \in Nat => (ns = <<>> <=> most = 0)
  <2> HIDE DEF most
  <2> QED
    OBVIOUS
<1>5. GetResolvConf(android, file, room) = IF conf.ns = <<>> THEN [conf EXCEPT !.ns = <<"127.0.0.1">>] ELSE conf
  <2> HIDE DEF conf
  <2> QED
    BY DEF GetResolvConf, conf
<1>6. most \in Nat
  <2>1. servers \in SUBSET (1..Len(lines))
    BY DEF Given
  <2>2. Cardinality(servers) \in Nat
    <3> HIDE DEF servers
    <3>1. IsFiniteSet(1..Len(lines))
      BY FS_Interval
    <3> QED
      BY <2>1, <3>1, FS_Subset, FS_CardinalityType
  <2> HIDE DEF servers
  <2> QED
    BY <2>2, MaxnsAssumption DEF AtMost
<1>7. conf.ns = <<>> <=> servers = {}
  <2> HIDE DEF servers, ns, conf, most
  <2> QED
    BY <1>1, <1>2, <1>3, <1>4, <1>6
<1>8. ResolvConf(file, room) = [ns |-> IF servers = {} THEN <<"127.0.0.1">> ELSE ns, ndots |-> ndots,
                          timeout |-> timeout, attempts |-> attempts, search |-> search]
  BY DEF ResolvConf
<1>9. ndots \in Nat /\ timeout \in Nat /\ attempts \in Nat
  <2>1. \A i \in DOMAIN lines : lines[i].kind = "options" =>
          /\ lines[i]["ndots"] = NULL \/ lines[i]["ndots"] \in Nat
          /\ lines[i]["timeout"] = NULL \/ lines[i]["timeout"] \in Nat
          /\ lines[i]["attempts"] = NULL \/ lines[i]["attempts"] \in Nat
    BY DEF Numbered
  <2> HIDE DEF lines
  <2>2. 1 \in Nat /\ 2 \in Nat /\ 5 \in Nat /\ Len(lines) \in Nat /\ DOMAIN lines = 1..Len(lines)
    BY DEF lines
  <2> QED
    BY <2>1, <2>2, OptionNumber
<1> DEFINE given == IF servers = {} THEN <<"127.0.0.1">> ELSE ns
<1> HIDE DEF servers, ns, conf, ndots, timeout, attempts, search
<1>10. GetResolvConf(android, file, room) =
         [ns |-> given, ndots |-> AtMost(ndots, 15), timeout |-> AtMost(timeout, 60),
          attempts |-> AtMost(attempts, 10), search |-> search]
  <2>1. CASE servers = {}
    BY <1>1, <1>5, <1>7, <2>1
  <2>2. CASE servers # {}
    BY <1>1, <1>5, <1>7, <2>2
  <2> QED
    BY <2>1, <2>2
<1>11. ResolvConf(file, room) = [ns |-> given, ndots |-> ndots, timeout |-> timeout, attempts |-> attempts,
                                 search |-> search]
  BY <1>8
<1>12. /\ AtMost(AtMost(ndots, 15), 15) = AtMost(ndots, 15) /\ AtMost(AtMost(timeout, 60), 30) = AtMost(timeout, 30)
       /\ AtMost(AtMost(attempts, 10), 5) = AtMost(attempts, 5)
  BY <1>9 DEF AtMost
<1> HIDE DEF given
<1> QED
  BY <1>10, <1>11, <1>12 DEF Limited

(***************************************************************************)
(* ToPrefixLength                                                          *)
(***************************************************************************)

LEMMA TimesGrows ==
  ASSUME NEW w \in Nat, NEW a \in Nat
  PROVE  /\ w * a \in Nat /\ w * (a + 1) = w * a + w
         /\ \A b \in Nat : a <= b => w * a <= w * b
<1>1. w * a \in Nat /\ w * (a + 1) = w * a + w
  OBVIOUS
<1>2. ASSUME NEW b \in Nat, a <= b PROVE w * a <= w * b
  <2>1. b - a \in Nat
    BY <1>2
  <2>2. w * (b - a) \in Nat
    BY <2>1
  <2>3. w * b = w * a + w * (b - a)
    OBVIOUS
  <2> QED
    BY <1>1, <2>2, <2>3
<1> QED
  BY <1>1, <1>2

LEMMA PrefixFound ==
  ASSUME NEW netmask \in Seq(Byte)
  PROVE  ToPrefixLength(netmask) = PrefixOf(netmask)
<1> DEFINE size == Len(netmask)
           stops == {j \in 0..size : j = size \/ \E b \in 1..Width : netmask[j + 1][b] = 0}
           i == Min(stops)
           zeros == {b \in 0..Width : b = Width \/ netmask[i + 1][b + 1] = 0}
           ones == IF i < size THEN Min(zeros) ELSE 0
           Rest == /\ i < size => \A b \in ones + 1..Width : netmask[i + 1][b] = 0
                   /\ \A j \in i + 2..size, b \in 1..Width : netmask[j][b] = 0
           Fits(n) == \A j \in 1..size, b \in 1..Width : netmask[j][b] = 1 <=> Width * (j - 1) + b <= n
           lengths == {n \in 0..Width * size : Fits(n)}
           most == Width * i + ones
<1>1. size \in Nat /\ \A j \in 1..size, b \in 1..Width : netmask[j][b] \in {0, 1}
  <2>1. \A j \in 1..size : netmask[j] \in Byte
    OBVIOUS
  <2>2. ASSUME NEW j \in 1..size, NEW b \in 1..Width PROVE netmask[j][b] \in {0, 1}
    <3>1. netmask[j] \in [1..Width -> {0, 1}]
      BY <2>1 DEF Byte
    <3> QED
      BY <3>1
  <2> QED
    BY <2>2
<1>2. /\ i \in 0..size
      /\ \A j \in 1..i, b \in 1..Width : netmask[j][b] = 1
      /\ i < size => \E b \in 1..Width : netmask[i + 1][b] = 0
  <2>1. stops \in SUBSET Nat /\ size \in stops
    BY <1>1
  <2>2. i \in stops /\ \A j \in stops : i <= j
    <3> HIDE DEF stops
    <3> QED
      BY <2>1, MinIs
  <2>3. i \in 0..size /\ (i < size => \E b \in 1..Width : netmask[i + 1][b] = 0)
    <3> HIDE DEF i
    <3> QED
      BY <1>1, <2>2
  <2>4. ASSUME NEW j \in 1..i, NEW b \in 1..Width PROVE netmask[j][b] = 1
    <3> HIDE DEF i
    <3>1. j - 1 \notin stops /\ j - 1 \in 0..size /\ j \in 1..size
      <4>1. j - 1 \in 0..size /\ ~(i <= j - 1) /\ j \in 1..size
        BY <1>1, <2>3
      <4> HIDE DEF stops
      <4> QED
        BY <2>2, <4>1
    <3>2. netmask[j][b] # 0
      <4>1. (j - 1) + 1 = j
        OBVIOUS
      <4>2. ~ \E c \in 1..Width : netmask[(j - 1) + 1][c] = 0
        BY <3>1
      <4> QED
        BY <4>1, <4>2
    <3> QED
      BY <1>1, <3>1, <3>2
  <2> QED
    BY <2>3, <2>4
<1>3. ToPrefixLength(netmask) = IF Rest THEN most ELSE NULL
  BY DEF ToPrefixLength, Shifts
<1>4. PrefixOf(netmask) = IF lengths = {} THEN NULL ELSE Min(lengths)
  <2>1. DOMAIN netmask = 1..size
    OBVIOUS
  <2> QED
    BY <2>1 DEF PrefixOf
<1> HIDE DEF i, stops
<1>5. /\ ones \in Nat
      /\ i < size => /\ ones < Width /\ netmask[i + 1][ones + 1] = 0
                     /\ \A b \in 1..ones : netmask[i + 1][b] = 1
      /\ i = size => ones = 0
  <2>1. CASE i < size
    <3>0. Width \in Nat /\ Width \in zeros /\ zeros \in SUBSET Nat /\ i + 1 \in 1..size
      BY <1>1, <1>2, <2>1, WidthAssumption
    <3>1. ones \in zeros /\ \A b \in zeros : ones <= b
      <4> HIDE DEF zeros
      <4> QED
        BY <2>1, <3>0, MinIs
    <3> HIDE DEF ones
    <3>2. PICK c \in 1..Width : netmask[i + 1][c] = 0
      BY <1>2, <2>1
    <3>3. c - 1 \in zeros
      <4>1. c - 1 \in 0..Width /\ (c - 1) + 1 = c
        BY <3>0
      <4> QED
        BY <3>2, <4>1
    <3>4. ones <= c - 1 /\ c - 1 < Width /\ ones \in 0..Width
      BY <3>0, <3>1, <3>3
    <3>5. ones \in Nat /\ ones < Width
      BY <3>0, <3>4
    <3>6. netmask[i + 1][ones + 1] = 0
      BY <3>1, <3>5, <3>0
    <3>7. ASSUME NEW b \in 1..ones PROVE netmask[i + 1][b] = 1
      <4>1. b - 1 \in 0..Width /\ ~(ones <= b - 1) /\ (b - 1) + 1 = b /\ b \in 1..Width
        BY <3>0, <3>5
      <4>2. b - 1 \notin zeros
        <5> HIDE DEF zeros
        <5> QED
          BY <3>1, <4>1
      <4>3. netmask[i + 1][b] # 0
        BY <4>1, <4>2
      <4> QED
        BY <1>1, <3>0, <4>1, <4>3
    <3> QED
      BY <3>5, <3>6, <3>7, <2>1
  <2>2. CASE ~(i < size)
    <3>1. ones = 0 /\ i = size
      BY <1>1, <1>2, <2>2
    <3> HIDE DEF ones
    <3> QED
      BY <3>1, <2>2
  <2> QED
    BY <2>1, <2>2
<1> HIDE DEF ones
<1>6. Width \in Nat /\ Width > 0 /\ i \in Nat /\ size \in Nat /\ i <= size /\ ones \in Nat
  BY <1>1, <1>2, <1>5, WidthAssumption
<1>7. \A a \in Nat : /\ Width * a \in Nat /\ Width * (a + 1) = Width * a + Width
                     /\ \A b \in Nat : a <= b => Width * a <= Width * b
  BY <1>6, TimesGrows
\* Of the bits after the first zero none is numbered up to the length.
<1>8. ASSUME NEW j \in 1..size, NEW b \in 1..Width
      PROVE  /\ j <= i => netmask[j][b] = 1 /\ Width * (j - 1) + b <= most
             /\ j = i + 1 => (b <= ones <=> Width * (j - 1) + b <= most)
             /\ j > i + 1 => ~(Width * (j - 1) + b <= most)
  <2>0. j \in Nat /\ i \in Nat /\ b \in Nat /\ b <= Width /\ b > 0 /\ j - 1 \in Nat /\ j <= size
    BY <1>1, <1>2, <1>6
  <2>1. CASE j <= i
    <3>1. netmask[j][b] = 1
      BY <1>2, <2>0, <2>1
    <3>2. Width * (j - 1) \in Nat /\ Width * j = Width * (j - 1) + Width /\ Width * j <= Width * i
      <4>1. j - 1 <= j /\ (j - 1) + 1 = j
        BY <2>0
      <4>2. Width * ((j - 1) + 1) = Width * (j - 1) + Width /\ Width * (j - 1) \in Nat
        BY <1>7, <2>0, <4>1
      <4> QED
        BY <1>7, <2>0, <2>1, <4>1, <4>2
    <3>3. Width * i \in Nat
      BY <1>7, <2>0
    <3>4. ones \in Nat
      BY <1>5
    <3>5. Width * (j - 1) + b <= most
      BY <1>6, <2>0, <3>2, <3>3, <3>4
    <3> QED
      BY <2>0, <2>1, <3>1, <3>5
  <2>2. CASE j = i + 1
    <3>1. j - 1 = i
      BY <2>0, <2>2
    <3>2. Width * i \in Nat
      BY <1>7, <2>0
    <3>3. ones \in Nat
      BY <1>5
    <3> QED
      BY <2>0, <2>2, <3>1, <3>2, <3>3
  <2>3. CASE j > i + 1
    <3>1. Width * (i + 1) = Width * i + Width /\ Width * i \in Nat
      BY <1>7, <2>0
    <3>2. i + 1 \in Nat /\ i + 1 <= j - 1 /\ i < size
      BY <2>0, <2>3, <1>1
    <3>3. Width * (i + 1) <= Width * (j - 1) /\ Width * (j - 1) \in Nat
      BY <1>7, <2>0, <3>2
    <3>4. ones < Width /\ ones \in Nat
      BY <1>5, <3>2
    <3>5. most < Width * (i + 1)
      BY <1>6, <3>1, <3>4
    <3> QED
      BY <1>6, <2>0, <2>3, <3>1, <3>3, <3>4, <3>5
  <2> QED
    BY <2>0, <2>1, <2>2, <2>3
<1>9. most \in Nat /\ most <= Width * size /\ Width * i \in Nat /\ Width * size \in Nat
  <2>1. i \in Nat /\ i <= size
    BY <1>1, <1>2
  <2>2. Width * i \in Nat /\ Width * size \in Nat
    BY <1>1, <1>7, <2>1
  <2>3. CASE i = size
    BY <1>5, <2>2, <2>3
  <2>4. CASE i < size
    <3>1. Width * (i + 1) = Width * i + Width /\ i + 1 \in Nat /\ i + 1 <= size
      BY <1>1, <1>7, <2>1, <2>4
    <3>2. Width * (i + 1) <= Width * size
      BY <1>1, <1>7, <3>1
    <3> QED
      BY <1>5, <1>6, <2>2, <2>4, <3>1, <3>2
  <2> QED
    BY <1>1, <2>1, <2>3, <2>4
<1>10. ASSUME NEW n \in lengths PROVE n = most
  <2>1. n \in Nat /\ n <= Width * size /\ Fits(n)
    BY <1>9
  <2>2. n <= most
    <3>1. CASE i < size
      <4>0. ones \in Nat /\ ones < Width
        BY <1>5, <3>1
      <4>1. i + 1 \in 1..size /\ ones + 1 \in 1..Width /\ (i + 1) - 1 = i
        BY <1>6, <3>1, <4>0
      <4>2. netmask[i + 1][ones + 1] = 0
        BY <1>5, <3>1
      <4>3. ~(Width * ((i + 1) - 1) + (ones + 1) <= n)
        BY <2>1, <4>1, <4>2
      <4> QED
        BY <1>5, <1>9, <2>1, <4>1, <4>3
    <3>2. CASE ~(i < size)
      <4>1. i = size /\ ones = 0
        BY <1>1, <1>2, <1>5, <3>2
      <4> QED
        BY <1>9, <2>1, <4>1
    <3> QED
      BY <3>1, <3>2
  <2>3. most <= n
    <3>1. CASE ones > 0
      <4>0. i < size /\ ones < Width
        BY <1>5, <1>6, <3>1
      <4>1. i + 1 \in 1..size /\ ones \in 1..Width /\ ones \in 1..ones /\ (i + 1) - 1 = i
        BY <1>6, <3>1, <4>0
      <4>2. netmask[i + 1][ones] = 1
        BY <1>5, <4>0, <4>1
      <4>3. Width * ((i + 1) - 1) + ones <= n
        BY <2>1, <4>1, <4>2
      <4> QED
        BY <4>1, <4>3
    <3>2. CASE ones = 0 /\ i > 0
      <4>1. i \in 1..size /\ i \in 1..i /\ Width \in 1..Width /\ i - 1 \in Nat /\ (i - 1) + 1 = i
        BY <1>1, <1>2, <1>6, <3>2
      <4>2. netmask[i][Width] = 1
        BY <1>2, <4>1
      <4>3. Width * (i - 1) + Width <= n
        BY <2>1, <4>1, <4>2
      <4>4. Width * ((i - 1) + 1) = Width * (i - 1) + Width
        BY <1>7, <4>1
      <4>5. most = Width * i
        BY <1>9, <3>2
      <4> QED
        BY <4>1, <4>3, <4>4, <4>5
    <3>3. CASE ones = 0 /\ i = 0
      <4>1. most = 0
        BY <1>6, <3>3
      <4> QED
        BY <2>1, <4>1
    <3> QED
      BY <1>1, <1>2, <1>5, <3>1, <3>2, <3>3
  <2> QED
    BY <1>9, <2>1, <2>2, <2>3
<1>11. ASSUME Fits(most) PROVE Rest
  <2>1. ASSUME i < size, NEW b \in ones + 1..Width PROVE netmask[i + 1][b] = 0
    <3>1. i + 1 \in 1..size /\ b \in 1..Width /\ ~(b <= ones)
      BY <1>1, <1>2, <1>5, <1>6, <2>1
    <3>2. ~(Width * ((i + 1) - 1) + b <= most)
      BY <1>8, <3>1
    <3>3. netmask[i + 1][b] # 1
      BY <1>11, <3>1, <3>2
    <3> QED
      BY <1>1, <3>1, <3>3
  <2>2. ASSUME NEW j \in i + 2..size, NEW b \in 1..Width PROVE netmask[j][b] = 0
    <3>1. j \in 1..size /\ j > i + 1
      BY <1>1, <1>2
    <3>2. ~(Width * (j - 1) + b <= most)
      BY <1>8, <3>1
    <3>3. netmask[j][b] # 1
      BY <1>11, <3>1, <3>2
    <3> QED
      BY <1>1, <3>1, <3>3
  <2> QED
    BY <2>1, <2>2
<1>12. ASSUME Rest PROVE Fits(most)
  <2>1. ASSUME NEW j \in 1..size, NEW b \in 1..Width
        PROVE  netmask[j][b] = 1 <=> Width * (j - 1) + b <= most
    <3>1. CASE j <= i
      BY <1>8, <3>1
    <3>2. CASE j = i + 1
      <4>1. i < size /\ i + 1 \in 1..size
        BY <1>1, <1>2, <3>2
      <4>2. b <= ones => netmask[i + 1][b] = 1
        <5>1. b <= ones => b \in 1..ones
          BY <1>5, <1>6
        <5> QED
          BY <1>5, <4>1, <5>1
      <4>3. ~(b <= ones) => netmask[i + 1][b] = 0
        <5>1. ~(b <= ones) => b \in ones + 1..Width
          BY <1>5, <1>6
        <5> QED
          BY <1>12, <4>1, <5>1
      <4>4. b <= ones <=> Width * (j - 1) + b <= most
        BY <1>8, <3>2
      <4> QED
        BY <3>2, <4>2, <4>3, <4>4
    <3>3. CASE j > i + 1
      <4>1. j \in i + 2..size
        BY <1>1, <1>2, <3>3
      <4>2. netmask[j][b] = 0
        BY <1>12, <4>1
      <4> QED
        BY <1>8, <3>3, <4>2
    <3> QED
      BY <1>1, <1>2, <3>1, <3>2, <3>3
  <2> QED
    BY <2>1
<1>13. lengths = IF Rest THEN {most} ELSE {}
  <2>1. Fits(most) => most \in lengths
    BY <1>9
  <2>2. \A n \in lengths : n = most /\ Fits(most)
    BY <1>10
  <2> HIDE DEF lengths, most, Fits, Rest
  <2> QED
    BY <1>11, <1>12, <2>1, <2>2
<1>14. Min({most}) = most
  <2> HIDE DEF most
  <2> QED
    BY <1>9, MinOf
<1> HIDE DEF lengths, most, Rest
<1> QED
  BY <1>3, <1>4, <1>13, <1>14

(***************************************************************************)
(* GetAllInterfaces                                                        *)
(***************************************************************************)

LEMMA AddEntriesAre ==
  ASSUME NEW entries, Len(entries) \in Nat, NEW g,
         g = [i \in 0..Len(entries) |-> IF i = 0 THEN <<>> ELSE AddEntry(g[i - 1], entries[i])]
  PROVE  AddEntries(entries) = g
<1> DEFINE results == AddEntries(entries)
           Differ == {i \in 0..Len(entries) : results[i] # g[i]}
<1>1. results = [i \in 0..Len(entries) |-> IF i = 0 THEN <<>> ELSE AddEntry(results[i - 1], entries[i])]
  BY DEF AddEntries
<1> HIDE DEF results
<1>2. Differ = {}
  <2>1. SUFFICES ASSUME Differ # {} PROVE FALSE
    OBVIOUS
  <2>2. PICK k \in Differ : \A j \in Differ : k <= j
    <3>1. Differ \in SUBSET Nat
      OBVIOUS
    <3> HIDE DEF Differ
    <3> QED
      BY <2>1, <3>1, MinIs
  <2>3. k \in 0..Len(entries) /\ results[k] # g[k]
    OBVIOUS
  <2>4. k # 0
    BY <1>1, <2>3
  <2>5. k - 1 \in 0..Len(entries) /\ k - 1 \notin Differ
    <3>1. k - 1 \in 0..Len(entries) /\ ~(k <= k - 1)
      BY <2>3, <2>4
    <3> HIDE DEF Differ
    <3> QED
      BY <2>2, <3>1
  <2>6. results[k - 1] = g[k - 1]
    BY <2>5
  <2>7. results[k] = AddEntry(results[k - 1], entries[k])
    BY <1>1, <2>3, <2>4
  <2>8. g[k] = AddEntry(g[k - 1], entries[k])
    BY <2>3, <2>4
  <2> QED
    BY <2>3, <2>6, <2>7, <2>8
<1>3. \A i \in 0..Len(entries) : results[i] = g[i]
  BY <1>2
<1> QED
  BY <1>1, <1>3 DEF results

\* The addresses at the places up to i, with the lengths of their prefixes.
AddressesBefore(entries, P, i) ==
  [r \in 1..Cardinality(Before(P, i)) |->
     LET e == entries[Nth(Before(P, i), r)] IN <<e.address, PrefixOf(e.netmask)>>]

\* What is known of an interface after i entries.
InfoBefore(entries, name, i) ==
  [name |-> name, type |-> TypeOf(name),
   hardware |-> LastBefore(entries, Links(entries, name), i, "address", NULL),
   addresses |-> AddressesBefore(entries, Addresses(entries, name), i)]

LEMMA AddressesBeforeNext ==
  ASSUME NEW entries, NEW i \in Nat \ {0}, NEW P \in SUBSET Nat
  PROVE  AddressesBefore(entries, P, i) =
           IF i \in P THEN Append(AddressesBefore(entries, P, i - 1),
                                  <<entries[i].address, PrefixOf(entries[i].netmask)>>)
           ELSE AddressesBefore(entries, P, i - 1)
<1> DEFINE A == Before(P, i - 1)
           B == Before(P, i)
           Pair(x) == <<entries[x].address, PrefixOf(entries[x].netmask)>>
<1>0. i \in Nat /\ \A j \in P : j \in Nat
  OBVIOUS
<1>1. A \in SUBSET Nat /\ IsFiniteSet(A)
  <2>1. A \in SUBSET (0..i - 1) /\ A \in SUBSET Nat
    <3>1. \A j \in A : j \in P /\ j <= i - 1
      BY DEF Before
    <3>2. ASSUME NEW j \in A PROVE j \in 0..i - 1 /\ j \in Nat
      <4>1. j \in Nat /\ j <= i - 1
        BY <1>0, <3>1
      <4> QED
        BY <1>0, <4>1
    <3> HIDE DEF A
    <3> QED
      BY <3>2
  <2>2. IsFiniteSet(0..i - 1)
    BY FS_Interval
  <2> HIDE DEF A
  <2> QED
    BY <2>1, <2>2, FS_Subset
<1>2. (\A j \in A : j < i) /\ B = IF i \in P THEN A \cup {i} ELSE A
  <2>1. \A j \in P : j <= i <=> j <= i - 1 \/ j = i
    BY <1>0
  <2>2. \A j \in P : j <= i - 1 => j < i
    BY <1>0
  <2>3. CASE i \in P
    BY <2>1, <2>2, <2>3 DEF Before
  <2>4. CASE i \notin P
    BY <2>1, <2>2, <2>4 DEF Before
  <2> QED
    BY <2>3, <2>4
<1>3. /\ AddressesBefore(entries, P, i - 1) = [r \in 1..Cardinality(A) |-> Pair(Nth(A, r))]
      /\ AddressesBefore(entries, P, i) = [r \in 1..Cardinality(B) |-> Pair(Nth(B, r))]
  BY DEF AddressesBefore
<1>4. Pair(i) = <<entries[i].address, PrefixOf(entries[i].netmask)>>
  OBVIOUS
<1>5. Cardinality(A) \in Nat
  <2> HIDE DEF A
  <2> QED
    BY <1>1, FS_CardinalityType
<1> HIDE DEF A, B, Pair
<1>6. CASE i \notin P
  BY <1>2, <1>3, <1>6
<1>7. CASE i \in P
  <2>1. /\ Cardinality(B) = Cardinality(A) + 1
        /\ \A r \in 1..Cardinality(A) : Nth(B, r) = Nth(A, r)
        /\ Nth(B, Cardinality(A) + 1) = i
    BY <1>0, <1>1, <1>2, <1>7, NthOfMore
  <2>2. AddressesBefore(entries, P, i) = Append(AddressesBefore(entries, P, i - 1), Pair(i))
    <3> DEFINE m == Cardinality(A)
               s == [r \in 1..m |-> Pair(Nth(A, r))]
               t == [r \in 1..m + 1 |-> Pair(Nth(B, r))]
    <3>1. m \in Nat /\ \A r \in 1..m : Nth(B, r) = Nth(A, r)
      BY <1>5, <2>1
    <3>2. Nth(B, m + 1) = i
      BY <2>1
    <3> HIDE DEF m
    <3>3. s \in Seq({Pair(x) : x \in {Nth(A, r) : r \in 1..m}}) /\ Len(s) = m
      BY <3>1
    <3>4. t = Append(s, Pair(i))
      BY <3>1, <3>2, <3>3
    <3> QED
      BY <1>3, <2>1, <3>4 DEF m
  <2> QED
    BY <1>4, <1>7, <2>2
<1> QED
  BY <1>6, <1>7

Entered(entries) ==
  /\ Len(entries) \in Nat /\ DOMAIN entries = 1..Len(entries)
  /\ \A i \in DOMAIN entries : entries[i].family \in {"in", "in6"} => entries[i].netmask \in Seq(Byte)

LEMMA EntriesOf ==
  ASSUME NEW entries, Entered(entries)
  PROVE  LET n == Len(entries)
         IN /\ n \in Nat /\ Firsts(entries) \in SUBSET (1..n)
            /\ \A name : /\ Named(entries, name) \in SUBSET (1..n)
                         /\ Links(entries, name) \in SUBSET (1..n)
                         /\ Addresses(entries, name) \in SUBSET (1..n)
                         /\ Links(entries, name) \in SUBSET Named(entries, name)
                         /\ Addresses(entries, name) \in SUBSET Named(entries, name)
BY DEF Entered, Firsts, Named, Links, Addresses, Up

LEMMA InfoBeforeNext ==
  ASSUME NEW entries, Entered(entries), NEW name, NEW i \in 1..Len(entries)
  PROVE  InfoBefore(entries, name, i) =
           IF i \in Named(entries, name) THEN AddAddress(InfoBefore(entries, name, i - 1), entries[i])
           ELSE InfoBefore(entries, name, i - 1)
<1> DEFINE links == Links(entries, name)
           addresses == Addresses(entries, name)
           named == Named(entries, name)
           cur == entries[i]
           H(k) == LastBefore(entries, links, k, "address", NULL)
           A(k) == AddressesBefore(entries, addresses, k)
           n == Len(entries)
<1>1. /\ n \in Nat /\ links \in SUBSET (1..n) /\ addresses \in SUBSET (1..n)
      /\ links \in SUBSET named /\ addresses \in SUBSET named
  BY EntriesOf
<1>2. i \in named => /\ i \in links <=> cur.family = "link"
                     /\ i \in addresses <=> cur.family = "in" \/ (cur.family = "in6" /\ ~cur.deprecated)
  <2>1. i \in named => (i \in links <=> cur.family = "link")
    BY DEF Links
  <2>2. ASSUME i \in named, i \in addresses PROVE cur.family = "in" \/ (cur.family = "in6" /\ ~cur.deprecated)
    BY <2>2 DEF Addresses
  <2>3. ASSUME i \in named, cur.family = "in" \/ (cur.family = "in6" /\ ~cur.deprecated) PROVE i \in addresses
    BY <2>3 DEF Addresses
  <2> QED
    BY <2>1, <2>2, <2>3
<1>3. /\ InfoBefore(entries, name, i) =
           [name |-> name, type |-> TypeOf(name), hardware |-> H(i), addresses |-> A(i)]
      /\ InfoBefore(entries, name, i - 1) =
           [name |-> name, type |-> TypeOf(name), hardware |-> H(i - 1), addresses |-> A(i - 1)]
  BY DEF InfoBefore
<1> HIDE DEF links, addresses, named
<1>4. H(i) = IF i \in links THEN cur.address ELSE H(i - 1)
  <2>1. i \in Nat /\ links \in SUBSET Nat
    BY <1>1
  <2> HIDE DEF n
  <2> QED
    BY <2>1, LastBeforeNext
<1>5. A(i) = IF i \in addresses THEN Append(A(i - 1), <<cur.address, PrefixOf(cur.netmask)>>) ELSE A(i - 1)
  <2>1. i \in Nat \ {0} /\ addresses \in SUBSET Nat
    BY <1>1
  <2> HIDE DEF n
  <2> QED
    BY <2>1, AddressesBeforeNext
<1> HIDE DEF H, A
<1>6. CASE i \notin named
  BY <1>1, <1>3, <1>4, <1>5, <1>6 DEF named
<1>7. CASE i \in named
  <2> DEFINE info == InfoBefore(entries, name, i - 1)
  <2>1. CASE cur.family = "link"
    <3>1. AddAddress(info, cur) = [info EXCEPT !.hardware = cur.address]
      BY <2>1 DEF AddAddress
    <3>2. H(i) = cur.address /\ A(i) = A(i - 1)
      BY <1>2, <1>4, <1>5, <1>7, <2>1
    <3> QED
      BY <1>3, <1>7, <3>1, <3>2 DEF named
  <2>2. CASE cur.family \in {"in", "in6"} /\ ~(cur.family = "in6" /\ cur.deprecated)
    <3>1. cur.netmask \in Seq(Byte)
      BY <2>2 DEF Entered
    <3>2. AddAddress(info, cur) =
            [info EXCEPT !.addresses = Append(@, <<cur.address, ToPrefixLength(cur.netmask)>>)]
      BY <2>2 DEF AddAddress
    <3>3. ToPrefixLength(cur.netmask) = PrefixOf(cur.netmask)
      BY <3>1, PrefixFound
    <3>7. i \in addresses /\ i \notin links
      <4> HIDE DEF cur
      <4>1. cur.family = "in" \/ (cur.family = "in6" /\ ~cur.deprecated)
        BY <2>2
      <4>2. cur.family # "link"
        BY <2>2
      <4> QED
        BY <1>2, <1>7, <4>1, <4>2
    <3>4. H(i) = H(i - 1) /\ A(i) = Append(A(i - 1), <<cur.address, PrefixOf(cur.netmask)>>)
      BY <1>4, <1>5, <3>7
    <3>5. info.addresses = A(i - 1) /\ info = [name |-> name, type |-> TypeOf(name), hardware |-> H(i - 1), addresses |-> A(i - 1)]
      BY <1>3
    <3>6. AddAddress(info, cur) = [info EXCEPT !.addresses = A(i)]
      <4> HIDE DEF info, cur
      <4> QED
        BY <3>2, <3>3, <3>4, <3>5
    <3>8. InfoBefore(entries, name, i) = [info EXCEPT !.addresses = A(i)]
      <4> DEFINE before == [name |-> name, type |-> TypeOf(name), hardware |-> H(i - 1), addresses |-> A(i - 1)]
      <4>1. [before EXCEPT !.addresses = A(i)] =
              [name |-> name, type |-> TypeOf(name), hardware |-> H(i - 1), addresses |-> A(i)]
        OBVIOUS
      <4> HIDE DEF info, before
      <4>2. info = before
        BY <3>5 DEF before
      <4> QED
        BY <1>3, <3>4, <4>1, <4>2
    <3> QED
      BY <1>7, <3>6, <3>8 DEF named
  <2>3. CASE /\ cur.family # "link"
             /\ ~(cur.family \in {"in", "in6"} /\ ~(cur.family = "in6" /\ cur.deprecated))
    <3>1. AddAddress(info, cur) = info
      BY <2>3 DEF AddAddress
    <3>2. H(i) = H(i - 1) /\ A(i) = A(i - 1)
      BY <1>2, <1>4, <1>5, <1>7, <2>3
    <3> QED
      BY <1>3, <1>7, <3>1, <3>2 DEF named
  <2> QED
    BY <2>1, <2>2, <2>3
<1> QED
  BY <1>6, <1>7

LEMMA InfoBeforeAll ==
  ASSUME NEW entries, Entered(entries), NEW name
  PROVE  InfoBefore(entries, name, Len(entries)) = InfoOf(entries, name)
<1> DEFINE n == Len(entries)
<1>1. n \in Nat /\ Links(entries, name) \in SUBSET (1..n) /\ Addresses(entries, name) \in SUBSET (1..n)
  BY EntriesOf
<1>2. \A P \in SUBSET (1..n) : Before(P, n) = P
  BY <1>1, BeforeIs
<1>3. Before(Links(entries, name), n) = Links(entries, name) /\ Before(Addresses(entries, name), n) = Addresses(entries, name)
  BY <1>1, <1>2
<1> QED
  BY <1>3 DEF InfoBefore, InfoOf, LastBefore, AddressesBefore

LEMMA InfoBeforeFirst ==
  ASSUME NEW entries, Entered(entries), NEW name, NEW i \in 1..Len(entries),
         \A j \in Named(entries, name) : i <= j
  PROVE  InfoBefore(entries, name, i - 1) =
           [name |-> name, type |-> TypeOf(name), hardware |-> NULL, addresses |-> <<>>]
<1>1. /\ Named(entries, name) \in SUBSET (1..Len(entries))
      /\ Links(entries, name) \in SUBSET Named(entries, name)
      /\ Addresses(entries, name) \in SUBSET Named(entries, name)
  BY EntriesOf
<1>2. \A j \in Named(entries, name) : ~(j <= i - 1)
  BY <1>1
<1>3. Before(Links(entries, name), i - 1) = {} /\ Before(Addresses(entries, name), i - 1) = {}
  BY <1>1, <1>2 DEF Before
<1>4. Cardinality({}) = 0
  BY FS_EmptySet
<1>5. AddressesBefore(entries, Addresses(entries, name), i - 1) = <<>>
  <2> DEFINE e(r) == LET x == entries[Nth(Before(Addresses(entries, name), i - 1), r)]
                     IN <<x.address, PrefixOf(x.netmask)>>
  <2>1. AddressesBefore(entries, Addresses(entries, name), i - 1) = [r \in 1..0 |-> e(r)]
    BY <1>3, <1>4 DEF AddressesBefore
  <2> HIDE DEF e
  <2> QED
    BY <2>1
<1>6. LastBefore(entries, Links(entries, name), i - 1, "address", NULL) = NULL
  BY <1>3 DEF LastBefore
<1> QED
  BY <1>5, <1>6 DEF InfoBefore

\* What is listed after i entries.
Listed(entries, i) ==
  [r \in 1..Cardinality(Before(Firsts(entries), i)) |->
     InfoBefore(entries, entries[Nth(Before(Firsts(entries), i), r)].name, i)]

LEMMA ListedNext ==
  ASSUME NEW entries, Entered(entries), NEW i \in 1..Len(entries)
  PROVE  Listed(entries, i) = AddEntry(Listed(entries, i - 1), entries[i])
<1> DEFINE n == Len(entries)
           cur == entries[i]
           A == Before(Firsts(entries), i - 1)
           B == Before(Firsts(entries), i)
           m == Cardinality(A)
           old == Listed(entries, i - 1)
           NameOf(r) == entries[Nth(A, r)].name
           Info(name) == InfoBefore(entries, name, i - 1)
           known == {r \in DOMAIN old : old[r].name = cur.name}
           new == [name |-> cur.name, type |-> TypeOf(cur.name), hardware |-> NULL, addresses |-> <<>>]
<1>0. n \in Nat /\ i \in 1..n /\ i - 1 \in 0..n /\ i \in Nat /\ DOMAIN entries = 1..n
  BY DEF Entered
<1>1. Firsts(entries) \in SUBSET (1..n) /\ \A name : Named(entries, name) \in SUBSET (1..n)
  BY EntriesOf
<1>2. A \in SUBSET Nat /\ IsFiniteSet(A) /\ m \in Nat
  <2>1. \A P \in SUBSET (1..n) : \A j \in 0..n : Before(P, j) \in SUBSET Nat /\ IsFiniteSet(Before(P, j))
    BY <1>0, BeforeIs
  <2>2. A \in SUBSET Nat /\ IsFiniteSet(A)
    BY <1>0, <1>1, <2>1
  <2> HIDE DEF A
  <2> QED
    BY <2>2, FS_CardinalityType
<1>3. (\A j \in A : j < i) /\ B = IF i \in Firsts(entries) THEN A \cup {i} ELSE A
  <2>1. \A P \in SUBSET (1..n) : \A k \in 1..n :
          /\ \A j \in Before(P, k - 1) : j < k
          /\ Before(P, k) = IF k \in P THEN Before(P, k - 1) \cup {k} ELSE Before(P, k - 1)
    BY <1>0, BeforeIs
  <2> QED
    BY <1>0, <1>1, <2>1, Zenon
<1>4. old = [r \in 1..m |-> Info(NameOf(r))]
  BY DEF Listed
<1>5. \A name : Info(name).name = name
  BY DEF InfoBefore
<1>6. \A r \in 1..m : Nth(A, r) \in A
  <2>1. \A P \in SUBSET (1..n) : \A k \in 0..n : \A r \in 1..Cardinality(Before(P, k)) :
          Nth(Before(P, k), r) \in Before(P, k)
    BY <1>0, NthIs
  <2> QED
    BY <1>0, <1>1, <2>1, Zenon
<1>7. \A j \in A : j \in Firsts(entries)
  BY DEF Before
<1>8. ASSUME NEW name
      PROVE  InfoBefore(entries, name, i) =
               IF i \in Named(entries, name) THEN AddAddress(Info(name), cur) ELSE Info(name)
  BY InfoBeforeNext
<1>9. Listed(entries, i) = [r \in 1..Cardinality(B) |-> InfoBefore(entries, entries[Nth(B, r)].name, i)]
  BY DEF Listed
<1>10. known = {r \in 1..m : NameOf(r) = cur.name}
  <2> HIDE DEF Info
  <2> QED
    BY <1>4, <1>5
<1>11. i \in Up(entries) <=> cur.running /\ cur.family # NULL /\ TypeOf(cur.name) # NULL
  BY <1>0 DEF Up
<1>12. \A j, name : j \in Named(entries, name) <=> j \in Up(entries) /\ entries[j].name = name
  BY DEF Named
<1>13. \A j : j \in Firsts(entries) <=> j \in Up(entries) /\ \A k \in Named(entries, entries[j].name) : j <= k
  BY DEF Firsts
<1> HIDE DEF A, B, Info, known, m, old
\* Which of the interfaces is the entry's.
<1>14. ASSUME i \in Up(entries)
       PROVE  known # {} <=> i \notin Firsts(entries)
  <2>1. ASSUME NEW r \in known PROVE i \notin Firsts(entries)
    <3>1. r \in 1..m /\ NameOf(r) = cur.name /\ Nth(A, r) \in A
      BY <1>6, <1>10, <2>1
    <3>2. Nth(A, r) \in Named(entries, cur.name) /\ Nth(A, r) < i
      BY <1>3, <1>7, <1>12, <1>13, <3>1
    <3>3. ~(i <= Nth(A, r))
      <4>1. Nth(A, r) \in Nat
        BY <1>2, <3>1
      <4> QED
        BY <1>0, <3>2, <4>1
    <3> QED
      BY <1>13, <3>2, <3>3
  <2>2. ASSUME i \notin Firsts(entries) PROVE known # {}
    <3> DEFINE N == Named(entries, cur.name)
               j == Min(N)
    <3>1. i \in N /\ N \in SUBSET Nat
      BY <1>1, <1>12, <1>14
    <3>2. j \in N /\ \A k \in N : j <= k
      <4> HIDE DEF N
      <4> QED
        BY <3>1, MinIs
    <3> HIDE DEF j
    <3>3. j \in Firsts(entries) /\ entries[j].name = cur.name
      BY <1>12, <1>13, <3>2
    <3>4. j # i
      BY <2>2, <3>3
    <3>5. j <= i /\ j \in Nat
      BY <3>1, <3>2
    <3>6. j \in A
      <4>1. j <= i - 1
        BY <1>0, <3>4, <3>5
      <4> QED
        BY <3>3, <4>1 DEF A, Before
    <3>7. Rank(A, j) \in 1..m /\ Nth(A, Rank(A, j)) = j
      BY <1>2, <3>6, RankIs, NthOfRank DEF m
    <3> QED
      BY <1>10, <3>3, <3>7
  <2> QED
    BY <2>1, <2>2
<1>15. AddEntry(old, cur) =
         CASE ~cur.running \/ cur.family = NULL -> old
           [] cur.running /\ cur.family # NULL /\ known # {} ->
                [r \in DOMAIN old |-> IF r \in known THEN AddAddress(old[r], cur) ELSE old[r]]
           [] OTHER -> IF TypeOf(cur.name) = NULL THEN old ELSE Append(old, AddAddress(new, cur))
  BY DEF AddEntry, known
\* The entry changes what is known of its own interface only.
<1>16. ASSUME NEW name, i \notin Named(entries, name) PROVE InfoBefore(entries, name, i) = Info(name)
  BY <1>8, <1>16
<1>17. ASSUME i \notin Up(entries) PROVE Listed(entries, i) = AddEntry(old, cur)
  <2>1. i \notin Firsts(entries) /\ \A name : i \notin Named(entries, name)
    BY <1>12, <1>13, <1>17
  <2>2. Listed(entries, i) = old
    BY <1>3, <1>4, <1>9, <1>16, <2>1 DEF m
  <2>3. CASE ~cur.running \/ cur.family = NULL
    BY <1>15, <2>2, <2>3
  <2>4. CASE cur.running /\ cur.family # NULL
    <3>1. TypeOf(cur.name) = NULL
      BY <1>11, <1>17, <2>4
    <3>2. known = {}
      <4>1. ASSUME NEW r \in known PROVE FALSE
        <5>1. Nth(A, r) \in Up(entries) /\ NameOf(r) = cur.name
          BY <1>6, <1>7, <1>10, <1>13, <4>1
        <5>2. TypeOf(NameOf(r)) # NULL
          BY <5>1 DEF Up
        <5> QED
          BY <3>1, <5>1, <5>2
      <4> QED
        BY <4>1
    <3> QED
      BY <1>15, <2>2, <2>4, <3>1, <3>2
  <2> QED
    BY <2>3, <2>4
<1>18. ASSUME i \in Up(entries), i \notin Firsts(entries) PROVE Listed(entries, i) = AddEntry(old, cur)
  <2>1. known # {} /\ cur.running /\ cur.family # NULL
    BY <1>11, <1>14, <1>18
  <2>2. AddEntry(old, cur) = [r \in 1..m |-> IF r \in known THEN AddAddress(old[r], cur) ELSE old[r]]
    BY <1>4, <1>15, <2>1
  <2>3. ASSUME NEW r \in 1..m
        PROVE  InfoBefore(entries, NameOf(r), i) = IF r \in known THEN AddAddress(old[r], cur) ELSE old[r]
    <3>1. old[r] = Info(NameOf(r))
      BY <1>4
    <3>2. r \in known <=> i \in Named(entries, NameOf(r))
      BY <1>10, <1>12, <1>18
    <3> QED
      BY <1>8, <3>1, <3>2
  <2>4. Listed(entries, i) = [r \in 1..m |-> InfoBefore(entries, NameOf(r), i)]
    BY <1>3, <1>9, <1>18 DEF m
  <2> QED
    BY <2>2, <2>3, <2>4
<1>19. ASSUME i \in Up(entries), i \in Firsts(entries) PROVE Listed(entries, i) = AddEntry(old, cur)
  <2>1. known = {} /\ cur.running /\ cur.family # NULL /\ TypeOf(cur.name) # NULL
    BY <1>11, <1>14, <1>19
  <2>2. AddEntry(old, cur) = Append(old, AddAddress(new, cur))
    BY <1>15, <2>1
  <2>3. InfoBefore(entries, cur.name, i) = AddAddress(new, cur)
    <3>1. i \in Named(entries, cur.name) /\ \A j \in Named(entries, cur.name) : i <= j
      BY <1>12, <1>13, <1>19
    <3>2. Info(cur.name) = new
      BY <3>1, InfoBeforeFirst DEF Info
    <3> QED
      BY <1>8, <3>1, <3>2
  <2>4. ASSUME NEW r \in 1..m PROVE InfoBefore(entries, NameOf(r), i) = Info(NameOf(r))
    <3>1. NameOf(r) # cur.name
      BY <1>10, <2>1
    <3> QED
      BY <1>12, <1>16, <3>1
  <2>5. /\ Cardinality(B) = m + 1
        /\ \A r \in 1..m : Nth(B, r) = Nth(A, r)
        /\ Nth(B, m + 1) = i
    BY <1>0, <1>2, <1>3, <1>19, NthOfMore DEF m
  <2> DEFINE I(r) == Info(NameOf(r))
             L(r) == InfoBefore(entries, entries[Nth(B, r)].name, i)
             new1 == AddAddress(new, cur)
  <2>6. /\ Listed(entries, i) = [r \in 1..m + 1 |-> L(r)] /\ old = [r \in 1..m |-> I(r)]
        /\ \A r \in 1..m : L(r) = I(r)
        /\ L(m + 1) = new1
    BY <1>4, <1>9, <2>3, <2>4, <2>5
  <2> HIDE DEF I, L, new1
  <2>7. Listed(entries, i) = Append(old, new1)
    <3>1. [r \in 1..m |-> I(r)] \in Seq({I(r) : r \in 1..m}) /\ Len([r \in 1..m |-> I(r)]) = m
      BY <1>2
    <3> QED
      BY <1>2, <2>6, <3>1
  <2> QED
    BY <2>2, <2>7 DEF new1
<1> QED
  BY <1>17, <1>18, <1>19 DEF old

LEMMA InterfacesListed ==
  ASSUME NEW entries, Entered(entries)
  PROVE  GetAllInterfaces(entries) = Checked(Interfaces(entries))
<1> DEFINE n == Len(entries)
           g == [i \in 0..n |-> Listed(entries, i)]
<1>1. n \in Nat /\ Firsts(entries) \in SUBSET (1..n)
  BY EntriesOf
<1>2. \A P \in SUBSET (1..n) : Before(P, 0) = {} /\ Before(P, n) = P
  BY <1>1, BeforeIs
<1>3. Listed(entries, 0) = <<>>
  <2>1. Before(Firsts(entries), 0) = {} /\ Cardinality({}) = 0
    BY <1>1, <1>2, FS_EmptySet
  <2> QED
    BY <2>1 DEF Listed
<1>4. \A i \in 1..n : Listed(entries, i) = AddEntry(Listed(entries, i - 1), entries[i])
  BY ListedNext
<1>5. g = [i \in 0..n |-> IF i = 0 THEN <<>> ELSE AddEntry(g[i - 1], entries[i])]
  <2>1. ASSUME NEW i \in 0..n PROVE g[i] = IF i = 0 THEN <<>> ELSE AddEntry(g[i - 1], entries[i])
    <3>1. CASE i = 0
      BY <1>3, <3>1
    <3>2. CASE i # 0
      <4>1. i \in 1..n /\ i - 1 \in 0..n
        BY <3>2
      <4> QED
        BY <1>4, <3>2, <4>1
    <3> QED
      BY <3>1, <3>2
  <2> QED
    BY <2>1
<1>6. AddEntries(entries) = g
  <2> HIDE DEF g
  <2> QED
    BY <1>1, <1>5, AddEntriesAre
<1>7. GetAllInterfaces(entries) = Checked(Listed(entries, n))
  BY <1>1, <1>6 DEF GetAllInterfaces
<1>8. Before(Firsts(entries), n) = Firsts(entries)
  BY <1>1, <1>2
<1>9. \A name : InfoBefore(entries, name, n) = InfoOf(entries, name)
  BY InfoBeforeAll
<1> QED
  BY <1>7, <1>8, <1>9 DEF Listed, Interfaces

(***************************************************************************)
(* strlcpy, strlcat                                                        *)
(***************************************************************************)

LEMMA EndOf ==
  ASSUME NEW src \in Seq(Chars), NEW i \in 1..(Len(src) + 1)
  PROVE  End(Append(src, NUL), i) = Len(src) + 1
<1> DEFINE S == {j \in i..Len(Append(src, NUL)) : Append(src, NUL)[j] = NUL}
<1>1. Len(Append(src, NUL)) = Len(src) + 1 /\ Append(src, NUL)[Len(src) + 1] = NUL
  OBVIOUS
<1>2. \A j \in 1..Len(src) : Append(src, NUL)[j] # NUL
  BY NulAssumption
<1>3. S = {Len(src) + 1}
  BY <1>1, <1>2
<1>4. Min({Len(src) + 1}) = Len(src) + 1
  BY MinOf
<1> QED
  BY <1>3, <1>4 DEF End

LEMMA StrlcpyFills ==
  ASSUME NEW src \in Seq(Chars), NEW dsize \in Nat
  PROVE  /\ Strlcpy(src, dsize).ret = Len(src)
         /\ Strlcpy(src, dsize).dst =
              IF dsize = 0 THEN <<>> ELSE Append(SubSeq(src, 1, AtMost(Len(src), dsize - 1)), NUL)
<1> DEFINE o == Append(src, NUL)
           S == {j \in DOMAIN o : j = dsize \/ o[j] = NUL}
           i == Min(S)
<1>1. DOMAIN o = 1..(Len(src) + 1) /\ Len(o) = Len(src) + 1 /\ o[Len(src) + 1] = NUL
  OBVIOUS
<1>2. \A j \in 1..Len(src) : o[j] # NUL /\ o[j] = src[j]
  BY NulAssumption
<1>3. S \in SUBSET Nat /\ Len(src) + 1 \in S
  BY <1>1
<1>4. dsize \in 1..Len(src) => i = dsize
  <2> SUFFICES ASSUME dsize \in 1..Len(src) PROVE i = dsize
    OBVIOUS
  <2>1. dsize \in S /\ \A k \in S : dsize <= k
    BY <1>1, <1>2
  <2> HIDE DEF S
  <2> QED
    BY <1>3, <2>1, MinOf
<1>5. dsize \notin 1..Len(src) => i = Len(src) + 1
  <2> SUFFICES ASSUME dsize \notin 1..Len(src) PROVE i = Len(src) + 1
    OBVIOUS
  <2>1. \A k \in S : Len(src) + 1 <= k
    BY <1>1, <1>2
  <2> HIDE DEF S
  <2> QED
    BY <1>3, <2>1, MinOf
<1>0. Strlcpy(src, dsize) =
        CASE dsize = 0 -> [dst |-> <<>>, ret |-> End(o, 1) - 1]
          [] dsize # 0 /\ i = dsize -> [dst |-> Append(SubSeq(o, 1, i - 1), NUL), ret |-> End(o, i) - 1]
          [] OTHER -> [dst |-> SubSeq(o, 1, i), ret |-> i - 1]
  BY DEF Strlcpy
<1> HIDE DEF S, i, o
<1>6. \A j \in 1..(Len(src) + 1) : End(o, j) = Len(src) + 1
  BY EndOf DEF o
<1>7. CASE dsize = 0
  <2>1. Strlcpy(src, dsize) = [dst |-> <<>>, ret |-> End(o, 1) - 1]
    BY <1>0, <1>7
  <2>2. End(o, 1) = Len(src) + 1
    BY <1>6
  <2> QED
    BY <1>7, <2>1, <2>2
<1>8. CASE dsize \in 1..(Len(src) + 1)
  <2>1. i = dsize
    BY <1>4, <1>5, <1>8
  <2>2. SubSeq(o, 1, dsize - 1) = SubSeq(src, 1, dsize - 1)
    BY <1>1, <1>2, <1>8
  <2>3. AtMost(Len(src), dsize - 1) = dsize - 1
    BY <1>8 DEF AtMost
  <2>4. Strlcpy(src, dsize) = [dst |-> Append(SubSeq(o, 1, dsize - 1), NUL), ret |-> End(o, dsize) - 1]
    BY <1>0, <1>8, <2>1
  <2>5. End(o, dsize) = Len(src) + 1
    BY <1>6, <1>8
  <2> QED
    BY <1>8, <2>2, <2>3, <2>4, <2>5
<1>9. CASE dsize > Len(src) + 1
  <2>1. i = Len(src) + 1 /\ i # dsize
    BY <1>5, <1>9
  <2>2. SubSeq(o, 1, Len(src) + 1) = Append(SubSeq(src, 1, Len(src)), NUL)
    BY <1>1, <1>2
  <2>3. AtMost(Len(src), dsize - 1) = Len(src)
    BY <1>9 DEF AtMost
  <2>4. Strlcpy(src, dsize) = [dst |-> SubSeq(o, 1, i), ret |-> i - 1]
    BY <1>0, <1>9, <2>1
  <2>5. dsize # 0 /\ i - 1 = Len(src)
    BY <1>9, <2>1
  <2>6. Strlcpy(src, dsize) = [dst |-> Append(SubSeq(src, 1, Len(src)), NUL), ret |-> Len(src)]
    BY <2>1, <2>2, <2>4, <2>5
  <2> QED
    BY <2>3, <2>5, <2>6
<1>10. dsize = 0 \/ dsize \in 1..(Len(src) + 1) \/ dsize > Len(src) + 1
  OBVIOUS
<1> QED
  BY <1>7, <1>8, <1>9, <1>10

\* What strlcat is to return of dst and src.
Appended(dst, src, r) ==
  LET ends == {i \in DOMAIN dst : dst[i] = NUL}
      dlen == IF ends = {} THEN Len(dst) ELSE Min(ends) - 1
      whole == SubSeq(dst, 1, dlen) \o src
      n == AtMost(Len(whole), Len(dst) - 1)
  IN /\ r.ret = Len(whole)
     /\ Len(r.dst) = Len(dst)
     /\ IF ends = {} THEN r.dst = dst
        ELSE SubSeq(r.dst, 1, n + 1) = Append(SubSeq(whole, 1, n), NUL)

LEMMA StrlcatAppends ==
  ASSUME NEW src \in Seq(Chars), NEW dst \in Seq(Chars \cup {NUL})
  PROVE  Appended(dst, src, Strlcat(dst, src))
<1> DEFINE ends == {i \in DOMAIN dst : dst[i] = NUL}
           dlen == IF ends = {} THEN Len(dst) ELSE Min(ends) - 1
           whole == SubSeq(dst, 1, dlen) \o src
           n == AtMost(Len(whole), Len(dst) - 1)
           stops == {i \in 0..Len(dst) : i = Len(dst) \/ dst[i + 1] = NUL}
           k == Min({Len(src), Len(dst) - dlen - 1})
           joined == [i \in 1..Len(dst) |-> CASE i \in dlen + 1..dlen + k -> src[i - dlen]
                                              [] i = dlen + k + 1 -> NUL
                                              [] OTHER -> dst[i]]
<1>1. ends # {} => Min(ends) \in ends /\ \A i \in ends : Min(ends) <= i
  <2>1. ends \in SUBSET Nat
    OBVIOUS
  <2> HIDE DEF ends
  <2> QED
    BY <2>1, MinIs
<1>2. stops \in SUBSET Nat /\ Len(dst) \in stops
  OBVIOUS
<1>4. /\ dlen \in 0..Len(dst)
      /\ IF ends = {} THEN dlen = Len(dst) ELSE dlen < Len(dst) /\ dlen + 1 \in ends /\ \A i \in ends : dlen < i
  <2>1. CASE ends = {}
    BY <2>1
  <2>2. CASE ends # {}
    <3>1. dlen = Min(ends) - 1
      BY <2>2
    <3>2. Min(ends) \in 1..Len(dst) /\ ends \subseteq 1..Len(dst)
      BY <1>1, <2>2
    <3> HIDE DEF ends, dlen
    <3>3. dlen \in 0..Len(dst) /\ dlen < Len(dst) /\ dlen + 1 = Min(ends)
      BY <3>1, <3>2
    <3> QED
      BY <1>1, <2>2, <3>2, <3>3
  <2> QED
    BY <2>1, <2>2
<1> HIDE DEF dlen
<1>5. Min(stops) = dlen
  <2>1. CASE ends = {}
    <3>1. \A i \in stops : dlen <= i
      BY <1>4, <2>1
    <3> HIDE DEF stops
    <3> QED
      BY <1>2, <1>4, <2>1, <3>1, MinOf
  <2>2. CASE ends # {}
    <3>1. dlen \in stops
      BY <1>4, <2>2
    <3>2. ASSUME NEW i \in stops PROVE dlen <= i
      <4>1. i = Len(dst) \/ i + 1 \in ends
        OBVIOUS
      <4> HIDE DEF ends, stops
      <4> QED
        BY <1>2, <1>4, <2>2, <4>1
    <3> HIDE DEF stops
    <3> QED
      BY <1>2, <3>1, <3>2, MinOf
  <2> QED
    BY <2>1, <2>2
<1>7. Strlcat(dst, src) =
        LET l == Min(stops)
            m == Min({Len(src), Len(dst) - l - 1})
            j == [i \in 1..Len(dst) |-> CASE i \in l + 1..l + m -> src[i - l]
                                         [] i = l + m + 1 -> NUL
                                         [] OTHER -> dst[i]]
        IN [dst |-> IF l = Len(dst) THEN dst ELSE j, ret |-> l + Len(src)]
  BY DEF Strlcat
<1> HIDE DEF stops, ends, k, joined
<1>6. Len(whole) = dlen + Len(src)
  BY <1>4
<1>10. Strlcat(dst, src) = [dst |-> IF dlen = Len(dst) THEN dst ELSE joined, ret |-> dlen + Len(src)]
  BY <1>5, <1>7 DEF k, joined
<1> DEFINE r == Strlcat(dst, src)
<1> HIDE DEF r
<1>11. SUFFICES /\ r.ret = Len(whole)
                /\ Len(r.dst) = Len(dst)
                /\ IF ends = {} THEN r.dst = dst
                   ELSE SubSeq(r.dst, 1, n + 1) = Append(SubSeq(whole, 1, n), NUL)
  BY DEF Appended, ends, r, dlen
<1> HIDE DEF whole, n
<1>12. r.ret = Len(whole) /\ r.dst = IF dlen = Len(dst) THEN dst ELSE joined
  BY <1>6, <1>10 DEF r
<1>8. CASE ends = {}
  BY <1>4, <1>12, <1>8
<1>9. CASE ends # {}
  <2>1. dlen < Len(dst) /\ Len(dst) - dlen - 1 \in Nat
    BY <1>4, <1>9
  <2>2. k = IF Len(src) > Len(dst) - dlen - 1 THEN Len(dst) - dlen - 1 ELSE Len(src)
    <3> USE DEF k
    <3>1. {Len(src), Len(dst) - dlen - 1} \in SUBSET Nat
      BY <2>1
    <3>2. k \in {Len(src), Len(dst) - dlen - 1} /\ \A m \in {Len(src), Len(dst) - dlen - 1} : k <= m
      BY <3>1, MinIs
    <3> QED
      BY <2>1, <3>2
  <2>3. n = dlen + k /\ n < Len(dst) /\ k \in 0..Len(src)
    BY <1>4, <1>6, <2>1, <2>2 DEF AtMost, n
  <2>4. joined \in Seq(Chars \cup {NUL}) /\ Len(joined) = Len(dst)
    <3> USE DEF joined
    <3>1. ASSUME NEW i \in 1..Len(dst) PROVE joined[i] \in Chars \cup {NUL}
      BY <1>4, <2>3
    <3> QED
      BY <3>1
  <2>5. SubSeq(joined, 1, n + 1) = Append(SubSeq(whole, 1, n), NUL)
    <3>1. whole \in Seq(Chars \cup {NUL}) /\ n \in 0..Len(whole)
      <4>1. SubSeq(dst, 1, dlen) \in Seq(Chars \cup {NUL}) /\ src \in Seq(Chars \cup {NUL})
        BY <1>4
      <4>2. whole \in Seq(Chars \cup {NUL})
        BY <4>1 DEF whole
      <4> QED
        BY <1>4, <1>6, <2>3, <4>2
    <3>2. ASSUME NEW i \in 1..n PROVE joined[i] = whole[i]
      <4>1. CASE i <= dlen
        <5>1. joined[i] = dst[i]
          BY <1>4, <2>3, <4>1 DEF joined
        <5>2. whole[i] = dst[i]
          BY <1>4, <2>3, <4>1 DEF whole
        <5> QED
          BY <5>1, <5>2
      <4>2. CASE i > dlen
        <5>1. joined[i] = src[i - dlen]
          BY <2>3, <4>2, <1>4 DEF joined
        <5>2. whole[i] = src[i - dlen]
          BY <2>3, <4>2, <1>4 DEF whole
        <5> QED
          BY <5>1, <5>2
      <4> QED
        BY <1>4, <4>1, <4>2
    <3>3. joined[n + 1] = NUL
      BY <2>3, <1>4 DEF joined
    <3>4. SubSeq(joined, 1, n + 1) \in Seq(Chars \cup {NUL}) /\ Len(SubSeq(joined, 1, n + 1)) = n + 1
      <4>1. n + 1 \in 0..Len(joined)
        BY <1>4, <2>3, <2>4
      <4> QED
        BY <2>4, <4>1
    <3>5. Append(SubSeq(whole, 1, n), NUL) \in Seq(Chars \cup {NUL}) /\ Len(Append(SubSeq(whole, 1, n), NUL)) = n + 1
      BY <3>1
    <3>6. ASSUME NEW i \in 1..n + 1 PROVE SubSeq(joined, 1, n + 1)[i] = Append(SubSeq(whole, 1, n), NUL)[i]
      <4>1. SubSeq(joined, 1, n + 1)[i] = joined[i]
        BY <2>3, <2>4
      <4>2. Append(SubSeq(whole, 1, n), NUL)[i] = IF i = n + 1 THEN NUL ELSE whole[i]
        BY <3>1
      <4> QED
        BY <3>2, <3>3, <4>1, <4>2, <3>1
    <3> QED
      BY <3>4, <3>5, <3>6
  <2> QED
    <3>1. dlen # Len(dst)
      BY <1>4, <1>9
    <3>2. r.dst = joined
      BY <1>12, <3>1
    <3> QED
      BY <1>12, <1>9, <2>4, <2>5, <3>2
<1> QED
  BY <1>8, <1>9
(***************************************************************************)
(* hasmntopt                                                               *)
(***************************************************************************)

LEMMA OptionIs ==
  ASSUME NEW opts \in Seq(Chars), NEW opt \in Names,
         NEW i \in 1..Len(opts)
  PROVE  OptionAt(opts, i) = opt <=>
           i \in Occurrences(opts, opt, i) /\ At(opts, i + Len(opt)) \in {NUL, Comma, Equals}
<1> DEFINE ends == {j \in i..Len(opts) : opts[j] \in {Comma, Equals}}
           e == IF ends = {} THEN Len(opts) + 1 ELSE Min(ends)
<1>1. Len(opts) \in Nat /\ Len(opt) \in Nat \ {0} /\ DOMAIN opts = 1..Len(opts) /\ DOMAIN opt = 1..Len(opt)
  <2>1. opt \in Seq(Chars \ {Comma, Equals}) /\ opt # <<>>
    BY DEF Names
  <2> QED
    BY <2>1
<1>2. /\ e \in i..Len(opts) + 1
      /\ \A j \in i..e - 1 : opts[j] \notin {Comma, Equals}
      /\ e <= Len(opts) => opts[e] \in {Comma, Equals}
  <2>1. CASE ends = {}
    BY <1>1, <2>1
  <2>2. CASE ends # {}
    <3>1. ends \in SUBSET Nat
      OBVIOUS
    <3>2. Min(ends) \in ends /\ \A j \in ends : Min(ends) <= j
      <4> HIDE DEF ends
      <4> QED
        BY <2>2, <3>1, MinIs
    <3>3. e = Min(ends)
      BY <2>2
    <3>4. e \in ends /\ \A j \in ends : e <= j
      BY <3>2, <3>3
    <3> HIDE DEF e
    <3>5. e \in i..Len(opts) /\ opts[e] \in {Comma, Equals}
      BY <3>4
    <3>6. ASSUME NEW j \in i..e - 1, opts[j] \in {Comma, Equals} PROVE FALSE
      <4>1. j \in ends
        BY <3>5, <3>6
      <4> QED
        BY <3>4, <3>5, <4>1
    <3> QED
      BY <3>5, <3>6
  <2> QED
    BY <2>1, <2>2
<1>3. OptionAt(opts, i) = SubSeq(opts, i, e - 1)
  <2>1. CASE ends = {}
    BY <1>1, <2>1 DEF OptionAt
  <2>2. CASE ends # {}
    BY <1>1, <2>2 DEF OptionAt
  <2> QED
    BY <2>1, <2>2
<1> HIDE DEF e, ends
<1>4. ASSUME OptionAt(opts, i) = opt
      PROVE  i \in Occurrences(opts, opt, i) /\ At(opts, i + Len(opt)) \in {NUL, Comma, Equals}
  <2>1. Len(SubSeq(opts, i, e - 1)) = e - i
    BY <1>1, <1>2
  <2>2. e = i + Len(opt)
    BY <1>1, <1>2, <1>3, <1>4, <2>1
  <2>3. i \in i..Len(opts) - Len(opt) + 1
    BY <1>1, <1>2, <2>2
  <2>4. SubSeq(opts, i, i + Len(opt) - 1) = opt
    BY <1>3, <1>4, <2>2
  <2>5. At(opts, e) \in {NUL, Comma, Equals}
    BY <1>1, <1>2 DEF At
  <2> QED
    BY <2>2, <2>3, <2>4, <2>5 DEF Occurrences
<1>5. ASSUME i \in Occurrences(opts, opt, i), At(opts, i + Len(opt)) \in {NUL, Comma, Equals}
      PROVE  OptionAt(opts, i) = opt
  <2>1. i + Len(opt) - 1 <= Len(opts) /\ SubSeq(opts, i, i + Len(opt) - 1) = opt
    BY <1>1, <1>5 DEF Occurrences
  <2>2. ASSUME NEW j \in i..i + Len(opt) - 1 PROVE opts[j] \notin {Comma, Equals}
    <3>1. opts[j] = opt[j - i + 1]
      <4>1. SubSeq(opts, i, i + Len(opt) - 1)[j - i + 1] = opts[j]
        BY <1>1, <2>1
      <4> QED
        BY <2>1, <4>1
    <3>2. j - i + 1 \in 1..Len(opt)
      BY <1>1
    <3>3. opt[j - i + 1] \in Chars \ {Comma, Equals}
      BY <3>2 DEF Names
    <3> QED
      BY <3>1, <3>3
  <2> DEFINE past == i + Len(opt)
  <2>3. past \in Nat /\ 1 <= past /\ past <= Len(opts) + 1 /\ e >= past
    BY <1>1, <1>2, <2>1, <2>2
  <2> HIDE DEF past
  <2>4. past = Len(opts) + 1 \/ opts[past] \in {Comma, Equals}
    <3>1. CASE past = Len(opts) + 1
      BY <3>1
    <3>2. CASE past # Len(opts) + 1
      <4>1. past \in 1..Len(opts)
        BY <1>1, <2>3, <3>2
      <4>2. opts[past] \in Chars
        BY <4>1
      <4>3. opts[past] \in {NUL, Comma, Equals}
        BY <1>1, <1>5, <4>1 DEF At, past
      <4> QED
        BY <4>2, <4>3, NulAssumption
    <3> QED
      BY <3>1, <3>2
  <2>5. e = past
    <3>1. CASE past = Len(opts) + 1
      BY <1>1, <1>2, <2>3, <3>1
    <3>2. CASE past # Len(opts) + 1
      <4>1. opts[past] \in {Comma, Equals} /\ past \in Nat /\ past >= i
        BY <1>1, <2>3, <2>4, <3>2 DEF past
      <4>2. past \notin i..e - 1
        BY <1>2, <4>1
      <4> QED
        BY <1>2, <2>3, <4>1, <4>2
    <3> QED
      BY <3>1, <3>2
  <2> QED
    BY <1>3, <2>1, <2>5 DEF past
<1> QED
  BY <1>4, <1>5

LEMMA HasmntoptFinds ==
  ASSUME NEW opts \in Seq(Chars), NEW opt \in Names
  PROVE  LET at == {i \in OptionStarts(opts) : OptionAt(opts, i) = opt}
         IN Hasmntopt(opts, opt) = IF at = {} THEN 0 ELSE Min(at)
<1> DEFINE at == {i \in OptionStarts(opts) : OptionAt(opts, i) = opt}
           hits(rest) == Occurrences(opts, opt, rest)
           found(p) == (p = 1 \/ At(opts, p - 1) = Comma) /\ At(opts, p + Len(opt)) \in {NUL, Comma, Equals}
           Step(f, rest) ==
             CASE hits(rest) = {} -> 0
               [] hits(rest) # {} /\ found(Min(hits(rest))) -> Min(hits(rest))
               [] OTHER -> IF Commas(opts, Min(hits(rest))) = {} THEN 0
                           ELSE f[Min(Commas(opts, Min(hits(rest)))) + 1]
           Eq(f) == f = [rest \in Rests(opts) |-> Step(f, rest)]
           later(rest) == {i \in at : i >= rest}
           g == [rest \in Rests(opts) |-> IF later(rest) = {} THEN 0 ELSE Min(later(rest))]
<1>1. Len(opts) \in Nat /\ Len(opt) \in Nat \ {0} /\ DOMAIN opts = 1..Len(opts)
  <2>1. opt \in Seq(Chars \ {Comma, Equals}) /\ opt # <<>>
    BY DEF Names
  <2> QED
    BY <2>1
<1>2. Rests(opts) \subseteq 1..Len(opts) + 1 /\ 1 \in Rests(opts)
  BY <1>1 DEF Rests, Commas
\* An option of that name is an occurrence, and what is one and is found is an option.
<1>3. ASSUME NEW rest \in Rests(opts), NEW i \in later(rest) PROVE i \in hits(rest) /\ found(i)
  <2>1. i \in 1..Len(opts) /\ (i = 1 \/ opts[i - 1] = Comma) /\ i >= rest
    BY DEF OptionStarts
  <2>2. i \in Occurrences(opts, opt, i) /\ At(opts, i + Len(opt)) \in {NUL, Comma, Equals}
    BY <2>1, OptionIs
  <2>3. i \in hits(rest)
    BY <1>1, <1>2, <2>1, <2>2 DEF Occurrences
  <2>4. i = 1 \/ At(opts, i - 1) = Comma
    BY <1>1, <2>1 DEF At
  <2> QED
    BY <2>2, <2>3, <2>4
<1>4. ASSUME NEW rest \in Rests(opts), NEW p \in hits(rest), found(p) PROVE p \in later(rest)
  <2>1. p \in 1..Len(opts) /\ p >= rest /\ p \in Occurrences(opts, opt, p)
    BY <1>1, <1>2 DEF Occurrences
  <2>2. p = 1 \/ opts[p - 1] = Comma
    <3>1. p # 1 => p - 1 \in DOMAIN opts
      BY <1>1, <2>1
    <3> QED
      BY <1>4, <3>1 DEF At
  <2>3. OptionAt(opts, p) = opt
    BY <1>4, <2>1, OptionIs
  <2> QED
    BY <2>1, <2>2, <2>3 DEF OptionStarts
<1>5. ASSUME NEW rest \in Rests(opts) PROVE hits(rest) \in SUBSET Nat /\ \A p \in hits(rest) : p >= rest
  BY <1>1, <1>2 DEF Occurrences
<1>6. ASSUME NEW rest \in Rests(opts), hits(rest) # {}
      PROVE  /\ Min(hits(rest)) \in hits(rest) /\ \A p \in hits(rest) : Min(hits(rest)) <= p
             /\ Min(hits(rest)) \in Nat /\ Min(hits(rest)) >= rest
  <2> HIDE DEF hits
  <2> QED
    BY <1>5, <1>6, MinIs
<1>7. ASSUME NEW p \in Nat, Commas(opts, p) # {}
      PROVE  LET c == Min(Commas(opts, p))
             IN c \in Commas(opts, p) /\ (\A k \in Commas(opts, p) : c <= k) /\ c \in Nat /\ c >= p
  <2>1. Commas(opts, p) \in SUBSET Nat /\ \A k \in Commas(opts, p) : k >= p
    BY <1>1 DEF Commas
  <2> QED
    BY <1>7, <2>1, MinIs
\* Behind what is no option, the loop goes on behind the next comma.
<1>8. ASSUME NEW rest \in Rests(opts), hits(rest) # {}, Commas(opts, Min(hits(rest))) # {}
      PROVE  LET c == Min(Commas(opts, Min(hits(rest)))) IN c + 1 \in Rests(opts) /\ c + 1 > rest
  <2> DEFINE p == Min(hits(rest))
             c == Min(Commas(opts, p))
  <2>1. p \in Nat /\ p >= rest /\ rest \in Nat /\ rest >= 1
    BY <1>2, <1>6, <1>8
  <2>2. Commas(opts, p) # {}
    BY <1>8
  <2> HIDE DEF p
  <2>3. c \in Commas(opts, p) /\ c \in Nat /\ c >= p
    BY <1>7, <2>1, <2>2
  <2> HIDE DEF c
  <2>4. c \in Commas(opts, 1) /\ c + 1 > rest
    BY <1>1, <2>1, <2>3 DEF Commas
  <2>5. c + 1 \in Rests(opts)
    BY <2>4 DEF Rests
  <2> QED
    BY <2>4, <2>5 DEF c, p
<1>9. ASSUME NEW rest \in Rests(opts) PROVE g[rest] = Step(g, rest)
  <2> DEFINE p == Min(hits(rest))
             c == Min(Commas(opts, p))
  <2>1. g[rest] = IF later(rest) = {} THEN 0 ELSE Min(later(rest))
    OBVIOUS
  <2>2. later(rest) \in SUBSET Nat
    BY <1>1 DEF OptionStarts
  <2>3. CASE hits(rest) = {}
    <3>1. later(rest) = {}
      BY <1>3, <2>3
    <3> HIDE DEF later, g
    <3> QED
      BY <2>1, <2>3, <3>1
  <2>4. CASE hits(rest) # {} /\ found(p)
    <3>1. p \in hits(rest) /\ \A k \in hits(rest) : p <= k
      BY <1>6, <2>4
    <3>2. p \in later(rest)
      <4> HIDE DEF p
      <4> QED
        BY <1>4, <2>4, <3>1
    <3>3. \A k \in later(rest) : p <= k
      <4> HIDE DEF p, later, hits, found
      <4> QED
        BY <1>3, <3>1
    <3>4. Min(later(rest)) = p
      <4> HIDE DEF p, later
      <4> QED
        BY <2>2, <3>2, <3>3, MinOf
    <3>5. Step(g, rest) = p
      <4> HIDE DEF g, hits, found
      <4> QED
        BY <2>4
    <3>6. later(rest) # {}
      BY <3>2
    <3> HIDE DEF p, later, g, Step
    <3> QED
      BY <2>1, <3>4, <3>5, <3>6
  <2>5. CASE hits(rest) # {} /\ ~found(p)
    <3>1. p \in hits(rest) /\ p \in Nat /\ p >= rest /\ \A k \in hits(rest) : p <= k
      BY <1>6, <2>5
    <3>2. ASSUME NEW i \in later(rest) PROVE i - 1 \in Commas(opts, p)
      <4>1. i \in hits(rest) /\ found(i)
        <5> HIDE DEF later, hits, found
        <5> QED
          BY <1>3
      <4>2. i # p /\ p <= i
        <5> HIDE DEF p, later, hits, found
        <5> QED
          BY <2>5, <3>1, <4>1
      <4>3. i \in 1..Len(opts) /\ (i = 1 \/ opts[i - 1] = Comma)
        BY DEF OptionStarts
      <4>4. rest \in Nat /\ rest >= 1
        BY <1>2
      <4> HIDE DEF p, later, hits, found
      <4> QED
        BY <1>1, <3>1, <4>2, <4>3, <4>4 DEF Commas
    <3>3. CASE Commas(opts, p) = {}
      <4>1. later(rest) = {}
        BY <3>2, <3>3
      <4>2. Step(g, rest) = 0
        <5> HIDE DEF g, hits, found
        <5> QED
          BY <2>5, <3>3
      <4> HIDE DEF p, later, g, Step
      <4> QED
        BY <2>1, <4>1, <4>2
    <3>4. CASE Commas(opts, p) # {}
      <4>1. Step(g, rest) = g[c + 1]
        <5> HIDE DEF g, hits, found
        <5> QED
          BY <2>5, <3>4
      <4>2. c + 1 \in Rests(opts) /\ c + 1 > rest /\ rest \in Nat
        <5> HIDE DEF hits
        <5> QED
          BY <1>2, <1>8, <2>5, <3>4
      <4>3. c \in Nat /\ \A k \in Commas(opts, p) : c <= k
        <5> HIDE DEF p
        <5> QED
          BY <1>7, <3>1, <3>4
      <4> HIDE DEF c
      <4>4. later(rest) = later(c + 1)
        <5>1. \A i \in at : i \in Nat
          BY DEF OptionStarts
        <5>2. ASSUME NEW i \in later(rest) PROVE i >= c + 1
          <6>1. c <= i - 1 /\ i \in Nat
            BY <3>2, <4>3, <5>1
          <6> QED
            BY <4>3, <6>1
        <5> HIDE DEF at
        <5> QED
          BY <4>2, <4>3, <5>1, <5>2
      <4>5. g[c + 1] = IF later(c + 1) = {} THEN 0 ELSE Min(later(c + 1))
        <5> HIDE DEF later
        <5> QED
          BY <4>2
      <4> HIDE DEF later, g, Step
      <4> QED
        BY <2>1, <4>1, <4>4, <4>5
    <3> QED
      BY <3>3, <3>4
  <2> QED
    BY <2>3, <2>4, <2>5
<1>10. Eq(g)
  <2>1. g = [rest \in Rests(opts) |-> g[rest]]
    OBVIOUS
  <2> HIDE DEF g, Step
  <2>2. [rest \in Rests(opts) |-> g[rest]] = [rest \in Rests(opts) |-> Step(g, rest)]
    BY <1>9
  <2> QED
    BY <2>1, <2>2
<1> DEFINE find == FindOption(opts, opt)
<1>11. find = CHOOSE f : Eq(f)
  BY DEF FindOption
<1>12. Eq(find)
  <2> HIDE DEF find, g, Eq
  <2> QED
    BY <1>10, <1>11
<1>13. find = g
  <2> DEFINE Differ == {rest \in Rests(opts) : find[rest] # g[rest]}
  <2>1. SUFFICES ASSUME Differ # {} PROVE FALSE
    <3>1. Differ = {} => \A rest \in Rests(opts) : find[rest] = g[rest]
      BY Zenon
    <3>2. find = [rest \in Rests(opts) |-> find[rest]] /\ g = [rest \in Rests(opts) |-> g[rest]]
      <4> HIDE DEF find, Step
      <4> QED
        BY <1>12
    <3> HIDE DEF find, g
    <3> QED
      BY <3>1, <3>2
  <2>2. Differ \in SUBSET Nat /\ \A rest \in Differ : rest <= Len(opts) + 1
    <3> HIDE DEF find, g
    <3> QED
      BY <1>1, <1>2
  <2>3. PICK m \in Differ : \A k \in Differ : k <= m
    <3> HIDE DEF Differ
    <3>1. Len(opts) + 1 \in Nat
      BY <1>1
    <3> QED
      BY <2>1, <2>2, <3>1, MaxIs
  <2>4. m \in Rests(opts) /\ find[m] # g[m] /\ m \in Nat
    <3> HIDE DEF find, g
    <3> QED
      BY <1>2
  <2>5. find[m] = Step(find, m) /\ g[m] = Step(g, m)
    <3> HIDE DEF find, g, Step
    <3> QED
      BY <1>10, <1>12, <2>4
  <2>6. Step(find, m) = Step(g, m)
    <3> DEFINE p == Min(hits(m))
               c == Min(Commas(opts, p))
    <3>1. CASE hits(m) # {} /\ ~found(p) /\ Commas(opts, p) # {}
      <4>1. c + 1 \in Rests(opts) /\ c + 1 > m
        <5> HIDE DEF hits
        <5> QED
          BY <1>8, <2>4, <3>1
      <4>2. c + 1 \in Nat
        BY <1>2, <4>1
      <4>3. find[c + 1] = g[c + 1]
        <5> HIDE DEF find, g, c
        <5> QED
          BY <2>3, <2>4, <4>1, <4>2
      <4>4. Step(find, m) = find[c + 1] /\ Step(g, m) = g[c + 1]
        <5> HIDE DEF find, g, hits, found
        <5> QED
          BY <3>1
      <4> HIDE DEF find, g, Step
      <4> QED
        BY <4>3, <4>4
    <3>2. CASE ~(hits(m) # {} /\ ~found(p) /\ Commas(opts, p) # {})
      <4> HIDE DEF find, g, hits, found
      <4> QED
        BY <3>2
    <3> QED
      BY <3>1, <3>2
  <2> HIDE DEF find, g, Step
  <2> QED
    BY <2>4, <2>5, <2>6
<1>14. later(1) = at
  BY <1>1 DEF OptionStarts
<1>15. g[1] = IF later(1) = {} THEN 0 ELSE Min(later(1))
  <2> HIDE DEF later
  <2> QED
    BY <1>2
<1>16. Hasmntopt(opts, opt) = find[1]
  BY DEF Hasmntopt
<1> HIDE DEF find, g, later
<1> QED
  BY <1>13, <1>14, <1>15, <1>16
(***************************************************************************)
(* getline                                                                 *)
(***************************************************************************)

LEMMA RoomIs ==
  ASSUME NEW stream, Len(stream) \in Nat, NEW n \in Nat \ {0}
  PROVE  \A pos \in 0..Len(stream) : Room(stream, n)[pos] \in Nat /\ Room(stream, n)[pos] > pos
<1> DEFINE L == Len(stream)
           Grown(r, i) == IF Full(i - 1, r[i - 1]) THEN 2 * r[i - 1] ELSE r[i - 1]
           Upto(k, h) == h \in [0..k -> Nat] /\ h[0] = n /\ \A i \in 1..k : h[i] = Grown(h, i)
           Eq(r) == r = [pos \in 0..L |-> IF pos = 0 THEN n ELSE Grown(r, pos)]
           Missing == {k \in 0..L : ~ \E h : Upto(k, h)}
\* The loop can be run for any number of characters.
<1>1. Missing = {}
  <2>1. SUFFICES ASSUME Missing # {} PROVE FALSE
    OBVIOUS
  <2>2. PICK k \in Missing : \A j \in Missing : k <= j
    <3>1. Missing \in SUBSET Nat
      OBVIOUS
    <3> HIDE DEF Missing
    <3> QED
      BY <2>1, <3>1, MinIs
  <2>3. k \in 0..L /\ ~ \E h : Upto(k, h)
    OBVIOUS
  <2>4. CASE k = 0
    <3>1. Upto(0, [i \in 0..0 |-> n])
      OBVIOUS
    <3> HIDE DEF Upto
    <3> QED
      BY <2>3, <2>4, <3>1
  <2>5. CASE k # 0
    <3>1. k - 1 \in 0..L /\ k - 1 \notin Missing
      <4>1. k - 1 \in 0..L /\ ~(k <= k - 1)
        BY <2>3, <2>5
      <4> HIDE DEF Missing
      <4> QED
        BY <2>2, <4>1
    <3>2. PICK h : Upto(k - 1, h)
      BY <3>1
    <3> DEFINE g == [i \in 0..k |-> IF i = k THEN Grown(h, k) ELSE h[i]]
    <3>3. k - 1 \in 0..k - 1 /\ k \in Nat /\ 0 \in 0..k - 1
      BY <2>3, <2>5
    <3>4. h[k - 1] \in Nat
      BY <3>2, <3>3
    <3>5. Grown(h, k) \in Nat
      BY <3>4
    <3>6. ASSUME NEW i \in 0..k - 1 PROVE g[i] = h[i] /\ h[i] \in Nat
      BY <2>3, <3>2
    <3>7. g[k] = Grown(h, k)
      BY <3>3
    <3>8. g \in [0..k -> Nat]
      <4> HIDE DEF Grown
      <4>1. ASSUME NEW i \in 0..k PROVE (IF i = k THEN Grown(h, k) ELSE h[i]) \in Nat
        <5>1. CASE i = k
          BY <3>5, <5>1
        <5>2. CASE i # k
          <6>1. i \in 0..k - 1
            BY <3>3, <5>2
          <6> QED
            BY <3>6, <5>2, <6>1
        <5> QED
          BY <5>1, <5>2
      <4> QED
        BY <4>1
    <3>9. ASSUME NEW i \in 1..k PROVE g[i] = Grown(g, i)
      <4>1. i - 1 \in 0..k - 1
        BY <3>3
      <4>2. g[i - 1] = h[i - 1]
        BY <3>6, <4>1
      <4>3. Grown(g, i) = Grown(h, i)
        <5> HIDE DEF g
        <5> QED
          BY <4>2
      <4>4. CASE i = k
        <5> HIDE DEF g, Grown
        <5> QED
          BY <3>7, <4>3, <4>4
      <4>5. CASE i # k
        <5>1. i \in 1..k - 1 /\ i \in 0..k - 1
          BY <3>3, <4>5
        <5>2. h[i] = Grown(h, i)
          <6> HIDE DEF Grown
          <6> QED
            BY <3>2, <5>1
        <5>3. g[i] = h[i]
          BY <3>6, <5>1
        <5> HIDE DEF g, Grown
        <5> QED
          BY <4>3, <5>2, <5>3
      <4> QED
        BY <4>4, <4>5
    <3>10. g[0] = n
      <4>1. g[0] = h[0] /\ h[0] = n
        BY <3>2, <3>3, <3>6
      <4> QED
        BY <4>1
    <3>11. Upto(k, g)
      <4> HIDE DEF g, Grown
      <4> QED
        BY <3>8, <3>9, <3>10
    <3> HIDE DEF Upto
    <3> QED
      BY <2>3, <3>11
  <2> QED
    BY <2>4, <2>5
<1>2. PICK h : Upto(L, h)
  BY <1>1
<1>3. Eq(h)
  <2> HIDE DEF Grown
  <2>1. h = [pos \in 0..L |-> h[pos]]
    BY <1>2
  <2>2. ASSUME NEW pos \in 0..L PROVE h[pos] = IF pos = 0 THEN n ELSE Grown(h, pos)
    <3>1. CASE pos = 0
      BY <1>2, <3>1
    <3>2. CASE pos # 0
      <4>1. pos \in 1..L
        BY <3>2
      <4> QED
        BY <1>2, <3>2, <4>1
    <3> QED
      BY <3>1, <3>2
  <2> QED
    BY <2>1, <2>2, Zenon
<1> DEFINE r == Room(stream, n)
<1>4. r = CHOOSE f : Eq(f)
  BY DEF Room
<1>5. Eq(r)
  <2> HIDE DEF r, Eq
  <2> QED
    BY <1>3, <1>4
<1> HIDE DEF r
<1>6. ASSUME NEW pos \in 0..L PROVE r[pos] = IF pos = 0 THEN n ELSE Grown(r, pos)
  <2> HIDE DEF Grown
  <2> QED
    BY <1>5
<1> HIDE DEF Upto, Eq, Missing
\* Room is left for the NUL.
<1> DEFINE Wrong == {pos \in 0..L : ~(r[pos] \in Nat /\ r[pos] > pos)}
<1>7. Wrong = {}
  <2>1. SUFFICES ASSUME Wrong # {} PROVE FALSE
    OBVIOUS
  <2>2. PICK m \in Wrong : \A j \in Wrong : m <= j
    <3>1. Wrong \in SUBSET Nat
      OBVIOUS
    <3> HIDE DEF Wrong
    <3> QED
      BY <2>1, <3>1, MinIs
  <2>3. m \in 0..L /\ ~(r[m] \in Nat /\ r[m] > m)
    OBVIOUS
  <2>4. CASE m = 0
    BY <1>6, <2>3, <2>4
  <2>5. CASE m # 0
    <3>1. m - 1 \in 0..L /\ m - 1 \notin Wrong /\ m \in Nat /\ m >= 1
      <4>1. m - 1 \in 0..L /\ ~(m <= m - 1) /\ m \in Nat /\ m >= 1
        BY <2>3, <2>5
      <4> HIDE DEF Wrong
      <4> QED
        BY <2>2, <4>1
    <3>2. r[m - 1] \in Nat /\ r[m - 1] > m - 1
      BY <3>1
    <3>3. r[m] = Grown(r, m)
      BY <1>6, <2>3, <2>5
    <3>4. CASE Full(m - 1, r[m - 1])
      <4>1. r[m] = 2 * r[m - 1]
        BY <3>3, <3>4
      <4> HIDE DEF Wrong
      <4> QED
        BY <2>3, <3>1, <3>2, <4>1
    <3>5. CASE ~Full(m - 1, r[m - 1])
      <4>1. r[m] = r[m - 1]
        BY <3>3, <3>5
      <4>2. ~(m - 1 + 1 >= r[m - 1])
        BY <3>5 DEF Full
      <4> HIDE DEF Wrong
      <4> QED
        BY <2>3, <3>1, <3>2, <4>1, <4>2
    <3> QED
      BY <3>4, <3>5
  <2> QED
    BY <2>4, <2>5
<1> QED
  BY <1>7 DEF r

\* What getline is to return of a stream.
LineRead(stream, fails, got) ==
  LET line == FirstLine(stream)
  IN \/ fails /\ got.ret = -1
     \/ line = <<>> /\ got.ret = -1
     \/ got.ret = Len(line) /\ got.used = Len(line)
        /\ Len(line) < got.size /\ got.size = got.n

LEMMA GetlineReads ==
  ASSUME NEW stream \in Seq(Chars \cup {NUL}), NEW n \in Nat, NEW first \in Nat \ {0}, NEW fails \in BOOLEAN
  PROVE  LineRead(stream, fails, Getline(stream, n, first, fails))
<1> DEFINE start == IF n = 0 THEN first ELSE n
           room == Room(stream, start)
           Read(i) == i = Len(stream) \/ (i > 0 /\ stream[i] = Newline)
           stops == {i \in 0..Len(stream) : Read(i) \/ (fails /\ Full(i, room[i]))}
           pos == Min(stops)
           got == Getline(stream, n, first, fails)
           ends == {i \in DOMAIN stream : stream[i] = Newline}
           line == FirstLine(stream)
<1>1. Len(stream) \in Nat /\ DOMAIN stream = 1..Len(stream) /\ start \in Nat \ {0}
  OBVIOUS
<1>2. stops \in SUBSET Nat /\ Len(stream) \in stops
  BY <1>1
<1>3. pos \in stops /\ \A i \in stops : pos <= i
  <2> HIDE DEF stops
  <2> QED
    BY <1>2, MinIs
<1>4. got = CASE n = 0 /\ fails -> [ret |-> -1, n |-> first, size |-> 0, used |-> 0]
              [] ~(n = 0 /\ fails) /\ Read(pos) ->
                   [ret |-> IF pos = 0 THEN -1 ELSE pos, n |-> room[pos], size |-> room[pos], used |-> pos]
              [] OTHER -> [ret |-> -1, n |-> 2 * room[pos], size |-> room[pos], used |-> pos + 1]
  BY DEF Getline
<1> HIDE DEF pos, room, got
<1>5. pos \in 0..Len(stream) /\ (Read(pos) \/ fails)
  BY <1>3
<1>6. \A i \in 0..Len(stream) : Read(i) => pos <= i
  BY <1>3
<1> HIDE DEF stops, start
<1>7. CASE n = 0 /\ fails
  BY <1>4, <1>7 DEF LineRead, got
<1>8. CASE ~(n = 0 /\ fails) /\ ~Read(pos)
  <2>1. fails
    BY <1>5, <1>8
  <2> HIDE DEF Read
  <2>2. got.ret = -1
    BY <1>4, <1>8
  <2> QED
    BY <2>1, <2>2 DEF LineRead, got
<1>9. CASE ~(n = 0 /\ fails) /\ Read(pos)
  <2> HIDE DEF Read
  <2>1. /\ got.ret = IF pos = 0 THEN -1 ELSE pos
        /\ got.used = pos /\ got.size = room[pos] /\ got.n = room[pos]
    BY <1>4, <1>9
  <2>2. room[pos] > pos
    BY <1>1, <1>5, RoomIs DEF room
  <2>6. pos \in 0..Len(stream)
    BY <1>5
  <2>3. Len(line) = pos
    <3> USE DEF Read
    <3>1. CASE ends = {}
      <4>1. line = stream
        BY <3>1 DEF FirstLine
      <4>2. pos = Len(stream)
        <5>1. ASSUME pos > 0, stream[pos] = Newline PROVE FALSE
          <6>1. pos \in DOMAIN stream
            BY <1>1, <2>6, <5>1
          <6> QED
            BY <3>1, <5>1, <6>1
        <5> QED
          BY <1>9, <5>1
      <4> QED
        BY <4>1, <4>2
    <3>2. CASE ends # {}
      <4>1. line = SubSeq(stream, 1, Min(ends))
        BY <3>2 DEF FirstLine
      <4>2. Min(ends) \in ends /\ \A i \in ends : Min(ends) <= i
        <5>1. ends \in SUBSET Nat
          BY <1>1
        <5> HIDE DEF ends
        <5> QED
          BY <3>2, <5>1, MinIs
      <4> DEFINE e == Min(ends)
      <4> HIDE DEF e
      <4>3. e \in 1..Len(stream) /\ stream[e] = Newline /\ \A i \in 1..Len(stream) : stream[i] = Newline => e <= i
        BY <1>1, <4>2 DEF e
      <4>4. pos <= e
        BY <1>6, <4>3
      <4>5. e <= pos
        BY <1>5, <1>9, <4>3
      <4>6. pos = e
        BY <1>5, <4>3, <4>4, <4>5
      <4>7. Len(SubSeq(stream, 1, e)) = e
        BY <1>1, <4>3
      <4> QED
        BY <4>1, <4>6, <4>7 DEF e
    <3> QED
      BY <3>1, <3>2
  <2>4. CASE pos = 0
    <3>1. line = <<>>
      <4>1. Len(stream) = 0
        BY <1>9, <2>4 DEF Read
      <4>2. stream = <<>>
        BY <4>1
      <4> QED
        BY <4>2 DEF FirstLine
    <3> HIDE DEF line
    <3> QED
      BY <2>1, <2>4, <3>1 DEF LineRead, got, line
  <2>5. CASE pos # 0
    <3> HIDE DEF line
    <3>1. got.ret = Len(line) /\ got.used = Len(line) /\ Len(line) < got.size /\ got.size = got.n
      <4>1. pos \in Nat
        BY <1>5
      <4> QED
        BY <2>1, <2>2, <2>3, <2>5, <4>1
    <3> QED
      BY <3>1 DEF LineRead, got, line
  <2> QED
    BY <2>4, <2>5
<1> QED
  BY <1>7, <1>8, <1>9

LEMMA FaccessatAnswers ==
  ASSUME NEW c, c.android \in BOOLEAN, c.same => c.real = c.effective
  PROVE  \/ Faccessat(c) = IF "AT_EACCESS" \in c.flags THEN c.effective ELSE c.real
         \/ c.flags \ {"AT_EACCESS"} # {} /\ Faccessat(c) = "EINVAL"
         \/ c.fails # "none" /\ Faccessat(c) = "EBUSY"
         \/ c.android /\ ~c.same
<1>1. CASE ~c.android /\ c.flags # {} /\ c.has2
  BY <1>1 DEF Faccessat
<1>2. CASE (c.android \/ c.flags = {} \/ ~c.has2) /\ c.flags \ {"AT_EACCESS"} # {}
  BY <1>2 DEF Faccessat
<1>3. CASE (c.android \/ c.flags = {} \/ ~c.has2) /\ c.flags \ {"AT_EACCESS"} = {}
  <2>1. CASE c.flags = {}
    BY <1>3, <2>1 DEF Faccessat
  <2>2. CASE c.flags # {}
    <3>1. c.flags = {"AT_EACCESS"} /\ (c.android \/ ~c.has2)
      BY <1>3, <2>2
    <3>2. Faccessat(c) = IF c.same THEN c.real
                         ELSE IF c.fails \in {"pipe2", "clone"} THEN "EBUSY" ELSE Checker(c)
      BY <3>1 DEF Faccessat
    <3>3. CASE c.same
      BY <3>1, <3>2, <3>3
    <3>4. CASE ~c.same
      BY <3>1, <3>2, <3>4 DEF Checker
    <3> QED
      BY <3>3, <3>4
  <2> QED
    BY <2>1, <2>2
<1> QED
  BY <1>1, <1>2, <1>3

(***************************************************************************)
(* The calls                                                               *)
(***************************************************************************)

\* What has been returned is the answer to a call that was made.
Answered == call \in Calls /\ (returned => result = Answer(call))

LEMMA InitAnswered == Init => Answered
  BY DEF Init, Answered

LEMMA AnsweredNext ==
  ASSUME Answered, [Next]_vars
  PROVE  Answered'
<1>1. CASE Return
  BY <1>1 DEF Answered, Return
<1>2. CASE Live
  BY <1>2 DEF Answered, Live
<1>3. CASE UNCHANGED vars
  BY <1>3 DEF Answered, vars
<1> QED
  BY <1>1, <1>2, <1>3 DEF Next

LEMMA AnswersAgree ==
  ASSUME Answered
  PROVE  CallsAgree
<1> SUFFICES ASSUME returned, result = Answer(call), call \in Calls PROVE CallsAgree
  BY DEF Answered, CallsAgree, Returned
<1>1. ASSUME call.fn = "strlcpy"
      PROVE  LET n == AtMost(Len(call.src), call.dsize - 1)
             IN /\ result.ret = Len(call.src)
                /\ result.dst = IF call.dsize = 0 THEN <<>> ELSE Append(SubSeq(call.src, 1, n), NUL)
  <2>1. call.src \in Seq(Chars) /\ call.dsize \in Nat
    BY <1>1, CallsAssumption
  <2>2. result = Strlcpy(call.src, call.dsize)
    BY <1>1 DEF Answer
  <2> QED
    BY <2>1, <2>2, StrlcpyFills
<1>2. ASSUME call.fn = "strlcat"
      PROVE  Appended(call.dst, call.src, result)
  <2>1. call.src \in Seq(Chars) /\ call.dst \in Seq(Chars \cup {NUL})
    BY <1>2, CallsAssumption
  <2>2. result = Strlcat(call.dst, call.src)
    BY <1>2 DEF Answer
  <2> QED
    BY <2>1, <2>2, StrlcatAppends
<1>3. ASSUME call.fn = "hasmntopt"
      PROVE  LET at == {i \in OptionStarts(call.opts) : OptionAt(call.opts, i) = call.opt}
             IN IF at = {} THEN result = 0 ELSE result \in at /\ \A i \in at : result <= i
  <2> DEFINE at == {i \in OptionStarts(call.opts) : OptionAt(call.opts, i) = call.opt}
  <2>1. call.opts \in Seq(Chars) /\ call.opt \in Names
    BY <1>3, CallsAssumption
  <2>2. result = Hasmntopt(call.opts, call.opt)
    BY <1>3 DEF Answer
  <2>3. result = IF at = {} THEN 0 ELSE Min(at)
    BY <2>1, <2>2, HasmntoptFinds
  <2>4. at \in SUBSET Nat
    BY DEF OptionStarts
  <2> HIDE DEF at
  <2>5. IF at = {} THEN result = 0 ELSE result \in at /\ \A i \in at : result <= i
    BY <2>3, <2>4, MinIs
  <2> QED
    BY <2>5 DEF at
<1>4. ASSUME call.fn = "getline"
      PROVE  LineRead(call.stream, call.fails, result)
  <2>1. call.stream \in Seq(Chars \cup {NUL}) /\ call.n \in Nat /\ call.fails \in BOOLEAN
    BY <1>4, CallsAssumption
  <2>2. result = Getline(call.stream, call.n, First, call.fails)
    BY <1>4 DEF Answer
  <2>3. First \in Nat \ {0}
    BY CallsAssumption
  <2> QED
    BY <2>1, <2>2, <2>3, GetlineReads
<1>5. ASSUME call.fn = "faccessat"
      PROVE  \/ result = IF "AT_EACCESS" \in call.flags THEN call.effective ELSE call.real
             \/ call.flags \ {"AT_EACCESS"} # {} /\ result = "EINVAL"
             \/ call.fails # "none" /\ result = "EBUSY"
             \/ call.android /\ ~call.same
  <2>1. call.android \in BOOLEAN /\ (call.same => call.real = call.effective)
    BY <1>5, CallsAssumption
  <2>2. result = Faccessat(call)
    BY <1>5 DEF Answer
  <2> QED
    BY <2>1, <2>2, FaccessatAnswers
<1> QED
  BY <1>1, <1>2, <1>3, <1>4, <1>5 DEF CallsAgree, Returned, Appended, LineRead

\* Whatever strings, buffers, sizes and streams the calls are made with, they
\* do what their manual pages say: no character is lost or written past the
\* end, and every string ends with its NUL.
THEOREM EveryCallAgrees == Spec => []CallsAgree
<1> QED
  BY InitAnswered, AnsweredNext, AnswersAgree, PTL DEF Spec

LEMMA AnswersConfigured ==
  ASSUME Answered
  PROVE  NetworkAsConfigured
<1> SUFFICES ASSUME returned, result = Answer(call), call \in Calls PROVE NetworkAsConfigured
  BY DEF Answered, NetworkAsConfigured, Returned
<1>1. ASSUME call.fn = "resolvconf", ~call.android, result # NULL
      PROVE  Limited(result) = Limited(ResolvConf(call.file, call.room))
  <2> DEFINE lines == call.file.lines
  <2>1. /\ IsSeq(lines)
        /\ \A line \in Range(lines) :
             line.kind = "options" =>
               \A x \in {line.ndots, line.timeout, line.attempts} : x = NULL \/ x \in Nat
    BY <1>1, CallsAssumption
  <2>2. Len(lines) \in Nat /\ DOMAIN lines = 1..Len(lines)
    BY <2>1 DEF IsSeq
  <2>3. \A i \in DOMAIN lines : lines[i] \in Range(lines)
    BY DEF Range
  <2>4. \A i \in DOMAIN lines : lines[i].kind = "options" => Numbered(lines[i])
    BY <2>1, <2>3 DEF Numbered
  <2>5. result = GetResolvConf(call.android, call.file, call.room)
    BY <1>1 DEF Answer
  <2> QED
    BY <1>1, <2>2, <2>4, <2>5, ResolvConfRead
<1>2. ASSUME call.fn = "interfaces"
      PROVE  result = Checked(Interfaces(call.entries))
  <2> DEFINE entries == call.entries
  <2>1. /\ IsSeq(entries)
        /\ \A e \in Range(entries) : e.family \in {"in", "in6"} => e.netmask \in Seq(Byte)
    BY <1>2, CallsAssumption
  <2>2. Len(entries) \in Nat /\ DOMAIN entries = 1..Len(entries)
    BY <2>1 DEF IsSeq
  <2>3. \A i \in DOMAIN entries : entries[i] \in Range(entries)
    BY DEF Range
  <2>4. Entered(entries)
    BY <2>1, <2>2, <2>3 DEF Entered
  <2>5. result = GetAllInterfaces(entries)
    BY <1>2 DEF Answer
  <2> QED
    BY <2>4, <2>5, InterfacesListed
<1>3. ASSUME call.fn = "prefix"
      PROVE  result = PrefixOf(call.netmask)
  <2>1. call.netmask \in Seq(Byte)
    BY <1>3, CallsAssumption
  <2>2. result = ToPrefixLength(call.netmask)
    BY <1>3 DEF Answer
  <2> QED
    BY <2>1, <2>2, PrefixFound
<1> QED
  BY <1>1, <1>2, <1>3 DEF NetworkAsConfigured, Returned

\* However many lines, entries and bytes there are and in whatever order: the
\* resolver has the first name servers, the last number of each option as far
\* as the manual's limits go and the last search list that fits the buffer,
\* a prefix is the netmask's leading ones, and openscreen lists each active
\* interface once, in getifaddrs' order, with all of its addresses, where their
\* masks are some.
THEOREM NetworkKnown == Spec => []NetworkAsConfigured
<1> QED
  BY InitAnswered, AnsweredNext, AnswersConfigured, PTL DEF Spec

(***************************************************************************)
(* The emulated MADV_WIPEONFORK                                            *)
(***************************************************************************)

\* The slot of the madvise under way is filled before it is counted.
Marking ==
  /\ stored <=> marking # NoRange
  /\ stored => nregions < MAX_REGIONS /\ regions[nregions] = marking /\ marking \in mapped

\* Who is wiped: all that were promised to be, unless they were dropped, and
\* of the others only what comes to be where a remembered range was.
Kept ==
  /\ promised \subseteq dropped \cup advised \cup Remembered
  /\ advised \subseteq promised
  /\ Remembered \subseteq promised \cup reused

WInv == WipeTypeOK /\ Marking /\ Kept

LEMMA InitWInv == WipeInit => WInv
<1> SUFFICES ASSUME WipeInit PROVE WInv
  OBVIOUS
<1>1. WipeTypeOK
  <2>1. newer \in BOOLEAN /\ stored \in BOOLEAN
    BY DEF WipeInit
  <2>2. regions \in [Slots -> Ranges \cup {NoRange}]
    BY DEF WipeInit
  <2>3. nregions \in 0..MAX_REGIONS
    BY WipeAssumption DEF WipeInit
  <2>4. mapped = {} /\ secret = {} /\ advised = {} /\ promised = {} /\ dropped = {} /\ reused = {}
    BY DEF WipeInit
  <2>5. marking = NoRange /\ child = NoRange
    BY DEF WipeInit
  <2> QED
    BY <2>1, <2>2, <2>3, <2>4, <2>5 DEF WipeTypeOK
<1>2. Remembered = {}
  BY DEF WipeInit, Remembered
<1>3. Marking /\ Kept
  BY <1>2 DEF WipeInit, Marking, Kept
<1> QED
  BY <1>1, <1>3 DEF WInv

LEMMA WInvNext ==
  ASSUME WInv, [WipeNext]_wipeVars
  PROVE  WInv'
<1> USE WipeAssumption DEF WInv, WipeTypeOK, Marking, Kept
<1>0. UNCHANGED table => Remembered' = Remembered
  BY DEF table, Remembered
<1>1. ASSUME NEW r \in Ranges, Map(r) PROVE WInv'
  BY <1>0, <1>1 DEF Map, table
<1>2. ASSUME NEW r \in Ranges, Write(r) PROVE WInv'
  BY <1>0, <1>2 DEF Write, table
<1>3. ASSUME NEW r \in Ranges, Unmap(r) PROVE WInv'
  BY <1>0, <1>3 DEF Unmap, table
<1>4. ASSUME NEW r \in Ranges, AdviseKernel(r) PROVE WInv'
  BY <1>0, <1>4 DEF AdviseKernel, table
<1>5. ASSUME NEW r \in Ranges, StoreRegion(r) PROVE WInv'
  <2>1. Remembered' = Remembered
    BY <1>5 DEF StoreRegion, Remembered, Slots
  <2> QED
    BY <1>5, <2>1 DEF StoreRegion, Slots
<1>6. CASE CountRegion
  <2>1. Remembered' = Remembered \cup {marking}
    BY <1>6 DEF CountRegion, Remembered, Slots
  <2>2. stored
    BY <1>6 DEF CountRegion
  <2>3. marking \in mapped /\ nregions + 1 \in 0..MAX_REGIONS
    BY <2>2
  <2>4. stored' \in BOOLEAN /\ ~stored'
    BY <1>6 DEF CountRegion
  <2>5. /\ nregions' = nregions + 1 /\ marking' = NoRange
        /\ promised' = promised \cup {marking} /\ dropped' = dropped \ {marking}
        /\ UNCHANGED <<newer, mapped, secret, advised, regions, reused, child>>
    BY <1>6 DEF CountRegion
  <2>6. WipeTypeOK'
    BY <2>3, <2>4, <2>5
  <2>7. Marking'
    BY <2>4, <2>5
  <2>8. Kept'
    BY <2>1, <2>5
  <2> QED
    BY <2>6, <2>7, <2>8
<1>7. ASSUME NEW r \in Ranges, NEW errno, NoRegion(r, errno) PROVE WInv'
  BY <1>0, <1>7 DEF NoRegion, table
<1>8. CASE Fork
  BY <1>0, <1>8 DEF Fork, table
<1>9. CASE UNCHANGED wipeVars
  BY <1>0, <1>9 DEF wipeVars, table
<1> QED
  BY <1>1, <1>2, <1>3, <1>4, <1>5, <1>6, <1>7, <1>8, <1>9 DEF WipeNext

\* A child keeps nothing of the ranges it was promised not to find anything
\* in, and everything of those nobody spoke of.
THEOREM ChildrenWiped == WipeSpec => ChildWiped
<1>1. WInv /\ [WipeNext]_wipeVars =>
        (Fork =>
           /\ (promised \ dropped) \cap child' = {}
           /\ secret \ (promised \cup reused) \subseteq child')
  BY DEF WInv, Kept, Fork
<1> QED
  BY <1>1, InitWInv, WInvNext, PTL DEF WipeSpec, ChildWiped

\* The same of the program of LibcShims, which makes other calls as well.
COROLLARY ShimChildrenWiped == Spec => ChildWiped
<1>1. Init => WipeInit
  BY DEF Init
<1>2. [Next]_vars => [WipeNext]_wipeVars
  BY DEF Next, Return, Live, vars
<1>3. Spec => WipeSpec
  BY <1>1, <1>2, PTL DEF Spec, WipeSpec
<1> QED
  BY <1>3, ChildrenWiped

=============================================================================
