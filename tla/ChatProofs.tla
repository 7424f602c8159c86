----------------------------- MODULE ChatProofs -----------------------------
(***************************************************************************)
(* Proofs about Chat, for any catalogue, any messages and any number of    *)
(* turns handled at once.                                                  *)
(***************************************************************************)
EXTENDS Chat, WellFoundedInduction, TLAPS

-----------------------------------------------------------------------------
(* Least and greatest elements, and folds.                                 *)

(* A nonempty set of natural numbers has a least element.                  *)
LEMMA LeastOf ==
  ASSUME NEW T, T \subseteq Nat, T # {}
  PROVE  \E x \in T : \A y \in T : x <= y
<1>1. PICK x \in T : \A y \in T : ~ (<<y, x>> \in OpToRel(<, Nat))
  BY NatLessThanWellFounded, WFMin
<1>2. ASSUME NEW y \in T PROVE x <= y
  <2>1. x \in Nat /\ y \in Nat
    OBVIOUS
  <2>2. y < x => <<y, x>> \in OpToRel(<, Nat)
    BY <2>1 DEF OpToRel
  <2>3. ~ (y < x)
    BY <1>1, <2>2
  <2>. QED  BY <2>1, <2>3
<1>. QED  BY <1>2

(* A nonempty set of indices has a greatest element, which Max returns.    *)
LEMMA MaxIn ==
  ASSUME NEW n \in Nat, NEW S, S \subseteq 0..n, S # {}
  PROVE  Max(S) \in S /\ \A x \in S : x <= Max(S)
<1>. DEFINE T == {k \in Nat : n - k \in S}
<1>1. T # {}
  <2>1. PICK x : x \in S
    OBVIOUS
  <2>2. x \in Int /\ n - x \in Nat /\ n - (n - x) = x
    BY <2>1
  <2>. QED  BY <2>1, <2>2
<1>2. PICK k \in T : \A l \in T : k <= l
  <2>. HIDE DEF T
  <2>1. T \subseteq Nat
    BY DEF T
  <2>. QED  BY <1>1, <2>1, LeastOf
<1>3. n - k \in S /\ \A x \in S : n - k >= x
  <2>1. ASSUME NEW x \in S PROVE n - k >= x
    <3>1. x \in Int /\ n - x \in Nat /\ n - (n - x) = x
      OBVIOUS
    <3>2. k <= n - x
      BY <1>2, <3>1
    <3>. QED  BY <3>1, <3>2
  <2>. QED  BY <1>2, <2>1
<1>4. Max(S) \in S /\ \A x \in S : Max(S) >= x
  BY <1>3 DEF Max
<1>5. S \subseteq Int
  OBVIOUS
<1>. QED  BY <1>4, <1>5

LEMMA MinIn ==
  ASSUME NEW S, S \subseteq Nat, S # {}
  PROVE  Min(S) \in S /\ \A x \in S : Min(S) <= x
<1>1. PICK m \in S : \A x \in S : m <= x
  BY LeastOf
<1>. QED  BY <1>1 DEF Min

Taken(G, it, base, s) == IF s = {} THEN base ELSE G[Max(s)][it[s \ {Max(s)}]]

Folds(it, G, base, n, B) ==
  /\ it \in [SUBSET (1..n) -> B]
  /\ \A s \in SUBSET (1..n) : it[s] = IF s = {} THEN base ELSE G[Max(s)][it[s \ {Max(s)}]]

LEMMA FoldGrows ==
  ASSUME NEW B, NEW base \in B, NEW k \in Nat, k # 0, NEW G, NEW old,
         Folds(old, G, base, k - 1, B),
         \A b \in B : G[k][b] \in B
  PROVE  \E it : Folds(it, G, base, k, B)
<1>. DEFINE it == [s \in SUBSET (1..k) |-> IF k \in s THEN G[k][old[s \ {k}]] ELSE old[s]]
<1>1. k - 1 \in Nat /\ 1..(k - 1) \subseteq 1..k
  OBVIOUS
<1>2. \A s \in SUBSET (1..k) : s \ {k} \in SUBSET (1..(k - 1))
  <2>1. \A i \in 1..k : i # k => i \in 1..(k - 1)
    OBVIOUS
  <2>. QED  BY <2>1
<1>3. \A s \in SUBSET (1..k) : k \notin s => s \in SUBSET (1..(k - 1))
  BY <1>2
<1>4. ASSUME NEW s \in SUBSET (1..k)
      PROVE  /\ it[s] = IF k \in s THEN G[k][old[s \ {k}]] ELSE old[s]
             /\ s \in SUBSET (1..(k - 1)) => it[s] = old[s]
  <2>1. s \in SUBSET (1..(k - 1)) => k \notin s
    OBVIOUS
  <2>. QED  BY <2>1
<1>5. \A s \in SUBSET (1..(k - 1)) : old[s] \in B
  BY DEF Folds
<1>6. it \in [SUBSET (1..k) -> B]
  BY <1>2, <1>3, <1>5
<1>. HIDE DEF it
<1>7. ASSUME NEW s \in SUBSET (1..k)
      PROVE  it[s] = IF s = {} THEN base ELSE G[Max(s)][it[s \ {Max(s)}]]
  <2>1. CASE s = {}
    <3>1. s \in SUBSET (1..(k - 1))
      BY <2>1
    <3>. QED  BY <1>4, <2>1, <3>1 DEF Folds
  <2>2. CASE k \in s
    <3>1. s \subseteq 0..k
      BY <1>1
    <3>2. Max(s) \in s /\ \A x \in s : x <= Max(s)
      BY <2>2, <3>1, MaxIn
    <3>3. Max(s) = k
      <4>1. Max(s) \in 1..k /\ k <= Max(s)
        BY <2>2, <3>2
      <4>. QED  BY <4>1
    <3>4. it[s \ {k}] = old[s \ {k}]
      BY <1>1, <1>2, <1>4
    <3>. QED  BY <1>4, <2>2, <3>3, <3>4
  <2>3. CASE s # {} /\ k \notin s
    <3>1. s \in SUBSET (1..(k - 1)) /\ s \ {Max(s)} \in SUBSET (1..(k - 1))
      BY <2>3, <1>3
    <3>2. it[s \ {Max(s)}] = old[s \ {Max(s)}] /\ it[s] = old[s]
      <4>1. s \ {Max(s)} \in SUBSET (1..k)
        OBVIOUS
      <4>. QED  BY <1>4, <3>1, <4>1
    <3>. QED  BY <2>3, <3>1, <3>2 DEF Folds
  <2>. QED  BY <2>1, <2>2, <2>3
<1>. QED  BY <1>6, <1>7 DEF Folds

LEMMA FoldExists ==
  ASSUME NEW B, NEW base \in B, NEW n \in Nat, NEW G,
         \A i \in 1..n, b \in B : G[i][b] \in B
  PROVE  \E it : Folds(it, G, base, n, B)
<1>. DEFINE Bad == {k \in 0..n : ~ \E it : Folds(it, G, base, k, B)}
<1>1. n \in Bad \/ \E it : Folds(it, G, base, n, B)
  OBVIOUS
<1>2. SUFFICES ASSUME Bad # {} PROVE FALSE
  BY <1>1
<1>3. PICK k \in Bad : \A l \in Bad : k <= l
  <2>1. Bad \subseteq Nat
    OBVIOUS
  <2>. HIDE DEF Bad
  <2>. QED  BY <1>2, <2>1, LeastOf
<1>4. CASE k = 0
  <2>. DEFINE it == [s \in SUBSET (1..0) |-> base]
  <2>1. SUBSET (1..0) = {{}}
    <3>1. 1..0 = {}
      OBVIOUS
    <3>. QED  BY <3>1
  <2>2. Folds(it, G, base, 0, B)
    BY <2>1 DEF Folds
  <2>. QED  BY <1>3, <1>4, <2>2
<1>5. CASE k # 0
  <2>1. k \in 1..n /\ k \in Nat /\ k - 1 \in 0..n /\ ~ (k <= k - 1)
    BY <1>3, <1>5
  <2>2. PICK old : Folds(old, G, base, k - 1, B)
    BY <1>3, <2>1
  <2>3. \E it : Folds(it, G, base, k, B)
    <3>1. \A b \in B : G[k][b] \in B
      BY <2>1
    <3>. HIDE DEF Bad
    <3>. QED  BY <1>5, <2>1, <2>2, <3>1, FoldGrows
  <2>. QED  BY <1>3, <2>3
<1>. QED  BY <1>4, <1>5

(* A set that holds 0 and passes each number on to the next holds them all.*)
LEMMA Climb ==
  ASSUME NEW n \in Nat, NEW P, 0 \in P, \A k \in 1..n : k - 1 \in P => k \in P
  PROVE  n \in P
<1>. DEFINE Bad == {k \in 0..n : k \notin P}
<1>1. SUFFICES ASSUME Bad # {} PROVE FALSE
  OBVIOUS
<1>2. PICK k \in Bad : \A l \in Bad : k <= l
  <2>1. Bad \subseteq Nat
    OBVIOUS
  <2>. HIDE DEF Bad
  <2>. QED  BY <1>1, <2>1, LeastOf
<1>3. k \in 1..n /\ k - 1 \in 0..n /\ ~ (k <= k - 1)
  <2>1. k # 0
    BY <1>2
  <2>. QED  BY <1>2, <2>1
<1>. QED  BY <1>2, <1>3

-----------------------------------------------------------------------------
(* Lines whose product is of a set of names, and what they make up.        *)

Lines(P) == [p : P \cup {None}, q : Nat \cup {None}]

SlotFields == {"items", "name", "phone", "address", "notes", "pay"}

LEMMA LineOr ==
  ASSUME NEW P, NEW a \in Lines(P), NEW b \in Lines(P)
  PROVE  /\ Or(a.q, b.q) \in Nat \cup {None} /\ Or(a.p, b.p) \in P \cup {None}
         /\ [p |-> Or(a.p, b.p), q |-> Or(a.q, b.q)] \in Lines(P)
         /\ [a EXCEPT !.q = Or(a.q, b.q)] \in Lines(P)
         /\ [a EXCEPT !.q = Or(b.q, a.q)] \in Lines(P)
<1>1. a.q \in Nat \cup {None} /\ b.q \in Nat \cup {None}
      /\ a.p \in P \cup {None} /\ b.p \in P \cup {None}
  BY DEF Lines
<1>2. /\ Or(a.q, b.q) \in Nat \cup {None} /\ Or(a.p, b.p) \in P \cup {None}
      /\ Or(b.q, a.q) \in Nat \cup {None}
  BY <1>1 DEF Or
<1>. QED  BY <1>1, <1>2 DEF Lines

LEMMA IndexIn ==
  ASSUME NEW S, NEW items \in Seq(S), NEW item
  PROVE  /\ IndexOf(items, item) \in 0..Len(items) /\ Len(items) \in Nat
         /\ DOMAIN items = 1..Len(items)
         /\ IndexOf(items, item) # 0 =>
              /\ IndexOf(items, item) \in DOMAIN items
              /\ Match(item.p) # None /\ Match(items[IndexOf(items, item)].p) = Match(item.p)
         /\ IndexOf(items, item) = 0 =>
              \A i \in DOMAIN items : ~ (Match(item.p) # None /\ Match(items[i].p) = Match(item.p))
<1>. DEFINE I == {i \in 1..Len(items) : Match(item.p) # None /\ Match(items[i].p) = Match(item.p)}
<1>1. IndexOf(items, item) = IF I # {} THEN Min(I) ELSE 0
  BY DEF IndexOf, SelectInSeq
<1>2. I \subseteq Nat
  OBVIOUS
<1>3. I # {} => Min(I) \in I
  <2>. HIDE DEF I
  <2>. QED  BY <1>2, MinIn
<1>. QED  BY <1>1, <1>3

LEMMA PutIn ==
  ASSUME NEW S, NEW items \in Seq(S), NEW i \in DOMAIN items, NEW x \in S
  PROVE  [items EXCEPT ![i] = x] \in Seq(S) /\ Len([items EXCEPT ![i] = x]) = Len(items)
OBVIOUS

LEMMA MergeNamedOver ==
  ASSUME NEW P, NEW items \in Seq(Lines(P)), NEW item \in Lines(P)
  PROVE  MergeNamed(items, item) \in Seq(Lines(P))
<1>. DEFINE I == {i \in 1..Len(items) : item.p # None /\ items[i].p = item.p}
            i == IF I # {} THEN Min(I) ELSE 0
<1>1. MergeNamed(items, item) = IF i = 0 THEN Append(items, item)
                                ELSE [items EXCEPT ![i].q = Or(item.q, @)]
  BY DEF MergeNamed, SelectInSeq
<1>2. i = 0 \/ i \in DOMAIN items
  <2>1. I \subseteq Nat /\ I \subseteq DOMAIN items
    OBVIOUS
  <2>2. I # {} => Min(I) \in I
    <3>. HIDE DEF I
    <3>. QED  BY <2>1, MinIn
  <2>. QED  BY <2>1, <2>2
<1>3. PICK k : k = i
  OBVIOUS
<1>. HIDE DEF i
<1>4. CASE k = 0
  BY <1>1, <1>3, <1>4
<1>5. CASE k # 0
  <2>1. k \in DOMAIN items /\ items[k] \in Lines(P)
    BY <1>2, <1>3, <1>5
  <2>2. PICK x : x = [items[k] EXCEPT !.q = Or(item.q, items[k].q)]
    OBVIOUS
  <2>3. x \in Lines(P)
    BY <2>1, <2>2, LineOr
  <2>4. [items EXCEPT ![k] = x] \in Seq(Lines(P))
    BY <2>1, <2>3, PutIn
  <2>. QED  BY <1>1, <1>3, <1>5, <2>2, <2>4
<1>. QED  BY <1>4, <1>5

LEMMA SegmentOf ==
  ASSUME NEW n \in Nat, NEW k \in 1..n
  PROVE  Max(1..k) = k /\ (1..k) \ {k} = 1..(k - 1) /\ 1..k \in SUBSET (1..n) /\ 1..k # {}
<1>1. k \in 1..k /\ 1..k \subseteq 0..k /\ k \in Nat /\ 1..k # {}
  OBVIOUS
<1>2. Max(1..k) \in 1..k /\ \A x \in 1..k : x <= Max(1..k)
  BY <1>1, MaxIn
<1>3. Max(1..k) = k
  <2>1. PICK m \in 1..k : m = Max(1..k) /\ k <= m
    BY <1>1, <1>2
  <2>. QED  BY <2>1
<1>4. (1..k) \ {k} = 1..(k - 1)
  <2>1. \A i \in Int : i \in (1..k) \ {k} <=> i \in 1..(k - 1)
    OBVIOUS
  <2>2. (1..k) \ {k} \subseteq Int /\ 1..(k - 1) \subseteq Int
    OBVIOUS
  <2>. QED  BY <2>1, <2>2
<1>5. 1..k \in SUBSET (1..n)
  OBVIOUS
<1>. QED  BY <1>1, <1>3, <1>4, <1>5

LEMMA FoldStays ==
  ASSUME NEW n \in Nat, NEW B, NEW g, g[{}] \in B,
         \A k \in 1..n : g[1..(k - 1)] \in B => g[1..k] \in B
  PROVE  g[1..n] \in B
<1>. DEFINE P == {k \in 0..n : g[1..k] \in B}
<1>1. 1..0 = {} /\ 0 \in 0..n
  OBVIOUS
<1>2. 0 \in P
  BY <1>1
<1>3. \A k \in 1..n : k - 1 \in P => k \in P
  OBVIOUS
<1>4. n \in P
  <2>. HIDE DEF P
  <2>. QED  BY <1>2, <1>3, Climb
<1>. QED  BY <1>4

(* A fold stays in any set that holds its base and that each of its steps  *)
(* stays in; one lemma for each operation that the cart is folded with.    *)
LEMMA CandidatesStay ==
  ASSUME NEW B, NEW base \in B, NEW S, NEW items \in Seq(S),
         \A b \in B, i \in DOMAIN items : MergeCandidate(b, items[i]) \in B
  PROVE  FoldLeft(MergeCandidate, base, items) \in B
<1>. DEFINE n == Len(items)
            G == [i \in 1..n |-> [b \in B |-> MergeCandidate(b, items[i])]]
            Eq(g) == g = [s \in SUBSET DOMAIN items |->
                            IF s = {} THEN base ELSE MergeCandidate(g[s \ {Max(s)}], items[Max(s)])]
<1>1. n \in Nat /\ DOMAIN items = 1..n
  OBVIOUS
<1>2. \A i \in 1..n, b \in B : G[i][b] \in B
  BY <1>1
<1>3. PICK it : Folds(it, G, base, n, B)
  <2>. HIDE DEF G
  <2>. QED  BY <1>1, <1>2, FoldExists
<1>4. Eq(it)
  <2>1. ASSUME NEW s \in SUBSET (1..n), s # {}
        PROVE  it[s] = MergeCandidate(it[s \ {Max(s)}], items[Max(s)])
    <3>1. Max(s) \in 1..n
      <4>1. s \subseteq 0..n
        OBVIOUS
      <4>2. Max(s) \in s
        BY ONLY <1>1, <2>1, <4>1, MaxIn
      <4>. QED  BY <4>2
    <3>2. it[s \ {Max(s)}] \in B
      BY <1>3 DEF Folds
    <3>3. it[s] = G[Max(s)][it[s \ {Max(s)}]]
      BY <1>3, <2>1 DEF Folds
    <3>. QED  BY <3>1, <3>2, <3>3
  <2>. QED  BY <1>1, <1>3, <2>1 DEF Folds
<1>5. PICK g : Eq(g) /\ FoldLeft(MergeCandidate, base, items) = g[DOMAIN items]
  <2>1. FoldLeft(MergeCandidate, base, items) = (CHOOSE g : Eq(g))[DOMAIN items]
    BY DEF FoldLeft, MapThenFoldSet
  <2>. HIDE DEF Eq
  <2>. QED  BY <1>4, <2>1
<1>6. g[{}] \in B
  BY <1>5
<1>7. ASSUME NEW k \in 1..n, g[1..(k - 1)] \in B
      PROVE  g[1..k] \in B
  <2>1. Max(1..k) = k /\ (1..k) \ {k} = 1..(k - 1) /\ 1..k \in SUBSET (1..n) /\ 1..k # {}
    <3>. HIDE DEF n
    <3>. QED  BY <1>1, SegmentOf
  <2>2. g[1..k] = MergeCandidate(g[1..(k - 1)], items[k])
    BY <1>1, <1>5, <2>1
  <2>. QED  BY <1>1, <1>7, <2>2
<1>8. g[1..n] \in B
  <2>. HIDE DEF n
  <2>. QED  BY <1>1, <1>6, <1>7, FoldStays
<1>. QED  BY <1>1, <1>5, <1>8

LEMMA NamedStay ==
  ASSUME NEW B, NEW base \in B, NEW S, NEW items \in Seq(S),
         \A b \in B, i \in DOMAIN items : MergeNamed(b, items[i]) \in B
  PROVE  FoldLeft(MergeNamed, base, items) \in B
<1>. DEFINE n == Len(items)
            G == [i \in 1..n |-> [b \in B |-> MergeNamed(b, items[i])]]
            Eq(g) == g = [s \in SUBSET DOMAIN items |->
                            IF s = {} THEN base ELSE MergeNamed(g[s \ {Max(s)}], items[Max(s)])]
<1>1. n \in Nat /\ DOMAIN items = 1..n
  OBVIOUS
<1>2. \A i \in 1..n, b \in B : G[i][b] \in B
  BY <1>1
<1>3. PICK it : Folds(it, G, base, n, B)
  <2>. HIDE DEF G
  <2>. QED  BY <1>1, <1>2, FoldExists
<1>4. Eq(it)
  <2>1. ASSUME NEW s \in SUBSET (1..n), s # {}
        PROVE  it[s] = MergeNamed(it[s \ {Max(s)}], items[Max(s)])
    <3>1. Max(s) \in 1..n
      <4>1. s \subseteq 0..n
        OBVIOUS
      <4>2. Max(s) \in s
        BY ONLY <1>1, <2>1, <4>1, MaxIn
      <4>. QED  BY <4>2
    <3>2. it[s \ {Max(s)}] \in B
      BY <1>3 DEF Folds
    <3>3. it[s] = G[Max(s)][it[s \ {Max(s)}]]
      BY <1>3, <2>1 DEF Folds
    <3>. QED  BY <3>1, <3>2, <3>3
  <2>. QED  BY <1>1, <1>3, <2>1 DEF Folds
<1>5. PICK g : Eq(g) /\ FoldLeft(MergeNamed, base, items) = g[DOMAIN items]
  <2>1. FoldLeft(MergeNamed, base, items) = (CHOOSE g : Eq(g))[DOMAIN items]
    BY DEF FoldLeft, MapThenFoldSet
  <2>. HIDE DEF Eq
  <2>. QED  BY <1>4, <2>1
<1>6. g[{}] \in B
  BY <1>5
<1>7. ASSUME NEW k \in 1..n, g[1..(k - 1)] \in B
      PROVE  g[1..k] \in B
  <2>1. Max(1..k) = k /\ (1..k) \ {k} = 1..(k - 1) /\ 1..k \in SUBSET (1..n) /\ 1..k # {}
    <3>. HIDE DEF n
    <3>. QED  BY <1>1, SegmentOf
  <2>2. g[1..k] = MergeNamed(g[1..(k - 1)], items[k])
    BY <1>1, <1>5, <2>1
  <2>. QED  BY <1>1, <1>7, <2>2
<1>8. g[1..n] \in B
  <2>. HIDE DEF n
  <2>. QED  BY <1>1, <1>6, <1>7, FoldStays
<1>. QED  BY <1>1, <1>5, <1>8

LEMMA ExistingStay ==
  ASSUME NEW B, NEW base \in B, NEW S, NEW items \in Seq(S),
         \A b \in B, i \in DOMAIN items : MergeExisting(b, items[i]) \in B
  PROVE  FoldLeft(MergeExisting, base, items) \in B
<1>. DEFINE n == Len(items)
            G == [i \in 1..n |-> [b \in B |-> MergeExisting(b, items[i])]]
            Eq(g) == g = [s \in SUBSET DOMAIN items |->
                            IF s = {} THEN base ELSE MergeExisting(g[s \ {Max(s)}], items[Max(s)])]
<1>1. n \in Nat /\ DOMAIN items = 1..n
  OBVIOUS
<1>2. \A i \in 1..n, b \in B : G[i][b] \in B
  BY <1>1
<1>3. PICK it : Folds(it, G, base, n, B)
  <2>. HIDE DEF G
  <2>. QED  BY <1>1, <1>2, FoldExists
<1>4. Eq(it)
  <2>1. ASSUME NEW s \in SUBSET (1..n), s # {}
        PROVE  it[s] = MergeExisting(it[s \ {Max(s)}], items[Max(s)])
    <3>1. Max(s) \in 1..n
      <4>1. s \subseteq 0..n
        OBVIOUS
      <4>2. Max(s) \in s
        BY ONLY <1>1, <2>1, <4>1, MaxIn
      <4>. QED  BY <4>2
    <3>2. it[s \ {Max(s)}] \in B
      BY <1>3 DEF Folds
    <3>3. it[s] = G[Max(s)][it[s \ {Max(s)}]]
      BY <1>3, <2>1 DEF Folds
    <3>. QED  BY <3>1, <3>2, <3>3
  <2>. QED  BY <1>1, <1>3, <2>1 DEF Folds
<1>5. PICK g : Eq(g) /\ FoldLeft(MergeExisting, base, items) = g[DOMAIN items]
  <2>1. FoldLeft(MergeExisting, base, items) = (CHOOSE g : Eq(g))[DOMAIN items]
    BY DEF FoldLeft, MapThenFoldSet
  <2>. HIDE DEF Eq
  <2>. QED  BY <1>4, <2>1
<1>6. g[{}] \in B
  BY <1>5
<1>7. ASSUME NEW k \in 1..n, g[1..(k - 1)] \in B
      PROVE  g[1..k] \in B
  <2>1. Max(1..k) = k /\ (1..k) \ {k} = 1..(k - 1) /\ 1..k \in SUBSET (1..n) /\ 1..k # {}
    <3>. HIDE DEF n
    <3>. QED  BY <1>1, SegmentOf
  <2>2. g[1..k] = MergeExisting(g[1..(k - 1)], items[k])
    BY <1>1, <1>5, <2>1
  <2>. QED  BY <1>1, <1>7, <2>2
<1>8. g[1..n] \in B
  <2>. HIDE DEF n
  <2>. QED  BY <1>1, <1>6, <1>7, FoldStays
<1>. QED  BY <1>1, <1>5, <1>8

-----------------------------------------------------------------------------
(* Carts: lines of a set of names that still hold a set of products.       *)

Over(P, C) == {items \in Seq(Lines(P)) : C \subseteq Products(items)}
SlotsOver(P, C, slots) == DOMAIN slots = SlotFields /\ slots.items \in Over(P, C)

LEMMA OverTyped ==
  ASSUME NEW P, NEW C, NEW items
  PROVE  /\ items \in Over(P, C) => items \in Seq(Lines(P)) /\ items \in Over(P, {})
         /\ items \in Seq(Lines(P)) => items \in Over(P, {})
BY DEF Over

LEMMA WithItemsIs ==
  ASSUME NEW slots, DOMAIN slots = SlotFields, NEW items
  PROVE  DOMAIN WithItems(slots, items) = SlotFields /\ WithItems(slots, items).items = items
BY DEF WithItems, SlotFields

LEMMA SlotsPut ==
  ASSUME NEW P, NEW C, NEW slots, DOMAIN slots = SlotFields, NEW items \in Over(P, C)
  PROVE  SlotsOver(P, C, WithItems(slots, items))
BY WithItemsIs DEF SlotsOver

(* What a line is changed to, or is put next to, keeps the products.       *)
LEMMA ProductsPut ==
  ASSUME NEW S, NEW items \in Seq(S), NEW i \in DOMAIN items, NEW x \in S,
         Match(x.p) = Match(items[i].p)
  PROVE  Products([items EXCEPT ![i] = x]) = Products(items)
<1>1. PICK new : new = [items EXCEPT ![i] = x]
  OBVIOUS
<1>2. DOMAIN new = DOMAIN items /\ \A k \in DOMAIN items : Match(new[k].p) = Match(items[k].p)
  BY <1>1
<1>. QED  BY <1>1, <1>2 DEF Products

LEMMA ProductsAppend ==
  ASSUME NEW S, NEW items \in Seq(S), NEW x \in S
  PROVE  Append(items, x) \in Seq(S) /\ Products(items) \subseteq Products(Append(items, x))
<1>1. PICK new : new = Append(items, x)
  OBVIOUS
<1>2. new \in Seq(S) /\ DOMAIN items \subseteq DOMAIN new
      /\ \A k \in DOMAIN items : new[k] = items[k]
  BY <1>1
<1>3. Products(items) \subseteq Products(new)
  BY <1>2 DEF Products
<1>. QED  BY <1>1, <1>2, <1>3

LEMMA MergeCandidateOver ==
  ASSUME NEW P, NEW C, NEW items \in Over(P, C), NEW item \in Lines(P)
  PROVE  MergeCandidate(items, item) \in Over(P, C)
<1>1. PICK i : i = IndexOf(items, item)
  OBVIOUS
<1>2. items \in Seq(Lines(P)) /\ C \subseteq Products(items)
  BY DEF Over
<1>3. CASE i = 0
  <2>1. Append(items, item) \in Seq(Lines(P)) /\ Products(items) \subseteq Products(Append(items, item))
    BY <1>2, ProductsAppend
  <2>. QED  BY <1>1, <1>2, <1>3, <2>1 DEF MergeCandidate, Over
<1>4. CASE i # 0
  <2>1. i \in DOMAIN items /\ items[i] \in Lines(P)
    BY <1>1, <1>2, <1>4, IndexIn
  <2>2. PICK x : x = [items[i] EXCEPT !.q = Or(items[i].q, item.q)]
    OBVIOUS
  <2>3. x \in Lines(P) /\ x.p = items[i].p
    BY <2>1, <2>2, LineOr DEF Lines
  <2>4. /\ [items EXCEPT ![i] = x] \in Seq(Lines(P))
        /\ Products([items EXCEPT ![i] = x]) = Products(items)
    BY <1>2, <2>1, <2>3, PutIn, ProductsPut
  <2>5. MergeCandidate(items, item) = [items EXCEPT ![i] = x]
    BY <1>1, <1>4, <2>2 DEF MergeCandidate
  <2>. QED  BY <1>2, <2>4, <2>5 DEF Over
<1>. QED  BY <1>3, <1>4

LEMMA AppendItemsOver ==
  ASSUME NEW P, NEW C, NEW slots, SlotsOver(P, C, slots), NEW items \in Seq(Lines(P))
  PROVE  SlotsOver(P, C, AppendItems(slots, items))
<1>1. \A i \in DOMAIN items : items[i] \in Lines(P)
  OBVIOUS
<1>2. FoldLeft(MergeCandidate, slots.items, items) \in Over(P, C)
  BY <1>1, MergeCandidateOver, CandidatesStay DEF SlotsOver
<1>. QED  BY <1>2, WithItemsIs DEF AppendItems, SlotsOver

(* Slots merge; contact details alone leave the items as they are.         *)
LEMMA MergeItemsOver ==
  ASSUME NEW P, NEW current \in Seq(Lines(P)), NEW incoming \in Seq(Lines(P))
  PROVE  MergeItems(current, incoming) \in Seq(Lines(P))
<1>1. \A i \in DOMAIN incoming : incoming[i] \in Lines(P)
  OBVIOUS
<1>2. FoldLeft(MergeNamed, current, incoming) \in Seq(Lines(P))
  BY <1>1, MergeNamedOver, NamedStay
<1>. QED  BY <1>2 DEF MergeItems

LEMMA MergeNothing ==
  ASSUME NEW items
  PROVE  MergeItems(items, <<>>) = items /\ MergeItems(<<>>, items) = items
<1>1. FoldLeft(MergeNamed, items, <<>>) \in {items}
  <2>1. <<>> \in Seq({}) /\ \A i \in DOMAIN <<>> : FALSE
    OBVIOUS
  <2>2. \A b \in {items}, i \in DOMAIN <<>> : MergeNamed(b, <<>>[i]) \in {items}
    BY <2>1
  <2>3. PICK B, none : B = {items} /\ none = <<>>
    OBVIOUS
  <2>. QED  BY <2>1, <2>2, <2>3, NamedStay
<1>. QED  BY <1>1 DEF MergeItems

LEMMA MergeSlotsIs ==
  ASSUME NEW current, NEW incoming, DOMAIN current = SlotFields
  PROVE  /\ DOMAIN MergeSlots(current, incoming) = SlotFields
         /\ MergeSlots(current, incoming).items = MergeItems(current.items, incoming.items)
BY DEF MergeSlots, SlotFields

(* The other changes of a cart.                                            *)
LEMMA ReplaceFirstOver ==
  ASSUME NEW P, NEW slots, SlotsOver(P, {}, slots), NEW item \in Lines(P)
  PROVE  SlotsOver(P, {}, ReplaceFirst(slots, item))
<1>1. PICK items \in Seq(Lines(P)) : items = slots.items
  BY DEF SlotsOver, Over
<1>2. CASE items = <<>>
  <2>1. PICK one : one = <<item>>
    OBVIOUS
  <2>2. one \in Over(P, {})
    BY <2>1 DEF Over
  <2>3. ReplaceFirst(slots, item) = WithItems(slots, one)
    BY <1>1, <1>2, <2>1 DEF ReplaceFirst
  <2>4. DOMAIN slots = SlotFields
    BY DEF SlotsOver
  <2>. QED  BY <2>2, <2>3, <2>4, SlotsPut
<1>3. CASE items # <<>>
  <2>1. PICK at : at = IF IndexOf(items, item) = 0 THEN 1 ELSE IndexOf(items, item)
    OBVIOUS
  <2>2. at \in DOMAIN items
    BY <1>3, <2>1, IndexIn
  <2>3. PICK x : x = [p |-> Or(item.p, items[at].p), q |-> Or(item.q, items[at].q)]
    OBVIOUS
  <2>4. x \in Lines(P)
    <3>1. items[at] \in Lines(P)
      BY <1>1, <2>2
    <3>. QED  BY <2>3, <3>1, LineOr
  <2>5. [items EXCEPT ![at] = x] \in Seq(Lines(P))
    BY <1>1, <2>2, <2>4, PutIn
  <2>6. ReplaceFirst(slots, item) = WithItems(slots, [items EXCEPT ![at] = x])
    BY <1>1, <1>3, <2>1, <2>3 DEF ReplaceFirst
  <2>. QED  BY <2>5, <2>6, OverTyped, WithItemsIs DEF SlotsOver
<1>. QED  BY <1>2, <1>3

LEMMA RemoveItemOver ==
  ASSUME NEW P, NEW slots, SlotsOver(P, {}, slots), NEW item
  PROVE  SlotsOver(P, {}, RemoveItem(slots, item))
<1>1. PICK items \in Seq(Lines(P)) : items = slots.items
  BY DEF SlotsOver, Over
<1>2. PICK i : i = IndexOf(items, item)
  OBVIOUS
<1>3. CASE i = 0
  BY <1>1, <1>2, <1>3 DEF RemoveItem
<1>4. CASE i # 0
  <2>1. i \in 1..Len(items)
    BY <1>2, <1>4, IndexIn
  <2>2. SubSeq(items, 1, i - 1) \in Seq(Lines(P)) /\ SubSeq(items, i + 1, Len(items)) \in Seq(Lines(P))
    BY <2>1
  <2>3. RemoveAt(items, i) \in Seq(Lines(P))
    BY <2>2 DEF RemoveAt
  <2>4. RemoveItem(slots, item) = WithItems(slots, RemoveAt(items, i))
    BY <1>1, <1>2, <1>4 DEF RemoveItem
  <2>. QED  BY <2>3, <2>4, OverTyped, WithItemsIs DEF SlotsOver
<1>. QED  BY <1>3, <1>4

LEMMA MergeExistingOver ==
  ASSUME NEW P, NEW C, NEW slots, SlotsOver(P, C, slots), NEW item \in Lines(P)
  PROVE  SlotsOver(P, C, MergeExisting(slots, item))
<1>1. PICK items \in Seq(Lines(P)) : items = slots.items /\ C \subseteq Products(items)
  BY DEF SlotsOver, Over
<1>2. PICK i : i = IndexOf(items, item)
  OBVIOUS
<1>3. CASE i = 0
  <2>1. PICK new : new = Append(items, item)
    OBVIOUS
  <2>2. new \in Seq(Lines(P)) /\ Products(items) \subseteq Products(new)
    BY <2>1, ProductsAppend
  <2>3. MergeExisting(slots, item) = WithItems(slots, new)
    BY <1>1, <1>2, <1>3, <2>1 DEF MergeExisting
  <2>. QED  BY <1>1, <2>2, <2>3, WithItemsIs DEF SlotsOver, Over
<1>4. CASE i # 0
  <2>1. /\ i \in DOMAIN items /\ items[i] \in Lines(P)
        /\ Match(item.p) # None /\ Match(items[i].p) = Match(item.p)
    BY <1>2, <1>4, IndexIn
  <2>2. PICK x : x = [p |-> Or(item.p, items[i].p), q |-> Or(item.q, items[i].q)]
    OBVIOUS
  <2>3. x \in Lines(P) /\ Match(x.p) = Match(items[i].p)
    BY <2>1, <2>2, LineOr DEF Or
  <2>4. PICK new : new = [items EXCEPT ![i] = x]
    OBVIOUS
  <2>5. new \in Seq(Lines(P)) /\ Products(new) = Products(items)
    BY <1>1, <2>1, <2>3, <2>4, PutIn, ProductsPut
  <2>6. MergeExisting(slots, item) = WithItems(slots, new)
    BY <1>1, <1>2, <1>4, <2>2, <2>4 DEF MergeExisting
  <2>. QED  BY <1>1, <2>5, <2>6, WithItemsIs DEF SlotsOver, Over
<1>. QED  BY <1>3, <1>4

(* MergeExisting changes the items of the slots and nothing else.          *)
LEMMA MergedOver ==
  ASSUME NEW P, NEW C, NEW slots, SlotsOver(P, C, slots), NEW items \in Seq(Lines(P))
  PROVE  SlotsOver(P, C, FoldLeft(MergeExisting, slots, items))
<1>. DEFINE B == {slots} \cup {WithItems(slots, kept) : kept \in Over(P, C)}
<1>1. \A b \in B : SlotsOver(P, C, b)
  BY WithItemsIs DEF SlotsOver
<1>2. slots \in B
  OBVIOUS
<1>3. ASSUME NEW b \in B, NEW i \in DOMAIN items
      PROVE  MergeExisting(b, items[i]) \in B
  <2>1. b = slots \/ \E kept \in Over(P, C) : b = WithItems(slots, kept)
    OBVIOUS
  <2>2. items[i] \in Lines(P) /\ SlotsOver(P, C, MergeExisting(b, items[i]))
    <3>1. items[i] \in Lines(P) /\ SlotsOver(P, C, b)
      BY <1>1
    <3>. HIDE DEF B
    <3>. QED  BY <3>1, MergeExistingOver
  <2>3. \E more : MergeExisting(b, items[i]) = WithItems(b, more)
    BY DEF MergeExisting
  <2>4. PICK more : MergeExisting(b, items[i]) = WithItems(b, more)
    BY <2>3
  <2>5. WithItems(b, more) = WithItems(slots, more)
    BY <2>1 DEF WithItems
  <2>6. MergeExisting(b, items[i]).items = more
    BY <1>1, <2>4, WithItemsIs DEF SlotsOver
  <2>. QED  BY <2>2, <2>4, <2>5, <2>6 DEF SlotsOver
<1>4. FoldLeft(MergeExisting, slots, items) \in B
  <2>. HIDE DEF B
  <2>. QED  BY <1>2, <1>3, ExistingStay
<1>. QED  BY <1>1, <1>4

-----------------------------------------------------------------------------
(* Items that are looked for, dropped and read.                            *)

LEMMA FirstOf ==
  ASSUME NEW S, NEW items \in Seq(S), NEW I, I \subseteq 1..Len(items),
         NEW i, i = IF I # {} THEN Min(I) ELSE 0
  PROVE  (IF i = 0 THEN None ELSE items[i]) \in S \cup {None}
<1>1. I \subseteq Nat
  OBVIOUS
<1>2. I # {} => Min(I) \in I
  BY <1>1, MinIn
<1>3. i = 0 \/ i \in 1..Len(items)
  BY <1>2
<1>. QED  BY <1>3

LEMMA FirstIn ==
  ASSUME NEW S, NEW items \in Seq(S)
  PROVE  /\ FirstItem(items, LAMBDA item : TRUE) \in S \cup {None}
         /\ FirstItem(items, IsBare) \in S \cup {None}
         /\ FirstItem(items, Incomplete) \in S \cup {None}
         /\ \A before : ChangedItem(before, items) \in S \cup {None}
<1>1. FirstItem(items, LAMBDA item : TRUE) \in S \cup {None}
  <2>. DEFINE I == {i \in 1..Len(items) : TRUE}
  <2>1. PICK i : i = IF I # {} THEN Min(I) ELSE 0
    OBVIOUS
  <2>2. FirstItem(items, LAMBDA item : TRUE) = IF i = 0 THEN None ELSE items[i]
    BY <2>1 DEF FirstItem, SelectInSeq
  <2>3. I \subseteq 1..Len(items)
    OBVIOUS
  <2>. HIDE DEF I
  <2>. QED  BY <2>1, <2>2, <2>3, FirstOf
<1>2. FirstItem(items, IsBare) \in S \cup {None}
  <2>. DEFINE I == {i \in 1..Len(items) : IsBare(items[i])}
  <2>1. PICK i : i = IF I # {} THEN Min(I) ELSE 0
    OBVIOUS
  <2>2. FirstItem(items, IsBare) = IF i = 0 THEN None ELSE items[i]
    BY <2>1 DEF FirstItem, SelectInSeq
  <2>3. I \subseteq 1..Len(items)
    OBVIOUS
  <2>. HIDE DEF I
  <2>. QED  BY <2>1, <2>2, <2>3, FirstOf
<1>3. FirstItem(items, Incomplete) \in S \cup {None}
  <2>. DEFINE I == {i \in 1..Len(items) : Incomplete(items[i])}
  <2>1. PICK i : i = IF I # {} THEN Min(I) ELSE 0
    OBVIOUS
  <2>2. FirstItem(items, Incomplete) = IF i = 0 THEN None ELSE items[i]
    BY <2>1 DEF FirstItem, SelectInSeq
  <2>3. I \subseteq 1..Len(items)
    OBVIOUS
  <2>. HIDE DEF I
  <2>. QED  BY <2>1, <2>2, <2>3, FirstOf
<1>4. ASSUME NEW before
      PROVE  ChangedItem(before, items) \in S \cup {None}
  <2>. DEFINE I == {i \in 1..Len(items) : IndexOf(before, items[i]) = 0}
  <2>1. PICK i : i = IF I # {} THEN Min(I) ELSE 0
    OBVIOUS
  <2>2. PICK added : added = IF i = 0 THEN None ELSE items[i]
    OBVIOUS
  <2>3. added \in S \cup {None}
    <3>1. I \subseteq 1..Len(items)
      OBVIOUS
    <3>. HIDE DEF I
    <3>. QED  BY <2>1, <2>2, <3>1, FirstOf
  <2>4. ChangedItem(before, items) =
          IF added # None THEN added ELSE FirstItem(items, LAMBDA item : TRUE)
    BY <2>1, <2>2 DEF ChangedItem, FirstItem, SelectInSeq
  <2>. QED  BY <1>1, <2>3, <2>4
<1>. QED  BY <1>1, <1>2, <1>3, <1>4

LEMMA FoldClimbs ==
  ASSUME NEW n \in Nat, NEW Q, NEW g, g[{}] \in Q[0],
         \A k \in 1..n : g[1..(k - 1)] \in Q[k - 1] => g[1..k] \in Q[k]
  PROVE  g[1..n] \in Q[n]
<1>. DEFINE P == {k \in 0..n : g[1..k] \in Q[k]}
<1>1. 1..0 = {} /\ 0 \in 0..n
  OBVIOUS
<1>2. 0 \in P
  BY <1>1
<1>3. \A k \in 1..n : k - 1 \in P => k \in P
  OBVIOUS
<1>4. n \in P
  <2>. HIDE DEF P
  <2>. QED  BY <1>2, <1>3, Climb
<1>. QED  BY <1>4

LEMMA KeptClimb ==
  ASSUME NEW B, NEW base \in B, NEW S, NEW items \in Seq(S),
         \A b \in B, i \in DOMAIN items : (IF Incomplete(items[i]) THEN b ELSE Append(b, items[i])) \in B,
         NEW Q, base \in Q[0],
         \A k \in 0..Len(items) : Q[k] \subseteq B,
         \A k \in 1..Len(items) : \A b \in Q[k - 1] :
           (IF Incomplete(items[k]) THEN b ELSE Append(b, items[k])) \in Q[k]
  PROVE  FoldLeft(LAMBDA s, item : IF Incomplete(item) THEN s ELSE Append(s, item), base, items) \in Q[Len(items)]
<1>. DEFINE n == Len(items)
            G == [i \in 1..n |-> [b \in B |-> (IF Incomplete(items[i]) THEN b ELSE Append(b, items[i]))]]
            Eq(g) == g = [s \in SUBSET DOMAIN items |->
                            IF s = {} THEN base ELSE (IF Incomplete(items[Max(s)]) THEN g[s \ {Max(s)}] ELSE Append(g[s \ {Max(s)}], items[Max(s)]))]
<1>1. n \in Nat /\ DOMAIN items = 1..n
  OBVIOUS
<1>2. \A i \in 1..n, b \in B : G[i][b] \in B
  BY <1>1
<1>3. PICK it : Folds(it, G, base, n, B)
  <2>. HIDE DEF G
  <2>. QED  BY <1>1, <1>2, FoldExists
<1>4. Eq(it)
  <2>1. ASSUME NEW s \in SUBSET (1..n), s # {}
        PROVE  it[s] = (IF Incomplete(items[Max(s)]) THEN it[s \ {Max(s)}] ELSE Append(it[s \ {Max(s)}], items[Max(s)]))
    <3>1. Max(s) \in 1..n
      <4>1. s \subseteq 0..n
        OBVIOUS
      <4>2. Max(s) \in s
        BY ONLY <1>1, <2>1, <4>1, MaxIn
      <4>. QED  BY <4>2
    <3>2. it[s \ {Max(s)}] \in B
      BY <1>3 DEF Folds
    <3>3. it[s] = G[Max(s)][it[s \ {Max(s)}]]
      BY <1>3, <2>1 DEF Folds
    <3>. QED  BY <3>1, <3>2, <3>3
  <2>. QED  BY <1>1, <1>3, <2>1 DEF Folds
<1>5. PICK g : Eq(g) /\ FoldLeft(LAMBDA s, item : IF Incomplete(item) THEN s ELSE Append(s, item), base, items) = g[DOMAIN items]
  <2>1. FoldLeft(LAMBDA s, item : IF Incomplete(item) THEN s ELSE Append(s, item), base, items) = (CHOOSE g : Eq(g))[DOMAIN items]
    BY DEF FoldLeft, MapThenFoldSet
  <2>. HIDE DEF Eq
  <2>. QED  BY <1>4, <2>1
<1>6. g[{}] \in Q[0]
  BY <1>5
<1>7. ASSUME NEW k \in 1..n, g[1..(k - 1)] \in Q[k - 1]
      PROVE  g[1..k] \in Q[k]
  <2>1. Max(1..k) = k /\ (1..k) \ {k} = 1..(k - 1) /\ 1..k \in SUBSET (1..n) /\ 1..k # {}
    <3>. HIDE DEF n
    <3>. QED  BY <1>1, SegmentOf
  <2>2. g[1..k] = (IF Incomplete(items[k]) THEN g[1..(k - 1)] ELSE Append(g[1..(k - 1)], items[k]))
    BY <1>1, <1>5, <2>1
  <2>. QED  BY <1>1, <1>7, <2>2
<1>8. g[1..n] \in Q[n]
  <2>. HIDE DEF n
  <2>. QED  BY <1>1, <1>6, <1>7, FoldClimbs
<1>. QED  BY <1>1, <1>5, <1>8

(* What Spoken does with an item that the model extracted.                 *)
MergeSaid(m, items, item) ==
  IF item.p # None /\ ~Mentioned(m, item.p) THEN items
  ELSE IF Len(items) = 1 /\ IsBare(items[1]) /\ Match(item.p) # None /\ Mentioned(m, item.p) THEN <<item>>
  ELSE MergeCandidate(items, item)

LEMMA SpokenStay ==
  ASSUME NEW B, NEW m, m.items \in B, NEW S, NEW extracted, DOMAIN extracted = SlotFields,
         extracted.items \in Seq(S),
         \A b \in B, i \in DOMAIN extracted.items : MergeSaid(m, b, extracted.items[i]) \in B
  PROVE  Spoken(m, extracted).items \in B
<1>1. PICK base, items : base = m.items /\ items = extracted.items
  OBVIOUS
<1>. DEFINE n == Len(items)
            G == [i \in 1..n |-> [b \in B |-> MergeSaid(m, b, items[i])]]
            Eq(g) == g = [s \in SUBSET DOMAIN items |->
                            IF s = {} THEN base ELSE MergeSaid(m, g[s \ {Max(s)}], items[Max(s)])]
<1>0. n \in Nat /\ DOMAIN items = 1..n
  BY <1>1
<1>2. \A i \in 1..n, b \in B : G[i][b] \in B
  BY <1>0, <1>1
<1>3. PICK it : Folds(it, G, base, n, B)
  <2>. HIDE DEF G
  <2>. QED  BY <1>0, <1>1, <1>2, FoldExists
<1>4. Eq(it)
  <2>1. ASSUME NEW s \in SUBSET (1..n), s # {}
        PROVE  it[s] = MergeSaid(m, it[s \ {Max(s)}], items[Max(s)])
    <3>1. Max(s) \in 1..n
      <4>1. s \subseteq 0..n
        OBVIOUS
      <4>2. Max(s) \in s
        BY ONLY <1>0, <1>1, <2>1, <4>1, MaxIn
      <4>. QED  BY <4>2
    <3>2. it[s \ {Max(s)}] \in B
      BY <1>3 DEF Folds
    <3>3. it[s] = G[Max(s)][it[s \ {Max(s)}]]
      BY <1>3, <2>1 DEF Folds
    <3>. QED  BY <3>1, <3>2, <3>3
  <2>. QED  BY <1>0, <1>1, <1>3, <2>1 DEF Folds
<1>5. PICK g : Eq(g) /\ Spoken(m, extracted).items = g[DOMAIN items]
  <2>1. Spoken(m, extracted).items = (CHOOSE g : Eq(g))[DOMAIN items]
    BY <1>1 DEF FoldLeft, MapThenFoldSet, Spoken, MergeSaid, SlotFields
  <2>. HIDE DEF Eq
  <2>. QED  BY <1>4, <2>1
<1>6. g[{}] \in B
  BY <1>1, <1>5
<1>7. ASSUME NEW k \in 1..n, g[1..(k - 1)] \in B
      PROVE  g[1..k] \in B
  <2>1. Max(1..k) = k /\ (1..k) \ {k} = 1..(k - 1) /\ 1..k \in SUBSET (1..n) /\ 1..k # {}
    <3>. HIDE DEF n
    <3>. QED  BY <1>0, <1>1, SegmentOf
  <2>2. g[1..k] = MergeSaid(m, g[1..(k - 1)], items[k])
    BY <1>0, <1>1, <1>5, <2>1
  <2>. QED  BY <1>0, <1>1, <1>7, <2>2
<1>8. g[1..n] \in B
  <2>. HIDE DEF n
  <2>. QED  BY <1>0, <1>1, <1>6, <1>7, FoldStays
<1>. QED  BY <1>0, <1>1, <1>5, <1>8

LEMMA SumStays ==
  ASSUME NEW B, 0 \in B, NEW p, NEW S, NEW slots, slots.items \in Seq(S),
         \A b \in B, i \in DOMAIN slots.items : (IF Match(slots.items[i].p) = p THEN b + slots.items[i].q ELSE b) \in B
  PROVE  Wanted(slots, p) \in B
<1>1. PICK base, items : base = 0 /\ items = slots.items
  OBVIOUS
<1>. DEFINE n == Len(items)
            G == [i \in 1..n |-> [b \in B |-> (IF Match(items[i].p) = p THEN b + items[i].q ELSE b)]]
            Eq(g) == g = [s \in SUBSET DOMAIN items |->
                            IF s = {} THEN base ELSE (IF Match(items[Max(s)].p) = p THEN g[s \ {Max(s)}] + items[Max(s)].q ELSE g[s \ {Max(s)}])]
<1>0. n \in Nat /\ DOMAIN items = 1..n
  BY <1>1
<1>2. \A i \in 1..n, b \in B : G[i][b] \in B
  BY <1>0, <1>1
<1>3. PICK it : Folds(it, G, base, n, B)
  <2>. HIDE DEF G
  <2>. QED  BY <1>0, <1>1, <1>2, FoldExists
<1>4. Eq(it)
  <2>1. ASSUME NEW s \in SUBSET (1..n), s # {}
        PROVE  it[s] = (IF Match(items[Max(s)].p) = p THEN it[s \ {Max(s)}] + items[Max(s)].q ELSE it[s \ {Max(s)}])
    <3>1. Max(s) \in 1..n
      <4>1. s \subseteq 0..n
        OBVIOUS
      <4>2. Max(s) \in s
        BY ONLY <1>0, <1>1, <2>1, <4>1, MaxIn
      <4>. QED  BY <4>2
    <3>2. it[s \ {Max(s)}] \in B
      BY <1>3 DEF Folds
    <3>3. it[s] = G[Max(s)][it[s \ {Max(s)}]]
      BY <1>3, <2>1 DEF Folds
    <3>. QED  BY <3>1, <3>2, <3>3
  <2>. QED  BY <1>0, <1>1, <1>3, <2>1 DEF Folds
<1>5. PICK g : Eq(g) /\ Wanted(slots, p) = g[DOMAIN items]
  <2>1. Wanted(slots, p) = (CHOOSE g : Eq(g))[DOMAIN items]
    BY <1>1 DEF FoldLeft, MapThenFoldSet, Wanted
  <2>. HIDE DEF Eq
  <2>. QED  BY <1>4, <2>1
<1>6. g[{}] \in B
  BY <1>1, <1>5
<1>7. ASSUME NEW k \in 1..n, g[1..(k - 1)] \in B
      PROVE  g[1..k] \in B
  <2>1. Max(1..k) = k /\ (1..k) \ {k} = 1..(k - 1) /\ 1..k \in SUBSET (1..n) /\ 1..k # {}
    <3>. HIDE DEF n
    <3>. QED  BY <1>0, <1>1, SegmentOf
  <2>2. g[1..k] = (IF Match(items[k].p) = p THEN g[1..(k - 1)] + items[k].q ELSE g[1..(k - 1)])
    <3>1. PICK s, rest : s = 1..k /\ rest = 1..(k - 1)
      OBVIOUS
    <3>2. s \in SUBSET DOMAIN items /\ s # {} /\ Max(s) = k /\ s \ {k} = rest
      BY <1>0, <2>1, <3>1
    <3>3. g[s] = (IF Match(items[k].p) = p THEN g[rest] + items[k].q ELSE g[rest])
      BY <1>5, <3>2
    <3>. QED  BY <3>1, <3>3
  <2>. QED  BY <1>0, <1>1, <1>7, <2>2
<1>8. g[1..n] \in B
  <2>. HIDE DEF n
  <2>. QED  BY <1>0, <1>1, <1>6, <1>7, FoldStays
<1>. QED  BY <1>0, <1>1, <1>5, <1>8

-----------------------------------------------------------------------------
(* What a message leaves of a cart.                                        *)

LEMMA DropIncompleteOver ==
  ASSUME NEW P, NEW C, NEW slots, SlotsOver(P, C, slots)
  PROVE  SlotsOver(P, C, DropIncomplete(slots))
<1>1. PICK items \in Seq(Lines(P)) : items = slots.items /\ C \subseteq Products(items)
  BY DEF SlotsOver, Over
<1>2. DOMAIN slots = SlotFields
  BY DEF SlotsOver
<1>. DEFINE Has(k) == {kept \in Seq(Lines(P)) :
                         \A i \in 1..k : Match(items[i].p) # None => Match(items[i].p) \in Products(kept)}
            Q == [k \in 0..Len(items) |-> Has(k)]
            Put(kept, item) == IF Incomplete(item) THEN kept ELSE Append(kept, item)
<1>3. Len(items) \in Nat /\ DOMAIN items = 1..Len(items)
  BY <1>1
<1>4. <<>> \in Seq(Lines(P)) /\ <<>> \in Q[0]
  BY <1>3
<1>5. ASSUME NEW kept \in Seq(Lines(P)), NEW i \in DOMAIN items
      PROVE  Put(kept, items[i]) \in Seq(Lines(P))
  <2>1. items[i] \in Lines(P)
    BY <1>1
  <2>. QED  BY <2>1
<1>6. \A k \in 0..Len(items) : Q[k] \subseteq Seq(Lines(P))
  OBVIOUS
<1>7. ASSUME NEW k \in 1..Len(items), NEW kept \in Q[k - 1]
      PROVE  Put(kept, items[k]) \in Q[k]
  <2>1. k - 1 \in 0..Len(items) /\ k \in 0..Len(items) /\ k \in DOMAIN items
        /\ \A i \in 1..k : i \in 1..(k - 1) \/ i = k
    BY <1>3
  <2>2. kept \in Has(k - 1)
    BY <2>1
  <2>3. Put(kept, items[k]) \in Has(k)
    <3>1. CASE Incomplete(items[k])
      <4>1. Match(items[k].p) = None
        BY <3>1, NamesAssumption DEF Incomplete, Match
      <4>. QED  BY <2>1, <2>2, <3>1, <4>1
    <3>2. CASE ~Incomplete(items[k])
      <4>1. PICK x \in Lines(P) : x = items[k]
        BY <1>1, <2>1
      <4>2. PICK more : more = Append(kept, x)
        OBVIOUS
      <4>3. more \in Seq(Lines(P)) /\ Products(kept) \subseteq Products(more)
        BY <2>2, <4>2, ProductsAppend
      <4>4. Match(x.p) # None => Match(x.p) \in Products(more)
        <5>1. PICK n : n = Len(kept) + 1
          OBVIOUS
        <5>2. n \in DOMAIN more /\ more[n] = x
          BY <2>2, <4>2, <5>1
        <5>. QED  BY <5>2 DEF Products
      <4>. QED  BY <2>1, <2>2, <3>2, <4>1, <4>2, <4>3, <4>4
    <3>. QED  BY <3>1, <3>2
  <2>. QED  BY <2>1, <2>3
<1>8. PICK kept : kept = FoldLeft(LAMBDA s, item : IF Incomplete(item) THEN s ELSE Append(s, item), <<>>, items)
  OBVIOUS
<1>9. kept \in Q[Len(items)]
  <2>. HIDE DEF Q
  <2>1. PICK B : B = Seq(Lines(P))
    OBVIOUS
  <2>. QED  BY <1>1, <1>4, <1>5, <1>6, <1>7, <1>8, <2>1, KeptClimb
<1>10. kept \in Has(Len(items))
  BY <1>3, <1>9
<1>11. C \subseteq Products(kept)
  <2>1. ASSUME NEW c \in C PROVE c \in Products(kept)
    <3>1. PICK i \in DOMAIN items : c = Match(items[i].p) /\ c # None
      BY <1>1 DEF Products
    <3>. QED  BY <1>3, <1>10, <3>1
  <2>. QED  BY <2>1
<1>12. DropIncomplete(slots) = WithItems(slots, kept)
  BY <1>1, <1>8 DEF DropIncomplete
<1>13. kept \in Over(P, C)
  BY <1>10, <1>11 DEF Over
<1>. QED  BY <1>2, <1>12, <1>13, SlotsPut

(* The products of a message, for a set of names that has them.            *)
Said(P, m) ==
  /\ m.items \in Seq(Lines(P)) /\ m.match \in P \cup {None}
  /\ \A p \in Name : Mentioned(m, p) => p \in P

LEMMA MergeSaidOver ==
  ASSUME NEW P, NEW m, Said(P, m), NEW items \in Seq(Lines(P)), NEW item \in Line
  PROVE  /\ MergeSaid(m, items, item) \in Seq(Lines(P))
         /\ (item.p # None /\ \A i \in DOMAIN items : items[i].p # None)
              => \A i \in DOMAIN MergeSaid(m, items, item) : MergeSaid(m, items, item)[i].p # None
<1>1. CASE item.p # None /\ ~Mentioned(m, item.p)
  BY <1>1 DEF MergeSaid
<1>2. CASE ~ (item.p # None /\ ~Mentioned(m, item.p))
  <2>1. item \in Lines(P)
    BY <1>2 DEF Line, Lines, Said
  <2>2. CASE MergeSaid(m, items, item) = <<item>>
    BY <2>1, <2>2
  <2>3. CASE MergeSaid(m, items, item) = MergeCandidate(items, item)
    <3>1. items \in Over(P, {})
      BY OverTyped
    <3>2. MergeCandidate(items, item) \in Seq(Lines(P))
      BY <2>1, <3>1, MergeCandidateOver, OverTyped
    <3>3. ASSUME item.p # None, \A i \in DOMAIN items : items[i].p # None,
                 NEW k \in DOMAIN MergeCandidate(items, item)
          PROVE  MergeCandidate(items, item)[k].p # None
      <4>1. PICK i : i = IndexOf(items, item)
        OBVIOUS
      <4>2. CASE i = 0
        <5>1. MergeCandidate(items, item) = Append(items, item)
          BY <4>1, <4>2 DEF MergeCandidate
        <5>. QED  BY <2>1, <3>3, <5>1
      <4>3. CASE i # 0
        <5>1. i \in DOMAIN items /\ items[i] \in Lines(P)
          BY <4>1, <4>3, IndexIn
        <5>2. PICK x : x = [items[i] EXCEPT !.q = Or(items[i].q, item.q)]
          OBVIOUS
        <5>3. x.p = items[i].p
          BY <5>1, <5>2 DEF Lines
        <5>4. MergeCandidate(items, item) = [items EXCEPT ![i] = x]
          BY <4>1, <4>3, <5>2 DEF MergeCandidate
        <5>. QED  BY <3>3, <5>1, <5>3, <5>4
      <4>. QED  BY <4>2, <4>3
    <3>. QED  BY <2>3, <3>2, <3>3
  <2>. QED  BY <1>2, <2>2, <2>3 DEF MergeSaid
<1>. QED  BY <1>1, <1>2

LEMMA SpokenOver ==
  ASSUME NEW P, NEW m, Said(P, m), NEW extracted, DOMAIN extracted = SlotFields,
         extracted.items \in Seq(Line)
  PROVE  /\ DOMAIN Spoken(m, extracted) = SlotFields
         /\ Spoken(m, extracted).items \in Seq(Lines(P))
         /\ (/\ \A i \in DOMAIN m.items : m.items[i].p # None
             /\ \A i \in DOMAIN extracted.items : extracted.items[i].p # None)
            => \A i \in DOMAIN Spoken(m, extracted).items : Spoken(m, extracted).items[i].p # None
<1>1. PICK kept, items : kept = Spoken(m, extracted).items /\ items = extracted.items
  OBVIOUS
<1>2. DOMAIN Spoken(m, extracted) = SlotFields
  BY DEF Spoken, SlotFields
<1>3. m.items \in Seq(Lines(P)) /\ items \in Seq(Line) /\ \A i \in DOMAIN items : items[i] \in Line
  BY <1>1 DEF Said
<1>4. kept \in Seq(Lines(P))
  <2>1. \A b \in Seq(Lines(P)), i \in DOMAIN items : MergeSaid(m, b, items[i]) \in Seq(Lines(P))
    BY <1>3, MergeSaidOver
  <2>2. PICK B : B = Seq(Lines(P))
    OBVIOUS
  <2>. QED  BY <1>1, <1>3, <2>1, <2>2, SpokenStay
<1>5. ASSUME \A i \in DOMAIN m.items : m.items[i].p # None, \A i \in DOMAIN items : items[i].p # None
      PROVE  \A i \in DOMAIN kept : kept[i].p # None
  <2>. DEFINE B == {s \in Seq(Lines(P)) : \A i \in DOMAIN s : s[i].p # None}
  <2>1. \A b \in B, i \in DOMAIN items : MergeSaid(m, b, items[i]) \in B
    BY <1>3, <1>5, MergeSaidOver
  <2>2. m.items \in B
    BY <1>3, <1>5
  <2>3. kept \in B
    <3>. HIDE DEF B
    <3>. QED  BY <1>1, <1>3, <2>1, <2>2, SpokenStay
  <2>. QED  BY <2>3
<1>. QED  BY <1>1, <1>2, <1>4, <1>5

LEMMA WithCuesIs ==
  ASSUME NEW slots, DOMAIN slots = SlotFields, NEW m
  PROVE  DOMAIN WithCues(slots, m) = SlotFields /\ WithCues(slots, m).items = slots.items
BY DEF WithCues, SlotFields

LEMMA WantedIn ==
  ASSUME NEW slots, NEW S, slots.items \in Seq(S),
         \A i \in DOMAIN slots.items : slots.items[i].q \in Nat, NEW p
  PROVE  Wanted(slots, p) \in Nat
<1>1. \A b \in Nat, i \in DOMAIN slots.items :
        (IF Match(slots.items[i].p) = p THEN b + slots.items[i].q ELSE b) \in Nat
  OBVIOUS
<1>2. PICK B : B = Nat
  OBVIOUS
<1>. QED  BY <1>1, <1>2, SumStays

-----------------------------------------------------------------------------
(* What a turn about an order answers.  P are the names its state and its  *)
(* message have, C are products that its state has in the cart and that    *)
(* the message does not take away, or none.                                *)

Blank(slots) == DOMAIN slots = SlotFields /\ slots.items = <<>>

StateOver(P, d) ==
  /\ d.type = "state" /\ SlotsOver(P, {}, d.slots)
  /\ d.pending \in Lines(P) \cup {None} /\ d.previous \in Seq(Lines(P))

TurnOver(P, t) ==
  /\ DOMAIN t.spoken = SlotFields /\ t.spoken.items \in Seq(Lines(P))
  /\ t.msg.match \in P \cup {None}
  /\ t.state # None => StateOver(P, t.state)
  /\ t.reusable # None => Blank(t.reusable)
  /\ t.account # None => Blank(t.account)

Careful(t, C) ==
  \/ C = {}
  \/ /\ t.state # None /\ C \subseteq CartOf(t.state) /\ ~TakesAway(t.msg, t.state)
     /\ \A i \in DOMAIN t.spoken.items : t.spoken.items[i].p # None

Outcome(P, C, r) ==
  /\ r.type \in {"cart", "state"}
  /\ r.type = "cart" => SlotsOver(P, C, r.slots)
  /\ r.type = "state" => StateOver(P, r) /\ C \subseteq StillThere(r)

LEMMA NothingKept ==
  ASSUME NEW P, NEW C, NEW slots, SlotsOver(P, C, slots)
  PROVE  /\ DOMAIN slots = SlotFields /\ slots.items \in Seq(Lines(P))
         /\ C \subseteq Products(slots.items) /\ SlotsOver(P, {}, slots)
BY DEF SlotsOver, Over

LEMMA CartHas ==
  ASSUME NEW P, NEW C, NEW t, TurnOver(P, t), Careful(t, C), t.state # None
  PROVE  /\ SlotsOver(P, C, t.state.slots)
         /\ t.state.previous # <<>> => t.state.previous \in Over(P, C)
<1>1. StateOver(P, t.state)
  BY DEF TurnOver
<1>2. C \subseteq Products(t.state.slots.items)
      /\ (t.state.previous # <<>> => C \subseteq Products(t.state.previous))
  BY <1>1 DEF Careful, CartOf, StateOver
<1>. QED  BY <1>1, <1>2 DEF StateOver, SlotsOver, Over

(* The contact details of a message change none of the items.              *)
LEMMA MergedContact ==
  ASSUME NEW P, NEW C, NEW slots, SlotsOver(P, C, slots), NEW t, TurnOver(P, t)
  PROVE  SlotsOver(P, C, MergeSlots(slots, Contact(t)))
<1>1. Contact(t).items = <<>>
  BY WithItemsIs DEF Contact, TurnOver
<1>2. DOMAIN slots = SlotFields
  BY NothingKept
<1>3. /\ DOMAIN MergeSlots(slots, Contact(t)) = SlotFields
      /\ MergeSlots(slots, Contact(t)).items = slots.items
  BY <1>1, <1>2, MergeSlotsIs, MergeNothing
<1>. QED  BY <1>3 DEF SlotsOver

LEMMA CartIs ==
  ASSUME NEW P, NEW C, NEW slots, SlotsOver(P, C, slots), NEW t, TurnOver(P, t), NEW resolved
  PROVE  Outcome(P, C, Cart(t, slots, resolved))
<1>1. PICK new : new = MergeSlots(slots, Contact(t))
  OBVIOUS
<1>2. SlotsOver(P, C, new)
  BY <1>1, MergedContact
<1>3. Cart(t, slots, resolved) = [type |-> "cart", slots |-> new, resolved |-> resolved]
  BY <1>1 DEF Cart
<1>. QED  BY <1>2, <1>3 DEF Outcome

LEMMA AskIs ==
  ASSUME NEW P, NEW C, NEW slots, SlotsOver(P, C, slots), NEW status,
         NEW item \in Lines(P) \cup {None}
  PROVE  /\ Outcome(P, C, AskAbout(status, slots, item))
         /\ Outcome(P, C, Ask(status, slots))
<1>1. SlotsOver(P, {}, slots) /\ C \subseteq Products(slots.items) /\ <<>> \in Seq(Lines(P))
  BY NothingKept
<1>2. Outcome(P, C, AskAbout(status, slots, item))
  <2>1. PICK r : r = AskAbout(status, slots, item)
    OBVIOUS
  <2>2. r.type = "state" /\ r.slots = slots /\ r.pending = item /\ r.previous = <<>>
    BY <2>1 DEF AskAbout, Ask
  <2>. QED  BY <1>1, <2>1, <2>2 DEF Outcome, StateOver, StillThere
<1>3. Outcome(P, C, Ask(status, slots))
  <2>1. PICK r : r = Ask(status, slots)
    OBVIOUS
  <2>2. r.type = "state" /\ r.slots = slots /\ r.pending = None /\ r.previous = <<>>
    BY <2>1 DEF Ask
  <2>. QED  BY <1>1, <2>1, <2>2 DEF Outcome, StateOver, StillThere
<1>. QED  BY <1>2, <1>3

LEMMA AskChangeIs ==
  ASSUME NEW P, NEW C, NEW slots, SlotsOver(P, {}, slots),
         NEW item \in Lines(P) \cup {None}, NEW before \in Over(P, C)
  PROVE  Outcome(P, C, AskChange(slots, item, before))
<1>1. before \in Seq(Lines(P)) /\ C \subseteq Products(before)
  BY DEF Over
<1>2. PICK r : r = AskChange(slots, item, before)
  OBVIOUS
<1>3. r.type = "state" /\ r.slots = slots /\ r.pending = item /\ r.previous = before
  BY <1>2 DEF AskChange, AskAbout, Ask
<1>. QED  BY <1>1, <1>2, <1>3 DEF Outcome, StateOver, StillThere

(* What the outcome of an operation on a cart says of the message.         *)
LEMMA OperationSays ==
  ASSUME NEW m, NEW cart, NEW items, NEW operation, operation = Operation(m, cart, items)
  PROVE  /\ operation \in {"none", "set", "remove", "add", "replace", "merge", "ambiguous"}
         /\ operation # "none" => items # <<>>
         /\ operation = "set" => \/ \A i \in DOMAIN items : items[i].p = None
                                 \/ cart = <<>>
         /\ operation = "remove" => Removes(m)
         /\ operation = "replace" => Replaces(m)
BY DEF Operation

LEMMA ChangedOver ==
  ASSUME NEW P, NEW C, NEW t, TurnOver(P, t), Careful(t, C)
  PROVE  Outcome(P, C, Changed(t))
<1>1. PICK base, items, operation :
        /\ base = MergeSlots(Slots(t.state), Contact(t)) /\ items = t.spoken.items
        /\ operation = Operation(t.msg, base.items, items)
  OBVIOUS
<1>2. SlotsOver(P, C, base)
  <2>1. CASE t.state = None
    <3>1. C = {}
      BY <2>1 DEF Careful
    <3>2. <<>> \in Seq(Lines(P)) /\ DOMAIN NoSlots = SlotFields /\ NoSlots.items = <<>>
      BY DEF NoSlots, SlotFields
    <3>3. SlotsOver(P, C, Slots(t.state))
      BY <2>1, <3>1, <3>2 DEF Slots, SlotsOver, Over
    <3>. QED  BY <1>1, <3>3, MergedContact
  <2>2. CASE t.state # None
    <3>1. SlotsOver(P, C, Slots(t.state))
      BY <2>2, CartHas DEF Slots
    <3>. QED  BY <1>1, <3>1, MergedContact
  <2>. QED  BY <2>1, <2>2
<1>3. items \in Seq(Lines(P)) /\ base.items \in Seq(Lines(P)) /\ DOMAIN base = SlotFields
      /\ SlotsOver(P, {}, base) /\ base.items \in Over(P, C) /\ C \subseteq Products(base.items)
  BY <1>1, <1>2, NothingKept DEF TurnOver, SlotsOver
<1>4. items # <<>> => items[1] \in Lines(P) /\ 1 \in DOMAIN items
  BY <1>3
<1>5. /\ operation # "none" => items # <<>>
      /\ operation = "set" => \/ \A i \in DOMAIN items : items[i].p = None
                              \/ base.items = <<>>
      /\ operation = "remove" => Removes(t.msg)
      /\ operation = "replace" => Replaces(t.msg)
      /\ operation \in {"none", "set", "remove", "add", "replace", "merge", "ambiguous"}
  BY <1>1, OperationSays
<1>6. ~TakesAway(t.msg, t.state) => operation # "remove" /\ operation # "replace"
  BY <1>5 DEF TakesAway
<1>7. CASE operation = "none"
  <2>1. Changed(t) = Cart(t, base, FALSE)
    BY <1>1, <1>7 DEF Changed
  <2>. QED  BY <1>2, <2>1, CartIs
<1>8. operation = "set" => C = {}
  <2>1. SUFFICES ASSUME operation = "set", C # {} PROVE FALSE
    OBVIOUS
  <2>2. \A i \in DOMAIN items : items[i].p # None
    BY <1>1, <2>1 DEF Careful
  <2>3. 1 \in DOMAIN items /\ items[1].p # None
    BY <1>4, <1>5, <2>1, <2>2
  <2>4. base.items = <<>>
    BY <1>5, <2>1, <2>3
  <2>5. Products(<<>>) = {}
    BY DEF Products
  <2>. QED  BY <1>3, <2>1, <2>4, <2>5
<1>9. CASE C = {} /\ operation \in {"set", "remove", "replace"}
  <2>1. PICK set : set = WithItems(base, items)
    OBVIOUS
  <2>2. SlotsOver(P, C, set)
    <3>1. items \in Over(P, C)
      BY <1>3, <1>9, OverTyped
    <3>. QED  BY <1>3, <2>1, <3>1, SlotsPut
  <2>3. items[1] \in Lines(P)
    BY <1>4, <1>5, <1>9
  <2>4. CASE operation = "set"
    <3>1. Changed(t) = Cart(t, set, FALSE)
      BY <1>1, <2>1, <2>4 DEF Changed
    <3>. QED  BY <2>2, <3>1, CartIs
  <2>5. CASE operation = "remove"
    <3>1. Changed(t) = Cart(t, RemoveItem(base, items[1]), FALSE)
      BY <1>1, <2>5 DEF Changed
    <3>2. SlotsOver(P, C, RemoveItem(base, items[1]))
      BY <1>3, <1>9, RemoveItemOver
    <3>. QED  BY <3>1, <3>2, CartIs
  <2>6. CASE operation = "replace" /\ base.items = <<>>
    <3>1. Changed(t) = Cart(t, set, FALSE)
      BY <1>1, <2>1, <2>6 DEF Changed
    <3>. QED  BY <2>2, <3>1, CartIs
  <2>7. CASE operation = "replace" /\ base.items # <<>>
    <3>1. Changed(t) = AskChange(ReplaceFirst(base, items[1]), items[1], base.items)
      BY <1>1, <2>7 DEF Changed
    <3>2. SlotsOver(P, {}, ReplaceFirst(base, items[1]))
      BY <1>3, <2>3, ReplaceFirstOver
    <3>. QED  BY <1>3, <2>3, <3>1, <3>2, AskChangeIs
  <2>. QED  BY <1>9, <2>4, <2>5, <2>6, <2>7
<1>10. CASE operation = "add"
  <2>1. Changed(t) = Cart(t, AppendItems(base, items), FALSE)
    BY <1>1, <1>10 DEF Changed
  <2>. QED  BY <1>2, <1>3, <2>1, AppendItemsOver, CartIs
<1>11. CASE operation = "merge"
  <2>1. Changed(t) = Cart(t, FoldLeft(MergeExisting, base, items), FALSE)
    BY <1>1, <1>11 DEF Changed
  <2>. QED  BY <1>2, <1>3, <2>1, MergedOver, CartIs
<1>12. CASE operation = "ambiguous"
  <2>1. Changed(t) = AskAbout("awaiting_add_or_replace", base, items[1])
    BY <1>1, <1>12 DEF Changed
  <2>. QED  BY <1>2, <1>4, <1>5, <1>12, <2>1, AskIs
<1>13. C = {} \/ ~TakesAway(t.msg, t.state)
  BY DEF Careful
<1>. QED  BY <1>5, <1>6, <1>7, <1>8, <1>9, <1>10, <1>11, <1>12, <1>13

LEMMA CandidateIn ==
  ASSUME NEW P, NEW t, TurnOver(P, t)
  PROVE  Candidate(t) \in Lines(P) \cup {None}
BY FirstIn DEF Candidate, TurnOver

LEMMA PaySet ==
  ASSUME NEW P, NEW C, NEW slots, SlotsOver(P, C, slots), NEW pay
  PROVE  SlotsOver(P, C, [slots EXCEPT !.pay = pay])
<1>1. /\ DOMAIN [slots EXCEPT !.pay = pay] = SlotFields
      /\ [slots EXCEPT !.pay = pay].items = slots.items
  BY DEF SlotsOver, SlotFields
<1>. QED  BY <1>1 DEF SlotsOver

(* One more item in a cart.                                                *)
LEMMA OneMore ==
  ASSUME NEW P, NEW C, NEW slots, SlotsOver(P, C, slots), NEW item \in Lines(P)
  PROVE  SlotsOver(P, C, AppendItems(slots, <<item>>))
<1>1. PICK one : one = <<item>>
  OBVIOUS
<1>2. one \in Seq(Lines(P))
  BY <1>1
<1>3. SlotsOver(P, C, AppendItems(slots, one))
  BY <1>2, AppendItemsOver
<1>. QED  BY <1>1, <1>3

LEMMA ChosenProductOver ==
  ASSUME NEW P, NEW C, NEW t, TurnOver(P, t), Careful(t, C), t.state # None,
         OpenItem(t.state) # None
  PROVE  Outcome(P, C, ChosenProduct(t))
<1>1. PICK base, open, less :
        base = t.state.slots /\ open = OpenItem(t.state) /\ less = DropIncomplete(base)
  OBVIOUS
<1>2. SlotsOver(P, C, base) /\ SlotsOver(P, C, less)
  BY <1>1, CartHas, DropIncompleteOver
<1>3. open \in Lines(P)
  <2>1. base.items \in Seq(Lines(P))
    BY <1>2, NothingKept
  <2>. QED  BY <1>1, <2>1, FirstIn DEF OpenItem, TurnOver, StateOver
<1>4. CASE CancelsAdd(t.msg) \/ Affirms(t.msg)
  <2>1. PICK resolved \in {TRUE, FALSE} : ChosenProduct(t) = Cart(t, less, resolved)
    BY <1>1, <1>4 DEF ChosenProduct
  <2>. QED  BY <1>2, <2>1, CartIs
<1>5. CASE ~CancelsAdd(t.msg) /\ ~Affirms(t.msg) /\ NamesBrand(t.msg) /\ t.msg.match # None
  <2>1. PICK item : item = [p |-> t.msg.match, q |-> open.q]
    OBVIOUS
  <2>2. item \in Lines(P)
    BY <1>3, <2>1 DEF Lines, TurnOver
  <2>3. SlotsOver(P, C, AppendItems(less, <<item>>))
    BY <1>2, <2>2, OneMore
  <2>4. ChosenProduct(t) = Cart(t, AppendItems(less, <<item>>), FALSE)
    BY <1>1, <1>5, <2>1 DEF ChosenProduct
  <2>. QED  BY <2>3, <2>4, CartIs
<1>6. CASE /\ ~CancelsAdd(t.msg) /\ ~Affirms(t.msg)
           /\ ~(NamesBrand(t.msg) /\ t.msg.match # None) /\ NamesSize(t.msg)
  <2>1. ChosenProduct(t) = AskAbout("awaiting_product_choice", base, open)
    BY <1>1, <1>6 DEF ChosenProduct
  <2>. QED  BY <1>2, <1>3, <2>1, AskIs
<1>7. CASE /\ ~CancelsAdd(t.msg) /\ ~Affirms(t.msg)
           /\ ~(NamesBrand(t.msg) /\ t.msg.match # None) /\ ~NamesSize(t.msg)
  <2>1. ChosenProduct(t) = Changed(t)
    BY <1>7 DEF ChosenProduct
  <2>. QED  BY <2>1, ChangedOver
<1>. QED  BY <1>4, <1>5, <1>6, <1>7

LEMMA ConfirmedChangeOver ==
  ASSUME NEW P, NEW C, NEW t, TurnOver(P, t), Careful(t, C), t.state # None
  PROVE  Outcome(P, C, ConfirmedChange(t))
<1>1. PICK m, base : m = t.msg /\ base = t.state.slots
  OBVIOUS
<1>2. PICK before : before = IF t.state.previous # <<>> THEN t.state.previous ELSE base.items
  OBVIOUS
<1>3. PICK original : original = WithItems(base, before)
  OBVIOUS
<1>4. PICK item : item = IF t.state.pending # None THEN t.state.pending
                         ELSE ChangedItem(before, base.items)
  OBVIOUS
<1>5. /\ SlotsOver(P, C, base) /\ SlotsOver(P, {}, base) /\ DOMAIN base = SlotFields
      /\ base.items \in Seq(Lines(P)) /\ base.items \in Over(P, C)
  BY <1>1, CartHas, NothingKept DEF SlotsOver
<1>6. before \in Over(P, C) /\ before \in Seq(Lines(P)) /\ C \subseteq Products(before)
  BY <1>1, <1>2, <1>5, CartHas DEF Over
<1>7. SlotsOver(P, C, original) /\ SlotsOver(P, {}, original) /\ DOMAIN original = SlotFields
  BY <1>3, <1>5, <1>6, SlotsPut, NothingKept
<1>8. item \in Lines(P) \cup {None}
  BY <1>4, <1>5, FirstIn DEF TurnOver, StateOver
<1>9. Candidate(t) \in Lines(P) \cup {None}
  BY CandidateIn
<1>10. ConfirmedChange(t) =
         IF m.pay # None THEN Cart(t, [original EXCEPT !.pay = m.pay], FALSE)
         ELSE IF Negates(m) /\ Adds(m) /\ item # None
         THEN Cart(t, WithItems(original, Append(before, item)), FALSE)
         ELSE IF Affirms(m) THEN Cart(t, base, FALSE)
         ELSE IF Negates(m) \/ Keeps(m) THEN Cart(t, original, FALSE)
         ELSE IF Adds(m) /\ t.spoken.items # <<>>
         THEN Cart(t, AppendItems(original, t.spoken.items), FALSE)
         ELSE IF Adds(m) /\ item # None THEN Cart(t, AppendItems(original, <<item>>), FALSE)
         ELSE IF NamesProduct(t)
         THEN AskChange(ReplaceFirst(original, Candidate(t)), Candidate(t), before)
         ELSE AskChange(base, item, before)
  BY <1>1, <1>2, <1>3, <1>4 DEF ConfirmedChange
<1>11. Outcome(P, C, Cart(t, [original EXCEPT !.pay = m.pay], FALSE))
  BY <1>7, PaySet, CartIs
<1>12. item # None => Outcome(P, C, Cart(t, WithItems(original, Append(before, item)), FALSE))
  <2>1. SUFFICES ASSUME item # None
                 PROVE  Outcome(P, C, Cart(t, WithItems(original, Append(before, item)), FALSE))
    OBVIOUS
  <2>2. PICK more : more = Append(before, item)
    OBVIOUS
  <2>3. more \in Over(P, C)
    BY <1>6, <1>8, <2>1, <2>2, ProductsAppend DEF Over
  <2>. QED  BY <1>7, <2>2, <2>3, SlotsPut, CartIs
<1>13. Outcome(P, C, Cart(t, base, FALSE)) /\ Outcome(P, C, Cart(t, original, FALSE))
  BY <1>5, <1>7, CartIs
<1>14. Outcome(P, C, Cart(t, AppendItems(original, t.spoken.items), FALSE))
  BY <1>7, AppendItemsOver, CartIs DEF TurnOver
<1>15. item # None => Outcome(P, C, Cart(t, AppendItems(original, <<item>>), FALSE))
  BY <1>7, <1>8, OneMore, CartIs
<1>16. NamesProduct(t) => Outcome(P, C, AskChange(ReplaceFirst(original, Candidate(t)), Candidate(t), before))
  <2>1. SUFFICES ASSUME NamesProduct(t)
                 PROVE  Outcome(P, C, AskChange(ReplaceFirst(original, Candidate(t)), Candidate(t), before))
    OBVIOUS
  <2>2. Candidate(t) \in Lines(P)
    BY <1>9, <2>1 DEF NamesProduct
  <2>3. SlotsOver(P, {}, ReplaceFirst(original, Candidate(t)))
    BY <1>7, <2>2, ReplaceFirstOver
  <2>. QED  BY <1>6, <2>2, <2>3, AskChangeIs
<1>17. Outcome(P, C, AskChange(base, item, before))
  BY <1>5, <1>6, <1>8, AskChangeIs
<1>. QED  BY <1>10, <1>11, <1>12, <1>13, <1>14, <1>15, <1>16, <1>17

LEMMA AddedOrReplacedOver ==
  ASSUME NEW P, NEW C, NEW t, TurnOver(P, t), Careful(t, C), t.state # None,
         t.state.status = "awaiting_add_or_replace"
  PROVE  Outcome(P, C, AddedOrReplaced(t))
<1>1. PICK m, base : m = t.msg /\ base = t.state.slots
  OBVIOUS
<1>2. PICK item : item = IF t.state.pending # None THEN t.state.pending ELSE Candidate(t)
  OBVIOUS
<1>3. SlotsOver(P, C, base) /\ SlotsOver(P, {}, base)
  BY <1>1, CartHas, NothingKept
<1>4. Candidate(t) \in Lines(P) \cup {None} /\ item \in Lines(P) \cup {None}
  BY <1>2, CandidateIn DEF TurnOver, StateOver
<1>5. AddedOrReplaced(t) =
        IF m.pay # None THEN Cart(t, [base EXCEPT !.pay = m.pay], FALSE)
        ELSE IF item # None /\ Adds(m) THEN Cart(t, AppendItems(base, <<item>>), FALSE)
        ELSE IF item # None /\ (Replaces(m) \/ Affirms(m))
        THEN Cart(t, ReplaceFirst(base, item), FALSE)
        ELSE IF Negates(m) THEN Cart(t, base, FALSE)
        ELSE AskAbout("awaiting_add_or_replace", base,
                      IF NamesProduct(t) THEN Candidate(t) ELSE item)
  BY <1>1, <1>2 DEF AddedOrReplaced
<1>6. Outcome(P, C, Cart(t, [base EXCEPT !.pay = m.pay], FALSE))
  BY <1>3, PaySet, CartIs
<1>7. item # None => Outcome(P, C, Cart(t, AppendItems(base, <<item>>), FALSE))
  BY <1>3, <1>4, OneMore, CartIs
<1>8. item # None /\ (Replaces(m) \/ Affirms(m)) => Outcome(P, C, Cart(t, ReplaceFirst(base, item), FALSE))
  <2>1. SUFFICES ASSUME item # None, Replaces(m) \/ Affirms(m)
                 PROVE  Outcome(P, C, Cart(t, ReplaceFirst(base, item), FALSE))
    OBVIOUS
  <2>2. C = {}
    BY <1>1, <2>1 DEF Careful, TakesAway
  <2>3. SlotsOver(P, {}, ReplaceFirst(base, item))
    BY <1>3, <1>4, <2>1, ReplaceFirstOver
  <2>. QED  BY <2>2, <2>3, CartIs
<1>9. Outcome(P, C, Cart(t, base, FALSE))
  BY <1>3, CartIs
<1>10. PICK about \in Lines(P) \cup {None} : about = IF NamesProduct(t) THEN Candidate(t) ELSE item
  BY <1>4
<1>11. Outcome(P, C, AskAbout("awaiting_add_or_replace", base, about))
  BY <1>3, AskIs
<1>. QED  BY <1>5, <1>6, <1>7, <1>8, <1>9, <1>10, <1>11

LEMMA UnderstoodOver ==
  ASSUME NEW P, NEW C, NEW t, TurnOver(P, t), Careful(t, C)
  PROVE  Outcome(P, C, Understood(t))
<1>1. t.state # None => Status(t.state) = t.state.status
  BY DEF Status
<1>2. CASE /\ Status(t.state) = "awaiting_product_choice"
           /\ OpenItem(t.state) # None /\ Incomplete(OpenItem(t.state))
  <2>1. t.state # None
    BY <1>2, NoneIsNoStatus DEF Status
  <2>2. Understood(t) = ChosenProduct(t)
    BY <1>2 DEF Understood
  <2>. QED  BY <1>2, <2>1, <2>2, ChosenProductOver
<1>3. CASE Status(t.state) = "awaiting_product_change_confirmation"
  <2>1. t.state # None
    BY <1>3, NoneIsNoStatus DEF Status
  <2>2. Understood(t) = ConfirmedChange(t)
    BY <1>3 DEF Understood
  <2>. QED  BY <2>1, <2>2, ConfirmedChangeOver
<1>4. CASE Status(t.state) = "awaiting_add_or_replace"
  <2>1. t.state # None /\ t.state.status = "awaiting_add_or_replace"
    BY <1>1, <1>4, NoneIsNoStatus DEF Status
  <2>2. Understood(t) = AddedOrReplaced(t)
    BY <1>4 DEF Understood
  <2>. QED  BY <2>1, <2>2, AddedOrReplacedOver
<1>5. CASE /\ ~(/\ Status(t.state) = "awaiting_product_choice"
                /\ OpenItem(t.state) # None /\ Incomplete(OpenItem(t.state)))
           /\ Status(t.state) # "awaiting_product_change_confirmation"
           /\ Status(t.state) # "awaiting_add_or_replace"
  <2>1. Understood(t) = Changed(t)
    BY <1>5 DEF Understood
  <2>. QED  BY <2>1, ChangedOver
<1>. QED  BY <1>2, <1>3, <1>4, <1>5

(* An order names a product and a quantity in every line.                  *)
Complete(items) == \A i \in DOMAIN items : Match(items[i].p) # None /\ items[i].q # None

Answered(P, C, r) ==
  /\ r.type = "state" => StateOver(P, r) /\ C \subseteq StillThere(r)
  /\ r.type = "order" => SlotsOver(P, C, r.slots) /\ Complete(r.slots.items)

LEMMA AskAnswers ==
  ASSUME NEW P, NEW C, NEW slots, SlotsOver(P, C, slots), NEW status,
         NEW item \in Lines(P) \cup {None}
  PROVE  Answered(P, C, Ask(status, slots)) /\ Answered(P, C, AskAbout(status, slots, item))
<1>1. Outcome(P, C, Ask(status, slots)) /\ Outcome(P, C, AskAbout(status, slots, item))
  BY AskIs
<1>2. Ask(status, slots).type = "state" /\ AskAbout(status, slots, item).type = "state"
  BY DEF Ask, AskAbout
<1>. QED  BY <1>1, <1>2 DEF Outcome, Answered

LEMMA AcceptableIsComplete ==
  ASSUME NEW t, NEW slots, Acceptable(t, slots)
  PROVE  Complete(slots.items)
<1>1. /\ {f \in {"product"} : \/ slots.items = <<>>
                              \/ \E i \in DOMAIN slots.items : Match(slots.items[i].p) = None} = {}
      /\ {f \in {"quantity"} : \E i \in DOMAIN slots.items : slots.items[i].q = None} = {}
  BY DEF Acceptable, MissingSlots
<1>. QED  BY <1>1 DEF Complete

(* Contact details of the account or of an earlier order fill gaps only.   *)
LEMMA FilledOver ==
  ASSUME NEW P, NEW C, NEW slots, SlotsOver(P, C, slots), NEW blank, Blank(blank)
  PROVE  SlotsOver(P, C, MergeSlots(blank, slots)) /\ SlotsOver(P, C, MergeSlots(slots, blank))
<1>1. DOMAIN slots = SlotFields /\ DOMAIN blank = SlotFields /\ blank.items = <<>>
  BY DEF SlotsOver, Blank
<1>2. /\ DOMAIN MergeSlots(blank, slots) = SlotFields
      /\ MergeSlots(blank, slots).items = slots.items
      /\ DOMAIN MergeSlots(slots, blank) = SlotFields
      /\ MergeSlots(slots, blank).items = slots.items
  BY <1>1, MergeSlotsIs, MergeNothing
<1>. QED  BY <1>2 DEF SlotsOver

LEMMA OfferedAnswers ==
  ASSUME NEW P, NEW C, NEW slots, SlotsOver(P, C, slots), NEW t, TurnOver(P, t), NEW confirmed
  PROVE  Answered(P, C, Offered(t, slots, confirmed))
<1>1. PICK all : all = IF t.account = None THEN slots ELSE MergeSlots(t.account, slots)
  OBVIOUS
<1>2. SlotsOver(P, C, all)
  BY <1>1, FilledOver DEF TurnOver
<1>3. Offered(t, slots, confirmed) =
        IF ~Acceptable(t, all) THEN Ask("awaiting_missing_slots", all)
        ELSE IF confirmed THEN Ordered(all, None)
        ELSE Ask("awaiting_confirmation", all)
  BY <1>1 DEF Offered
<1>4. /\ Answered(P, C, Ask("awaiting_missing_slots", all))
      /\ Answered(P, C, Ask("awaiting_confirmation", all))
  BY <1>2, AskAnswers
<1>5. Acceptable(t, all) => Answered(P, C, Ordered(all, None))
  <2>1. Ordered(all, None).type = "order" /\ Ordered(all, None).slots = all
    BY DEF Ordered
  <2>. QED  BY <1>2, <2>1, AcceptableIsComplete DEF Answered
<1>. QED  BY <1>3, <1>4, <1>5

LEMMA CheckedAnswers ==
  ASSUME NEW P, NEW C, NEW slots, SlotsOver(P, C, slots), NEW t, TurnOver(P, t), NEW confirmed
  PROVE  Answered(P, C, Checked(t, slots, confirmed))
<1>1. PICK bare \in Lines(P) \cup {None} : bare = FirstItem(slots.items, IsBare)
  BY FirstIn, NothingKept
<1>2. PICK r : r = Checked(t, slots, confirmed)
  OBVIOUS
<1>3. \/ r = AskAbout("awaiting_product_choice", slots, bare)
      \/ r = Ask("awaiting_product_choice", slots)
      \/ t.reusable # None /\ r = Ask("awaiting_reused_contact_confirmation", MergeSlots(slots, t.reusable))
      \/ t.account # None /\ r = Ask("awaiting_account_contact_confirmation", MergeSlots(t.account, slots))
      \/ r = Offered(t, slots, confirmed)
  BY <1>1, <1>2 DEF Checked, OffersReuse, OffersAccount
<1>4. /\ t.reusable # None => SlotsOver(P, C, MergeSlots(slots, t.reusable))
      /\ t.account # None => SlotsOver(P, C, MergeSlots(t.account, slots))
  BY FilledOver DEF TurnOver
<1>. QED  BY <1>2, <1>3, <1>4, AskAnswers, OfferedAnswers

(* The answer keeps to the names and keeps the products.                   *)
LEMMA OrderReplyAnswers ==
  ASSUME NEW P, NEW C, NEW t, TurnOver(P, t), Careful(t, C)
  PROVE  Answered(P, C, OrderReply(t))
<1>1. PICK cart : cart = Understood(t)
  OBVIOUS
<1>2. Outcome(P, C, cart)
  BY <1>1, UnderstoodOver
<1>3. PICK confirmed : confirmed = Confirmed(t, cart.resolved)
  OBVIOUS
<1>4. OrderReply(t) =
        IF t.state # None /\ CancelsOrder(t.msg) THEN Ask("order_cancelled", NoSlots)
        ELSE IF t.state # None /\ VagueWindow(t.msg)
             THEN Ask("awaiting_missing_slots", t.state.slots)
        ELSE IF cart.type # "cart" THEN cart
        ELSE Checked(t, WithCues(cart.slots, t.msg), confirmed)
  BY <1>1, <1>3 DEF OrderReply
<1>5. CancelsOrder(t.msg) => Answered(P, C, Ask("order_cancelled", NoSlots))
  <2>1. SUFFICES ASSUME CancelsOrder(t.msg)
                 PROVE  Answered(P, C, Ask("order_cancelled", NoSlots))
    OBVIOUS
  <2>2. C = {}
    BY <2>1 DEF Careful, TakesAway
  <2>3. <<>> \in Seq(Lines(P)) /\ DOMAIN NoSlots = SlotFields /\ NoSlots.items = <<>>
    BY DEF NoSlots, SlotFields
  <2>4. SlotsOver(P, C, NoSlots)
    BY <2>2, <2>3 DEF SlotsOver, Over
  <2>. QED  BY <2>4, AskAnswers
<1>6. t.state # None => Answered(P, C, Ask("awaiting_missing_slots", t.state.slots))
  BY CartHas, AskAnswers
<1>7. cart.type # "cart" => Answered(P, C, cart)
  BY <1>2 DEF Outcome, Answered
<1>8. cart.type = "cart" => Answered(P, C, Checked(t, WithCues(cart.slots, t.msg), confirmed))
  <2>1. SUFFICES ASSUME cart.type = "cart"
                 PROVE  Answered(P, C, Checked(t, WithCues(cart.slots, t.msg), confirmed))
    OBVIOUS
  <2>2. SlotsOver(P, C, cart.slots)
    BY <1>2, <2>1 DEF Outcome
  <2>3. SlotsOver(P, C, WithCues(cart.slots, t.msg))
    BY <2>2, WithCuesIs DEF SlotsOver
  <2>. QED  BY <2>3, CheckedAnswers
<1>. QED  BY <1>4, <1>5, <1>6, <1>7, <1>8

-----------------------------------------------------------------------------
(* The inductive invariant, by topic.                                      *)

IsSeq(s) == \E S : s \in Seq(S)

AnswerFields == {"role", "doc", "fresh", "from", "to"}

(* An answer continues and answers what was said before it, and an order   *)
(* it announces has the key of its slots.                                  *)
Fits(e, j, placed) ==
  /\ DOMAIN e = AnswerFields
  /\ e.from \in 0..(j - 1) /\ e.to \in 0..(j - 1)
  /\ IsOrder(e) => /\ e.doc.number \in DOMAIN placed
                   /\ placed[e.doc.number].key = OrderKey(e.doc.slots)

SaidKept ==
  /\ IsSeq(said) /\ Len(said) >= 1
  /\ \A j \in Answers(said) : Fits(said[j], j, orders)

OrdersKept ==
  /\ IsSeq(orders)
  /\ \A o \in DOMAIN orders : /\ orders[o].key = OrderKey(orders[o].slots)
                              /\ orders[o].from < orders[o].to

TurnFields == {"pc", "msg", "read", "seen", "cart", "from", "to"}

(* A turn has read a part of what is said by now, and one at its order has *)
(* stored the message it answers.                                          *)
Placing(t) == t.from \in 0..(t.to - 1) /\ t.to \in 1..Len(said)
TurnsKept ==
  /\ turn = [w \in Worker |-> turn[w]]
  /\ \A w \in Worker : turn[w] # None =>
       /\ DOMAIN turn[w] = TurnFields
       /\ turn[w].pc \in {"classify", "extract", "order"}
       /\ turn[w].read \in 1..Len(said)
       /\ turn[w].pc = "order" => Placing(turn[w])

(* As long as no person touched the row a turn has loaded, what it saw     *)
(* escalated is still escalated.                                           *)
StillSeen(t) ==
  /\ t.seen.ver \in 0..conv.ver
  /\ t.seen.ver = conv.ver /\ t.seen.status = "escalated" => conv.status = "escalated"
ConvKept ==
  /\ DOMAIN conv = {"status", "staff", "idle", "ver", "waiting", "overlapped"}
  /\ conv.status \in Settable /\ conv.ver \in Nat
  /\ conv.waiting => conv.status = "escalated" \/ conv.overlapped
  /\ \A w \in Worker : turn[w] # None => StillSeen(turn[w])

ChatInv == SaidKept /\ OrdersKept /\ TurnsKept /\ ConvKept

-----------------------------------------------------------------------------
(* Sequences that grow.                                                    *)

LEMMA Appended ==
  ASSUME NEW s, NEW e, IsSeq(s), IsSeq(e)
  PROVE  /\ IsSeq(s \o e) /\ Len(s) \in Nat /\ Len(e) \in Nat
         /\ DOMAIN s = 1..Len(s) /\ DOMAIN e = 1..Len(e)
         /\ DOMAIN (s \o e) = 1..(Len(s) + Len(e)) /\ Len(s \o e) = Len(s) + Len(e)
         /\ \A i \in 1..Len(s) : (s \o e)[i] = s[i]
         /\ \A i \in 1..Len(e) : (s \o e)[Len(s) + i] = e[i]
<1>1. PICK S, T : s \in Seq(S) /\ e \in Seq(T)
  BY DEF IsSeq
<1>2. s \in Seq(S \cup T) /\ e \in Seq(S \cup T)
  BY <1>1
<1>3. s \o e \in Seq(S \cup T)
  BY <1>2
<1>. QED  BY <1>1, <1>2, <1>3 DEF IsSeq

LEMMA Singles ==
  ASSUME NEW a
  PROVE  /\ IsSeq(<<a>>) /\ Len(<<a>>) = 1 /\ <<a>>[1] = a
         /\ \A s : IsSeq(s) => Append(s, a) = s \o <<a>>
<1>1. <<a>> \in Seq({a})
  OBVIOUS
<1>2. ASSUME NEW s, IsSeq(s) PROVE Append(s, a) = s \o <<a>>
  <2>1. PICK S : s \in Seq(S)
    BY <1>2 DEF IsSeq
  <2>2. s \in Seq(S \cup {a}) /\ <<a>> \in Seq(S \cup {a})
    BY <2>1
  <2>. QED  BY <2>2
<1>. QED  BY <1>1, <1>2 DEF IsSeq

LEMMA Doubles ==
  ASSUME NEW a, NEW b
  PROVE  IsSeq(<<a, b>>) /\ Len(<<a, b>>) = 2 /\ <<a, b>>[1] = a /\ <<a, b>>[2] = b
<1>1. <<a, b>> \in Seq({a, b})
  OBVIOUS
<1>. QED  BY <1>1 DEF IsSeq

(* Messages that fit at the end keep what is said in order.                *)
LEMMA SaidAdds ==
  ASSUME SaidKept, NEW e, IsSeq(e), said' = said \o e,
         DOMAIN orders \subseteq DOMAIN orders',
         \A o \in DOMAIN orders : orders'[o] = orders[o],
         \A i \in 1..Len(e) : e[i].role = "assistant" => Fits(e[i], Len(said) + i, orders')
  PROVE  /\ SaidKept'
         /\ Len(said') = Len(said) + Len(e) /\ Len(said) \in Nat /\ Len(e) \in Nat
<1>1. /\ IsSeq(said') /\ Len(said) \in Nat /\ Len(e) \in Nat
      /\ DOMAIN said = 1..Len(said)
      /\ DOMAIN said' = 1..(Len(said) + Len(e)) /\ Len(said') = Len(said) + Len(e)
      /\ \A i \in 1..Len(said) : said'[i] = said[i]
      /\ \A i \in 1..Len(e) : said'[Len(said) + i] = e[i]
  BY Appended DEF SaidKept
<1>2. ASSUME NEW j \in Answers(said)'
      PROVE  Fits(said[j], j, orders)'
  <2>1. j \in 1..(Len(said) + Len(e)) /\ said'[j].role = "assistant"
    BY <1>1 DEF Answers
  <2>2. CASE j \in 1..Len(said)
    <3>1. Fits(said[j], j, orders) /\ said'[j] = said[j]
      BY <1>1, <2>1, <2>2 DEF SaidKept, Answers
    <3>. QED  BY <3>1 DEF Fits, IsOrder
  <2>3. CASE j \notin 1..Len(said)
    <3>1. PICK i \in 1..Len(e) : j = Len(said) + i
      <4>1. j - Len(said) \in 1..Len(e) /\ j = Len(said) + (j - Len(said))
        BY <1>1, <2>1, <2>3
      <4>. QED  BY <4>1
    <3>2. said'[j] = e[i]
      BY <1>1, <3>1
    <3>. QED  BY <2>1, <3>1, <3>2 DEF Fits, IsOrder
  <2>. QED  BY <2>2, <2>3
<1>3. Len(said') >= 1
  BY <1>1 DEF SaidKept
<1>. QED  BY <1>1, <1>2, <1>3 DEF SaidKept

(* What is read and what is looked for in it.                              *)
LEMMA HistoryRead ==
  ASSUME NEW w \in Worker, SaidKept, turn[w].read \in 1..Len(said)
  PROVE  /\ DOMAIN History(w) \subseteq 1..turn[w].read
         /\ \A i \in DOMAIN History(w) : History(w)[i] = said[i]
         /\ Len(said) \in Nat /\ DOMAIN said = 1..Len(said)
<1>. DEFINE first == Max({1, turn[w].read - Recent + 1})
<1>1. Len(said) \in Nat /\ DOMAIN said = 1..Len(said)
  BY Appended DEF SaidKept
<1>2. first \in Int /\ first >= 1
  <2>1. turn[w].read - Recent + 1 \in Int
    BY <1>1, ChatAssumption
  <2>2. PICK r \in Int : r = turn[w].read - Recent + 1
    BY <2>1
  <2>3. Max({1, r}) \in Int /\ Max({1, r}) >= 1
    <3>1. CASE r >= 1
      <4>1. r \in {1, r} /\ \A y \in {1, r} : r >= y
        BY <3>1
      <4>2. Max({1, r}) \in {1, r} /\ \A y \in {1, r} : Max({1, r}) >= y
        BY <4>1 DEF Max
      <4>. QED  BY <4>2
    <3>2. CASE ~ (r >= 1)
      <4>1. 1 \in {1, r} /\ \A y \in {1, r} : 1 >= y
        BY <3>2
      <4>2. Max({1, r}) \in {1, r} /\ \A y \in {1, r} : Max({1, r}) >= y
        BY <4>1 DEF Max
      <4>. QED  BY <4>2
    <3>. QED  BY <3>1, <3>2
  <2>. QED  BY <2>2, <2>3
<1>3. History(w) = [i \in first..turn[w].read |-> said[i]]
  BY DEF History
<1>. HIDE DEF first
<1>. QED  BY <1>1, <1>2, <1>3

LEMMA OrderFound ==
  ASSUME NEW n \in Nat, NEW history, DOMAIN history \subseteq 1..n
  PROVE  OrderAt(history) # 0 => OrderAt(history) \in Answers(history) /\ IsOrder(history[OrderAt(history)])
<1>. DEFINE found == {i \in Answers(history) : IsOrder(history[i])}
<1>1. found \subseteq 0..n
  BY DEF Answers
<1>2. found # {} => Max(found) \in found
  <2>. HIDE DEF found
  <2>. QED  BY <1>1, MaxIn
<1>. QED  BY <1>2 DEF OrderAt

LEMMA StateFound ==
  ASSUME NEW n \in Nat, NEW history, DOMAIN history \subseteq 1..n, NEW m
  PROVE  StateAt(m, history) # 0 =>
           /\ StateAt(m, history) \in Answers(history)
           /\ IsState(history[StateAt(m, history)])
           /\ history[StateAt(m, history)].doc.status # "order_cancelled"
           /\ \A i \in Answers(history) : IsState(history[i]) => i <= StateAt(m, history)
<1>. DEFINE found == {i \in Answers(history) :
                       IsState(history[i]) \/ (IsOrder(history[i]) /\ ~Affirms(m))}
<1>1. found \subseteq 0..n
  BY DEF Answers
<1>2. found # {} => Max(found) \in found /\ \A i \in found : i <= Max(found)
  <2>. HIDE DEF found
  <2>. QED  BY <1>1, MaxIn
<1>. QED  BY <1>2 DEF StateAt

-----------------------------------------------------------------------------
(* What a step leaves of the other turns and of the row.                   *)

Started(t, length) ==
  /\ DOMAIN t = TurnFields
  /\ t.pc \in {"classify", "extract", "order"}
  /\ t.read \in 1..length
  /\ t.pc = "order" => t.from \in 0..(t.to - 1) /\ t.to \in 1..length

LEMMA TurnsAside ==
  ASSUME TurnsKept, SaidKept, NEW w \in Worker, NEW t,
         turn' = [turn EXCEPT ![w] = t],
         t # None => Started(t, Len(said')),
         Len(said') \in Nat, Len(said) <= Len(said')
  PROVE  /\ TurnsKept' /\ turn'[w] = t
         /\ \A v \in Worker : v # w => turn'[v] = turn[v]
<1>1. Len(said) \in Nat
  BY Appended DEF SaidKept
<1>2. turn' = [v \in Worker |-> turn'[v]] /\ turn'[w] = t
      /\ \A v \in Worker : v # w => turn'[v] = turn[v]
  BY DEF TurnsKept
<1>3. ASSUME NEW v \in Worker, turn'[v] # None
      PROVE  Started(turn'[v], Len(said'))
  <2>1. CASE v = w
    BY <1>2, <1>3, <2>1
  <2>2. CASE v # w
    <3>1. Started(turn[v], Len(said))
      BY <1>2, <1>3, <2>2 DEF TurnsKept, Started, Placing
    <3>2. 1..Len(said) \subseteq 1..Len(said')
      BY <1>1
    <3>. QED  BY <1>2, <2>2, <3>1, <3>2 DEF Started
  <2>. QED  BY <2>1, <2>2
<1>. QED  BY <1>2, <1>3 DEF TurnsKept, Started, Placing

LEMMA ConvAside ==
  ASSUME ConvKept,
         DOMAIN conv' = DOMAIN conv, conv'.status = conv.status, conv'.ver = conv.ver,
         conv'.waiting = conv.waiting, conv'.overlapped = conv.overlapped,
         \A v \in Worker : turn'[v] # None =>
           turn[v] # None /\ turn'[v].seen = turn[v].seen
  PROVE  ConvKept'
<1>1. \A v \in Worker : turn'[v] # None => StillSeen(turn[v])'
  BY DEF ConvKept, StillSeen
<1>. QED  BY <1>1 DEF ConvKept

(* What a turn stores, as it ends.                                         *)
LEMMA StoresAndEnds ==
  ASSUME ChatInv, NEW w \in Worker, End(w), NEW e, IsSeq(e), said' = said \o e,
         UNCHANGED orders,
         \A i \in 1..Len(e) : e[i].role = "assistant" => Fits(e[i], Len(said) + i, orders)
  PROVE  SaidKept' /\ OrdersKept' /\ TurnsKept'
         /\ turn'[w] = None /\ \A v \in Worker : v # w => turn'[v] = turn[v]
<1>1. /\ SaidKept'
      /\ Len(said') = Len(said) + Len(e) /\ Len(said) \in Nat /\ Len(e) \in Nat
  BY SaidAdds DEF ChatInv
<1>2. turn' = [turn EXCEPT ![w] = None]
  BY DEF End
<1>3. TurnsKept' /\ turn'[w] = None /\ \A v \in Worker : v # w => turn'[v] = turn[v]
  <2>1. TurnsKept /\ SaidKept /\ Len(said') \in Nat /\ Len(said) <= Len(said')
    BY <1>1 DEF ChatInv
  <2>. QED  BY ONLY w \in Worker, <1>2, <2>1, TurnsAside
<1>. QED  BY <1>1, <1>3 DEF ChatInv, OrdersKept

LEMMA StoredKeeps ==
  ASSUME ChatInv, NEW w \in Worker, NEW e, Stored(e),
         turn'[w] # None => turn[w] # None /\ turn'[w].seen = turn[w].seen,
         \A v \in Worker : v # w => turn'[v] = turn[v]
  PROVE  ConvKept'
<1>1. conv' = [conv EXCEPT !.idle = FALSE]
  BY DEF Stored
<1>2. /\ DOMAIN conv' = DOMAIN conv /\ conv'.status = conv.status /\ conv'.ver = conv.ver
      /\ conv'.waiting = conv.waiting /\ conv'.overlapped = conv.overlapped
  BY <1>1 DEF ChatInv, ConvKept
<1>. QED  BY <1>2, ConvAside DEF ChatInv

LEMMA ReplyFits ==
  ASSUME SaidKept, NEW w \in Worker, NEW doc, ~ IsOrder(Answer(doc, 0, Len(said) + 1))
  PROVE  /\ IsSeq(Reply(w, doc)) /\ Len(Reply(w, doc)) = 2
         /\ \A i \in 1..2 : Reply(w, doc)[i].role = "assistant" =>
                               Fits(Reply(w, doc)[i], Len(said) + i, orders)
<1>1. /\ IsSeq(Reply(w, doc)) /\ Len(Reply(w, doc)) = 2
      /\ Reply(w, doc)[1] = Question(w) /\ Reply(w, doc)[2] = Answer(doc, 0, Len(said) + 1)
  BY Doubles DEF Reply
<1>2. Question(w).role # "assistant"
  BY DEF Question, FromUser
<1>3. Len(said) \in Nat
  BY Appended DEF SaidKept
<1>4. Fits(Answer(doc, 0, Len(said) + 1), Len(said) + 2, orders)
  BY <1>3 DEF Fits, Answer, AnswerFields
<1>. QED  BY <1>1, <1>2, <1>4

LEMMA PlainIsNoOrder ==
  ASSUME NEW w, NEW intent, NEW n
  PROVE  ~ IsOrder(Answer(PlainDoc(w, intent), 0, n))
BY DEF PlainDoc, IsOrder, Answer

-----------------------------------------------------------------------------
(* Every step keeps the invariant.                                         *)

LEMMA ReceiveInv ==
  ASSUME ChatInv, NEW w \in Worker, Receive(w)
  PROVE  ChatInv'
<1>. DEFINE t == [pc |-> "classify", msg |-> Head(todo[w]), read |-> Len(said), seen |-> conv,
                  cart |-> None, from |-> 0, to |-> 0]
<1>1. turn' = [turn EXCEPT ![w] = t] /\ UNCHANGED <<said, conv, orders>>
  BY DEF Receive
<1>2. Len(said) \in Nat /\ Len(said) >= 1
  BY Appended DEF ChatInv, SaidKept
<1>3. Started(t, Len(said)) /\ t.seen = conv
  BY <1>2 DEF Started, TurnFields
<1>. HIDE DEF t
<1>4. TurnsKept' /\ turn'[w] = t /\ \A v \in Worker : v # w => turn'[v] = turn[v]
  <2>1. TurnsKept /\ SaidKept /\ Started(t, Len(said'))
        /\ Len(said') \in Nat /\ Len(said) <= Len(said')
    BY <1>1, <1>2, <1>3 DEF ChatInv
  <2>. QED  BY ONLY w \in Worker, <1>1, <2>1, TurnsAside
<1>5. ASSUME NEW v \in Worker, turn'[v] # None
      PROVE  StillSeen(turn[v])'
  BY <1>1, <1>3, <1>4, <1>5 DEF ChatInv, ConvKept, StillSeen
<1>6. SaidKept' /\ OrdersKept'
  BY <1>1 DEF ChatInv, SaidKept, OrdersKept, Answers
<1>7. ConvKept'
  BY <1>1, <1>5 DEF ChatInv, ConvKept
<1>. QED  BY <1>4, <1>6, <1>7 DEF ChatInv

LEMMA HandOverInv ==
  ASSUME ChatInv, NEW w \in Worker, HandOver(w)
  PROVE  ChatInv'
<1>1. PICK intent, staff : conv' = Escalated(w, staff)
                           /\ said' = said \o Reply(w, PlainDoc(w, intent))
  BY DEF HandOver
<1>2. End(w) /\ UNCHANGED orders /\ turn[w] # None
  BY DEF HandOver, At
<1>3. SaidKept' /\ OrdersKept' /\ TurnsKept'
      /\ turn'[w] = None /\ \A v \in Worker : v # w => turn'[v] = turn[v]
  <2>1. PICK e : e = Reply(w, PlainDoc(w, intent))
    OBVIOUS
  <2>2. IsSeq(e) /\ Len(e) = 2
        /\ \A i \in 1..2 : e[i].role = "assistant" => Fits(e[i], Len(said) + i, orders)
    BY <2>1, PlainIsNoOrder, ReplyFits DEF ChatInv
  <2>. QED  BY <1>1, <1>2, <2>1, <2>2, StoresAndEnds
<1>4. PICK seen : seen = turn[w].seen
  OBVIOUS
<1>5. /\ seen.ver \in 0..conv.ver /\ conv.ver \in Nat
      /\ seen.ver = conv.ver /\ seen.status = "escalated" => conv.status = "escalated"
  BY <1>2, <1>4 DEF ChatInv, ConvKept, StillSeen
<1>6. /\ DOMAIN conv' = DOMAIN conv /\ conv'.ver = conv.ver
      /\ conv'.status = IF seen.status # "escalated" THEN "escalated" ELSE conv.status
      /\ conv'.waiting = TRUE /\ conv'.overlapped = (conv.ver # seen.ver)
  BY <1>1, <1>4 DEF Escalated, ChatInv, ConvKept
<1>7. conv'.status = "escalated" \/ conv'.overlapped
  BY <1>5, <1>6
<1>8. conv'.status \in Settable
  BY <1>6 DEF ChatInv, ConvKept, Settable
<1>9. ASSUME NEW v \in Worker, turn'[v] # None
      PROVE  StillSeen(turn[v])'
  <2>1. v # w /\ turn'[v] = turn[v] /\ StillSeen(turn[v])
    BY <1>3, <1>9 DEF ChatInv, ConvKept
  <2>. QED  BY <1>6, <2>1 DEF StillSeen
<1>10. ConvKept'
  BY <1>6, <1>7, <1>8, <1>9 DEF ConvKept, ChatInv
<1>. QED  BY <1>3, <1>10 DEF ChatInv

(* A turn that ends with its question and an answer without an order.      *)
LEMMA RepliedInv ==
  ASSUME ChatInv, NEW w \in Worker, turn[w] # None, End(w), UNCHANGED orders,
         NEW e, Stored(e), IsSeq(e),
         \A i \in 1..Len(e) : e[i].role = "assistant" => Fits(e[i], Len(said) + i, orders)
  PROVE  ChatInv'
<1>1. said' = said \o e
  BY DEF Stored
<1>2. SaidKept' /\ OrdersKept' /\ TurnsKept'
      /\ turn'[w] = None /\ \A v \in Worker : v # w => turn'[v] = turn[v]
  BY <1>1, StoresAndEnds
<1>3. ConvKept'
  BY <1>2, StoredKeeps
<1>. QED  BY <1>2, <1>3 DEF ChatInv

LEMMA QuestionFits ==
  ASSUME NEW w \in Worker
  PROVE  IsSeq(<<Question(w)>>) /\ Len(<<Question(w)>>) = 1
         /\ \A i \in 1..1 : <<Question(w)>>[i].role # "assistant"
BY Singles DEF Question, FromUser

LEMMA AnswerPlainlyInv ==
  ASSUME ChatInv, NEW w \in Worker, AnswerPlainly(w)
  PROVE  ChatInv'
<1>1. turn[w] # None /\ End(w) /\ UNCHANGED orders
  BY DEF AnswerPlainly, At
<1>2. PICK intent : Stored(Reply(w, PlainDoc(w, intent))) \/ Stored(<<Question(w)>>)
  BY DEF AnswerPlainly
<1>3. CASE Stored(Reply(w, PlainDoc(w, intent)))
  <2>1. PICK e : e = Reply(w, PlainDoc(w, intent))
    OBVIOUS
  <2>2. IsSeq(e) /\ Len(e) = 2
        /\ \A i \in 1..2 : e[i].role = "assistant" => Fits(e[i], Len(said) + i, orders)
    BY <2>1, PlainIsNoOrder, ReplyFits DEF ChatInv
  <2>. QED  BY <1>1, <1>3, <2>1, <2>2, RepliedInv
<1>4. CASE Stored(<<Question(w)>>)
  <2>1. PICK e : e = <<Question(w)>>
    OBVIOUS
  <2>2. IsSeq(e) /\ Len(e) = 1 /\ \A i \in 1..1 : e[i].role # "assistant"
    BY <2>1, QuestionFits
  <2>. QED  BY <1>1, <1>4, <2>1, <2>2, RepliedInv
<1>. QED  BY <1>2, <1>3, <1>4

LEMMA StartOrderInv ==
  ASSUME ChatInv, NEW w \in Worker, StartOrder(w)
  PROVE  ChatInv'
<1>1. turn[w] # None /\ UNCHANGED <<said, conv, orders>>
      /\ turn' = [turn EXCEPT ![w] = [turn[w] EXCEPT !.pc = "extract"]]
  BY DEF StartOrder, At
<1>2. PICK t : t = [turn[w] EXCEPT !.pc = "extract"]
  OBVIOUS
<1>3. Started(t, Len(said)) /\ t.seen = turn[w].seen
  BY <1>1, <1>2 DEF Started, ChatInv, TurnsKept, TurnFields
<1>4. TurnsKept' /\ turn'[w] = t /\ \A v \in Worker : v # w => turn'[v] = turn[v]
  <2>1. Len(said) \in Nat
    BY Appended DEF ChatInv, SaidKept
  <2>2. TurnsKept /\ SaidKept /\ Started(t, Len(said'))
        /\ Len(said') \in Nat /\ Len(said) <= Len(said')
    BY <1>1, <1>3, <2>1 DEF ChatInv
  <2>3. turn' = [turn EXCEPT ![w] = t]
    BY <1>1, <1>2
  <2>. QED  BY ONLY w \in Worker, <2>2, <2>3, TurnsAside
<1>5. SaidKept' /\ OrdersKept'
  BY <1>1 DEF ChatInv, SaidKept, OrdersKept, Answers
<1>6. ConvKept'
  BY <1>1, <1>3, <1>4, ConvAside DEF ChatInv
<1>. QED  BY <1>4, <1>5, <1>6 DEF ChatInv

LEMMA FailInv ==
  ASSUME ChatInv, NEW w \in Worker, Fail(w)
  PROVE  ChatInv'
<1>1. turn' = [turn EXCEPT ![w] = None] /\ UNCHANGED <<said, conv, orders>>
  BY DEF Fail, End
<1>2. TurnsKept' /\ turn'[w] = None /\ \A v \in Worker : v # w => turn'[v] = turn[v]
  <2>1. Len(said) \in Nat
    BY Appended DEF ChatInv, SaidKept
  <2>2. TurnsKept /\ SaidKept /\ Len(said') \in Nat /\ Len(said) <= Len(said')
    BY <1>1, <2>1 DEF ChatInv
  <2>. QED  BY ONLY w \in Worker, <1>1, <2>2, TurnsAside
<1>3. SaidKept' /\ OrdersKept'
  BY <1>1 DEF ChatInv, SaidKept, OrdersKept, Answers
<1>4. ConvKept'
  BY <1>1, <1>2, ConvAside DEF ChatInv
<1>. QED  BY <1>2, <1>3, <1>4 DEF ChatInv

LEMMA NoteChangeInv ==
  ASSUME ChatInv, NEW w \in Worker, NoteChange(w)
  PROVE  ChatInv'
<1>. DEFINE i == OrderAt(History(w))
<1>1. /\ turn[w] # None /\ End(w) /\ UNCHANGED orders /\ i # 0
      /\ Stored(Reply(w, said[i].doc))
  BY DEF NoteChange, At
<1>2. turn[w].read \in 1..Len(said) /\ SaidKept
  BY <1>1 DEF ChatInv, TurnsKept
<1>3. /\ DOMAIN History(w) \subseteq 1..turn[w].read
      /\ \A k \in DOMAIN History(w) : History(w)[k] = said[k]
      /\ Len(said) \in Nat /\ DOMAIN said = 1..Len(said)
  BY <1>2, HistoryRead
<1>4. i \in Answers(History(w)) /\ turn[w].read \in Nat
  <2>1. turn[w].read \in Nat
    BY <1>2, <1>3
  <2>. QED  BY <1>1, <1>3, <2>1, OrderFound
<1>5. i \in Answers(said)
  BY <1>2, <1>3, <1>4 DEF Answers
<1>6. Fits(said[i], i, orders)
  BY <1>2, <1>5 DEF SaidKept
<1>. HIDE DEF i
<1>7. PICK e : e = Reply(w, said[i].doc)
  OBVIOUS
<1>8. /\ IsSeq(e) /\ Len(e) = 2
      /\ e[1] = Question(w) /\ e[2] = Answer(said[i].doc, 0, Len(said) + 1)
  BY <1>7, Doubles DEF Reply
<1>9. Question(w).role # "assistant"
  BY DEF Question, FromUser
<1>10. Fits(Answer(said[i].doc, 0, Len(said) + 1), Len(said) + 2, orders)
  BY <1>3, <1>6 DEF Fits, Answer, AnswerFields, IsOrder
<1>11. \A k \in 1..Len(e) : e[k].role = "assistant" => Fits(e[k], Len(said) + k, orders)
  BY <1>8, <1>9, <1>10
<1>. QED  BY <1>1, <1>7, <1>8, <1>11, RepliedInv

(* The state a turn continues is one it has read.                          *)
LEMMA StateRead ==
  ASSUME ChatInv, NEW w \in Worker, turn[w] # None
  PROVE  /\ StateAt(turn[w].msg, History(w)) \in 0..turn[w].read
         /\ StateAt(turn[w].msg, History(w)) \in 0..Len(said)
         /\ Len(said) \in Nat /\ turn[w].read \in 1..Len(said)
<1>1. turn[w].read \in 1..Len(said) /\ SaidKept
  BY DEF ChatInv, TurnsKept
<1>2. /\ DOMAIN History(w) \subseteq 1..turn[w].read
      /\ Len(said) \in Nat /\ turn[w].read \in Nat
  BY <1>1, HistoryRead
<1>3. StateAt(turn[w].msg, History(w)) # 0 => StateAt(turn[w].msg, History(w)) \in DOMAIN History(w)
  BY <1>2, StateFound DEF Answers
<1>. QED  BY <1>1, <1>2, <1>3

LEMMA DecideOrderInv ==
  ASSUME ChatInv, NEW w \in Worker, DecideOrder(w)
  PROVE  ChatInv'
<1>. DEFINE from == StateAt(turn[w].msg, History(w))
<1>1. turn[w] # None /\ turn[w].pc = "extract" /\ UNCHANGED orders
  BY DEF DecideOrder, At
<1>2. PICK reply :
        \/ /\ reply.type = "state"
           /\ Stored(<<Question(w), Answer(reply, from, Len(said) + 1)>>)
           /\ End(w)
        \/ /\ reply.type = "order"
           /\ Stored(<<Question(w)>>)
           /\ turn' = [turn EXCEPT ![w].pc = "order", ![w].cart = reply.slots,
                                   ![w].from = from, ![w].to = Len(said) + 1]
  BY DEF DecideOrder
<1>3. from \in 0..turn[w].read /\ from \in 0..Len(said)
      /\ Len(said) \in Nat /\ turn[w].read \in 1..Len(said)
  BY <1>1, StateRead
<1>. HIDE DEF from
<1>4. CASE /\ reply.type = "state"
           /\ Stored(<<Question(w), Answer(reply, from, Len(said) + 1)>>)
           /\ End(w)
  <2>1. PICK e : e = <<Question(w), Answer(reply, from, Len(said) + 1)>>
    OBVIOUS
  <2>2. /\ IsSeq(e) /\ Len(e) = 2
        /\ e[1] = Question(w) /\ e[2] = Answer(reply, from, Len(said) + 1)
    BY <2>1, Doubles
  <2>3. Question(w).role # "assistant"
    BY DEF Question, FromUser
  <2>4. Fits(Answer(reply, from, Len(said) + 1), Len(said) + 2, orders)
    BY <1>3, <1>4 DEF Fits, Answer, AnswerFields, IsOrder
  <2>5. \A k \in 1..Len(e) : e[k].role = "assistant" => Fits(e[k], Len(said) + k, orders)
    BY <2>2, <2>3, <2>4
  <2>. QED  BY <1>1, <1>4, <2>1, <2>2, <2>5, RepliedInv
<1>5. CASE /\ Stored(<<Question(w)>>)
           /\ turn' = [turn EXCEPT ![w].pc = "order", ![w].cart = reply.slots,
                                   ![w].from = from, ![w].to = Len(said) + 1]
  <2>1. PICK e : e = <<Question(w)>>
    OBVIOUS
  <2>2. IsSeq(e) /\ Len(e) = 1 /\ \A i \in 1..1 : e[i].role # "assistant"
    BY <2>1, QuestionFits
  <2>3. said' = said \o e /\ SaidKept
    BY <1>5, <2>1 DEF Stored, ChatInv
  <2>4. SaidKept' /\ Len(said') = Len(said) + 1
    BY <1>1, <2>2, <2>3, SaidAdds
  <2>5. PICK t : t = [turn[w] EXCEPT !.pc = "order", !.cart = reply.slots,
                                     !.from = from, !.to = Len(said) + 1]
    OBVIOUS
  <2>6. turn' = [turn EXCEPT ![w] = t]
    BY <1>5, <2>5
  <2>7. Started(t, Len(said')) /\ t.seen = turn[w].seen
    <3>1. DOMAIN turn[w] = TurnFields
      BY <1>1 DEF ChatInv, TurnsKept
    <3>2. /\ DOMAIN t = TurnFields /\ t.pc = "order" /\ t.read = turn[w].read
          /\ t.from = from /\ t.to = Len(said) + 1 /\ t.seen = turn[w].seen
      BY <2>5, <3>1 DEF TurnFields
    <3>. QED  BY <1>3, <2>4, <3>2 DEF Started
  <2>8. TurnsKept' /\ turn'[w] = t /\ \A v \in Worker : v # w => turn'[v] = turn[v]
    <3>1. TurnsKept /\ SaidKept /\ Len(said') \in Nat /\ Len(said) <= Len(said')
      BY <1>3, <2>4 DEF ChatInv
    <3>. QED  BY ONLY w \in Worker, <2>6, <2>7, <3>1, TurnsAside
  <2>9. ConvKept'
    BY <1>1, <1>5, <2>1, <2>7, <2>8, StoredKeeps
  <2>10. OrdersKept'
    BY <1>1 DEF ChatInv, OrdersKept
  <2>. QED  BY <2>4, <2>8, <2>9, <2>10 DEF ChatInv
<1>. QED  BY <1>2, <1>4, <1>5

LEMMA AnnouncedFits ==
  ASSUME SaidKept, NEW w \in Worker, Placing(turn[w]), NEW placed, NEW i \in DOMAIN placed,
         placed[i].key = OrderKey(turn[w].cart), NEW e,
         e = <<Answer(Ordered(turn[w].cart, i), turn[w].from, turn[w].to)>>
  PROVE  /\ IsSeq(e) /\ Len(e) = 1
         /\ \A k \in 1..Len(e) : e[k].role = "assistant" => Fits(e[k], Len(said) + k, placed)
<1>1. Len(said) \in Nat
  BY Appended DEF SaidKept
<1>2. turn[w].from \in 0..Len(said) /\ turn[w].to \in 0..Len(said)
  BY <1>1 DEF Placing
<1>3. PICK a : a = Answer(Ordered(turn[w].cart, i), turn[w].from, turn[w].to)
  OBVIOUS
<1>4. IsSeq(e) /\ Len(e) = 1 /\ e[1] = a
  BY <1>3, Singles
<1>5. /\ DOMAIN a = AnswerFields /\ a.from = turn[w].from /\ a.to = turn[w].to
      /\ a.doc.number = i /\ a.doc.slots = turn[w].cart
  BY <1>3 DEF Answer, AnswerFields, Ordered
<1>6. Fits(a, Len(said) + 1, placed)
  BY <1>1, <1>2, <1>5 DEF Fits
<1>. QED  BY <1>4, <1>6

LEMMA RepeatOrderInv ==
  ASSUME ChatInv, NEW w \in Worker, RepeatOrder(w)
  PROVE  ChatInv'
<1>1. turn[w] # None /\ turn[w].pc = "order" /\ End(w) /\ UNCHANGED orders
  BY DEF RepeatOrder, At
<1>2. PICK i \in Placed(OrderKey(turn[w].cart)) :
        Stored(<<Answer(Ordered(turn[w].cart, i), turn[w].from, turn[w].to)>>)
  BY DEF RepeatOrder
<1>3. i \in DOMAIN orders /\ orders[i].key = OrderKey(turn[w].cart)
  BY DEF Placed
<1>4. Placing(turn[w]) /\ SaidKept
  BY <1>1 DEF ChatInv, TurnsKept
<1>5. PICK e : e = <<Answer(Ordered(turn[w].cart, i), turn[w].from, turn[w].to)>>
  OBVIOUS
<1>6. /\ IsSeq(e)
      /\ \A k \in 1..Len(e) : e[k].role = "assistant" => Fits(e[k], Len(said) + k, orders)
  BY <1>3, <1>4, <1>5, AnnouncedFits
<1>. QED  BY <1>1, <1>2, <1>5, <1>6, RepliedInv

LEMMA PlaceOrderInv ==
  ASSUME ChatInv, NEW w \in Worker, PlaceOrder(w)
  PROVE  ChatInv'
<1>. DEFINE r == [key |-> OrderKey(turn[w].cart), slots |-> turn[w].cart, read |-> turn[w].read,
                  from |-> turn[w].from, to |-> turn[w].to]
            n == Len(orders) + 1
<1>1. /\ turn[w] # None /\ turn[w].pc = "order" /\ End(w)
      /\ orders' = Append(orders, r)
      /\ Stored(<<Answer(Ordered(turn[w].cart, n), turn[w].from, turn[w].to)>>)
  BY DEF PlaceOrder, At
<1>2. Placing(turn[w]) /\ SaidKept /\ IsSeq(orders)
  BY <1>1 DEF ChatInv, TurnsKept, OrdersKept
<1>3. PICK q : q = r
  OBVIOUS
<1>4. /\ IsSeq(orders') /\ Len(orders) \in Nat /\ DOMAIN orders = 1..Len(orders)
      /\ DOMAIN orders' = 1..n /\ orders'[n] = q
      /\ \A o \in 1..Len(orders) : orders'[o] = orders[o]
  <2>1. orders' = orders \o <<q>> /\ IsSeq(<<q>>) /\ Len(<<q>>) = 1 /\ <<q>>[1] = q
    BY <1>1, <1>2, <1>3, Singles
  <2>. QED  BY <1>2, <2>1, Appended
<1>5. /\ q.key = OrderKey(turn[w].cart) /\ q.slots = turn[w].cart
      /\ q.from = turn[w].from /\ q.to = turn[w].to
  BY <1>3
<1>. HIDE DEF r
<1>6. OrdersKept'
  <2>1. Len(said) \in Nat
    BY <1>2, Appended DEF SaidKept
  <2>2. q.from < q.to
    BY <1>2, <1>5, <2>1 DEF Placing
  <2>3. ASSUME NEW o \in DOMAIN orders'
        PROVE  orders'[o].key = OrderKey(orders'[o].slots) /\ orders'[o].from < orders'[o].to
    <3>1. CASE o \in 1..Len(orders)
      BY <1>4, <3>1 DEF ChatInv, OrdersKept
    <3>2. CASE o \notin 1..Len(orders)
      <4>1. o = n
        BY <1>4, <3>2
      <4>. QED  BY <1>4, <1>5, <2>2, <4>1
    <3>. QED  BY <3>1, <3>2
  <2>. QED  BY <1>4, <2>3 DEF OrdersKept
<1>7. PICK e : e = <<Answer(Ordered(turn[w].cart, n), turn[w].from, turn[w].to)>>
  OBVIOUS
<1>8. /\ IsSeq(e) /\ Len(e) = 1
      /\ \A k \in 1..Len(e) : e[k].role = "assistant" => Fits(e[k], Len(said) + k, orders')
  <2>1. n \in DOMAIN orders' /\ orders'[n].key = OrderKey(turn[w].cart)
    BY <1>4, <1>5
  <2>2. PICK placed : placed = orders'
    OBVIOUS
  <2>. QED  BY <1>2, <1>7, <2>1, <2>2, AnnouncedFits
<1>9. said' = said \o e
  BY <1>1, <1>7 DEF Stored
<1>10. SaidKept' /\ Len(said') = Len(said) + Len(e) /\ Len(said) \in Nat
  <2>1. DOMAIN orders \subseteq DOMAIN orders' /\ \A o \in DOMAIN orders : orders'[o] = orders[o]
    BY <1>4
  <2>. QED  BY ONLY <1>2, <1>8, <1>9, <2>1, SaidAdds
<1>11. TurnsKept' /\ turn'[w] = None /\ \A v \in Worker : v # w => turn'[v] = turn[v]
  <2>1. TurnsKept /\ SaidKept /\ Len(said') \in Nat /\ Len(said) <= Len(said')
    BY <1>8, <1>10 DEF ChatInv
  <2>2. turn' = [turn EXCEPT ![w] = None]
    BY <1>1 DEF End
  <2>. QED  BY ONLY w \in Worker, <2>1, <2>2, TurnsAside
<1>12. ConvKept'
  BY <1>1, <1>7, <1>11, StoredKeeps
<1>. QED  BY <1>6, <1>10, <1>11, <1>12 DEF ChatInv

(* A person acts, time passes, the sweep closes an idle conversation.      *)
LEMMA ConvTouched ==
  ASSUME ChatInv, UNCHANGED turn,
         \/ \E status \in Settable : Handled(status)
         \/ \E s \in Staff : conv' = [conv EXCEPT !.staff = s]
         \/ conv' = [conv EXCEPT !.idle = FALSE]
         \/ conv' \in {conv, [conv EXCEPT !.idle = TRUE]}
  PROVE  ConvKept'
<1>1. CASE \E status \in Settable : Handled(status)
  <2>1. PICK status \in Settable : Handled(status)
    BY <1>1
  <2>2. /\ DOMAIN conv' = DOMAIN conv /\ conv'.status = status /\ conv'.ver = conv.ver + 1
        /\ conv'.waiting = FALSE
    BY <2>1 DEF Handled, ChatInv, ConvKept
  <2>3. ASSUME NEW v \in Worker, turn'[v] # None
        PROVE  StillSeen(turn[v])'
    <3>1. turn[v].seen.ver \in 0..conv.ver /\ conv.ver \in Nat /\ turn'[v] = turn[v]
      BY <2>3 DEF ChatInv, ConvKept, StillSeen
    <3>2. turn[v].seen.ver \in 0..(conv.ver + 1) /\ turn[v].seen.ver # conv.ver + 1
      BY <3>1
    <3>. QED  BY <2>2, <3>1, <3>2 DEF StillSeen
  <2>. QED  BY <2>1, <2>2, <2>3 DEF ChatInv, ConvKept
<1>2. CASE ~ \E status \in Settable : Handled(status)
  <2>1. /\ DOMAIN conv' = DOMAIN conv /\ conv'.status = conv.status /\ conv'.ver = conv.ver
        /\ conv'.waiting = conv.waiting /\ conv'.overlapped = conv.overlapped
    BY <1>2 DEF ChatInv, ConvKept
  <2>. QED  BY <2>1, ConvAside DEF ChatInv
<1>. QED  BY <1>1, <1>2

LEMMA ActInv == ChatInv /\ Act => ChatInv'
<1>. SUFFICES ASSUME ChatInv, Act PROVE ChatInv'
  OBVIOUS
<1>1. UNCHANGED <<orders, turn>>
  BY DEF Act
<1>2. ConvKept'
  BY <1>1, ConvTouched DEF Act, Stored
<1>3. CASE UNCHANGED said
  BY <1>1, <1>2, <1>3 DEF ChatInv, SaidKept, OrdersKept, TurnsKept, Placing, Answers
<1>4. CASE Stored(<<[role |-> "staff"]>>)
  <2>1. PICK e : e = <<[role |-> "staff"]>>
    OBVIOUS
  <2>2. IsSeq(e) /\ Len(e) = 1 /\ e[1].role # "assistant"
    <3>1. [role |-> "staff"].role = "staff"
      OBVIOUS
    <3>. QED  BY <2>1, <3>1, Singles
  <2>3. said' = said \o e /\ SaidKept
    BY <1>4, <2>1 DEF Stored, ChatInv
  <2>4. SaidKept' /\ Len(said') = Len(said) + 1 /\ Len(said) \in Nat
    <3>1. \A i \in 1..Len(e) : e[i].role # "assistant"
      BY <2>2
    <3>2. DOMAIN orders \subseteq DOMAIN orders' /\ \A o \in DOMAIN orders : orders'[o] = orders[o]
      BY <1>1
    <3>. QED  BY ONLY <2>2, <2>3, <3>1, <3>2, SaidAdds
  <2>5. TurnsKept'
    <3>1. PICK n, m : n = Len(said) /\ m = Len(said') /\ 1..n \subseteq 1..m
      BY <2>4
    <3>2. ASSUME NEW v \in Worker, turn'[v] # None
          PROVE  Started(turn'[v], m)
      BY <1>1, <3>1, <3>2 DEF ChatInv, TurnsKept, Placing, Started
    <3>. QED  BY <1>1, <3>1, <3>2 DEF ChatInv, TurnsKept, Placing, Started
  <2>. QED  BY <1>1, <1>2, <2>4, <2>5 DEF ChatInv, OrdersKept
<1>. QED  BY <1>3, <1>4 DEF Act

LEMMA SweepInv == ChatInv /\ Sweep => ChatInv'
<1>. SUFFICES ASSUME ChatInv, Sweep PROVE ChatInv'
  OBVIOUS
<1>1. UNCHANGED <<said, orders, turn>> /\ conv.status = "active"
      /\ conv' = [conv EXCEPT !.status = "closed"]
  BY DEF Sweep
<1>2. /\ DOMAIN conv' = DOMAIN conv /\ conv'.status = "closed" /\ conv'.ver = conv.ver
      /\ conv'.waiting = conv.waiting /\ conv'.overlapped = conv.overlapped
  BY <1>1 DEF ChatInv, ConvKept
<1>3. ASSUME NEW v \in Worker, turn'[v] # None
      PROVE  StillSeen(turn[v])'
  BY <1>1, <1>2, <1>3 DEF ChatInv, ConvKept, StillSeen
<1>4. ConvKept'
  BY <1>1, <1>2, <1>3 DEF ChatInv, ConvKept, Settable
<1>. QED  BY <1>1, <1>4 DEF ChatInv, SaidKept, OrdersKept, TurnsKept, Placing, Answers

(* An answer that has aged says what it said.                              *)
Aged(entry) == IF entry.role = "assistant" THEN [entry EXCEPT !.fresh = FALSE] ELSE entry

LEMMA AgedSays ==
  ASSUME NEW e, e.role = "assistant" => DOMAIN e = AnswerFields
  PROVE  /\ Aged(e).role = e.role
         /\ e.role # "assistant" => Aged(e) = e
         /\ e.role = "assistant" => /\ DOMAIN Aged(e) = AnswerFields /\ Aged(e).doc = e.doc
                                    /\ Aged(e).from = e.from /\ Aged(e).to = e.to
BY DEF Aged, AnswerFields

LEMMA PauseAges ==
  ASSUME SaidKept, Pause
  PROVE  /\ DOMAIN said' = DOMAIN said /\ Len(said') = Len(said) /\ IsSeq(said')
         /\ \A i \in DOMAIN said : said'[i] = Aged(said[i])
         /\ Answers(said') = Answers(said)
<1>1. said' = [i \in DOMAIN said |-> Aged(said[i])]
  BY DEF Pause, Aged
<1>2. PICK S : said \in Seq(S)
  BY DEF SaidKept, IsSeq
<1>3. said' \in Seq({Aged(said[i]) : i \in DOMAIN said}) /\ Len(said') = Len(said)
  BY <1>1, <1>2
<1>4. \A i \in DOMAIN said : said'[i] = Aged(said[i]) /\ said'[i].role = said[i].role
  BY <1>1, AgedSays DEF SaidKept, Fits, Answers
<1>. QED  BY <1>1, <1>3, <1>4 DEF IsSeq, Answers

LEMMA PauseInv == ChatInv /\ Pause => ChatInv'
<1>. SUFFICES ASSUME ChatInv, Pause PROVE ChatInv'
  OBVIOUS
<1>1. UNCHANGED <<orders, turn>> /\ conv' \in {conv, [conv EXCEPT !.idle = TRUE]}
  BY DEF Pause
<1>2. /\ DOMAIN said' = DOMAIN said /\ Len(said') = Len(said) /\ IsSeq(said')
      /\ \A i \in DOMAIN said : said'[i] = Aged(said[i])
      /\ Answers(said') = Answers(said)
  BY PauseAges DEF ChatInv
<1>3. ASSUME NEW j \in Answers(said)'
      PROVE  Fits(said[j], j, orders)'
  <2>1. j \in DOMAIN said /\ said[j].role = "assistant" /\ Fits(said[j], j, orders)
    BY <1>2 DEF Answers, ChatInv, SaidKept
  <2>2. /\ DOMAIN said'[j] = AnswerFields /\ said'[j].doc = said[j].doc
        /\ said'[j].from = said[j].from /\ said'[j].to = said[j].to
    BY <1>2, <2>1, AgedSays DEF Fits
  <2>. QED  BY <1>1, <2>1, <2>2 DEF Fits, IsOrder
<1>4. SaidKept'
  BY <1>2, <1>3 DEF ChatInv, SaidKept
<1>5. ConvKept'
  BY <1>1, ConvTouched
<1>. QED  BY <1>1, <1>2, <1>4, <1>5 DEF ChatInv, OrdersKept, TurnsKept, Placing

LEMMA ChatNext == ChatInv /\ [Next]_vars => ChatInv'
<1>. SUFFICES ASSUME ChatInv, [Next]_vars PROVE ChatInv'
  OBVIOUS
<1>1. CASE UNCHANGED vars
  <2>1. UNCHANGED <<said, conv, orders, turn>>
    BY <1>1 DEF vars
  <2>2. SaidKept' /\ OrdersKept'
    BY <2>1 DEF ChatInv, SaidKept, OrdersKept, Answers
  <2>3. TurnsKept' /\ ConvKept'
    BY <2>1 DEF ChatInv, TurnsKept, ConvKept, Placing, StillSeen
  <2>. QED  BY <2>2, <2>3 DEF ChatInv
<1>2. ASSUME NEW w \in Worker, Turn(w)
      PROVE  ChatInv'
  BY <1>2, ReceiveInv, HandOverInv, AnswerPlainlyInv, StartOrderInv, NoteChangeInv,
     DecideOrderInv, RepeatOrderInv, PlaceOrderInv, FailInv DEF Turn
<1>. QED  BY <1>1, <1>2, ActInv, SweepInv, PauseInv DEF Next

LEMMA ChatStart == Init => ChatInv
<1>. SUFFICES ASSUME Init PROVE ChatInv
  OBVIOUS
<1>1. PICK a : a = Answer(None, 0, 0)
  OBVIOUS
<1>2. IsSeq(said) /\ Len(said) = 1 /\ DOMAIN said = {1} /\ said[1] = a
  <2>1. said = <<a>>
    BY <1>1 DEF Init
  <2>. QED  BY <2>1, Singles
<1>3. DOMAIN a = AnswerFields /\ a.from = 0 /\ a.to = 0 /\ a.doc = None
  BY <1>1 DEF Answer, AnswerFields
<1>4. SaidKept
  <2>1. Fits(a, 1, orders)
    BY <1>3 DEF Fits, IsOrder
  <2>. QED  BY <1>2, <2>1 DEF SaidKept, Answers
<1>5. OrdersKept
  <2>1. orders = <<>> /\ orders \in Seq({})
    BY DEF Init
  <2>. QED  BY <2>1 DEF OrdersKept, IsSeq
<1>6. TurnsKept
  BY DEF Init, TurnsKept
<1>7. ConvKept
  BY DEF Init, ConvKept, Settable
<1>. QED  BY <1>4, <1>5, <1>6, <1>7 DEF ChatInv

(* The state of the chat hangs together, in any order of turns, staff and  *)
(* time.                                                                   *)
THEOREM Invariance == Spec => []ChatInv
BY ChatStart, ChatNext, PTL DEF Spec

-----------------------------------------------------------------------------
(* What follows.                                                           *)

(* A customer who was handed over stays with the staff, whatever turns,    *)
(* sweeps and persons do next to each other, unless a person overtook the  *)
(* turn that handed over (assign_to_staff, close_stale).                   *)
THEOREM HandedOverStay == Spec => []ComplaintsReachStaff
<1>1. ChatInv => ComplaintsReachStaff
  BY DEF ChatInv, ConvKept, ComplaintsReachStaff
<1>. QED  BY <1>1, Invariance, PTL

(* Every announcement of an order shows lines, phone and address of the    *)
(* order that was stored, in the first answer, in repeated ones and in     *)
(* notes of a change (_chat_order_idempotency_key).                        *)
THEOREM AnnouncementsMatch == Spec => []AnnouncedAsPlaced
<1>1. ChatInv => AnnouncedAsPlaced
  <2>. SUFFICES ASSUME ChatInv, NEW j \in Docs, IsOrder(said[j])
                PROVE  LET told == said[j].doc.slots
                           kept == orders[said[j].doc.number].slots
                       IN /\ ToBag(told.items) = ToBag(kept.items)
                          /\ told.phone = kept.phone /\ told.address = kept.address
    BY DEF AnnouncedAsPlaced
  <2>1. Fits(said[j], j, orders)
    BY DEF ChatInv, SaidKept, Docs
  <2>2. PICK o \in DOMAIN orders : o = said[j].doc.number
    BY <2>1 DEF Fits
  <2>3. OrderKey(orders[o].slots) = OrderKey(said[j].doc.slots)
    BY <2>1, <2>2 DEF Fits, ChatInv, OrdersKept
  <2>4. /\ OrderKey(orders[o].slots).items = OrderKey(said[j].doc.slots).items
        /\ OrderKey(orders[o].slots).phone = OrderKey(said[j].doc.slots).phone
        /\ OrderKey(orders[o].slots).address = OrderKey(said[j].doc.slots).address
    BY <2>3
  <2>. QED  BY <2>2, <2>4 DEF OrderKey
<1>. QED  BY <1>1, Invariance, PTL

-----------------------------------------------------------------------------
(* What was said before and what it names, as the conversation grows.      *)

CancelledSet(k) == {j \in Answers(said) : /\ j < k /\ IsState(said[j])
                                          /\ said[j].doc.status = "order_cancelled"}
Later(k) == {i \in Asked : CancelledBefore(k) < i /\ i <= k}

(* The names of products a message may still have: those that the customer *)
(* gave since the cancellation, as far as the turns saw one another.       *)
Named(k) == {p \in Name : (Match(p) # None /\ \A i \in Later(k) : InTurn(i)) =>
                            \E i \in Later(k) : Names(said[i].msg, p)}

(* A message at k that continues the state at f leaves these products.     *)
Leaves(f, k, products) ==
  \/ TakesAway(said[k].msg, said[f].doc)
  \/ \E i \in Asked : i <= k /\ OnlyQuantity(said[i].msg)
  \/ CartOf(said[f].doc) \subseteq products

(* Entries are added and age; nothing else changes in them.                *)
Says(new, old) ==
  /\ new.role = old.role
  /\ old.role = "user" => new = old
  /\ old.role = "assistant" => new.doc = old.doc /\ new.from = old.from /\ new.to = old.to
Grown ==
  /\ Len(said) \in Nat /\ Len(said') \in Nat /\ Len(said) <= Len(said')
  /\ DOMAIN said = 1..Len(said) /\ DOMAIN said' = 1..Len(said')
  /\ \A i \in 1..Len(said) : Says(said'[i], said[i])

LEMMA CancelledIs ==
  ASSUME NEW k \in Nat, DOMAIN said = 1..Len(said)
  PROVE  /\ CancelledBefore(k) = Max({0} \cup CancelledSet(k))
         /\ k # 0 => CancelledBefore(k) < k
<1>1. CancelledBefore(k) = Max({0} \cup CancelledSet(k))
  BY DEF CancelledBefore, CancelledSet
<1>2. {0} \cup CancelledSet(k) \subseteq 0..k
  BY DEF CancelledSet, Answers
<1>3. CancelledBefore(k) \in {0} \cup CancelledSet(k)
  BY <1>1, <1>2, MaxIn
<1>. QED  BY <1>1, <1>3 DEF CancelledSet

LEMMA GrownEntries ==
  ASSUME Grown, NEW i \in 1..Len(said)
  PROVE  /\ i \in DOMAIN said /\ i \in DOMAIN said' /\ said'[i].role = said[i].role
         /\ i \in Asked => said'[i] = said[i]
         /\ i \in Answers(said) => said'[i].doc = said[i].doc
                                   /\ said'[i].from = said[i].from /\ said'[i].to = said[i].to
         /\ i \in Asked' <=> i \in Asked
         /\ i \in Answers(said') <=> i \in Answers(said)
<1>1. i \in DOMAIN said /\ i \in DOMAIN said' /\ Says(said'[i], said[i])
  BY DEF Grown
<1>. QED  BY <1>1 DEF Says, Asked, Answers

LEMMA GrownNamed ==
  ASSUME Grown, NEW k \in 1..Len(said)
  PROVE  Named(k)' = Named(k)
<1>1. k \in Nat /\ DOMAIN said = 1..Len(said) /\ DOMAIN said' = 1..Len(said')
      /\ \A j \in Int : j >= 1 /\ j <= k => j \in 1..Len(said)
  BY DEF Grown
<1>2. CancelledSet(k)' = CancelledSet(k)
  <2>1. ASSUME NEW j PROVE j \in CancelledSet(k)' <=> j \in CancelledSet(k)
    <3>1. CASE j \in 1..Len(said)
      <4>1. /\ j \in Answers(said') <=> j \in Answers(said)
            /\ j \in Answers(said) => said'[j].doc = said[j].doc
        BY <3>1, GrownEntries
      <4>. QED  BY <4>1 DEF CancelledSet, IsState
    <3>2. CASE j \notin 1..Len(said)
      <4>1. j \notin CancelledSet(k)
        BY <1>1, <3>2 DEF CancelledSet, Answers
      <4>2. j \notin CancelledSet(k)'
        BY <1>1, <3>2 DEF CancelledSet, Answers
      <4>. QED  BY <4>1, <4>2
    <3>. QED  BY <3>1, <3>2
  <2>. QED  BY <2>1
<1>3. CancelledBefore(k)' = CancelledBefore(k)
  <2>1. CancelledBefore(k) = Max({0} \cup CancelledSet(k))
    BY DEF CancelledBefore, CancelledSet
  <2>2. CancelledBefore(k)' = Max({0} \cup CancelledSet(k)')
    BY DEF CancelledBefore, CancelledSet
  <2>. QED  BY <1>2, <2>1, <2>2
<1>4. Later(k)' = Later(k)
  <2>1. ASSUME NEW i PROVE i \in Later(k)' <=> i \in Later(k)
    <3>1. CASE i \in 1..Len(said)
      BY <1>3, <3>1, GrownEntries DEF Later
    <3>2. CASE i \notin 1..Len(said)
      <4>1. i \notin Later(k)
        BY <1>1, <3>2 DEF Later, Asked
      <4>2. i \notin Later(k)'
        BY <1>1, <3>2 DEF Later, Asked
      <4>. QED  BY <4>1, <4>2
    <3>. QED  BY <3>1, <3>2
  <2>. QED  BY <2>1
<1>5. \A i \in Later(k) : said'[i] = said[i]
  BY <1>1, GrownEntries DEF Later, Asked
<1>. QED  BY <1>4, <1>5 DEF Named, InTurn

LEMMA GrownLeaves ==
  ASSUME Grown, NEW f \in Answers(said), NEW k \in Asked, NEW products,
         Leaves(f, k, products)
  PROVE  Leaves(f, k, products)' /\ f \in Answers(said') /\ k \in Asked'
<1>1. f \in 1..Len(said) /\ k \in 1..Len(said) /\ \A i \in Asked : i \in 1..Len(said)
  BY DEF Grown, Answers, Asked
<1>2. said'[f].doc = said[f].doc /\ said'[k] = said[k] /\ f \in Answers(said') /\ k \in Asked'
      /\ \A i \in Asked : i \in Asked' /\ said'[i] = said[i]
  BY <1>1, GrownEntries
<1>. QED  BY <1>2 DEF Leaves

-----------------------------------------------------------------------------
(* The second invariant: what the messages, the states, the turns and the  *)
(* orders have in them.                                                    *)

DocKept(j) ==
  /\ IsState(said[j]) => /\ said[j].to = j - 1 /\ j - 1 \in Asked
                         /\ StateOver(Named(j - 1), said[j].doc)
  /\ (IsState(said[j]) \/ IsOrder(said[j])) /\ said[j].from # 0 =>
       /\ said[j].from \in Answers(said) /\ said[j].to \in Asked
       /\ Leaves(said[j].from, said[j].to, StillThere(said[j].doc))
EntryKept(j) ==
  /\ j \in Asked => said[j].msg \in Message
  /\ j \in Answers(said) => DocKept(j)

(* A cart that is placed or about to be.                                   *)
CartKeptFor(slots, from, to) ==
  /\ to \in Asked /\ SlotsOver(Named(to), {}, slots) /\ Complete(slots.items)
  /\ from # 0 => from \in Answers(said) /\ Leaves(from, to, Products(slots.items))
TurnKept(t) ==
  /\ t.msg \in Message
  /\ t.pc = "order" => CartKeptFor(t.cart, t.from, t.to)

StockKept ==
  /\ stock = [p \in DOMAIN InStore |-> stock[p]]
  /\ \A p \in DOMAIN InStore : stock[p] \in 0..InStore[p]

EntriesKept == \A j \in DOMAIN said : EntryKept(j)
PlacedKept  == \A o \in DOMAIN orders : CartKeptFor(orders[o].slots, orders[o].from, orders[o].to)
AllTurnsKept == \A w \in Worker : turn[w] # None => TurnKept(turn[w])
TodoKept    == todo \in [Worker -> Seq(Message)]

DataInv == EntriesKept /\ PlacedKept /\ AllTurnsKept /\ TodoKept /\ StockKept

LEMMA GrownEntry ==
  ASSUME Grown, NEW j \in 1..Len(said), EntryKept(j)
  PROVE  EntryKept(j)'
<1>1. /\ j \in Asked' => j \in Asked /\ said'[j] = said[j]
      /\ j \in Answers(said') => j \in Answers(said)
      /\ j \in Answers(said) => said'[j].doc = said[j].doc
                                /\ said'[j].from = said[j].from /\ said'[j].to = said[j].to
  BY GrownEntries
<1>2. j \in Asked' => (said[j].msg \in Message)'
  BY <1>1 DEF EntryKept
<1>3. ASSUME j \in Answers(said)'
      PROVE  DocKept(j)'
  <2>1. DocKept(j) /\ j \in Answers(said)
    BY <1>1, <1>3 DEF EntryKept
  <2>2. PICK doc, from, to : /\ said[j].doc = doc /\ said[j].from = from /\ said[j].to = to
                             /\ said'[j].doc = doc /\ said'[j].from = from /\ said'[j].to = to
    BY <1>1, <2>1
  <2>3. ASSUME IsState(said[j])'
        PROVE  /\ to = j - 1 /\ (j - 1 \in Asked)'
               /\ StateOver(Named(j - 1), doc)'
    <3>1. IsState(said[j])
      BY <2>2, <2>3 DEF IsState
    <3>2. to = j - 1 /\ j - 1 \in Asked /\ StateOver(Named(j - 1), doc)
      BY <2>1, <2>2, <3>1 DEF DocKept
    <3>3. j - 1 \in 1..Len(said)
      BY <3>2 DEF Asked, Grown
    <3>4. Named(j - 1)' = Named(j - 1) /\ j - 1 \in Asked'
      BY <3>2, <3>3, GrownNamed, GrownEntries
    <3>. QED  BY <3>2, <3>4 DEF StateOver, SlotsOver, Over
  <2>4. ASSUME (IsState(said[j]) \/ IsOrder(said[j]))', from # 0
        PROVE  (from \in Answers(said) /\ to \in Asked /\ Leaves(from, to, StillThere(doc)))'
    <3>1. IsState(said[j]) \/ IsOrder(said[j])
      BY <2>2, <2>4 DEF IsState, IsOrder
    <3>2. PICK products : products = StillThere(doc)
      OBVIOUS
    <3>3. from \in Answers(said) /\ to \in Asked /\ Leaves(from, to, products)
      BY <2>1, <2>2, <2>4, <3>1, <3>2 DEF DocKept
    <3>4. (from \in Answers(said) /\ to \in Asked /\ Leaves(from, to, products))'
      BY <3>3, GrownLeaves
    <3>. QED  BY <3>2, <3>4
  <2>. QED  BY <2>2, <2>3, <2>4 DEF DocKept
<1>. QED  BY <1>2, <1>3 DEF EntryKept

LEMMA GrownCart ==
  ASSUME Grown, NEW slots, NEW from, NEW to, CartKeptFor(slots, from, to)
  PROVE  CartKeptFor(slots, from, to)'
<1>1. to \in Asked /\ to \in 1..Len(said)
  BY DEF CartKeptFor, Asked, Grown
<1>2. Named(to)' = Named(to) /\ to \in Asked'
  BY <1>1, GrownNamed, GrownEntries
<1>3. PICK products : products = Products(slots.items)
  OBVIOUS
<1>4. from # 0 => from \in Answers(said') /\ Leaves(from, to, products)'
  BY <1>1, <1>3, GrownLeaves DEF CartKeptFor
<1>. QED  BY <1>2, <1>3, <1>4 DEF CartKeptFor, SlotsOver, Over

LEMMA GrownTurn ==
  ASSUME Grown, NEW t, TurnKept(t)
  PROVE  TurnKept(t)'
BY GrownCart DEF TurnKept

(* A step that adds such entries, and changes the turn of one worker.      *)
LEMMA EntriesGrow ==
  ASSUME DataInv, Grown,
         \A j \in 1..Len(said') : j \notin 1..Len(said) => EntryKept(j)'
  PROVE  EntriesKept'
<1>1. ASSUME NEW j \in DOMAIN said' PROVE EntryKept(j)'
  <2>1. j \in 1..Len(said')
    BY DEF Grown
  <2>2. CASE j \in 1..Len(said)
    <3>1. EntryKept(j)
      BY <2>2 DEF DataInv, EntriesKept, Grown
    <3>. QED  BY <2>2, <3>1, GrownEntry
  <2>. QED  BY <2>1, <2>2
<1>. QED  BY <1>1 DEF EntriesKept

LEMMA PlacedGrow ==
  ASSUME DataInv, Grown, NEW r, DOMAIN orders' \ DOMAIN orders \subseteq {r},
         \A o \in DOMAIN orders : orders'[o] = orders[o],
         r \in DOMAIN orders' => CartKeptFor(orders[r].slots, orders[r].from, orders[r].to)'
  PROVE  PlacedKept'
<1>1. ASSUME NEW o \in DOMAIN orders'
      PROVE  CartKeptFor(orders[o].slots, orders[o].from, orders[o].to)'
  <2>1. CASE o \in DOMAIN orders
    <3>1. PICK slots, from, to :
            /\ slots = orders[o].slots /\ from = orders[o].from /\ to = orders[o].to
            /\ slots = orders'[o].slots /\ from = orders'[o].from /\ to = orders'[o].to
      BY <2>1
    <3>2. CartKeptFor(slots, from, to)
      BY <2>1, <3>1 DEF DataInv, PlacedKept
    <3>3. CartKeptFor(slots, from, to)'
      BY <3>2, GrownCart
    <3>. QED  BY <3>1, <3>3
  <2>2. CASE o \notin DOMAIN orders
    BY <2>2
  <2>. QED  BY <2>1, <2>2
<1>. QED  BY <1>1 DEF PlacedKept

LEMMA TurnsGrow ==
  ASSUME DataInv, Grown, NEW w \in Worker,
         \A v \in Worker : v # w => turn'[v] = turn[v],
         turn'[w] # None => TurnKept(turn[w])'
  PROVE  AllTurnsKept'
<1>1. ASSUME NEW v \in Worker, turn'[v] # None PROVE TurnKept(turn[v])'
  <2>1. CASE v # w
    <3>1. PICK t : t = turn[v] /\ t = turn'[v] /\ TurnKept(t)
      BY <1>1, <2>1 DEF DataInv, AllTurnsKept
    <3>2. TurnKept(t)'
      BY <3>1, GrownTurn
    <3>. QED  BY <3>1, <3>2
  <2>. QED  BY <1>1, <2>1
<1>. QED  BY <1>1 DEF AllTurnsKept

(* Nothing is said, or it is added at the end.                             *)
LEMMA GrownSilent ==
  ASSUME SaidKept, UNCHANGED said
  PROVE  Grown
<1>1. Len(said) \in Nat /\ DOMAIN said = 1..Len(said)
  BY Appended DEF SaidKept
<1>. QED  BY <1>1 DEF Grown, Says

LEMMA GrownBy ==
  ASSUME SaidKept, NEW e, IsSeq(e), said' = said \o e
  PROVE  /\ Grown /\ Len(said) \in Nat /\ Len(said') = Len(said) + Len(e) /\ Len(e) \in Nat
         /\ \A i \in 1..Len(e) : said'[Len(said) + i] = e[i]
<1>1. /\ Len(said) \in Nat /\ Len(e) \in Nat /\ Len(said') = Len(said) + Len(e)
      /\ DOMAIN said = 1..Len(said) /\ DOMAIN said' = 1..(Len(said) + Len(e))
      /\ \A i \in 1..Len(said) : said'[i] = said[i]
      /\ \A i \in 1..Len(e) : said'[Len(said) + i] = e[i]
  BY Appended DEF SaidKept
<1>. QED  BY <1>1 DEF Grown, Says

-----------------------------------------------------------------------------
(* Steps that place nothing in a cart.                                     *)

(* A message of the customer, or an answer that is no state.               *)
Harmless(x) ==
  /\ x.role = "user" => x.msg \in Message
  /\ x.role = "assistant" => x.from = 0 /\ ~ IsState(x)

LEMMA HarmlessGrow ==
  ASSUME DataInv, SaidKept, NEW e, IsSeq(e), said' = said \o e,
         \A i \in 1..Len(e) : Harmless(e[i])
  PROVE  Grown /\ EntriesKept'
<1>1. /\ Grown /\ Len(said) \in Nat /\ Len(said') = Len(said) + Len(e) /\ Len(e) \in Nat
      /\ \A i \in 1..Len(e) : said'[Len(said) + i] = e[i]
  BY GrownBy
<1>2. ASSUME NEW j \in 1..Len(said'), j \notin 1..Len(said)
      PROVE  EntryKept(j)'
  <2>1. PICK i \in 1..Len(e) : j = Len(said) + i
    <3>1. j - Len(said) \in 1..Len(e) /\ j = Len(said) + (j - Len(said))
      BY <1>1, <1>2
    <3>. QED  BY <3>1
  <2>2. PICK x : x = e[i] /\ said'[j] = x /\ Harmless(x)
    BY <1>1, <2>1
  <2>. QED  BY <2>2 DEF EntryKept, DocKept, Harmless, Asked, Answers, IsState
<1>. QED  BY <1>1, <1>2, EntriesGrow

(* Nothing is said.                                                        *)
LEMMA SilentEntries ==
  ASSUME DataInv, SaidKept, UNCHANGED said
  PROVE  Grown /\ EntriesKept'
<1>1. Grown
  BY GrownSilent
<1>. QED  BY <1>1, EntriesGrow

LEMMA SamePlaced ==
  ASSUME ChatInv, DataInv, Grown, UNCHANGED orders
  PROVE  PlacedKept'
<1>1. 0 \notin DOMAIN orders
  BY DEF ChatInv, OrdersKept, IsSeq
<1>. QED  BY <1>1, PlacedGrow

LEMMA SameStock ==
  ASSUME DataInv, UNCHANGED stock
  PROVE  StockKept'
BY DEF DataInv, StockKept

LEMMA SameTodo ==
  ASSUME DataInv, UNCHANGED todo
  PROVE  TodoKept'
BY DEF DataInv, TodoKept

LEMMA SameTurns ==
  ASSUME DataInv, Grown, UNCHANGED turn
  PROVE  AllTurnsKept'
<1>1. ASSUME NEW v \in Worker, turn'[v] # None PROVE TurnKept(turn[v])'
  <2>1. PICK t : t = turn[v] /\ t = turn'[v] /\ TurnKept(t)
    BY <1>1 DEF DataInv, AllTurnsKept
  <2>2. TurnKept(t)'
    BY <2>1, GrownTurn
  <2>. QED  BY <2>1, <2>2
<1>. QED  BY <1>1 DEF AllTurnsKept

LEMMA TurnPut ==
  ASSUME DataInv, ChatInv, Grown, NEW w \in Worker, NEW t, turn' = [turn EXCEPT ![w] = t],
         t # None => TurnKept(t)'
  PROVE  AllTurnsKept'
<1>1. turn'[w] = t /\ \A v \in Worker : v # w => turn'[v] = turn[v]
  BY DEF ChatInv, TurnsKept
<1>2. turn'[w] # None => TurnKept(turn[w])'
  BY <1>1
<1>. QED  BY <1>1, <1>2, TurnsGrow

LEMMA TurnEnds ==
  ASSUME DataInv, ChatInv, Grown, NEW w \in Worker, End(w)
  PROVE  AllTurnsKept'
BY TurnPut DEF End

(* A turn that ends with what places nothing.                              *)
LEMMA HarmlessEnd ==
  ASSUME ChatInv, DataInv, NEW w \in Worker, End(w), UNCHANGED <<orders, stock, todo>>,
         NEW e, IsSeq(e), said' = said \o e, \A i \in 1..Len(e) : Harmless(e[i])
  PROVE  DataInv'
<1>1. Grown /\ EntriesKept'
  BY HarmlessGrow DEF ChatInv
<1>. QED  BY <1>1, SamePlaced, SameStock, SameTodo, TurnEnds DEF DataInv

LEMMA QuestionHarmless ==
  ASSUME DataInv, NEW w \in Worker, turn[w] # None
  PROVE  Harmless(Question(w))
BY DEF DataInv, AllTurnsKept, TurnKept, Harmless, Question, FromUser

LEMMA ReplyHarmless ==
  ASSUME DataInv, NEW w \in Worker, turn[w] # None, NEW doc, doc = None \/ doc.type # "state"
  PROVE  IsSeq(Reply(w, doc)) /\ \A i \in 1..Len(Reply(w, doc)) : Harmless(Reply(w, doc)[i])
<1>1. PICK e : e = Reply(w, doc)
  OBVIOUS
<1>2. IsSeq(e) /\ Len(e) = 2 /\ e[1] = Question(w) /\ e[2] = Answer(doc, 0, Len(said) + 1)
  BY <1>1, Doubles DEF Reply
<1>3. Harmless(Answer(doc, 0, Len(said) + 1))
  BY DEF Harmless, Answer, IsState
<1>. QED  BY <1>1, <1>2, <1>3, QuestionHarmless

LEMMA PlainIsNoState ==
  ASSUME NEW w, NEW intent
  PROVE  PlainDoc(w, intent) = None \/ PlainDoc(w, intent).type # "state"
BY DEF PlainDoc

LEMMA ReceiveData ==
  ASSUME ChatInv, DataInv, NEW w \in Worker, Receive(w)
  PROVE  DataInv'
<1>1. /\ turn' = [turn EXCEPT ![w] =
             [pc |-> "classify", msg |-> Head(todo[w]), read |-> Len(said), seen |-> conv,
              cart |-> None, from |-> 0, to |-> 0]]
      /\ UNCHANGED <<said, orders, stock>>
      /\ todo' = [todo EXCEPT ![w] = Tail(@)] /\ todo[w] # <<>>
  BY DEF Receive
<1>2. todo[w] \in Seq(Message) /\ todo \in [Worker -> Seq(Message)]
  BY DEF DataInv, TodoKept
<1>3. Head(todo[w]) \in Message /\ Tail(todo[w]) \in Seq(Message)
  BY <1>1, <1>2
<1>4. PICK t : t = [pc |-> "classify", msg |-> Head(todo[w]), read |-> Len(said), seen |-> conv,
                    cart |-> None, from |-> 0, to |-> 0]
  OBVIOUS
<1>9. turn' = [turn EXCEPT ![w] = t] /\ t.msg \in Message /\ t.pc = "classify"
  BY <1>1, <1>3, <1>4
<1>5. Grown /\ EntriesKept'
  BY <1>1, SilentEntries DEF ChatInv
<1>6. TurnKept(t)'
  BY <1>9 DEF TurnKept
<1>7. AllTurnsKept'
  BY <1>9, <1>5, <1>6, TurnPut
<1>8. TodoKept'
  BY <1>1, <1>2, <1>3 DEF TodoKept
<1>. QED  BY <1>1, <1>5, <1>7, <1>8, SamePlaced, SameStock DEF DataInv

LEMMA HandOverData ==
  ASSUME ChatInv, DataInv, NEW w \in Worker, HandOver(w)
  PROVE  DataInv'
<1>1. PICK intent : said' = said \o Reply(w, PlainDoc(w, intent))
  BY DEF HandOver
<1>2. End(w) /\ UNCHANGED <<orders, stock, todo>> /\ turn[w] # None
  BY DEF HandOver, At, Outside
<1>3. PICK e : e = Reply(w, PlainDoc(w, intent))
  OBVIOUS
<1>4. IsSeq(e) /\ \A i \in 1..Len(e) : Harmless(e[i])
  BY <1>2, <1>3, ReplyHarmless, PlainIsNoState
<1>. QED  BY <1>1, <1>2, <1>3, <1>4, HarmlessEnd

LEMMA AnswerPlainlyData ==
  ASSUME ChatInv, DataInv, NEW w \in Worker, AnswerPlainly(w)
  PROVE  DataInv'
<1>1. turn[w] # None /\ End(w) /\ UNCHANGED <<orders, stock, todo>>
  BY DEF AnswerPlainly, At, Outside
<1>2. PICK intent : Stored(Reply(w, PlainDoc(w, intent))) \/ Stored(<<Question(w)>>)
  BY DEF AnswerPlainly
<1>3. PICK e : Stored(e) /\ (e = Reply(w, PlainDoc(w, intent)) \/ e = <<Question(w)>>)
  BY <1>2
<1>4. IsSeq(e) /\ \A i \in 1..Len(e) : Harmless(e[i])
  <2>1. CASE e = Reply(w, PlainDoc(w, intent))
    BY <1>1, <2>1, ReplyHarmless, PlainIsNoState
  <2>2. CASE e = <<Question(w)>>
    <3>1. IsSeq(e) /\ Len(e) = 1 /\ e[1] = Question(w)
      BY <2>2, Singles
    <3>. QED  BY <1>1, <3>1, QuestionHarmless
  <2>. QED  BY <1>3, <2>1, <2>2
<1>. QED  BY <1>1, <1>3, <1>4, HarmlessEnd DEF Stored

LEMMA StartOrderData ==
  ASSUME ChatInv, DataInv, NEW w \in Worker, StartOrder(w)
  PROVE  DataInv'
<1>1. /\ turn[w] # None /\ UNCHANGED <<said, orders, stock, todo>>
      /\ turn' = [turn EXCEPT ![w] = [turn[w] EXCEPT !.pc = "extract"]]
  BY DEF StartOrder, At, Outside
<1>2. PICK t : t = [turn[w] EXCEPT !.pc = "extract"]
  OBVIOUS
<1>3. t.msg \in Message /\ t.pc = "extract"
  <2>1. DOMAIN turn[w] = TurnFields /\ turn[w].msg \in Message
    BY <1>1 DEF ChatInv, TurnsKept, DataInv, AllTurnsKept, TurnKept
  <2>. QED  BY <1>2, <2>1 DEF TurnFields
<1>4. Grown /\ EntriesKept'
  BY <1>1, SilentEntries DEF ChatInv
<1>5. TurnKept(t)'
  BY <1>3 DEF TurnKept
<1>6. AllTurnsKept'
  BY <1>1, <1>2, <1>4, <1>5, TurnPut
<1>. QED  BY <1>1, <1>4, <1>6, SamePlaced, SameStock, SameTodo DEF DataInv

LEMMA FailData ==
  ASSUME ChatInv, DataInv, NEW w \in Worker, Fail(w)
  PROVE  DataInv'
<1>1. End(w) /\ UNCHANGED <<said, orders, stock, todo>>
  BY DEF Fail, Outside
<1>2. Grown /\ EntriesKept'
  BY <1>1, SilentEntries DEF ChatInv
<1>. QED  BY <1>1, <1>2, SamePlaced, SameStock, SameTodo, TurnEnds DEF DataInv

LEMMA NoteChangeData ==
  ASSUME ChatInv, DataInv, NEW w \in Worker, NoteChange(w)
  PROVE  DataInv'
<1>. DEFINE i == OrderAt(History(w))
<1>1. /\ turn[w] # None /\ End(w) /\ UNCHANGED <<orders, stock, todo>> /\ i # 0
      /\ said' = said \o Reply(w, said[i].doc)
  BY DEF NoteChange, At, Stored, Outside
<1>2. turn[w].read \in 1..Len(said) /\ SaidKept
  BY <1>1 DEF ChatInv, TurnsKept
<1>3. /\ DOMAIN History(w) \subseteq 1..turn[w].read
      /\ \A k \in DOMAIN History(w) : History(w)[k] = said[k]
      /\ Len(said) \in Nat
  BY <1>2, HistoryRead
<1>4. turn[w].read \in Nat
  BY <1>2, <1>3
<1>5. i \in Answers(History(w)) /\ IsOrder(History(w)[i])
  <2>. HIDE DEF i
  <2>1. PICK n, history : n = turn[w].read /\ history = History(w)
    OBVIOUS
  <2>2. OrderAt(history) # 0 => OrderAt(history) \in Answers(history) /\ IsOrder(history[OrderAt(history)])
    BY <1>3, <1>4, <2>1, OrderFound
  <2>. QED  BY <1>1, <2>1, <2>2 DEF i
<1>. HIDE DEF i
<1>6. said[i].doc.type # "state"
  BY <1>3, <1>5 DEF Answers, IsOrder
<1>7. PICK e : e = Reply(w, said[i].doc)
  OBVIOUS
<1>8. IsSeq(e) /\ \A k \in 1..Len(e) : Harmless(e[k])
  BY <1>1, <1>6, <1>7, ReplyHarmless
<1>. QED  BY <1>1, <1>7, <1>8, HarmlessEnd

(* Staff, sweep and time.                                                  *)
LEMMA ActData == ChatInv /\ DataInv /\ Act => DataInv'
<1>. SUFFICES ASSUME ChatInv, DataInv, Act PROVE DataInv'
  OBVIOUS
<1>1. UNCHANGED <<orders, stock, turn, todo>>
  BY DEF Act
<1>2. Grown /\ EntriesKept'
  <2>1. CASE UNCHANGED said
    BY <2>1, SilentEntries DEF ChatInv
  <2>2. CASE Stored(<<[role |-> "staff"]>>)
    <3>1. PICK e : e = <<[role |-> "staff"]>>
      OBVIOUS
    <3>2. IsSeq(e) /\ Len(e) = 1 /\ e[1].role = "staff"
      <4>1. [role |-> "staff"].role = "staff"
        OBVIOUS
      <4>. QED  BY <3>1, <4>1, Singles
    <3>3. \A i \in 1..Len(e) : Harmless(e[i])
      BY <3>2 DEF Harmless
    <3>. QED  BY <2>2, <3>1, <3>2, <3>3, HarmlessGrow DEF ChatInv, Stored
  <2>. QED  BY <2>1, <2>2 DEF Act
<1>. QED  BY <1>1, <1>2, SamePlaced, SameStock, SameTodo, SameTurns DEF DataInv

LEMMA SweepData == ChatInv /\ DataInv /\ Sweep => DataInv'
<1>. SUFFICES ASSUME ChatInv, DataInv, Sweep PROVE DataInv'
  OBVIOUS
<1>1. UNCHANGED <<said, orders, stock, turn, todo>>
  BY DEF Sweep
<1>2. Grown /\ EntriesKept'
  BY <1>1, SilentEntries DEF ChatInv
<1>. QED  BY <1>1, <1>2, SamePlaced, SameStock, SameTodo, SameTurns DEF DataInv

LEMMA PauseData == ChatInv /\ DataInv /\ Pause => DataInv'
<1>. SUFFICES ASSUME ChatInv, DataInv, Pause PROVE DataInv'
  OBVIOUS
<1>1. UNCHANGED <<orders, stock, turn, todo>>
  BY DEF Pause
<1>2. /\ DOMAIN said' = DOMAIN said /\ Len(said') = Len(said)
      /\ \A i \in DOMAIN said : said'[i] = Aged(said[i])
      /\ Len(said) \in Nat /\ DOMAIN said = 1..Len(said)
  BY PauseAges, Appended DEF ChatInv, SaidKept
<1>3. ASSUME NEW i \in 1..Len(said)
      PROVE  Says(said'[i], said[i])
  <2>1. said[i].role = "assistant" => DOMAIN said[i] = AnswerFields
    BY <1>2 DEF ChatInv, SaidKept, Fits, Answers
  <2>. QED  BY <1>2, <2>1, AgedSays DEF Says
<1>4. Grown
  BY <1>2, <1>3 DEF Grown
<1>5. EntriesKept'
  BY <1>2, <1>4, EntriesGrow
<1>. QED  BY <1>1, <1>4, <1>5, SamePlaced, SameStock, SameTodo, SameTurns DEF DataInv

-----------------------------------------------------------------------------
(* A cart that is placed, or announced once more.                          *)

LEMMA AnnouncedKept ==
  ASSUME DataInv, SaidKept, NEW cart, NEW from, NEW to, CartKeptFor(cart, from, to), NEW i,
         said' = said \o <<Answer(Ordered(cart, i), from, to)>>
  PROVE  Grown /\ EntriesKept' /\ CartKeptFor(cart, from, to)'
<1>1. PICK a, e : a = Answer(Ordered(cart, i), from, to) /\ e = <<a>>
  OBVIOUS
<1>2. IsSeq(e) /\ Len(e) = 1 /\ e[1] = a /\ said' = said \o e
  BY <1>1, Singles
<1>3. /\ Grown /\ Len(said) \in Nat /\ Len(said') = Len(said) + 1
      /\ said'[Len(said) + 1] = a
  BY <1>2, GrownBy
<1>4. CartKeptFor(cart, from, to)'
  BY <1>3, GrownCart
<1>5. /\ a.role = "assistant" /\ a.doc.type = "order" /\ a.doc.slots = cart
      /\ a.from = from /\ a.to = to
  BY <1>1 DEF Answer, Ordered
<1>6. StillThere(a.doc) = Products(cart.items)
  BY <1>5 DEF StillThere
<1>7. ASSUME NEW j \in 1..Len(said'), j \notin 1..Len(said)
      PROVE  EntryKept(j)'
  <2>1. j = Len(said) + 1 /\ said'[j] = a
    BY <1>3, <1>7
  <2>2. ~ IsState(a) /\ a.role # "user"
    BY <1>5 DEF IsState
  <2>3. PICK products : products = Products(cart.items) /\ products = StillThere(a.doc)
    BY <1>6
  <2>4. from # 0 => (from \in Answers(said) /\ to \in Asked /\ Leaves(from, to, products))'
    BY <1>4, <2>3 DEF CartKeptFor
  <2>5. DocKept(j)'
    BY <1>5, <2>1, <2>2, <2>3, <2>4 DEF DocKept, IsState
  <2>. QED  BY <2>1, <2>2, <2>5 DEF EntryKept, Asked
<1>. QED  BY <1>3, <1>4, <1>7, EntriesGrow

LEMMA RepeatOrderData ==
  ASSUME ChatInv, DataInv, NEW w \in Worker, RepeatOrder(w)
  PROVE  DataInv'
<1>1. /\ turn[w] # None /\ turn[w].pc = "order" /\ End(w)
      /\ UNCHANGED <<orders, stock, todo>>
  BY DEF RepeatOrder, At, Outside
<1>2. PICK i : said' = said \o <<Answer(Ordered(turn[w].cart, i), turn[w].from, turn[w].to)>>
  BY DEF RepeatOrder, Stored
<1>3. PICK cart, from, to : cart = turn[w].cart /\ from = turn[w].from /\ to = turn[w].to
  OBVIOUS
<1>4. CartKeptFor(cart, from, to)
  BY <1>1, <1>3 DEF DataInv, AllTurnsKept, TurnKept
<1>5. Grown /\ EntriesKept'
  BY <1>2, <1>3, <1>4, AnnouncedKept DEF ChatInv
<1>. QED  BY <1>1, <1>5, SamePlaced, SameStock, SameTodo, TurnEnds DEF DataInv

(* What is taken out of the stock was there.                               *)
LEMMA StockTaken ==
  ASSUME DataInv, NEW cart, NEW P, SlotsOver(P, {}, cart), Complete(cart.items), Suffices(cart),
         stock' = [p \in DOMAIN stock |-> stock[p] - Wanted(cart, p)]
  PROVE  StockKept'
<1>1. /\ DOMAIN stock = DOMAIN InStore /\ \A p \in DOMAIN InStore : stock[p] \in 0..InStore[p]
      /\ \A p \in DOMAIN InStore : InStore[p] \in Nat
  BY ChatAssumption DEF DataInv, StockKept
<1>2. cart.items \in Seq(Lines(P))
  BY DEF SlotsOver, Over
<1>3. ASSUME NEW i \in DOMAIN cart.items PROVE cart.items[i].q \in Nat
  <2>1. cart.items[i] \in Lines(P) /\ cart.items[i].q # None
    BY <1>2 DEF Complete
  <2>. QED  BY <2>1 DEF Lines
<1>4. \A p : Wanted(cart, p) \in Nat
  BY <1>2, <1>3, WantedIn
<1>5. ASSUME NEW p \in DOMAIN InStore PROVE stock'[p] \in 0..InStore[p]
  <2>1. PICK n : n = Wanted(cart, p) /\ n \in Nat
    BY <1>4
  <2>2. stock[p] >= n /\ stock'[p] = stock[p] - n
    BY <1>1, <2>1 DEF Suffices
  <2>. QED  BY <1>1, <2>1, <2>2
<1>6. stock' = [p \in DOMAIN InStore |-> stock'[p]]
  BY <1>1
<1>. QED  BY <1>5, <1>6 DEF StockKept

LEMMA PlaceOrderData ==
  ASSUME ChatInv, DataInv, NEW w \in Worker, PlaceOrder(w)
  PROVE  DataInv'
<1>1. PICK cart, from, to : cart = turn[w].cart /\ from = turn[w].from /\ to = turn[w].to
  OBVIOUS
<1>2. PICK n, r : n = Len(orders) + 1
                  /\ r = [key |-> OrderKey(cart), slots |-> cart, read |-> turn[w].read,
                          from |-> from, to |-> to]
  OBVIOUS
<1>3. /\ turn[w] # None /\ turn[w].pc = "order" /\ End(w) /\ UNCHANGED todo
      /\ Suffices(cart) /\ stock' = [p \in DOMAIN stock |-> stock[p] - Wanted(cart, p)]
      /\ orders' = Append(orders, r)
      /\ said' = said \o <<Answer(Ordered(cart, n), from, to)>>
  BY <1>1, <1>2 DEF PlaceOrder, At, Stored, Outside
<1>4. CartKeptFor(cart, from, to)
  BY <1>1, <1>3 DEF DataInv, AllTurnsKept, TurnKept
<1>5. Grown /\ EntriesKept' /\ CartKeptFor(cart, from, to)'
  BY <1>3, <1>4, AnnouncedKept DEF ChatInv
<1>6. /\ Len(orders) \in Nat /\ DOMAIN orders = 1..Len(orders)
      /\ DOMAIN orders' = 1..n /\ orders'[n] = r
      /\ \A o \in 1..Len(orders) : orders'[o] = orders[o]
  <2>1. IsSeq(orders) /\ orders' = orders \o <<r>> /\ IsSeq(<<r>>) /\ Len(<<r>>) = 1 /\ <<r>>[1] = r
    BY <1>3, Singles DEF ChatInv, OrdersKept
  <2>. QED  BY <1>2, <2>1, Appended
<1>7. PlacedKept'
  <2>1. DOMAIN orders' \ DOMAIN orders \subseteq {n} /\ \A o \in DOMAIN orders : orders'[o] = orders[o]
    BY <1>2, <1>6
  <2>2. r.slots = cart /\ r.from = from /\ r.to = to
    BY <1>2
  <2>3. CartKeptFor(orders[n].slots, orders[n].from, orders[n].to)'
    BY <1>5, <1>6, <2>2
  <2>. QED  BY <1>5, <2>1, <2>3, PlacedGrow
<1>8. StockKept'
  <2>1. PICK P : P = Named(to)
    OBVIOUS
  <2>2. SlotsOver(P, {}, cart) /\ Complete(cart.items)
    BY <1>4, <2>1 DEF CartKeptFor
  <2>. QED  BY <1>3, <2>2, StockTaken
<1>. QED  BY <1>3, <1>5, <1>7, <1>8, SameTodo, TurnEnds DEF DataInv

-----------------------------------------------------------------------------
(* What the answer to an order starts from.                                *)

(* What is not read back is older than all that is.                        *)
LEMMA HistoryTail ==
  ASSUME NEW w \in Worker, SaidKept, turn[w].read \in 1..Len(said),
         NEW i \in 1..turn[w].read, NEW j \in DOMAIN History(w)
  PROVE  i \in DOMAIN History(w) \/ i < j
<1>. DEFINE first == Max({1, turn[w].read - Recent + 1})
<1>1. turn[w].read \in Int /\ Recent \in Int
  BY ChatAssumption, HistoryRead
<1>2. PICK r \in Int : r = turn[w].read - Recent + 1
  BY <1>1
<1>3. Max({1, r}) \in Int
  <2>1. \E x \in {1, r} : \A y \in {1, r} : x >= y
    BY <1>2
  <2>2. Max({1, r}) \in {1, r}
    BY <2>1 DEF Max
  <2>. QED  BY <2>2
<1>4. History(w) = [k \in first..turn[w].read |-> said[k]] /\ first \in Int
  BY <1>2, <1>3 DEF History
<1>. HIDE DEF first
<1>. QED  BY <1>1, <1>4

LEMMA CancelledNext ==
  ASSUME NEW k \in Nat, DOMAIN said' = 1..Len(said')
  PROVE  /\ CancelledBefore(k)' = Max({0} \cup CancelledSet(k)')
         /\ k # 0 => CancelledBefore(k)' < k
<1>1. CancelledBefore(k)' = Max({0} \cup CancelledSet(k)')
  BY DEF CancelledBefore, CancelledSet
<1>2. {0} \cup CancelledSet(k)' \subseteq 0..k
  BY DEF CancelledSet, Answers
<1>3. CancelledBefore(k)' \in {0} \cup CancelledSet(k)'
  BY <1>1, <1>2, MaxIn
<1>. QED  BY <1>1, <1>3 DEF CancelledSet

(* The message that is stored now is named now.                            *)
LEMMA StoredIsLater ==
  ASSUME Grown, NEW to \in 1..Len(said'), said'[to].role = "user"
  PROVE  to \in Later(to)' /\ to \in Asked'
<1>1. to \in Nat /\ to # 0 /\ DOMAIN said' = 1..Len(said')
  BY DEF Grown
<1>2. to \in Asked'
  BY <1>1 DEF Asked
<1>3. CancelledBefore(to)' < to
  BY <1>1, CancelledNext
<1>. QED  BY <1>1, <1>2, <1>3 DEF Later

(* All that a state may name may be named in the answer that continues it. *)
LEMMA NamesStay ==
  ASSUME ChatInv, DataInv, NEW w \in Worker, turn[w] # None, Grown,
         NEW to, to = Len(said) + 1, to \in 1..Len(said'), said'[to] = Question(w),
         NEW from \in DOMAIN History(w), from \in Answers(said), IsState(said[from]),
         said[from].doc.status # "order_cancelled",
         \A i \in DOMAIN History(w) : i \in Answers(said) /\ IsState(said[i]) => i <= from
  PROVE  Named(from - 1) \subseteq Named(to)'
<1>1. /\ Len(said) \in Nat /\ DOMAIN said = 1..Len(said) /\ DOMAIN said' = 1..Len(said')
      /\ turn[w].read \in 1..Len(said) /\ SaidKept
      /\ from \in 1..Len(said) /\ to \in Nat
  BY DEF Grown, ChatInv, TurnsKept, Answers
<1>2. said'[to].role = "user" /\ said'[to].read = turn[w].read
  BY DEF Question, FromUser
<1>3. to \in Later(to)'
  BY <1>2, StoredIsLater
<1>4. from - 1 \in Asked /\ from - 1 \in 1..Len(said)
  <2>1. DocKept(from)
    BY <1>1 DEF DataInv, EntriesKept, EntryKept
  <2>2. from - 1 \in Asked
    BY <2>1 DEF DocKept
  <2>. QED  BY <1>1, <2>2 DEF Asked
<1>. SUFFICES ASSUME NEW p \in Named(from - 1), Match(p) # None,
                     \A i \in Later(to)' : InTurn(i)'
              PROVE  \E i \in Later(to)' : Names(said'[i].msg, p)
  BY DEF Named
<1>5. turn[w].read = Len(said)
  <2>1. InTurn(to)'
    BY <1>3
  <2>2. said'[to].read = to - 1
    BY <2>1 DEF InTurn
  <2>. QED  BY <1>1, <1>2, <2>2
<1>6. CancelledSet(to)' = CancelledSet(from - 1)
  <2>1. ASSUME NEW j \in CancelledSet(to)' PROVE j \in CancelledSet(from - 1)
    <3>1. j \in 1..Len(said)
      BY <1>1 DEF CancelledSet, Answers
    <3>2. j \in Answers(said) /\ IsState(said[j]) /\ said[j].doc.status = "order_cancelled"
      <4>1. /\ j \in Answers(said') /\ IsState(said'[j]) /\ said'[j].doc.status = "order_cancelled"
        BY DEF CancelledSet, IsState
      <4>2. j \in Answers(said) /\ said'[j].doc = said[j].doc
        BY <3>1, <4>1, GrownEntries
      <4>. QED  BY <4>1, <4>2 DEF IsState
    <3>3. j \in DOMAIN History(w) \/ j < from
      BY <1>1, <1>5, <3>1, HistoryTail
    <3>4. j < from
      <4>1. j <= from /\ j # from
        BY <1>1, <3>1, <3>2, <3>3
      <4>. QED  BY <1>1, <3>1, <4>1
    <3>5. j # from - 1
      BY <1>4, <3>2 DEF Asked, Answers
    <3>6. j < from - 1
      BY <1>1, <3>1, <3>4, <3>5
    <3>. QED  BY <3>2, <3>6 DEF CancelledSet
  <2>2. ASSUME NEW j \in CancelledSet(from - 1) PROVE j \in CancelledSet(to)'
    <3>1. /\ j \in 1..Len(said) /\ j < from - 1 /\ j \in Answers(said) /\ IsState(said[j])
          /\ said[j].doc.status = "order_cancelled"
      BY <1>1 DEF CancelledSet, Answers
    <3>2. j \in Answers(said') /\ said'[j].doc = said[j].doc
      BY <3>1, GrownEntries
    <3>3. j < to
      BY <1>1, <3>1
    <3>. QED  BY <3>1, <3>2, <3>3 DEF CancelledSet, IsState
  <2>. QED  BY <2>1, <2>2
<1>7. CancelledBefore(to)' = CancelledBefore(from - 1)
  <2>1. CancelledBefore(to)' = Max({0} \cup CancelledSet(to)')
    BY <1>1, CancelledNext
  <2>2. CancelledBefore(from - 1) = Max({0} \cup CancelledSet(from - 1))
    BY <1>1, <1>4, CancelledIs
  <2>. QED  BY <1>6, <2>1, <2>2
<1>8. ASSUME NEW i \in Later(from - 1) PROVE i \in Later(to)' /\ said'[i] = said[i]
  <2>1. i \in Asked /\ CancelledBefore(from - 1) < i /\ i <= from - 1 /\ i \in 1..Len(said)
    BY <1>1 DEF Later, Asked
  <2>2. i \in Asked' /\ said'[i] = said[i]
    BY <2>1, GrownEntries
  <2>3. i <= to
    BY <1>1, <2>1
  <2>. QED  BY <1>7, <2>1, <2>2, <2>3 DEF Later
<1>9. \A i \in Later(from - 1) : InTurn(i)
  BY <1>8 DEF InTurn
<1>10. PICK i \in Later(from - 1) : Names(said[i].msg, p)
  BY <1>9 DEF Named
<1>. QED  BY <1>8, <1>10

(* The message itself names what is read in it.                            *)
LEMMA SaidNow ==
  ASSUME Grown, NEW to \in 1..Len(said'), said'[to].role = "user",
         NEW m \in Message, said'[to].msg = m, NEW P, P = Named(to)'
  PROVE  Said(P, m)
<1>1. to \in Later(to)'
  BY StoredIsLater
<1>2. /\ m.items \in Seq(Line) /\ m.match \in Name \cup {None}
      /\ \A i \in DOMAIN m.items : Match(m.items[i].p) # None => Names(m, m.items[i].p)
  BY MessageAssumption DEF Names
<1>3. \A p \in Name : Match(p) = None \/ Names(m, p) => p \in P
  BY <1>1 DEF Named
<1>4. \A i \in DOMAIN m.items : m.items[i] \in Lines(P)
  <2>1. SUFFICES ASSUME NEW i \in DOMAIN m.items PROVE m.items[i] \in Lines(P)
    OBVIOUS
  <2>2. m.items[i] \in Line
    BY <1>2
  <2>3. m.items[i].p \in P \cup {None}
    BY <1>2, <1>3, <2>2 DEF Line
  <2>. QED  BY <2>2, <2>3 DEF Line, Lines
<1>5. m.items \in Seq(Lines(P))
  BY <1>2, <1>4
<1>6. m.match \in P \cup {None}
  BY <1>2, <1>3 DEF Names
<1>. QED  BY <1>3, <1>5, <1>6 DEF Said, Names

LEMMA Wider ==
  ASSUME NEW P, NEW R, P \subseteq R, NEW d, StateOver(P, d)
  PROVE  StateOver(R, d)
<1>1. Lines(P) \subseteq Lines(R)
  BY DEF Lines
<1>2. Seq(Lines(P)) \subseteq Seq(Lines(R))
  BY <1>1
<1>. QED  BY <1>1, <1>2 DEF StateOver, SlotsOver, Over

(* What the model extracts are lines, of a product if only products were   *)
(* spoken of.                                                              *)
LEMMA MergedNamed ==
  ASSUME NEW P, NEW current \in Seq(Lines(P)), NEW incoming \in Seq(Lines(P)),
         \A i \in DOMAIN current : current[i].p # None,
         \A i \in DOMAIN incoming : incoming[i].p # None
  PROVE  \A i \in DOMAIN MergeItems(current, incoming) : MergeItems(current, incoming)[i].p # None
<1>. DEFINE B == {s \in Seq(Lines(P)) : \A i \in DOMAIN s : s[i].p # None}
<1>1. ASSUME NEW b \in B, NEW k \in DOMAIN incoming PROVE MergeNamed(b, incoming[k]) \in B
  <2>1. PICK item \in Lines(P) : item = incoming[k] /\ item.p # None
    OBVIOUS
  <2>2. PICK i : i = SelectInSeq(b, LAMBDA other : item.p # None /\ other.p = item.p)
    OBVIOUS
  <2>3. MergeNamed(b, item) = IF i = 0 THEN Append(b, item)
                              ELSE [b EXCEPT ![i].q = Or(item.q, @)]
    BY <2>2 DEF MergeNamed
  <2>4. MergeNamed(b, item) \in Seq(Lines(P))
    BY MergeNamedOver
  <2>5. ASSUME NEW j \in DOMAIN MergeNamed(b, item) PROVE MergeNamed(b, item)[j].p # None
    <3>1. CASE i = 0
      BY <2>1, <2>3, <2>5, <3>1
    <3>2. CASE i # 0
      <4>1. j \in DOMAIN b /\ b[j] \in Lines(P) /\ b[j].p # None
        BY <2>3, <2>5, <3>2
      <4>2. MergeNamed(b, item)[j].p = b[j].p
        BY <2>3, <3>2, <4>1 DEF Lines
      <4>. QED  BY <4>1, <4>2
    <3>. QED  BY <3>1, <3>2
  <2>. QED  BY <2>1, <2>4, <2>5
<1>2. current \in B /\ incoming \in B
  OBVIOUS
<1>3. FoldLeft(MergeNamed, current, incoming) \in B
  <2>. HIDE DEF B
  <2>. QED  BY <1>1, <1>2, NamedStay
<1>4. MergeItems(current, incoming) \in B
  BY <1>2, <1>3 DEF MergeItems
<1>. QED  BY <1>4

LEMMA ExtractedIs ==
  ASSUME NEW m \in Message
  PROVE  /\ DOMAIN Extracted(m) = SlotFields /\ Extracted(m).items = m.said
         /\ m.said \in Seq(Line)
         /\ ~ OnlyQuantity(m) => /\ \A i \in DOMAIN m.items : m.items[i].p # None
                                 /\ \A i \in DOMAIN m.said : m.said[i].p # None
BY MessageAssumption DEF Extracted, SlotFields, OnlyQuantity

LEMMA ExtractionsAre ==
  ASSUME ChatInv, DataInv, NEW w \in Worker, turn[w] # None, NEW extracted \in Extractions(w)
  PROVE  /\ DOMAIN extracted = SlotFields /\ extracted.items \in Seq(Line)
         /\ (~ OnlyQuantity(turn[w].msg) /\ \A i \in Asked : ~ OnlyQuantity(said[i].msg))
              => \A i \in DOMAIN extracted.items : extracted.items[i].p # None
<1>1. PICK m : m = turn[w].msg /\ m \in Message
  BY DEF DataInv, AllTurnsKept, TurnKept
<1>2. CASE extracted = NoSlots
  <2>1. DOMAIN extracted = SlotFields /\ extracted.items = <<>>
    BY <1>2 DEF NoSlots, SlotFields
  <2>. QED  BY <2>1
<1>3. CASE extracted = Extracted(m)
  BY <1>1, <1>3, ExtractedIs
<1>4. ASSUME NEW i \in DOMAIN History(w), said[i].role = "user",
             extracted = MergeSlots(Extracted(said[i].msg), Extracted(m))
      PROVE  /\ DOMAIN extracted = SlotFields /\ extracted.items \in Seq(Line)
             /\ (~ OnlyQuantity(m) /\ \A k \in Asked : ~ OnlyQuantity(said[k].msg))
                  => \A k \in DOMAIN extracted.items : extracted.items[k].p # None
  <2>1. i \in Asked
    <3>1. turn[w].read \in 1..Len(said) /\ SaidKept
      BY DEF ChatInv, TurnsKept
    <3>. QED  BY <1>4, <3>1, HistoryRead DEF Asked
  <2>2. PICK a : a = said[i].msg /\ a \in Message
    BY <2>1 DEF DataInv, EntriesKept, EntryKept, Asked
  <2>3. /\ DOMAIN extracted = SlotFields
        /\ extracted.items = MergeItems(a.said, m.said)
    BY <1>1, <1>4, <2>2, ExtractedIs, MergeSlotsIs
  <2>4. a.said \in Seq(Lines(Name)) /\ m.said \in Seq(Lines(Name)) /\ Line = Lines(Name)
    BY <1>1, <2>2, ExtractedIs DEF Line, Lines
  <2>5. extracted.items \in Seq(Line)
    BY <2>3, <2>4, MergeItemsOver
  <2>6. ASSUME ~ OnlyQuantity(m), \A k \in Asked : ~ OnlyQuantity(said[k].msg)
        PROVE  \A k \in DOMAIN extracted.items : extracted.items[k].p # None
    <3>1. /\ \A k \in DOMAIN a.said : a.said[k].p # None
          /\ \A k \in DOMAIN m.said : m.said[k].p # None
      BY <1>1, <2>1, <2>2, <2>6, ExtractedIs
    <3>. QED  BY <2>3, <2>4, <3>1, MergedNamed
  <2>. QED  BY <2>3, <2>5, <2>6
<1>. QED  BY <1>1, <1>2, <1>3, <1>4 DEF Extractions

-----------------------------------------------------------------------------
(* The answer to an order.                                                 *)

LEMMA ContactIsBlank ==
  ASSUME NEW history
  PROVE  ReusableContact(history) # None => Blank(ReusableContact(history))
<1>1. \A slots : Blank([NoSlots EXCEPT !.name = slots.name, !.phone = slots.phone,
                                       !.address = slots.address])
  BY DEF Blank, NoSlots, SlotFields
<1>2. ReusableContact(history) = None \/ \E slots :
        ReusableContact(history) = [NoSlots EXCEPT !.name = slots.name, !.phone = slots.phone,
                                                   !.address = slots.address]
  BY DEF ReusableContact
<1>. QED  BY <1>1, <1>2

LEMMA DecideSays ==
  ASSUME ChatInv, DataInv, NEW w \in Worker, turn[w] # None, Grown,
         NEW extracted \in Extractions(w), NEW account \in Accounts,
         NEW from, from = StateAt(turn[w].msg, History(w)),
         NEW to, to = Len(said) + 1, to \in 1..Len(said'), said'[to] = Question(w),
         NEW reply, reply = OrderReply(TurnRead(w, extracted, account))
  PROVE  /\ to \in Asked'
         /\ from # 0 => from \in Answers(said')
         /\ reply.type = "state" =>
              /\ StateOver(Named(to), reply)'
              /\ from # 0 => Leaves(from, to, StillThere(reply))'
         /\ reply.type = "order" => CartKeptFor(reply.slots, from, to)'
<1>1. PICK m, P : m = turn[w].msg /\ m \in Message /\ P = Named(to)'
  BY DEF DataInv, AllTurnsKept, TurnKept
<1>2. said'[to].role = "user" /\ said'[to].msg = m
  BY <1>1 DEF Question, FromUser
<1>3. /\ Len(said) \in Nat /\ DOMAIN said = 1..Len(said) /\ DOMAIN said' = 1..Len(said')
      /\ turn[w].read \in 1..Len(said) /\ turn[w].read \in Nat /\ SaidKept
      /\ DOMAIN History(w) \subseteq 1..turn[w].read
      /\ \A i \in DOMAIN History(w) : History(w)[i] = said[i] /\ i \in 1..Len(said)
  <2>1. SaidKept /\ turn[w].read \in 1..Len(said)
    BY DEF ChatInv, TurnsKept
  <2>. QED  BY <2>1, HistoryRead DEF Grown
<1>4. to \in Asked'
  BY <1>2, StoredIsLater
<1>5. from # 0 =>
        /\ from \in DOMAIN History(w) /\ from \in Answers(said) /\ IsState(said[from])
        /\ said[from].doc.status # "order_cancelled"
        /\ \A i \in DOMAIN History(w) : i \in Answers(said) /\ IsState(said[i]) => i <= from
  <2>1. PICK history, n : history = History(w) /\ n = turn[w].read
    OBVIOUS
  <2>2. from # 0 =>
          /\ from \in Answers(history) /\ IsState(history[from])
          /\ history[from].doc.status # "order_cancelled"
          /\ \A i \in Answers(history) : IsState(history[i]) => i <= from
    BY <1>1, <1>3, <2>1, StateFound
  <2>. QED  BY <1>3, <2>1, <2>2 DEF Answers, IsState
<1>6. from # 0 => from \in 1..Len(said) /\ from \in Answers(said') /\ said'[from].doc = said[from].doc
  BY <1>3, <1>5, GrownEntries
<1>7. PICK state : state = IF from = 0 THEN None ELSE said[from].doc
  OBVIOUS
<1>8. state # None => from # 0 /\ StateOver(P, state) /\ state = said[from].doc /\ state = said'[from].doc
  <2>1. SUFFICES ASSUME state # None
                 PROVE  from # 0 /\ StateOver(P, state) /\ state = said[from].doc
                        /\ state = said'[from].doc
    OBVIOUS
  <2>2. from # 0 /\ state = said[from].doc
    BY <1>7, <2>1
  <2>3. StateOver(Named(from - 1), said[from].doc)
    BY <1>3, <1>5, <1>6, <2>2 DEF DataInv, EntriesKept, EntryKept, DocKept
  <2>4. Named(from - 1) \subseteq P
    BY <1>1, <1>5, <2>2, NamesStay
  <2>. QED  BY <1>6, <2>2, <2>3, <2>4, Wider
<1>9. Said(P, m)
  BY <1>1, <1>2, SaidNow
<1>10. PICK t : t = TurnRead(w, extracted, account)
  OBVIOUS
<1>11. /\ t.msg = m /\ t.state = state /\ t.spoken = Spoken(m, extracted)
       /\ t.reusable = ReusableContact(said) /\ t.account = account
  BY <1>1, <1>7, <1>10 DEF TurnRead
<1>12. DOMAIN extracted = SlotFields /\ extracted.items \in Seq(Line)
  BY ExtractionsAre
<1>13. TurnOver(P, t)
  <2>1. DOMAIN t.spoken = SlotFields /\ t.spoken.items \in Seq(Lines(P))
    BY <1>9, <1>11, <1>12, SpokenOver
  <2>2. t.msg.match \in P \cup {None}
    BY <1>9, <1>11 DEF Said
  <2>3. t.account # None => Blank(t.account)
    <3>1. account # None => DOMAIN account = DOMAIN NoSlots /\ account.items = <<>>
      BY ContactsAssumption
    <3>2. DOMAIN NoSlots = SlotFields
      BY DEF NoSlots, SlotFields
    <3>. QED  BY <1>11, <3>1, <3>2 DEF Blank
  <2>. QED  BY <1>8, <1>11, <2>1, <2>2, <2>3, ContactIsBlank DEF TurnOver
<1>14. PICK lost : lost <=> (from = 0 \/ TakesAway(m, state)
                             \/ \E i \in Asked' : i <= to /\ OnlyQuantity(said'[i].msg))
  OBVIOUS
<1>15. PICK C : C = IF lost THEN {} ELSE CartOf(state)
  OBVIOUS
<1>16. Careful(t, C)
  <2>1. SUFFICES ASSUME ~ lost PROVE Careful(t, C)
    BY <1>15 DEF Careful
  <2>2. from # 0 /\ ~ TakesAway(m, state) /\ C = CartOf(state)
        /\ \A i \in Asked' : i <= to => ~ OnlyQuantity(said'[i].msg)
    BY <1>14, <1>15, <2>1
  <2>3. state # None
    BY <1>5, <1>7, <2>2 DEF IsState
  <2>4. ~ OnlyQuantity(m)
    BY <1>2, <1>3, <1>4, <2>2
  <2>5. ASSUME NEW i \in Asked PROVE ~ OnlyQuantity(said[i].msg)
    <3>1. i \in 1..Len(said) /\ i <= to
      BY <1>3 DEF Asked
    <3>2. i \in Asked' /\ said'[i] = said[i]
      BY <3>1, GrownEntries
    <3>. QED  BY <2>2, <3>1, <3>2
  <2>6. \A i \in DOMAIN extracted.items : extracted.items[i].p # None
    BY <1>1, <2>4, <2>5, ExtractionsAre
  <2>7. \A i \in DOMAIN m.items : m.items[i].p # None
    BY <1>1, <2>4, ExtractedIs
  <2>8. \A i \in DOMAIN t.spoken.items : t.spoken.items[i].p # None
    BY <1>9, <1>11, <1>12, <2>6, <2>7, SpokenOver
  <2>. QED  BY <1>11, <2>2, <2>3, <2>8 DEF Careful
<1>17. Answered(P, C, reply)
  BY <1>10, <1>13, <1>16, OrderReplyAnswers
<1>18. ASSUME NEW products, C \subseteq products, from # 0
       PROVE  Leaves(from, to, products)'
  <2>1. state = said'[from].doc
    BY <1>5, <1>7, <1>8, <1>18 DEF IsState
  <2>2. CASE lost
    BY <1>2, <1>14, <1>18, <2>1, <2>2 DEF Leaves
  <2>3. CASE ~ lost
    BY <1>15, <1>18, <2>1, <2>3 DEF Leaves
  <2>. QED  BY <2>2, <2>3
<1>19. ASSUME reply.type = "state"
       PROVE  StateOver(Named(to), reply)' /\ (from # 0 => Leaves(from, to, StillThere(reply))')
  <2>1. StateOver(P, reply) /\ C \subseteq StillThere(reply)
    BY <1>17, <1>19 DEF Answered
  <2>2. PICK products : products = StillThere(reply)
    OBVIOUS
  <2>3. from # 0 => Leaves(from, to, products)'
    BY <1>18, <2>1, <2>2
  <2>. QED  BY <1>1, <2>1, <2>2, <2>3 DEF StateOver, SlotsOver, Over
<1>20. ASSUME reply.type = "order"
       PROVE  CartKeptFor(reply.slots, from, to)'
  <2>1. SlotsOver(P, C, reply.slots) /\ Complete(reply.slots.items)
    BY <1>17, <1>20 DEF Answered
  <2>2. SlotsOver(P, {}, reply.slots) /\ C \subseteq Products(reply.slots.items)
    BY <2>1, CartHas, NothingKept DEF SlotsOver, Over
  <2>3. PICK products : products = Products(reply.slots.items)
    OBVIOUS
  <2>4. from # 0 => Leaves(from, to, products)'
    BY <1>18, <2>2, <2>3
  <2>. QED  BY <1>1, <1>4, <1>6, <2>1, <2>2, <2>3, <2>4 DEF CartKeptFor, SlotsOver, Over
<1>. QED  BY <1>4, <1>6, <1>19, <1>20

LEMMA DecideOrderData ==
  ASSUME ChatInv, DataInv, NEW w \in Worker, DecideOrder(w)
  PROVE  DataInv'
<1>1. turn[w] # None /\ UNCHANGED <<orders, stock, todo>>
  BY DEF DecideOrder, At, Outside
<1>2. PICK from, to : from = StateAt(turn[w].msg, History(w)) /\ to = Len(said) + 1
  OBVIOUS
<1>6. PICK extracted \in Extractions(w), account \in Accounts :
        LET reply == OrderReply(TurnRead(w, extracted, account)) IN
           \/ /\ reply.type = "state"
              /\ said' = said \o <<Question(w), Answer(reply, from, to)>>
              /\ End(w)
           \/ /\ reply.type = "order"
              /\ said' = said \o <<Question(w)>>
              /\ turn' = [turn EXCEPT ![w].pc = "order", ![w].cart = reply.slots,
                                      ![w].from = from, ![w].to = to]
  BY <1>2 DEF DecideOrder, Stored
<1>8. PICK reply : reply = OrderReply(TurnRead(w, extracted, account))
  OBVIOUS
<1>7. \/ /\ reply.type = "state"
         /\ said' = said \o <<Question(w), Answer(reply, from, to)>>
         /\ End(w)
      \/ /\ reply.type = "order"
         /\ said' = said \o <<Question(w)>>
         /\ turn' = [turn EXCEPT ![w].pc = "order", ![w].cart = reply.slots,
                                 ![w].from = from, ![w].to = to]
  BY <1>6, <1>8
<1>3. Harmless(Question(w))
  BY <1>1, QuestionHarmless
<1>4. CASE /\ reply.type = "state"
           /\ said' = said \o <<Question(w), Answer(reply, from, to)>>
           /\ End(w)
  <2>1. PICK a, e : a = Answer(reply, from, to) /\ e = <<Question(w), a>>
    OBVIOUS
  <2>2. IsSeq(e) /\ Len(e) = 2 /\ e[1] = Question(w) /\ e[2] = a /\ said' = said \o e
    BY <1>4, <2>1, Doubles
  <2>3. /\ Grown /\ Len(said) \in Nat /\ Len(said') = Len(said) + 2
        /\ said'[to] = Question(w) /\ said'[to + 1] = a
    <3>1. /\ Grown /\ Len(said) \in Nat /\ Len(said') = Len(said) + 2
          /\ \A i \in 1..2 : said'[Len(said) + i] = e[i]
      BY <2>2, GrownBy DEF ChatInv
    <3>. QED  BY <1>2, <2>2, <3>1
  <2>4. /\ to \in Asked'
        /\ from # 0 => from \in Answers(said')
        /\ StateOver(Named(to), reply)'
        /\ from # 0 => Leaves(from, to, StillThere(reply))'
    <3>1. reply.type = "state"
      BY <1>4
    <3>2. to \in 1..Len(said')
      BY <1>2, <2>3
    <3>. QED  BY <1>1, <1>2, <1>8, <2>3, <3>1, <3>2, DecideSays
  <2>5. a.role = "assistant" /\ a.doc = reply /\ a.from = from /\ a.to = to
    BY <2>1 DEF Answer
  <2>6. EntryKept(to)'
    BY <1>3, <2>3 DEF EntryKept, Harmless, Asked, Answers, Question, FromUser
  <2>7. PICK next : next = to + 1 /\ next - 1 = to
    BY <1>2, <2>3
  <2>8. EntryKept(next)'
    <3>1. said'[next] = a
      BY <2>3, <2>7
    <3>2. Named(next - 1)' = Named(to)'
      BY <2>7
    <3>3. StateOver(Named(next - 1), reply)'
      BY <2>4, <3>2 DEF StateOver, SlotsOver, Over
    <3>4. said'[next].to = next - 1
      BY <2>5, <2>7, <3>1
    <3>5. next - 1 \in Asked'
      BY <2>4, <2>7
    <3>6. DocKept(next)'
      BY <2>4, <2>5, <3>1, <3>3, <3>4, <3>5 DEF DocKept
    <3>. QED  BY <2>5, <3>1, <3>6 DEF EntryKept, Asked
  <2>9. EntriesKept'
    <3>1. \A j \in 1..Len(said') : j \notin 1..Len(said) => j = to \/ j = next
      BY <1>2, <2>3, <2>7
    <3>. QED  BY <2>3, <2>6, <2>8, <3>1, EntriesGrow
  <2>. QED  BY <1>1, <1>4, <2>3, <2>9, SamePlaced, SameStock, SameTodo, TurnEnds DEF DataInv
<1>5. CASE /\ reply.type = "order"
           /\ said' = said \o <<Question(w)>>
           /\ turn' = [turn EXCEPT ![w].pc = "order", ![w].cart = reply.slots,
                                   ![w].from = from, ![w].to = to]
  <2>1. PICK t : t = [turn[w] EXCEPT !.pc = "order", !.cart = reply.slots,
                                     !.from = from, !.to = to]
    OBVIOUS
  <2>2. turn' = [turn EXCEPT ![w] = t]
    BY <1>5, <2>1
  <2>3. said' = said \o <<Question(w)>> /\ reply.type = "order"
    BY <1>5
  <2>4. PICK e : IsSeq(e) /\ Len(e) = 1 /\ e[1] = Question(w) /\ said' = said \o e
    BY <2>3, Singles
  <2>5. /\ Grown /\ Len(said) \in Nat /\ Len(said') = Len(said) + 1
        /\ said'[to] = Question(w)
    <3>1. /\ Grown /\ Len(said) \in Nat /\ Len(said') = Len(said) + 1
          /\ \A i \in 1..1 : said'[Len(said) + i] = e[i]
      BY <2>4, GrownBy DEF ChatInv
    <3>. QED  BY <1>2, <2>4, <3>1
  <2>6. EntriesKept'
    BY <1>3, <2>4, HarmlessGrow DEF ChatInv
  <2>7. CartKeptFor(reply.slots, from, to)'
    BY <1>1, <1>2, <1>8, <2>3, <2>5, DecideSays
  <2>8. t.msg \in Message /\ t.cart = reply.slots /\ t.from = from /\ t.to = to
    <3>1. DOMAIN turn[w] = TurnFields /\ turn[w].msg \in Message
      BY <1>1 DEF ChatInv, TurnsKept, DataInv, AllTurnsKept, TurnKept
    <3>. QED  BY <2>1, <3>1 DEF TurnFields
  <2>9. TurnKept(t)'
    BY <2>7, <2>8 DEF TurnKept
  <2>10. AllTurnsKept'
    BY <2>2, <2>5, <2>9, TurnPut
  <2>. QED  BY <1>1, <2>5, <2>6, <2>10, SamePlaced, SameStock, SameTodo DEF DataInv
<1>. QED  BY <1>7, <1>4, <1>5

LEMMA DataNext == ChatInv /\ DataInv /\ [Next]_vars => DataInv'
<1>. SUFFICES ASSUME ChatInv, DataInv, [Next]_vars PROVE DataInv'
  OBVIOUS
<1>1. CASE UNCHANGED vars
  <2>1. UNCHANGED <<said, orders, stock, turn, todo>>
    BY <1>1 DEF vars
  <2>2. Grown /\ EntriesKept'
    BY <2>1, SilentEntries DEF ChatInv
  <2>. QED  BY <2>1, <2>2, SamePlaced, SameStock, SameTodo, SameTurns DEF DataInv
<1>2. ASSUME NEW w \in Worker, Turn(w)
      PROVE  DataInv'
  BY <1>2, ReceiveData, HandOverData, AnswerPlainlyData, StartOrderData, NoteChangeData,
     DecideOrderData, RepeatOrderData, PlaceOrderData, FailData DEF Turn
<1>. QED  BY <1>1, <1>2, ActData, SweepData, PauseData DEF Next

LEMMA DataStart == Init => DataInv
<1>. SUFFICES ASSUME Init PROVE DataInv
  OBVIOUS
<1>1. PICK a : a = Answer(None, 0, 0)
  OBVIOUS
<1>2. DOMAIN said = {1} /\ said[1] = a
  <2>1. said = <<a>>
    BY <1>1 DEF Init
  <2>. QED  BY <2>1, Singles
<1>3. a.role = "assistant" /\ ~ IsState(a) /\ ~ IsOrder(a)
  BY <1>1 DEF Answer, IsState, IsOrder
<1>4. EntriesKept
  BY <1>2, <1>3 DEF EntriesKept, EntryKept, DocKept, Asked
<1>5. PlacedKept
  BY DEF Init, PlacedKept
<1>6. AllTurnsKept
  BY DEF Init, AllTurnsKept
<1>7. TodoKept
  BY ChatAssumption DEF Init, TodoKept
<1>8. StockKept
  <2>1. /\ stock = InStore /\ \A p \in DOMAIN InStore : InStore[p] \in Nat
        /\ InStore = [p \in DOMAIN InStore |-> InStore[p]]
    BY ChatAssumption DEF Init
  <2>2. \A p \in DOMAIN InStore : stock[p] \in 0..InStore[p]
    BY <2>1
  <2>3. stock = [p \in DOMAIN InStore |-> stock[p]]
    BY <2>1
  <2>. QED  BY <2>2, <2>3 DEF StockKept
<1>. QED  BY <1>4, <1>5, <1>6, <1>7, <1>8 DEF DataInv

(* What the messages, the states, the turns and the orders have in them,   *)
(* for every catalogue and every message a customer may write.             *)
THEOREM DataInvariance == Spec => []DataInv
BY DataStart, DataNext, Invariance, PTL DEF Spec

-----------------------------------------------------------------------------
(* What follows of it.                                                     *)

(* Answers and orders refer to what is there, and the stock of a product   *)
(* is never below zero, though the chat compares it before it commits      *)
(* (_handle_chat_order) and only the order service locks the rows.         *)
THEOREM TypeCorrect == Spec => []TypeOK
<1>1. ChatInv /\ DataInv => TypeOK
  <2>. SUFFICES ASSUME ChatInv, DataInv PROVE TypeOK
    OBVIOUS
  <2>1. \A p \in DOMAIN stock : stock[p] \in 0..InStore[p]
    <3>1. DOMAIN stock = DOMAIN InStore
      BY DEF DataInv, StockKept
    <3>. QED  BY <3>1 DEF DataInv, StockKept
  <2>2. ASSUME NEW j \in Docs
        PROVE  /\ said[j].from \in 0..(j - 1) /\ said[j].to \in 0..(j - 1)
               /\ IsOrder(said[j]) => said[j].doc.number \in DOMAIN orders
    <3>1. Fits(said[j], j, orders)
      BY DEF ChatInv, SaidKept, Docs
    <3>. QED  BY <3>1 DEF Fits
  <2>3. \A o \in DOMAIN orders : orders[o].from < orders[o].to
    BY DEF ChatInv, OrdersKept
  <2>4. conv.status \in Settable
    BY DEF ChatInv, ConvKept
  <2>5. \A w \in Worker : turn[w] = None \/ turn[w].pc \in {"classify", "extract", "order"}
    BY DEF ChatInv, TurnsKept
  <2>. QED  BY <2>1, <2>2, <2>3, <2>4, <2>5 DEF TypeOK
<1>. QED  BY <1>1, Invariance, DataInvariance, PTL

(* Each line of an order was named by the customer after the last cancelled*)
(* order, whatever the model extracted and however many states it went     *)
(* through (_find_order_state, _combine_current_message_slots).            *)
THEOREM NothingComesBack == Spec => []NothingFromCancelled
<1>1. DataInv => NothingFromCancelled
  <2>. SUFFICES ASSUME DataInv PROVE NothingFromCancelled
    OBVIOUS
  <2>1. ASSUME NEW o \in DOMAIN orders, \A k \in Later(orders[o].to) : InTurn(k),
               NEW i \in DOMAIN orders[o].slots.items
        PROVE  \E k \in Later(orders[o].to) : Names(said[k].msg, orders[o].slots.items[i].p)
    <3>1. PICK items, to : items = orders[o].slots.items /\ to = orders[o].to
      OBVIOUS
    <3>2. items \in Seq(Lines(Named(to))) /\ Complete(items)
      BY <3>1 DEF DataInv, PlacedKept, CartKeptFor, SlotsOver, Over
    <3>3. items[i] \in Lines(Named(to)) /\ Match(items[i].p) # None
      BY <2>1, <3>1, <3>2 DEF Complete
    <3>4. Match(None) = None
      BY NamesAssumption DEF Match
    <3>5. items[i].p \in Named(to)
      BY <3>3, <3>4 DEF Lines
    <3>. QED  BY <2>1, <3>1, <3>3, <3>5 DEF Named
  <2>. QED  BY <2>1 DEF NothingFromCancelled, Later
<1>. QED  BY <1>1, DataInvariance, PTL

(* A question, a correction or a detail of the delivery takes no product   *)
(* out of the cart: only the customer does, by the words the service knows *)
(* (_detect_order_items_operation, _resolve_product_change and the rest of *)
(* the order flow).                                                        *)
THEOREM CartStays == Spec => []CartKept
<1>1. DataInv => CartKept
  <2>. SUFFICES ASSUME DataInv, NEW j \in Docs, said[j].from # 0
                PROVE  LET before == said[said[j].from].doc IN
                         \/ TakesAway(said[said[j].to].msg, before)
                         \/ \E k \in Asked : k <= said[j].to /\ OnlyQuantity(said[k].msg)
                         \/ CartOf(before) \subseteq StillThere(said[j].doc)
    BY DEF CartKept
  <2>1. j \in Answers(said) /\ (IsState(said[j]) \/ IsOrder(said[j])) /\ j \in DOMAIN said
    BY DEF Docs, Answers
  <2>2. Leaves(said[j].from, said[j].to, StillThere(said[j].doc))
    BY <2>1 DEF DataInv, EntriesKept, EntryKept, DocKept
  <2>. QED  BY <2>2 DEF Leaves
<1>. QED  BY <1>1, DataInvariance, PTL
=============================================================================
