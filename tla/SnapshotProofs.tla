--------------------------- MODULE SnapshotProofs ---------------------------
(***************************************************************************)
(* Theorems about Snapshot for any rows a collector may list, in any       *)
(* number and order: versions are compared by a consistent order, of every *)
(* product or installation one newest row survives, what was sent is       *)
(* stable under being sent again, the order of enumeration does not        *)
(* matter, and a difference rebuilds the snapshot it leads to.             *)
(***************************************************************************)
EXTENDS Snapshot, FiniteSetTheorems, NaturalsInduction, WellFoundedInduction, TLAPS

\* A version that may be absent.
IsVersion(v) == v = None \/ v \in Seq(Runs)

Chunks == [number : BOOLEAN, rank : Int]

\* Two sequences of chunks agree up to n, and what follows decides.
DecidedAt(l, r, n) ==
  /\ n <= Len(l) /\ n <= Len(r)
  /\ \A i \in 1..n : l[i] = r[i]
  /\ \/ n = Len(l) /\ n < Len(r)
     \/ n < Len(l) /\ n < Len(r) /\ ChunkLess(l[n + 1], r[n + 1])

Before(l, r) == \E n \in Nat : DecidedAt(l, r, n)

\* A row is a record with the fields of SoftwareEntry.
Fields == {"name", "publisher", "source", "version", "arch", "package", "scope",
           "instance", "location", "identity", "product"}

IsEntry(r) == DOMAIN r = Fields /\ r = [f \in Fields |-> r[f]]

\* Of rows with one key, the first of two wins against the second.
Beats(rows, i, j) ==
  \/ VersionLess(rows[j].version, rows[i].version)
  \/ /\ ~VersionLess(rows[i].version, rows[j].version)
     /\ i < j

Survives(s, rows, i) ==
  \A j \in DOMAIN rows \ {i} :
    identity_key(s, rows[j]) = identity_key(s, rows[i]) => Beats(rows, i, j)

\* A list of rows, perhaps with gaps.
IsList(rows) ==
  /\ \E n \in Nat : DOMAIN rows \subseteq 1..n
  /\ \A i \in DOMAIN rows : IsVersion(rows[i].version)

\* A row of a schema 2 snapshot, and one of a schema 1 snapshot.
Identified(x) ==
  /\ IsEntry(x) /\ IsVersion(x.version)
  /\ x.name # "" /\ x.source \in Sources
  /\ normalize_architecture(x.arch) = x.arch
  /\ x.identity = <<comparison_key(x), x.package, x.scope, x.instance>>
  /\ x.product = comparison_key(x)
  /\ None \notin {x.identity, x.scope, x.instance}
  /\ x.location = None

Legacy(x) ==
  /\ IsEntry(x) /\ IsVersion(x.version)
  /\ x.name # ""
  /\ normalize_architecture(x.arch) = x.arch
  /\ x.identity = None

\* The rows of a snapshot: one for each key.
IsSnapshot(s, S) ==
  /\ IsFiniteSet(S)
  /\ \A x \in S : IF s = 2 THEN Identified(x) ELSE Legacy(x)
  /\ \A x, y \in S : identity_key(s, x) = identity_key(s, y) => x = y

SnapshotInv ==
  /\ schema \in {1, 2}
  /\ listed \in Seq(Rows) /\ Len(listed) <= MaxListed + MaxCompared
  /\ complete \subseteq Sources
  /\ IsSnapshot(schema, previous)

-----------------------------------------------------------------------------
(* Versions *)

\* A set of natural numbers has a least element.
LEMMA LeastNatural ==
  ASSUME NEW T \in SUBSET Nat, T # {}
  PROVE  \E x \in T : \A y \in T : x <= y
<1>1. IsWellFoundedOn(OpToRel(<, Nat), Nat)
  BY NatLessThanWellFounded
<1>2. PICK x \in T : \A y \in T : ~ (<<y, x>> \in OpToRel(<, Nat))
  BY <1>1, WFMin
<1>3. \A y \in T : <<y, x>> \in Nat \X Nat
  OBVIOUS
<1>4. \A y \in T : ~ (y < x)
  BY <1>2, <1>3 DEF OpToRel
<1>. QED
  BY <1>4

\* Chunks are ordered strictly and totally.
LEMMA ChunkOrder ==
  /\ \A a \in Chunks : ~ChunkLess(a, a)
  /\ \A a, b \in Chunks : a = b \/ ChunkLess(a, b) \/ ChunkLess(b, a)
  /\ \A a, b, c \in Chunks : ChunkLess(a, b) /\ ChunkLess(b, c) => ChunkLess(a, c)
BY DEF Chunks, ChunkLess

\* version_chunks has a chunk for each run.
LEMMA ChunksOf ==
  ASSUME NEW v \in Seq(Runs)
  PROVE  version_chunks(v) \in Seq(Chunks) /\ Len(version_chunks(v)) = Len(v)
<1>1. \A run \in Runs : Chunk(run) \in Chunks
  BY SnapshotAssumption DEF Runs, Chunk, Chunks
<1>2. DOMAIN v = 1..Len(v) /\ Len(v) \in Nat /\ \A i \in 1..Len(v) : v[i] \in Runs
  OBVIOUS
<1>3. version_chunks(v) = [i \in 1..Len(v) |-> Chunk(v[i])]
  BY <1>2 DEF version_chunks
<1>. QED
  BY <1>1, <1>2, <1>3

\* Comparing chunk by chunk is irreflexive.
LEMMA BeforeIrreflexive ==
  ASSUME NEW l \in Seq(Chunks)
  PROVE  ~Before(l, l)
BY ChunkOrder DEF Before, DecidedAt

\* Two different sequences of chunks have an order.
LEMMA BeforeTotal ==
  ASSUME NEW l \in Seq(Chunks), NEW r \in Seq(Chunks)
  PROVE  l = r \/ Before(l, r) \/ Before(r, l)
<1> DEFINE differ == {i \in 1..Len(l) : i <= Len(r) /\ l[i] # r[i]}
<1>1. CASE differ = {}
  <2>1. CASE Len(l) = Len(r)
    BY <1>1, <2>1
  <2>2. CASE Len(l) < Len(r)
    <3>1. DecidedAt(l, r, Len(l))
      BY <1>1, <2>2 DEF DecidedAt
    <3>. QED
      BY <3>1 DEF Before
  <2>3. CASE Len(r) < Len(l)
    <3>1. DecidedAt(r, l, Len(r))
      BY <1>1, <2>3 DEF DecidedAt
    <3>. QED
      BY <3>1 DEF Before
  <2>. QED
    BY <2>1, <2>2, <2>3
<1>2. CASE differ # {}
  <2>1. differ \in SUBSET Nat
    OBVIOUS
  <2>2. PICK m \in differ : \A y \in differ : m <= y
    BY <1>2, <2>1, LeastNatural
  <2>3. m \in 1..Len(l) /\ m \in 1..Len(r) /\ l[m] # r[m]
    BY <2>2
  <2>. DEFINE n == m - 1
  <2>4. n \in Nat /\ n + 1 = m /\ n < Len(l) /\ n < Len(r)
    BY <2>3
  <2>5. \A i \in 1..n : l[i] = r[i]
    BY <2>2, <2>3
  <2>6. l[m] \in Chunks /\ r[m] \in Chunks
    BY <2>3
  <2>7. CASE ChunkLess(l[m], r[m])
    BY <2>4, <2>5, <2>7 DEF Before, DecidedAt
  <2>8. CASE ChunkLess(r[m], l[m])
    BY <2>4, <2>5, <2>8 DEF Before, DecidedAt
  <2>. QED
    BY <2>3, <2>6, <2>7, <2>8, ChunkOrder
<1>. QED
  BY <1>1, <1>2

\* Comparing chunk by chunk is transitive.
LEMMA BeforeTransitive ==
  ASSUME NEW a \in Seq(Chunks), NEW b \in Seq(Chunks), NEW c \in Seq(Chunks),
         Before(a, b), Before(b, c)
  PROVE  Before(a, c)
<1>1. PICK n \in Nat : DecidedAt(a, b, n)
  BY DEF Before
<1>2. PICK m \in Nat : DecidedAt(b, c, m)
  BY DEF Before
<1>3. Len(a) \in Nat /\ Len(b) \in Nat /\ Len(c) \in Nat
  OBVIOUS
<1>4. CASE n < m
  <2>1. \A i \in 1..n : a[i] = c[i]
    BY <1>1, <1>2, <1>4 DEF DecidedAt
  <2>2. n + 1 \in 1..m /\ n < Len(c) /\ c[n + 1] = b[n + 1]
    BY <1>2, <1>3, <1>4 DEF DecidedAt
  <2>3. DecidedAt(a, c, n)
    BY <1>1, <1>3, <2>1, <2>2 DEF DecidedAt
  <2>. QED
    BY <2>3 DEF Before
<1>5. CASE m < n
  <2>1. \A i \in 1..m : a[i] = c[i]
    BY <1>1, <1>2, <1>5 DEF DecidedAt
  <2>2. m + 1 \in 1..n /\ m < Len(a) /\ m < Len(b) /\ a[m + 1] = b[m + 1]
    BY <1>1, <1>3, <1>5 DEF DecidedAt
  <2>3. DecidedAt(a, c, m)
    BY <1>2, <1>3, <2>1, <2>2 DEF DecidedAt
  <2>. QED
    BY <2>3 DEF Before
<1>6. CASE n = m
  <2>1. \A i \in 1..n : a[i] = c[i]
    BY <1>1, <1>2, <1>6 DEF DecidedAt
  <2>2. n < Len(b) /\ n < Len(c) /\ ChunkLess(b[n + 1], c[n + 1])
    BY <1>1, <1>2, <1>3, <1>6 DEF DecidedAt
  <2>3. CASE n = Len(a)
    BY <1>6, <2>1, <2>2, <2>3 DEF Before, DecidedAt
  <2>4. CASE n < Len(a) /\ ChunkLess(a[n + 1], b[n + 1])
    <3>1. n + 1 \in 1..Len(a) /\ n + 1 \in 1..Len(b) /\ n + 1 \in 1..Len(c)
      BY <1>3, <2>2, <2>4
    <3>2. ChunkLess(a[n + 1], c[n + 1])
      <4>1. a[n + 1] \in Chunks /\ b[n + 1] \in Chunks /\ c[n + 1] \in Chunks
        BY <3>1
      <4>. QED
        BY <2>2, <2>4, <4>1, ChunkOrder
    <3>3. DecidedAt(a, c, n)
      BY <1>3, <2>1, <2>2, <2>4, <3>2 DEF DecidedAt
    <3>. QED
      BY <3>3 DEF Before
  <2>. QED
    BY <1>1, <2>3, <2>4 DEF DecidedAt
<1>. QED
  BY <1>4, <1>5, <1>6

\* compare_versions decides by the first chunk that differs, then by length.
LEMMA LessMeans ==
  ASSUME NEW u \in Seq(Runs), NEW v \in Seq(Runs), u # None, v # None
  PROVE  VersionLess(u, v) <=> Before(version_chunks(u), version_chunks(v))
<1> DEFINE l == version_chunks(u)
           r == version_chunks(v)
           differ == {i \in DOMAIN l \cap DOMAIN r : l[i] # r[i]}
           first == CHOOSE i \in differ : \A j \in differ : i <= j
<1>1. l \in Seq(Chunks) /\ r \in Seq(Chunks)
  BY ChunksOf
<1>2. VersionLess(u, v) <=> IF differ = {} THEN Len(l) < Len(r)
                            ELSE ChunkLess(l[first], r[first])
  BY DEF VersionLess
<1>. HIDE DEF l, r
<1>3. /\ Len(l) \in Nat /\ Len(r) \in Nat
      /\ DOMAIN l = 1..Len(l) /\ DOMAIN r = 1..Len(r)
  BY <1>1
<1>4. ASSUME differ = {} PROVE VersionLess(u, v) <=> Before(l, r)
  <2>1. \A i \in 1..Len(l) : i <= Len(r) => l[i] = r[i]
    BY <1>3, <1>4
  <2>2. ASSUME Len(l) < Len(r) PROVE Before(l, r)
    <3>1. DecidedAt(l, r, Len(l))
      BY <1>3, <2>1, <2>2 DEF DecidedAt
    <3>. QED
      BY <1>3, <3>1 DEF Before
  <2>3. ASSUME NEW n \in Nat, DecidedAt(l, r, n) PROVE Len(l) < Len(r)
    <3>1. CASE n < Len(l) /\ n < Len(r) /\ ChunkLess(l[n + 1], r[n + 1])
      <4>1. n + 1 \in 1..Len(l) /\ n + 1 <= Len(r)
        BY <1>3, <3>1
      <4>2. l[n + 1] = r[n + 1] /\ l[n + 1] \in Chunks
        BY <1>1, <2>1, <4>1
      <4>. QED
        BY <3>1, <4>2, ChunkOrder
    <3>. QED
      BY <2>3, <3>1 DEF DecidedAt
  <2>. QED
    BY <1>2, <1>4, <2>2, <2>3 DEF Before
<1>5. ASSUME differ # {} PROVE VersionLess(u, v) <=> Before(l, r)
  <2>1. differ \in SUBSET Nat
    BY <1>3
  <2>2. \E i \in differ : \A j \in differ : i <= j
    BY <1>5, <2>1, LeastNatural
  <2>3. first \in differ /\ \A j \in differ : first <= j
    BY <2>2
  <2>0. VersionLess(u, v) <=> ChunkLess(l[first], r[first])
    BY <1>2, <1>5
  <2>. HIDE DEF first
  <2>4. /\ first \in 1..Len(l) /\ first \in 1..Len(r) /\ l[first] # r[first]
        /\ \A i \in 1..(first - 1) : l[i] = r[i]
    <3>1. first \in 1..Len(l) /\ first \in 1..Len(r) /\ l[first] # r[first]
      BY <1>3, <2>3
    <3>2. ASSUME NEW i \in 1..(first - 1) PROVE l[i] = r[i]
      <4>1. i \in 1..Len(l) /\ i \in 1..Len(r) /\ ~(first <= i)
        BY <1>3, <3>1
      <4>. QED
        BY <1>3, <2>3, <4>1
    <3>. QED
      BY <3>1, <3>2
  <2>5. ASSUME ChunkLess(l[first], r[first]) PROVE Before(l, r)
    <3>1. DecidedAt(l, r, first - 1)
      BY <1>3, <2>4, <2>5 DEF DecidedAt
    <3>. QED
      BY <2>4, <3>1 DEF Before
  <2>6. ASSUME NEW n \in Nat, DecidedAt(l, r, n) PROVE ChunkLess(l[first], r[first])
    <3>1. n < first
      <4>1. n <= Len(l) /\ n <= Len(r) /\ \A i \in 1..n : l[i] = r[i]
        BY <2>6 DEF DecidedAt
      <4>2. first \notin 1..n
        BY <2>4, <4>1
      <4>. QED
        BY <2>4, <4>2
    <3>2. n < Len(l) /\ n < Len(r) /\ ChunkLess(l[n + 1], r[n + 1])
      BY <1>3, <2>4, <2>6, <3>1 DEF DecidedAt
    <3>3. n + 1 = first
      <4>1. n + 1 \in 1..Len(l) /\ n + 1 \in 1..Len(r)
        BY <1>3, <3>2
      <4>2. l[n + 1] # r[n + 1]
        BY <1>1, <3>2, <4>1, ChunkOrder
      <4>. QED
        BY <2>4, <3>1, <4>1, <4>2
    <3>. QED
      BY <3>2, <3>3
  <2>. QED
    BY <2>0, <2>5, <2>6 DEF Before
<1>. QED
  BY <1>4, <1>5 DEF l, r

\* compare_versions is a consistent order: no version is below itself, the
\* order is transitive, and versions that compare equal compare alike with
\* every other.  The sort of normalize relies on it.
THEOREM VersionsAreOrdered ==
  ASSUME NEW u, NEW v, NEW w, IsVersion(u), IsVersion(v), IsVersion(w)
  PROVE  /\ ~VersionLess(u, u)
         /\ VersionLess(u, v) /\ VersionLess(v, w) => VersionLess(u, w)
         /\ VersionLess(u, w) => VersionLess(u, v) \/ VersionLess(v, w)
<1>1. \A x : ~VersionLess(x, None) /\ (VersionLess(None, x) <=> x # None)
  BY DEF VersionLess
<1>2. u # None => ~VersionLess(u, u)
  BY LessMeans, ChunksOf, BeforeIrreflexive DEF IsVersion
<1>3. CASE u # None /\ v # None /\ w # None
  <2>. DEFINE a == version_chunks(u)
              b == version_chunks(v)
              c == version_chunks(w)
  <2>1. a \in Seq(Chunks) /\ b \in Seq(Chunks) /\ c \in Seq(Chunks)
    BY <1>3, ChunksOf DEF IsVersion
  <2>2. /\ VersionLess(u, u) <=> Before(a, a)
        /\ VersionLess(u, v) <=> Before(a, b)
        /\ VersionLess(v, w) <=> Before(b, c)
        /\ VersionLess(u, w) <=> Before(a, c)
    BY <1>3, LessMeans DEF IsVersion
  <2>. HIDE DEF a, b, c
  <2>3. a = b \/ Before(a, b) \/ Before(b, a)
    BY <2>1, BeforeTotal
  <2>. QED
    BY <2>1, <2>2, <2>3, BeforeIrreflexive, BeforeTransitive
<1>4. CASE u = None /\ (v = None \/ v # None)
  BY <1>1, <1>4
<1>5. CASE u # None /\ w = None
  <2>1. ~VersionLess(u, w) /\ ~VersionLess(v, w)
    BY <1>1, <1>5
  <2>. QED
    BY <1>5, <1>2, <2>1
<1>6. CASE u # None /\ v = None
  BY <1>1, <1>2, <1>6
<1>. QED
  BY <1>3, <1>4, <1>5, <1>6

-----------------------------------------------------------------------------
(* What deduplicate_software keeps *)

\* Beating is irreflexive in effect, transitive and total on different places.
LEMMA BeatsOrder ==
  ASSUME NEW rows, IsList(rows),
         NEW i \in DOMAIN rows, NEW j \in DOMAIN rows, NEW k \in DOMAIN rows
  PROVE  /\ i # j => Beats(rows, i, j) \/ Beats(rows, j, i)
         /\ ~(Beats(rows, i, j) /\ Beats(rows, j, i))
         /\ Beats(rows, i, j) /\ Beats(rows, j, k) => Beats(rows, i, k)
         /\ Beats(rows, i, j) => ~VersionLess(rows[i].version, rows[j].version)
<1>1. i \in Nat /\ j \in Nat /\ k \in Nat
  BY DEF IsList
<1> DEFINE u == rows[i].version
           v == rows[j].version
           w == rows[k].version
<1>2. IsVersion(u) /\ IsVersion(v) /\ IsVersion(w)
  BY DEF IsList
<1>3. /\ Beats(rows, i, j) <=> VersionLess(v, u) \/ (~VersionLess(u, v) /\ i < j)
      /\ Beats(rows, j, i) <=> VersionLess(u, v) \/ (~VersionLess(v, u) /\ j < i)
      /\ Beats(rows, j, k) <=> VersionLess(w, v) \/ (~VersionLess(v, w) /\ j < k)
      /\ Beats(rows, i, k) <=> VersionLess(w, u) \/ (~VersionLess(u, w) /\ i < k)
  BY DEF Beats
<1>. HIDE DEF u, v, w
<1>4. ~VersionLess(u, u) /\ ~VersionLess(v, v)
  BY <1>2, VersionsAreOrdered
<1>5. ~(VersionLess(u, v) /\ VersionLess(v, u))
  BY <1>2, <1>4, VersionsAreOrdered
<1>6. /\ VersionLess(w, v) /\ VersionLess(v, u) => VersionLess(w, u)
      /\ VersionLess(w, v) => VersionLess(w, u) \/ VersionLess(u, v)
      /\ VersionLess(v, u) => VersionLess(v, w) \/ VersionLess(w, u)
      /\ VersionLess(u, w) => VersionLess(u, v) \/ VersionLess(v, w)
      /\ VersionLess(u, v) /\ VersionLess(v, w) => VersionLess(u, w)
  BY <1>2, VersionsAreOrdered
<1>7. i # j => Beats(rows, i, j) \/ Beats(rows, j, i)
  BY <1>1, <1>3
<1>8. ~(Beats(rows, i, j) /\ Beats(rows, j, i))
  BY <1>1, <1>3, <1>5
<1>9. Beats(rows, i, j) => ~VersionLess(u, v)
  BY <1>3, <1>5
<1>10. ASSUME Beats(rows, i, j), Beats(rows, j, k) PROVE Beats(rows, i, k)
  <2>1. CASE VersionLess(w, u)
    BY <1>3, <2>1
  <2>2. CASE ~VersionLess(w, u)
    <3>1. ~VersionLess(w, v)
      BY <1>3, <1>6, <1>9, <1>10, <2>2
    <3>2. ~VersionLess(v, w) /\ j < k
      BY <1>3, <1>10, <3>1
    <3>3. ~VersionLess(v, u) /\ ~VersionLess(u, v) /\ i < j
      BY <1>3, <1>6, <1>10, <2>2, <3>2
    <3>. QED
      BY <1>1, <1>3, <1>6, <3>2, <3>3
  <2>. QED
    BY <2>1, <2>2
<1>. QED
  BY <1>7, <1>8, <1>9, <1>10 DEF u, v

\* Of every key one row survives.
LEMMA SurvivorExists ==
  ASSUME NEW s, NEW rows, IsList(rows), NEW k \in DOMAIN rows
  PROVE  \E i \in DOMAIN rows : /\ identity_key(s, rows[i]) = identity_key(s, rows[k])
                                /\ Survives(s, rows, i)
<1> DEFINE Same == {i \in DOMAIN rows : identity_key(s, rows[i]) = identity_key(s, rows[k])}
           Best(n, i) == i \in Same /\ i <= n /\ \A j \in Same : j <= n /\ j # i => Beats(rows, i, j)
           Fails == {n \in Nat : (\E i \in Same : i <= n) /\ ~\E i \in Same : Best(n, i)}
<1>1. PICK N \in Nat : DOMAIN rows \subseteq 1..N
  BY DEF IsList
<1>2. Same \subseteq DOMAIN rows /\ k \in Same /\ \A i \in Same : i \in Nat /\ 1 <= i /\ i <= N
  BY <1>1
<1>3. \A i, j \in Same : i # j => Beats(rows, i, j) \/ Beats(rows, j, i)
  BY <1>2, BeatsOrder
<1>4. \A i, j, m \in Same : Beats(rows, i, j) /\ Beats(rows, j, m) => Beats(rows, i, m)
  BY <1>2, BeatsOrder
<1>. HIDE DEF Same
<1>5. Fails = {}
  <2>. SUFFICES ASSUME Fails # {} PROVE FALSE
    OBVIOUS
  <2>1. Fails \in SUBSET Nat
    OBVIOUS
  <2>2. PICK m \in Fails : \A n \in Fails : m <= n
    BY <2>1, LeastNatural
  <2>3. /\ m \in Nat /\ (\E i \in Same : i <= m) /\ (\A i \in Same : ~Best(m, i))
    BY <2>2
  <2>4. m # 0
    BY <1>2, <2>3
  <2>5. m - 1 \in Nat /\ m - 1 \notin Fails
    BY <2>2, <2>3, <2>4
  <2>6. m \in Nat
    BY <2>3
  <2>7. \A j \in Nat : /\ j <= m => j = m \/ j <= m - 1
                       /\ j <= m - 1 => j <= m /\ j # m
    BY <2>6
  <2>8. \A j \in Same : /\ j <= m => j = m \/ j <= m - 1
                        /\ j <= m - 1 => j <= m /\ j # m
    <3>1. \A j \in Same : j \in Nat
      BY <1>2
    <3>. QED
      BY <2>7, <3>1
  <2>9. m <= m
    BY <2>6
  <2>10. CASE \E i \in Same : i <= m - 1
    <3>1. PICK b \in Same : Best(m - 1, b)
      BY <2>5, <2>10
    <3>2. CASE m \notin Same
      <4>1. \A j \in Same : j <= m => j <= m - 1
        BY <2>8, <3>2
      <4>2. Best(m, b)
        BY <2>8, <3>1, <4>1
      <4>. QED
        BY <2>3, <4>2
    <3>3. CASE m \in Same
      <4>1. b # m /\ b <= m
        BY <2>8, <3>1
      <4>2. \A j \in Same : j <= m /\ j # m => j <= m - 1
        BY <2>8
      <4>3. CASE Beats(rows, b, m)
        <5>1. Best(m, b)
          BY <3>1, <4>1, <4>2, <4>3
        <5>. QED
          BY <2>3, <5>1
      <4>4. CASE Beats(rows, m, b)
        <5>1. ASSUME NEW j \in Same, j <= m, j # m PROVE Beats(rows, m, j)
          <6>1. j = b \/ Beats(rows, b, j)
            BY <3>1, <4>2, <5>1
          <6>. QED
            BY <1>4, <3>3, <4>4, <6>1
        <5>2. Best(m, m)
          BY <2>9, <3>3, <5>1
        <5>. QED
          BY <2>3, <3>3, <5>2
      <4>. QED
        BY <1>3, <3>3, <4>1, <4>3, <4>4
    <3>. QED
      BY <3>2, <3>3
  <2>11. CASE ~\E i \in Same : i <= m - 1
    <3>1. PICK i \in Same : i <= m
      BY <2>3
    <3>2. \A j \in Same : j <= m => j = m
      BY <2>8, <2>11
    <3>3. Best(m, i)
      BY <3>1, <3>2
    <3>. QED
      BY <2>3, <3>3
  <2>. QED
    BY <2>10, <2>11
<1>6. PICK i \in Same : Best(N, i)
  BY <1>2, <1>5
<1>7. \A j \in Same : j # i => Beats(rows, i, j)
  BY <1>2, <1>6
<1>. QED
  BY <1>7 DEF Same, Survives

\* Of every key one row is kept, and none of that key is newer.
LEMMA DedupFacts ==
  ASSUME NEW s, NEW rows, IsList(rows)
  PROVE  LET kept == deduplicate_software(s, rows)
         IN /\ kept = {rows[i] : i \in {i \in DOMAIN rows : Survives(s, rows, i)}}
            /\ IsFiniteSet(kept)
            /\ \A x, y \in kept : identity_key(s, x) = identity_key(s, y) => x = y
            /\ \A k \in DOMAIN rows : \E x \in kept :
                 /\ identity_key(s, x) = identity_key(s, rows[k])
                 /\ ~VersionLess(x.version, rows[k].version)
<1> DEFINE kept == deduplicate_software(s, rows)
           Left == {i \in DOMAIN rows : Survives(s, rows, i)}
<1>1. kept = {rows[i] : i \in Left}
  BY DEF deduplicate_software, Survives, Beats
<1>2. IsFiniteSet(kept)
  <2>1. PICK N \in Nat : DOMAIN rows \subseteq 1..N
    BY DEF IsList
  <2>2. IsFiniteSet(1..N)
    BY FS_Interval
  <2>3. IsFiniteSet(Left)
    BY <2>1, <2>2, FS_Subset
  <2>. DEFINE f == [i \in Left |-> rows[i]]
  <2>4. f \in Surjection(Left, kept)
    BY <1>1 DEF Surjection
  <2>. QED
    BY <2>3, <2>4, FS_Surjection
<1>3. ASSUME NEW x \in kept, NEW y \in kept, identity_key(s, x) = identity_key(s, y)
      PROVE  x = y
  <2>1. PICK i \in Left : x = rows[i]
    BY <1>1
  <2>2. PICK j \in Left : y = rows[j]
    BY <1>1
  <2>3. i # j => Beats(rows, i, j) /\ Beats(rows, j, i)
    BY <1>3, <2>1, <2>2 DEF Survives
  <2>. QED
    BY <2>1, <2>2, <2>3, BeatsOrder
<1>4. ASSUME NEW k \in DOMAIN rows
      PROVE  \E x \in kept : /\ identity_key(s, x) = identity_key(s, rows[k])
                             /\ ~VersionLess(x.version, rows[k].version)
  <2>1. PICK i \in DOMAIN rows : /\ identity_key(s, rows[i]) = identity_key(s, rows[k])
                                 /\ Survives(s, rows, i)
    BY SurvivorExists
  <2>2. rows[i] \in kept
    BY <1>1, <2>1
  <2>3. ~VersionLess(rows[i].version, rows[k].version)
    <3>1. i # k => Beats(rows, i, k)
      BY <2>1 DEF Survives
    <3>2. ~VersionLess(rows[k].version, rows[k].version)
      BY VersionsAreOrdered DEF IsList
    <3>. QED
      BY <3>1, <3>2, BeatsOrder
  <2>. QED
    BY <2>1, <2>2, <2>3
<1>. QED
  BY <1>1, <1>2, <1>3, <1>4

-----------------------------------------------------------------------------
(* One row *)

\* A row listed by a collector has the fields of SoftwareEntry.
LEMMA ListedRow ==
  ASSUME NEW r \in Rows
  PROVE  /\ IsEntry(r) /\ r.identity = None /\ IsVersion(r.version)
         /\ r.source \in Sources
<1>1. r = [name |-> r.name, publisher |-> r.publisher, source |-> r.source,
           version |-> r.version, arch |-> r.arch, package |-> r.package,
           scope |-> r.scope, instance |-> r.instance, location |-> r.location,
           identity |-> None, product |-> None]
  BY RowsAssumption
<1>2. r.identity = None /\ r.product = None
  BY <1>1
<1>. QED
  BY <1>1, <1>2, RowsAssumption DEF IsEntry, Fields, IsVersion, Sources

\* Rows with equal fields are equal.
LEMMA SameEntry ==
  ASSUME NEW x, NEW y, IsEntry(x), IsEntry(y),
         x.name = y.name, x.publisher = y.publisher, x.source = y.source,
         x.version = y.version, x.arch = y.arch, x.package = y.package,
         x.scope = y.scope, x.instance = y.instance, x.location = y.location,
         x.identity = y.identity, x.product = y.product
  PROVE  x = y
<1>1. \A f \in Fields : x[f] = y[f]
  BY DEF Fields
<1>. QED
  BY <1>1 DEF IsEntry

\* What is in lower case stays as it is.
LEMMA LoweredOnce ==
  ASSUME NEW word
  PROVE  Lowered(Lowered(word)) = Lowered(word)
BY LowerAssumption DEF Lowered

\* The architecture has one spelling once it is normalised.
LEMMA ArchitectureNormal ==
  ASSUME NEW a
  PROVE  normalize_architecture(normalize_architecture(a)) = normalize_architecture(a)
<1> DEFINE b == Lowered(a)
<1>1. Lowered(b) = b
  BY LoweredOnce
<1>2. Lowered("x86_64") = "x86_64" /\ Lowered("aarch64") = "aarch64"
  BY LowerAssumption DEF Lowered
<1>3. normalize_architecture(a) = CASE b \in {"amd64", "x64"} -> "x86_64"
                                    [] b = "arm64"            -> "aarch64"
                                    [] OTHER                  -> b
  BY DEF normalize_architecture
<1>. HIDE DEF b
<1>. QED
  BY <1>1, <1>2, <1>3 DEF normalize_architecture

\* SoftwareEntry::normalize changes the architecture only.
LEMMA NormalizedFields ==
  ASSUME NEW r, IsEntry(r)
  PROVE  LET x == NormalizedRow(r)
         IN /\ IsEntry(x) /\ x.arch = normalize_architecture(r.arch)
            /\ x.name = r.name /\ x.publisher = r.publisher /\ x.source = r.source
            /\ x.version = r.version /\ x.package = r.package /\ x.scope = r.scope
            /\ x.instance = r.instance /\ x.location = r.location
            /\ x.identity = r.identity /\ x.product = r.product
            /\ DefaultInstance(x) = DefaultInstance(r) /\ DefaultScope(x) = DefaultScope(r)
            /\ x.arch = r.arch => x = r
<1> DEFINE x == NormalizedRow(r)
<1>1. IsEntry(x)
  BY DEF NormalizedRow, IsEntry, Fields
<1>2. /\ x.arch = normalize_architecture(r.arch)
      /\ x.name = r.name /\ x.publisher = r.publisher /\ x.source = r.source
      /\ x.version = r.version /\ x.package = r.package /\ x.scope = r.scope
      /\ x.instance = r.instance /\ x.location = r.location
      /\ x.identity = r.identity /\ x.product = r.product
  BY DEF NormalizedRow, IsEntry, Fields
<1>. HIDE DEF x
<1>3. DefaultInstance(x) = DefaultInstance(r) /\ DefaultScope(x) = DefaultScope(r)
  BY <1>2 DEF DefaultInstance, DefaultScope
<1>4. x.arch = r.arch => x = r
  BY <1>1, <1>2, SameEntry
<1>. QED
  BY <1>1, <1>2, <1>3, <1>4 DEF x

\* What ensure_installation_identity makes of a row.
LEMMA EnsuredFields ==
  ASSUME NEW r, IsEntry(r)
  PROVE  LET x == ensure_installation_identity(r)
             key == comparison_key(NormalizedRow(r))
         IN /\ IsEntry(x) /\ x.arch = normalize_architecture(r.arch)
            /\ x.name = r.name /\ x.publisher = r.publisher /\ x.source = r.source
            /\ x.version = r.version /\ x.package = r.package /\ x.location = None
            /\ x.scope = IF r.scope = None THEN DefaultScope(r) ELSE r.scope
            /\ x.instance = IF r.instance = None THEN DefaultInstance(r) ELSE r.instance
            /\ x.identity = <<key, x.package, x.scope, x.instance>>
            /\ x.product = key
<1> DEFINE n == NormalizedRow(r)
           instance == IF r.instance = None THEN DefaultInstance(r) ELSE r.instance
           scope == IF r.scope = None THEN DefaultScope(r) ELSE r.scope
           key == comparison_key(n)
           id == <<key, n.package, scope, instance>>
           x == [n EXCEPT !.scope = scope, !.instance = instance, !.identity = id,
                          !.product = key, !.location = None]
<1>1. /\ IsEntry(n) /\ n.arch = normalize_architecture(r.arch)
      /\ n.name = r.name /\ n.publisher = r.publisher /\ n.source = r.source
      /\ n.version = r.version /\ n.package = r.package
      /\ n.scope = r.scope /\ n.instance = r.instance
      /\ DefaultInstance(n) = DefaultInstance(r) /\ DefaultScope(n) = DefaultScope(r)
  BY NormalizedFields
<1>2. ensure_installation_identity(r) = x
  BY <1>1 DEF ensure_installation_identity
<1>. HIDE DEF instance, scope, key, id, n
<1>3. /\ x.name = n.name /\ x.publisher = n.publisher /\ x.source = n.source
      /\ x.version = n.version /\ x.arch = n.arch /\ x.package = n.package
      /\ x.scope = scope /\ x.instance = instance /\ x.location = None
      /\ x.identity = id /\ x.product = key
  BY <1>1 DEF IsEntry, Fields
<1>4. IsEntry(x)
  BY <1>1 DEF IsEntry, Fields
<1>. HIDE DEF x
<1>. QED
  BY <1>1, <1>2, <1>3, <1>4 DEF instance, scope, key, id, n

\* A row that has its identity keeps it.
LEMMA IdentityIsStable ==
  ASSUME NEW x, Identified(x)
  PROVE  ensure_installation_identity(x) = x /\ WithIdentity(x) = x
<1>1. NormalizedRow(x) = x
  BY NormalizedFields DEF Identified
<1>2. x.instance # None /\ x.scope # None /\ x.identity # None
  BY DEF Identified
<1>3. ensure_installation_identity(x) = x
  <2>. DEFINE y == ensure_installation_identity(x)
  <2>1. /\ IsEntry(x) /\ x.location = None /\ x.arch = normalize_architecture(x.arch)
        /\ x.identity = <<comparison_key(x), x.package, x.scope, x.instance>>
        /\ x.product = comparison_key(x)
    BY DEF Identified
  <2>2. /\ IsEntry(y) /\ y.arch = x.arch /\ y.name = x.name /\ y.publisher = x.publisher
        /\ y.source = x.source /\ y.version = x.version /\ y.package = x.package
        /\ y.location = None /\ y.scope = x.scope /\ y.instance = x.instance
        /\ y.identity = <<comparison_key(x), y.package, y.scope, y.instance>>
        /\ y.product = comparison_key(x)
    BY <1>1, <1>2, <2>1, EnsuredFields
  <2>. HIDE DEF y
  <2>3. y.identity = x.identity /\ y.product = x.product
    BY <2>1, <2>2
  <2>4. y = x
    BY <2>1, <2>2, <2>3, SameEntry
  <2>. QED
    BY <2>4 DEF y
<1>. QED
  BY <1>2, <1>3 DEF WithIdentity

\* The identity that the snapshot gives a listed row.
LEMMA OwnIdentity ==
  ASSUME NEW r \in Rows, r.name # ""
  PROVE  LET x == WithIdentity(r)
         IN /\ Identified(x)
            /\ x.name = r.name /\ x.publisher = r.publisher /\ x.source = r.source
            /\ x.version = r.version /\ x.package = r.package
            /\ x.arch = normalize_architecture(r.arch)
            /\ x.scope = IF r.scope = None THEN DefaultScope(r) ELSE r.scope
            /\ x.instance = <<"endpoint", IF r.instance = None THEN DefaultInstance(r)
                                          ELSE r.instance>>
<1> DEFINE e == ensure_installation_identity(r)
           y == [e EXCEPT !.instance = <<"endpoint", @>>]
           x == WithIdentity(r)
<1>1. /\ IsEntry(r) /\ r.identity = None /\ IsVersion(r.version)
      /\ r.source \in Sources
  BY ListedRow
<1>2. x = ensure_installation_identity(y)
  BY <1>1 DEF WithIdentity
<1>3. /\ IsEntry(e) /\ e.name = r.name /\ e.publisher = r.publisher /\ e.source = r.source
      /\ e.version = r.version /\ e.package = r.package
      /\ e.arch = normalize_architecture(r.arch) /\ e.location = None
      /\ e.instance = IF r.instance = None THEN DefaultInstance(r) ELSE r.instance
      /\ e.scope = IF r.scope = None THEN DefaultScope(r) ELSE r.scope
  BY <1>1, EnsuredFields
<1>4. /\ None \notin {"system", "runtime", x.instance, x.identity}
      /\ <<"endpoint", e.instance>> # None
  BY IdentityAssumption
<1>5. e.scope # None
  BY <1>3, <1>4 DEF DefaultScope
<1>. HIDE DEF e
<1>6. /\ IsEntry(y) /\ y.name = r.name /\ y.publisher = r.publisher /\ y.source = r.source
      /\ y.version = r.version /\ y.package = r.package
      /\ y.arch = normalize_architecture(r.arch) /\ y.scope = e.scope
      /\ y.instance = <<"endpoint", e.instance>>
  BY <1>3 DEF IsEntry, Fields
<1>. HIDE DEF y
<1> DEFINE n == NormalizedRow(y)
           key == comparison_key(n)
           z == ensure_installation_identity(y)
<1>7. /\ IsEntry(z) /\ z.name = y.name /\ z.publisher = y.publisher /\ z.source = y.source
      /\ z.version = y.version /\ z.package = y.package /\ z.location = None
      /\ z.arch = normalize_architecture(y.arch)
      /\ z.scope = IF y.scope = None THEN DefaultScope(y) ELSE y.scope
      /\ z.instance = IF y.instance = None THEN DefaultInstance(y) ELSE y.instance
      /\ z.product = key
      /\ z.identity = <<key, z.package, z.scope, z.instance>>
  BY <1>6, EnsuredFields
<1>8. z.scope = e.scope /\ z.instance = <<"endpoint", e.instance>> /\ z.arch = y.arch
  BY <1>4, <1>5, <1>6, <1>7, ArchitectureNormal
<1>9. /\ n.name = y.name /\ n.publisher = y.publisher /\ n.source = y.source
      /\ n.arch = normalize_architecture(y.arch)
  BY <1>6, NormalizedFields
<1>. HIDE DEF n, z
<1>10. key = comparison_key(z)
  BY <1>7, <1>9 DEF comparison_key
<1>. HIDE DEF key
<1>11. normalize_architecture(z.arch) = z.arch
  BY <1>7, ArchitectureNormal
<1>12. x = z
  BY <1>2 DEF z
<1>. HIDE DEF x
<1>13. Identified(x)
  BY <1>1, <1>4, <1>5, <1>6, <1>7, <1>8, <1>10, <1>11, <1>12 DEF Identified
<1>. QED
  BY <1>3, <1>6, <1>7, <1>8, <1>12, <1>13 DEF x

\* A row keeps its name and version when it gets its identity.
LEMMA RowWithIdentity ==
  ASSUME NEW r \in Rows
  PROVE  WithIdentity(r).name = r.name /\ IsVersion(WithIdentity(r).version)
<1> DEFINE e == ensure_installation_identity(r)
           y == [e EXCEPT !.instance = <<"endpoint", @>>]
<1>1. WithIdentity(r) = ensure_installation_identity(y)
  BY ListedRow DEF WithIdentity
<1>2. IsEntry(e) /\ e.name = r.name /\ e.version = r.version
  BY ListedRow, EnsuredFields
<1>. HIDE DEF e
<1>3. IsEntry(y) /\ y.name = r.name /\ y.version = r.version
  BY <1>2 DEF IsEntry, Fields
<1>. HIDE DEF y
<1>. QED
  BY <1>1, <1>3, ListedRow, EnsuredFields

\* Two hashes are equal only if the parts are.
LEMMA PartsEqual ==
  ASSUME NEW a, NEW b, NEW c, NEW d, NEW e, NEW f, NEW g, NEW h,
         <<a, b, c, d>> = <<e, f, g, h>>
  PROVE  a = e /\ b = f /\ c = g /\ d = h
OBVIOUS

\* Rows of one identity are of one product, package, scope and place.
LEMMA OneIdentity ==
  ASSUME NEW x, NEW y, Identified(x), Identified(y), x.identity = y.identity
  PROVE  /\ comparison_key(x) = comparison_key(y) /\ x.package = y.package
         /\ x.scope = y.scope /\ x.instance = y.instance /\ x.source = y.source
<1>1. /\ x.identity = <<comparison_key(x), x.package, x.scope, x.instance>>
      /\ y.identity = <<comparison_key(y), y.package, y.scope, y.instance>>
  BY DEF Identified
<1>2. /\ comparison_key(x) = comparison_key(y) /\ x.package = y.package
      /\ x.scope = y.scope /\ x.instance = y.instance
  <2>1. <<comparison_key(x), x.package, x.scope, x.instance>>
          = <<comparison_key(y), y.package, y.scope, y.instance>>
    BY <1>1
  <2>. QED
    BY <2>1, PartsEqual
<1>3. x.source = y.source
  <2>1. <<Lowered(x.name), Lowered(x.publisher), Lowered(x.arch), x.source>>
          = <<Lowered(y.name), Lowered(y.publisher), Lowered(y.arch), y.source>>
    BY <1>2 DEF comparison_key
  <2>. QED
    BY <2>1, PartsEqual
<1>. QED
  BY <1>2, <1>3

\* into_v1 keeps what tells two versions of a product apart.
LEMMA LegacyFields ==
  ASSUME NEW r, IsEntry(r)
  PROVE  LET x == LegacyRow(r)
         IN /\ IsEntry(x) /\ x.identity = None
            /\ x.name = r.name /\ x.publisher = r.publisher /\ x.arch = r.arch
            /\ x.version = r.version
            /\ x.source = IF r.source \in {"pacman", "mac_bundle"} THEN "other" ELSE r.source
BY DEF LegacyRow, IsEntry, Fields

\* A row of schema 2 becomes one of schema 1 that is normalised already.
LEMMA LegacyOfIdentified ==
  ASSUME NEW x, Identified(x)
  PROVE  Legacy(LegacyRow(x)) /\ NormalizedRow(LegacyRow(x)) = LegacyRow(x)
<1>1. IsEntry(x)
  BY DEF Identified
<1>2. Legacy(LegacyRow(x))
  BY <1>1, LegacyFields DEF Legacy, Identified
<1>. QED
  BY <1>2, NormalizedFields DEF Legacy

\* One product in schema 2 is one product in schema 1.
LEMMA LegacyKey ==
  ASSUME NEW x, NEW y, IsEntry(x), IsEntry(y), comparison_key(x) = comparison_key(y)
  PROVE  comparison_key(LegacyRow(x)) = comparison_key(LegacyRow(y))
<1>1. /\ Lowered(x.name) = Lowered(y.name) /\ Lowered(x.publisher) = Lowered(y.publisher)
      /\ Lowered(x.arch) = Lowered(y.arch) /\ x.source = y.source
  <2>1. <<Lowered(x.name), Lowered(x.publisher), Lowered(x.arch), x.source>>
          = <<Lowered(y.name), Lowered(y.publisher), Lowered(y.arch), y.source>>
    BY DEF comparison_key
  <2>. QED
    BY <2>1, PartsEqual
<1>. QED
  BY <1>1, LegacyFields DEF comparison_key

-----------------------------------------------------------------------------
(* A whole snapshot *)

\* Dropping the nameless rows leaves a list.
LEMMA RetainedFacts ==
  ASSUME NEW n \in Nat, NEW f, DOMAIN f = 1..n,
         \A i \in 1..n : IsVersion(f[i].version)
  PROVE  LET rows == Retained(f)
         IN /\ IsList(rows) /\ DOMAIN rows = {i \in 1..n : f[i].name # ""}
            /\ \A i \in DOMAIN rows : rows[i] = f[i]
<1> DEFINE rows == Retained(f)
<1>1. DOMAIN rows = {i \in 1..n : f[i].name # ""} /\ \A i \in DOMAIN rows : rows[i] = f[i]
  BY DEF Retained, Named
<1>. HIDE DEF rows
<1>2. DOMAIN rows \subseteq 1..n
  BY <1>1
<1>3. \A i \in DOMAIN rows : IsVersion(rows[i].version)
  BY <1>1
<1>4. IsList(rows)
  BY <1>2, <1>3 DEF IsList
<1>. QED
  BY <1>1, <1>4 DEF rows

\* The rows of a schema 2 snapshot, before duplicates are dropped.
Given(l) == Retained([i \in DOMAIN l |-> WithIdentity(l[i])])

\* The rows that normalize hands to deduplicate_software.
LEMMA GivenFacts ==
  ASSUME NEW l \in Seq(Rows)
  PROVE  /\ normalize(2, l) = deduplicate_software(2, Given(l))
         /\ IsList(Given(l))
         /\ DOMAIN Given(l) = {i \in DOMAIN l : l[i].name # ""}
         /\ \A i \in DOMAIN Given(l) : /\ l[i] \in Rows /\ Given(l)[i] = WithIdentity(l[i])
                                       /\ Identified(Given(l)[i])
<1> DEFINE f == [i \in DOMAIN l |-> WithIdentity(l[i])]
<1>1. /\ Len(l) \in Nat /\ DOMAIN l = 1..Len(l) /\ \A i \in 1..Len(l) : l[i] \in Rows
  OBVIOUS
<1>2. normalize(2, l) = deduplicate_software(2, Given(l))
  BY DEF normalize, Given
<1>3. ASSUME NEW i \in 1..Len(l)
      PROVE  WithIdentity(l[i]).name = l[i].name /\ IsVersion(WithIdentity(l[i]).version)
  BY <1>1, RowWithIdentity
<1>4. /\ DOMAIN f = 1..Len(l) /\ \A i \in 1..Len(l) : f[i] = WithIdentity(l[i])
  BY <1>1
<1>. HIDE DEF f
<1>5. /\ IsList(Given(l)) /\ DOMAIN Given(l) = {i \in 1..Len(l) : f[i].name # ""}
      /\ \A i \in DOMAIN Given(l) : Given(l)[i] = f[i]
  <2>1. Given(l) = Retained(f)
    BY DEF Given, f
  <2>2. \A i \in 1..Len(l) : IsVersion(f[i].version)
    BY <1>3, <1>4
  <2>. QED
    BY <1>1, <1>4, <2>1, <2>2, RetainedFacts
<1>6. \A i \in 1..Len(l) : f[i].name = l[i].name
  BY <1>3, <1>4
<1>7. DOMAIN Given(l) = {i \in 1..Len(l) : l[i].name # ""}
  BY <1>5, <1>6
<1>8. ASSUME NEW i \in DOMAIN Given(l)
      PROVE  l[i] \in Rows /\ Given(l)[i] = WithIdentity(l[i]) /\ Identified(Given(l)[i])
  <2>1. l[i] \in Rows /\ l[i].name # "" /\ Given(l)[i] = WithIdentity(l[i])
    BY <1>1, <1>4, <1>5, <1>7
  <2>. QED
    BY <2>1, OwnIdentity
<1>. QED
  BY <1>1, <1>2, <1>5, <1>7, <1>8

\* Schema 2: a row survives of every installation.
LEMMA SnapshotTwo ==
  ASSUME NEW l \in Seq(Rows)
  PROVE  /\ IsSnapshot(2, normalize(2, l))
         /\ \A i \in DOMAIN l : l[i].name # "" =>
              \E x \in normalize(2, l) : /\ x.identity = WithIdentity(l[i]).identity
                                         /\ ~VersionLess(x.version, l[i].version)
<1> DEFINE S == normalize(2, l)
<1>0. \A x : Identified(x) => identity_key(2, x) = x.identity
  BY DEF Identified, identity_key
<1>1. /\ S = {Given(l)[i] : i \in {i \in DOMAIN Given(l) : Survives(2, Given(l), i)}}
      /\ IsFiniteSet(S)
      /\ \A x, y \in S : identity_key(2, x) = identity_key(2, y) => x = y
      /\ \A k \in DOMAIN Given(l) : \E x \in S :
           /\ identity_key(2, x) = identity_key(2, Given(l)[k])
           /\ ~VersionLess(x.version, Given(l)[k].version)
  <2>1. S = deduplicate_software(2, Given(l)) /\ IsList(Given(l))
    BY GivenFacts
  <2>. HIDE DEF S
  <2>. QED
    BY <2>1, DedupFacts
<1>. HIDE DEF S
<1>2. ASSUME NEW x \in S PROVE Identified(x)
  <2>1. PICK i \in DOMAIN Given(l) : x = Given(l)[i]
    BY <1>1
  <2>. QED
    BY <2>1, GivenFacts
<1>3. IsSnapshot(2, S)
  BY <1>1, <1>2 DEF IsSnapshot
<1>4. ASSUME NEW i \in DOMAIN l, l[i].name # ""
      PROVE  \E x \in S : /\ x.identity = WithIdentity(l[i]).identity
                          /\ ~VersionLess(x.version, l[i].version)
  <2>1. i \in DOMAIN Given(l) /\ l[i] \in Rows
    BY <1>4, GivenFacts
  <2>2. Given(l)[i] = WithIdentity(l[i]) /\ Identified(Given(l)[i])
    BY <2>1, GivenFacts
  <2>3. WithIdentity(l[i]).version = l[i].version
    BY <1>4, <2>1, OwnIdentity
  <2>4. PICK x \in S : /\ identity_key(2, x) = identity_key(2, Given(l)[i])
                       /\ ~VersionLess(x.version, Given(l)[i].version)
    BY <1>1, <2>1
  <2>. QED
    BY <1>0, <1>2, <2>2, <2>3, <2>4
<1>. QED
  BY <1>3, <1>4 DEF S

\* The rows of a set can be put in an order that names each once.
LEMMA SomeOrder ==
  ASSUME NEW S, IsFiniteSet(S)
  PROVE  LET f == InSomeOrder(S)
         IN /\ Cardinality(S) \in Nat /\ DOMAIN f = 1..Cardinality(S)
            /\ \A i \in DOMAIN f : f[i] \in S
            /\ \A i, j \in DOMAIN f : i # j => f[i] # f[j]
            /\ \A x \in S : \E i \in DOMAIN f : f[i] = x
<1> DEFINE n == Cardinality(S)
<1>1. n \in Nat /\ ExistsBijection(1..n, S)
  BY FS_CardinalityType
<1>2. PICK g : g \in Bijection(1..n, S)
  BY <1>1 DEF ExistsBijection
<1>3. g \in [1..n -> S] /\ \A i, j \in 1..n : i # j => g[i] # g[j]
  BY <1>2 DEF Bijection, Injection, IsInjective
<1>4. /\ InSomeOrder(S) \in [1..n -> S]
      /\ \A i, j \in 1..n : i # j => InSomeOrder(S)[i] # InSomeOrder(S)[j]
  BY <1>3 DEF InSomeOrder
<1>5. InSomeOrder(S) \in Injection(1..n, S)
  BY <1>4 DEF Injection, IsInjective
<1>6. IsFiniteSet(1..n) /\ Cardinality(1..n) = n
  BY <1>1, FS_Interval
<1>7. InSomeOrder(S) \in Surjection(1..n, S)
  BY <1>5, <1>6, FS_Injection
<1>. QED
  BY <1>1, <1>4, <1>7 DEF Surjection

\* What normalize leaves as it is: rows that are normalised and named, and have
\* different keys.
LEMMA ResendUnchanged ==
  ASSUME NEW s \in {1, 2}, NEW S, IsSnapshot(s, S)
  PROVE  normalize(s, InSomeOrder(S)) = S
<1> DEFINE f == InSomeOrder(S)
           g == [i \in DOMAIN f |-> IF s = 2 THEN WithIdentity(f[i]) ELSE NormalizedRow(f[i])]
           n == Cardinality(S)
           rows == Retained(g)
<1>1. /\ n \in Nat /\ DOMAIN f = 1..n
      /\ \A i \in DOMAIN f : f[i] \in S
      /\ \A i, j \in DOMAIN f : i # j => f[i] # f[j]
      /\ \A x \in S : \E i \in DOMAIN f : f[i] = x
  BY SomeOrder DEF IsSnapshot
<1>2. \A x \in S : /\ (IF s = 2 THEN WithIdentity(x) ELSE NormalizedRow(x)) = x
                   /\ x.name # "" /\ IsVersion(x.version)
  <2>1. CASE s = 2
    BY <2>1, IdentityIsStable DEF IsSnapshot, Identified
  <2>2. CASE s = 1
    <3>1. \A x \in S : Legacy(x)
      BY <2>2 DEF IsSnapshot
    <3>2. \A x \in S : NormalizedRow(x) = x
      BY <3>1, NormalizedFields DEF Legacy
    <3>3. \A x \in S : x.name # "" /\ IsVersion(x.version)
      BY <3>1 DEF Legacy
    <3>4. s # 2
      BY <2>2
    <3>. QED
      BY <3>2, <3>3, <3>4
  <2>. QED
    BY <2>1, <2>2
<1>3. normalize(s, f) = deduplicate_software(s, rows)
  BY DEF normalize
<1>. HIDE DEF f, n
<1>4. DOMAIN g = 1..n /\ \A i \in 1..n : g[i] = f[i]
  BY <1>1, <1>2
<1>. HIDE DEF g
<1>5. IsList(rows) /\ DOMAIN rows = 1..n /\ \A i \in 1..n : rows[i] = f[i]
  <2>1. \A i \in 1..n : IsVersion(g[i].version) /\ g[i].name # ""
    BY <1>1, <1>2, <1>4
  <2>2. /\ IsList(rows) /\ DOMAIN rows = {i \in 1..n : g[i].name # ""}
        /\ \A i \in DOMAIN rows : rows[i] = g[i]
    <3>1. n \in Nat /\ DOMAIN g = 1..n /\ \A i \in 1..n : IsVersion(g[i].version)
      BY <1>1, <1>4, <2>1
    <3>. QED
      BY <3>1, RetainedFacts
  <2>. HIDE DEF rows
  <2>3. DOMAIN rows = 1..n
    BY <2>1, <2>2
  <2>. QED
    BY <1>4, <2>2, <2>3
<1>. HIDE DEF rows
<1>6. \A i \in DOMAIN rows : Survives(s, rows, i)
  BY <1>1, <1>5 DEF Survives, IsSnapshot
<1>7. deduplicate_software(s, rows) = {rows[i] : i \in {i \in DOMAIN rows : Survives(s, rows, i)}}
  BY <1>5, DedupFacts
<1>8. deduplicate_software(s, rows) = {f[i] : i \in 1..n}
  BY <1>5, <1>6, <1>7
<1>9. {f[i] : i \in 1..n} = S
  BY <1>1
<1>. QED
  BY <1>3, <1>8, <1>9 DEF f

\* Schema 1: a row survives of every product, and none of that product that
\* was listed is newer.
LEMMA SnapshotOne ==
  ASSUME NEW l \in Seq(Rows)
  PROVE  /\ IsSnapshot(1, into_v1(normalize(2, l)))
         /\ \A i \in DOMAIN l : l[i].name # "" =>
              \E x \in into_v1(normalize(2, l)) :
                /\ comparison_key(x) = comparison_key(LegacyRow(WithIdentity(l[i])))
                /\ ~VersionLess(x.version, l[i].version)
<1> DEFINE S == normalize(2, l)
           f == InSomeOrder(S)
           n == Cardinality(S)
           h == [i \in DOMAIN f |-> LegacyRow(f[i])]
           g == [i \in DOMAIN h |-> IF 1 = 2 THEN WithIdentity(h[i]) ELSE NormalizedRow(h[i])]
           rows == Retained(g)
           T == into_v1(S)
<1>0. \A x : identity_key(1, x) = comparison_key(x)
  BY DEF identity_key
<1>1. T = deduplicate_software(1, rows)
  BY DEF into_v1, normalize
<1>2. /\ IsSnapshot(2, S)
      /\ \A i \in DOMAIN l : l[i].name # "" =>
           \E x \in S : /\ x.identity = WithIdentity(l[i]).identity
                        /\ ~VersionLess(x.version, l[i].version)
  BY SnapshotTwo
<1>. HIDE DEF S
<1>3. \A x \in S : Identified(x)
  BY <1>2 DEF IsSnapshot
<1>4. /\ n \in Nat /\ DOMAIN f = 1..n
      /\ \A i \in DOMAIN f : f[i] \in S
      /\ \A x \in S : \E i \in DOMAIN f : f[i] = x
  BY <1>2, SomeOrder DEF IsSnapshot
<1>. HIDE DEF f, n
<1>5. DOMAIN g = 1..n /\ \A i \in 1..n : g[i] = LegacyRow(f[i])
  BY <1>3, <1>4, LegacyOfIdentified
<1>. HIDE DEF g
<1>6. \A i \in 1..n : Legacy(g[i])
  BY <1>3, <1>4, <1>5, LegacyOfIdentified
<1>7. IsList(rows) /\ DOMAIN rows = 1..n /\ \A i \in 1..n : rows[i] = g[i]
  <2>1. \A i \in 1..n : IsVersion(g[i].version) /\ g[i].name # ""
    BY <1>6 DEF Legacy
  <2>2. /\ IsList(rows) /\ DOMAIN rows = {i \in 1..n : g[i].name # ""}
        /\ \A i \in DOMAIN rows : rows[i] = g[i]
    BY <1>4, <1>5, <2>1, RetainedFacts
  <2>. HIDE DEF rows
  <2>3. DOMAIN rows = 1..n
    BY <2>1, <2>2
  <2>. QED
    BY <2>2, <2>3
<1>. HIDE DEF rows, T
<1>8. /\ T = {rows[i] : i \in {i \in DOMAIN rows : Survives(1, rows, i)}}
      /\ IsFiniteSet(T)
      /\ \A x, y \in T : identity_key(1, x) = identity_key(1, y) => x = y
      /\ \A k \in DOMAIN rows : \E x \in T :
           /\ identity_key(1, x) = identity_key(1, rows[k])
           /\ ~VersionLess(x.version, rows[k].version)
  BY <1>1, <1>7, DedupFacts
<1>9. \A x \in T : Legacy(x)
  BY <1>6, <1>7, <1>8
<1>10. IsSnapshot(1, T)
  BY <1>8, <1>9 DEF IsSnapshot
<1>11. ASSUME NEW i \in DOMAIN l, l[i].name # ""
       PROVE  \E x \in T : /\ comparison_key(x) = comparison_key(LegacyRow(WithIdentity(l[i])))
                           /\ ~VersionLess(x.version, l[i].version)
  <2>. DEFINE r == WithIdentity(l[i])
  <2>1. l[i] \in Rows
    OBVIOUS
  <2>2. Identified(r) /\ IsVersion(l[i].version)
    BY <1>11, <2>1, OwnIdentity, ListedRow
  <2>. HIDE DEF r
  <2>3. PICK y \in S : y.identity = r.identity /\ ~VersionLess(y.version, l[i].version)
    BY <1>2, <1>11 DEF r
  <2>4. Identified(y) /\ IsEntry(y) /\ IsEntry(r)
    BY <1>3, <2>2, <2>3 DEF Identified
  <2>5. comparison_key(LegacyRow(y)) = comparison_key(LegacyRow(r))
    BY <2>2, <2>3, <2>4, OneIdentity, LegacyKey
  <2>6. PICK k \in 1..n : f[k] = y
    BY <1>4
  <2>7. rows[k] = LegacyRow(y)
    BY <1>5, <1>7, <2>6
  <2>8. rows[k].version = y.version
    BY <2>4, <2>7, LegacyFields
  <2>9. PICK x \in T : /\ comparison_key(x) = comparison_key(rows[k])
                       /\ ~VersionLess(x.version, y.version)
    BY <1>0, <1>7, <1>8, <2>8
  <2>10. IsVersion(x.version) /\ IsVersion(y.version)
    BY <1>9, <2>4, <2>9 DEF Legacy, Identified
  <2>11. ~VersionLess(x.version, l[i].version)
    BY <2>2, <2>3, <2>9, <2>10, VersionsAreOrdered
  <2>. QED
    BY <2>5, <2>7, <2>9, <2>11 DEF r
<1>. QED
  BY <1>10, <1>11 DEF S, T

\* What is taken is a snapshot.
LEMMA TakenIsSnapshot ==
  ASSUME NEW s \in {1, 2}, NEW l \in Seq(Rows)
  PROVE  IsSnapshot(s, Taken(s, l))
BY SnapshotOne, SnapshotTwo DEF Taken

-----------------------------------------------------------------------------
(* What a reader calls newer *)

\* A version of numbers that a reader calls newer is above the other.
LEMMA NewerIsGreater ==
  ASSUME NEW v, NEW w, IsVersion(v), IsVersion(w), Numeric(v), Numeric(w), ReadsNewer(v, w)
  PROVE  VersionLess(w, v)
<1>1. /\ v \in Seq(Runs) /\ w \in Seq(Runs) /\ v # None /\ w # None
      /\ \A i \in 1..Len(v) : v[i].digits /\ v[i].value < WideRun
      /\ \A i \in 1..Len(w) : w[i].digits /\ w[i].value < WideRun
  BY DEF IsVersion, Numeric
<1>2. /\ Len(v) \in Nat /\ Len(w) \in Nat
      /\ \A i \in 1..Len(v) : v[i].value \in Nat
      /\ \A i \in 1..Len(w) : w[i].value \in Nat
  <2>1. /\ Len(v) \in Nat /\ Len(w) \in Nat
        /\ \A i \in 1..Len(v) : v[i] \in Runs
        /\ \A i \in 1..Len(w) : w[i] \in Runs
    BY <1>1
  <2>2. \A run \in Runs : run.value \in Nat
    BY DEF Runs
  <2>. QED
    BY <2>1, <2>2
<1> DEFINE l == version_chunks(w)
           r == version_chunks(v)
<1>3. /\ Len(l) = Len(w) /\ Len(r) = Len(v)
      /\ \A i \in 1..Len(v) : r[i] = [number |-> TRUE, rank |-> v[i].value]
      /\ \A i \in 1..Len(w) : l[i] = [number |-> TRUE, rank |-> w[i].value]
  <2>1. Len(l) = Len(w) /\ Len(r) = Len(v)
    BY <1>1, ChunksOf
  <2>2. DOMAIN v = 1..Len(v) /\ DOMAIN w = 1..Len(w)
    BY <1>1
  <2>3. /\ \A i \in 1..Len(v) : r[i] = Chunk(v[i])
        /\ \A i \in 1..Len(w) : l[i] = Chunk(w[i])
    BY <2>2 DEF version_chunks
  <2>4. \A run : run.digits /\ run.value < WideRun
                => Chunk(run) = [number |-> TRUE, rank |-> run.value]
    BY DEF Chunk
  <2>. QED
    BY <1>1, <2>1, <2>3, <2>4
<1>. HIDE DEF l, r
<1>4. PICK n \in 0..Len(v) :
        /\ n <= Len(w)
        /\ \A i \in 1..n : v[i].value = w[i].value
        /\ \/ n = Len(w) /\ n < Len(v)
           \/ n < Len(w) /\ n < Len(v) /\ v[n + 1].value > w[n + 1].value
  BY DEF ReadsNewer
<1>5. ASSUME NEW i \in 1..n PROVE l[i] = r[i]
  <2>1. i \in 1..Len(v) /\ i \in 1..Len(w) /\ v[i].value = w[i].value
    BY <1>2, <1>4
  <2>2. r[i] = [number |-> TRUE, rank |-> v[i].value] /\ l[i] = [number |-> TRUE, rank |-> w[i].value]
    BY <1>3, <2>1
  <2>. QED
    BY <2>1, <2>2
<1>6. n < Len(w) /\ n < Len(v) /\ v[n + 1].value > w[n + 1].value
        => ChunkLess(l[n + 1], r[n + 1])
  <2>. SUFFICES ASSUME n < Len(w), n < Len(v), v[n + 1].value > w[n + 1].value
                PROVE  ChunkLess(l[n + 1], r[n + 1])
    OBVIOUS
  <2>1. n + 1 \in 1..Len(v) /\ n + 1 \in 1..Len(w)
    BY <1>2
  <2>. QED
    <3>1. /\ r[n + 1].number = TRUE /\ r[n + 1].rank = v[n + 1].value
          /\ l[n + 1].number = TRUE /\ l[n + 1].rank = w[n + 1].value
      <4>1. /\ r[n + 1] = [number |-> TRUE, rank |-> v[n + 1].value]
            /\ l[n + 1] = [number |-> TRUE, rank |-> w[n + 1].value]
        BY <1>3, <2>1
      <4>. QED
        BY <4>1
    <3>2. w[n + 1].value < v[n + 1].value
      BY <1>2, <2>1
    <3>. QED
      BY <3>1, <3>2 DEF ChunkLess
<1>7. DecidedAt(l, r, n)
  BY <1>2, <1>3, <1>4, <1>5, <1>6 DEF DecidedAt
<1>8. Before(l, r)
  BY <1>2, <1>4, <1>7 DEF Before
<1>. QED
  BY <1>1, <1>8, LessMeans DEF l, r

-----------------------------------------------------------------------------
(* The properties of a list *)

\* The rows listed with a name.
LEMMA NamedRows ==
  ASSUME listed \in Seq(Rows)
  PROVE  /\ DOMAIN NamedListed = {i \in DOMAIN listed : listed[i].name # ""}
         /\ \A i \in DOMAIN NamedListed : /\ i \in DOMAIN listed /\ NamedListed[i] = listed[i]
                                          /\ listed[i] \in Rows /\ listed[i].name # ""
<1>1. /\ DOMAIN NamedListed = {i \in DOMAIN listed : listed[i].name # ""}
      /\ \A i \in DOMAIN NamedListed : NamedListed[i] = listed[i]
  BY DEF NamedListed, Retained, Named
<1>2. \A i \in DOMAIN listed : listed[i] \in Rows
  OBVIOUS
<1>. QED
  BY <1>1, <1>2

\* Schema 1: of each product that was listed a row is sent, and none newer of it
\* was dropped.
LEMMA ListKeepsNewest ==
  ASSUME listed \in Seq(Rows)
  PROVE  NewestSurvives
<1>. SUFFICES ASSUME schema = 1, NEW i \in DOMAIN NamedListed
              PROVE  LET sent == Taken(1, listed)
                         row == LegacyRow(NormalizedRow(NamedListed[i]))
                         same == {r \in sent : comparison_key(r) = comparison_key(row)}
                     IN /\ Cardinality(same) = 1
                        /\ \A r \in same :
                             /\ r.version = None => row.version = None
                             /\ Numeric(r.version) /\ Numeric(row.version)
                                 => ~ReadsNewer(row.version, r.version)
  BY DEF NewestSurvives
<1> DEFINE sent == Taken(1, listed)
           given == listed[i]
           row == LegacyRow(NormalizedRow(NamedListed[i]))
           same == {r \in sent : comparison_key(r) = comparison_key(row)}
<1>1. /\ i \in DOMAIN listed /\ NamedListed[i] = given
      /\ given \in Rows /\ given.name # ""
  BY NamedRows
<1>2. row.version = given.version /\ IsVersion(given.version)
  <2>1. IsEntry(given) /\ IsVersion(given.version)
    BY <1>1, ListedRow
  <2>2. IsEntry(NormalizedRow(given)) /\ NormalizedRow(given).version = given.version
    BY <2>1, NormalizedFields
  <2>3. LegacyRow(NormalizedRow(given)).version = NormalizedRow(given).version
    BY <2>2, LegacyFields
  <2>. QED
    BY <1>1, <2>1, <2>2, <2>3
<1>3. comparison_key(row) = comparison_key(LegacyRow(WithIdentity(given)))
  <2>1. IsEntry(given)
    BY <1>1, ListedRow
  <2>2. IsEntry(NormalizedRow(given)) /\ IsEntry(WithIdentity(given))
    BY <1>1, <2>1, NormalizedFields, OwnIdentity DEF Identified
  <2>3. comparison_key(NormalizedRow(given)) = comparison_key(WithIdentity(given))
    <3>. DEFINE n == NormalizedRow(given)
                w == WithIdentity(given)
    <3>1. n.name = given.name /\ n.publisher = given.publisher /\ n.source = given.source
          /\ n.arch = normalize_architecture(given.arch)
      BY <2>1, NormalizedFields
    <3>2. w.name = given.name /\ w.publisher = given.publisher /\ w.source = given.source
          /\ w.arch = normalize_architecture(given.arch)
      BY <1>1, OwnIdentity
    <3>. HIDE DEF n, w
    <3>3. comparison_key(n) = comparison_key(w)
      BY <3>1, <3>2 DEF comparison_key
    <3>. QED
      BY <3>3 DEF n, w
  <2>. QED
    BY <1>1, <2>2, <2>3, LegacyKey
<1>4. sent = into_v1(normalize(2, listed))
  BY DEF Taken
<1>5. /\ IsSnapshot(1, sent)
      /\ \E x \in sent : /\ comparison_key(x) = comparison_key(LegacyRow(WithIdentity(given)))
                         /\ ~VersionLess(x.version, given.version)
  BY <1>1, <1>4, SnapshotOne
<1>. HIDE DEF sent, given, row
<1>6. PICK x \in sent : /\ comparison_key(x) = comparison_key(row)
                        /\ ~VersionLess(x.version, row.version)
  BY <1>2, <1>3, <1>5
<1>7. same = {x}
  BY <1>5, <1>6 DEF IsSnapshot, identity_key
<1>8. IsVersion(x.version)
  <2>1. Legacy(x)
    BY <1>5 DEF IsSnapshot
  <2>. QED
    BY <2>1 DEF Legacy
<1>9. x.version = None => row.version = None
  BY <1>6 DEF VersionLess
<1>10. Numeric(x.version) /\ Numeric(row.version) => ~ReadsNewer(row.version, x.version)
  BY <1>2, <1>6, <1>8, NewerIsGreater
<1>11. Cardinality(same) = 1
  BY <1>7, FS_Singleton
<1>. QED
  BY <1>7, <1>9, <1>10, <1>11 DEF sent, row

\* Schema 2: rows that share a sent row stand for one installation.
LEMMA ListHidesNothing ==
  ASSUME listed \in Seq(Rows)
  PROVE  NoInstallationHidden
<1>. SUFFICES ASSUME schema = 2, NEW i \in DOMAIN NamedListed, NEW j \in DOMAIN NamedListed
              PROVE  LET sent == Taken(2, listed)
                         r == WithIdentity(NamedListed[i])
                         q == WithIdentity(NamedListed[j])
                     IN /\ Cardinality({x \in sent : x.identity = r.identity}) = 1
                        /\ r.identity = q.identity =>
                             /\ comparison_key(r) = comparison_key(q)
                             /\ NamedListed[i].package = NamedListed[j].package
                             /\ r.scope = q.scope
                             /\ NamedListed[i].instance = NamedListed[j].instance
                             /\ NamedListed[i].instance = None =>
                                  DefaultInstance(NamedListed[i]) = DefaultInstance(NamedListed[j])
  BY DEF NoInstallationHidden
<1> DEFINE sent == Taken(2, listed)
           a == NamedListed[i]
           b == NamedListed[j]
           r == WithIdentity(a)
           q == WithIdentity(b)
<1>1. /\ i \in DOMAIN listed /\ a = listed[i] /\ a \in Rows /\ a.name # ""
      /\ j \in DOMAIN listed /\ b = listed[j] /\ b \in Rows /\ b.name # ""
  BY NamedRows
<1>2. sent = normalize(2, listed)
  BY DEF Taken
<1>3. IsSnapshot(2, sent) /\ \E x \in sent : x.identity = r.identity
  BY <1>1, <1>2, SnapshotTwo
<1>. HIDE DEF sent, a, b
<1>4. /\ Identified(r) /\ Identified(q)
      /\ r.package = a.package /\ q.package = b.package
      /\ r.source = a.source /\ q.source = b.source
      /\ r.instance = <<"endpoint", IF a.instance = None THEN DefaultInstance(a) ELSE a.instance>>
      /\ q.instance = <<"endpoint", IF b.instance = None THEN DefaultInstance(b) ELSE b.instance>>
  BY <1>1, OwnIdentity
<1>5. /\ DefaultInstance(NormalizedRow(a)) = DefaultInstance(a)
      /\ DefaultInstance(NormalizedRow(b)) = DefaultInstance(b)
  BY <1>1, ListedRow, NormalizedFields
<1>6. a.source = b.source =>
        /\ a.instance # None /\ b.instance = None => a.instance # DefaultInstance(b)
        /\ b.instance # None /\ a.instance = None => b.instance # DefaultInstance(a)
  BY <1>1, <1>5, IdentityAssumption
<1>. HIDE DEF r, q
<1>7. ASSUME r.identity = q.identity
      PROVE  /\ comparison_key(r) = comparison_key(q) /\ a.package = b.package
             /\ r.scope = q.scope /\ a.instance = b.instance
             /\ a.instance = None => DefaultInstance(a) = DefaultInstance(b)
  <2>1. /\ comparison_key(r) = comparison_key(q) /\ r.package = q.package
        /\ r.scope = q.scope /\ r.instance = q.instance /\ r.source = q.source
    BY <1>4, <1>7, OneIdentity
  <2>2. (IF a.instance = None THEN DefaultInstance(a) ELSE a.instance)
          = (IF b.instance = None THEN DefaultInstance(b) ELSE b.instance)
    BY <1>4, <2>1
  <2>. QED
    BY <1>4, <1>6, <2>1, <2>2
<1>8. PICK x \in sent : x.identity = r.identity
  BY <1>3
<1>9. \A y \in sent : y.identity = r.identity => y = x
  <2>1. \A y \in sent : Identified(y) /\ identity_key(2, y) = y.identity
    BY <1>3 DEF IsSnapshot, Identified, identity_key
  <2>. QED
    BY <1>3, <1>8, <2>1 DEF IsSnapshot
<1>10. {y \in sent : y.identity = r.identity} = {x}
  BY <1>8, <1>9
<1>11. Cardinality({y \in sent : y.identity = r.identity}) = 1
  BY <1>10, FS_Singleton
<1>. QED
  BY <1>7, <1>11 DEF sent, a, b, r, q

\* What was sent is sent again as it is.
LEMMA ListIsResent ==
  ASSUME schema \in {1, 2}, listed \in Seq(Rows)
  PROVE  ResendKeepsIdentity
<1> DEFINE sent == Taken(schema, listed)
<1>1. IsSnapshot(schema, sent)
  BY TakenIsSnapshot
<1>. HIDE DEF sent
<1>2. normalize(schema, InSomeOrder(sent)) = sent
  BY <1>1, ResendUnchanged
<1>3. schema = 2 => RowsValid(sent, Sources)
  BY <1>1 DEF IsSnapshot, Identified, RowsValid
<1>. QED
  BY <1>2, <1>3 DEF sent, ResendKeepsIdentity

-----------------------------------------------------------------------------
(* The order of enumeration *)

\* The rows a list gives, and those of them that no row of the installation
\* is newer than.
Identities(l) == {WithIdentity(r) : r \in {l[i] : i \in {i \in DOMAIN l : l[i].name # ""}}}

NewestOf(W) ==
  {x \in W : \A y \in W : y.identity = x.identity => ~VersionLess(x.version, y.version)}

\* Rows of one installation that compare equal are the same row.
Unambiguous(W) ==
  \A x, y \in W :
    x.identity = y.identity
    /\ ~VersionLess(x.version, y.version) /\ ~VersionLess(y.version, x.version)
      => x = y

\* Without ambiguity a schema 2 snapshot depends on the set of rows only.
LEMMA TakenFromSet ==
  ASSUME NEW l \in Seq(Rows), Unambiguous(Identities(l))
  PROVE  normalize(2, l) = NewestOf(Identities(l))
<1> DEFINE S == normalize(2, l)
           W == Identities(l)
           G == Given(l)
<1>1. /\ IsList(G) /\ DOMAIN G = {i \in DOMAIN l : l[i].name # ""}
      /\ \A i \in DOMAIN G : G[i] = WithIdentity(l[i]) /\ Identified(G[i])
      /\ S = deduplicate_software(2, G)
  BY GivenFacts
<1>2. /\ \A x \in W : \E i \in DOMAIN G : x = G[i]
      /\ \A i \in DOMAIN G : G[i] \in W
  BY <1>1 DEF Identities
<1>. HIDE DEF S, W, G
<1>3. /\ S = {G[i] : i \in {i \in DOMAIN G : Survives(2, G, i)}}
      /\ \A k \in DOMAIN G : \E x \in S :
           /\ identity_key(2, x) = identity_key(2, G[k])
           /\ ~VersionLess(x.version, G[k].version)
  BY <1>1, DedupFacts
<1>4. /\ \A x \in W : Identified(x)
      /\ \A x : Identified(x) => identity_key(2, x) = x.identity /\ IsVersion(x.version)
  <2>1. ASSUME NEW x \in W PROVE Identified(x)
    <3>1. PICK i \in DOMAIN G : x = G[i]
      BY <1>2
    <3>. QED
      BY <1>1, <3>1
  <2>2. \A x : Identified(x) => identity_key(2, x) = x.identity /\ IsVersion(x.version)
    BY DEF Identified, identity_key
  <2>. QED
    BY <2>1, <2>2
<1>5. S \subseteq W
  BY <1>2, <1>3
<1>6. ASSUME NEW x \in S, NEW y \in W, y.identity = x.identity
      PROVE  ~VersionLess(x.version, y.version)
  <2>1. PICK i \in DOMAIN G : x = G[i] /\ Survives(2, G, i)
    BY <1>3
  <2>2. PICK j \in DOMAIN G : y = G[j]
    BY <1>2
  <2>3. identity_key(2, G[j]) = identity_key(2, G[i])
    BY <1>4, <1>5, <1>6, <2>1, <2>2
  <2>4. i # j => Beats(G, i, j)
    BY <2>1, <2>3 DEF Survives
  <2>5. ~VersionLess(x.version, x.version)
    BY <1>4, <1>5, VersionsAreOrdered
  <2>. QED
    BY <1>1, <2>1, <2>2, <2>4, <2>5, BeatsOrder
<1>7. ASSUME NEW x \in W, \A y \in W : y.identity = x.identity => ~VersionLess(x.version, y.version)
      PROVE  x \in S
  <2>1. PICK k \in DOMAIN G : x = G[k]
    BY <1>2
  <2>2. PICK z \in S : /\ identity_key(2, z) = identity_key(2, x)
                       /\ ~VersionLess(z.version, x.version)
    BY <1>3, <2>1
  <2>3. z \in W /\ Identified(z) /\ Identified(x) /\ z.identity = x.identity
    BY <1>4, <1>5, <2>2
  <2>4. ~VersionLess(x.version, z.version)
    BY <1>7, <2>3
  <2>5. x = z
    BY <2>2, <2>3, <2>4 DEF Unambiguous, W
  <2>. QED
    BY <2>2, <2>5
<1>8. S = {x \in W : \A y \in W : y.identity = x.identity => ~VersionLess(x.version, y.version)}
  BY <1>5, <1>6, <1>7
<1>. QED
  BY <1>8 DEF S, W, NewestOf

\* Enumerated in another order, a host has the same snapshot.
LEMMA ListOrderIrrelevant ==
  ASSUME schema \in {1, 2}, listed \in Seq(Rows)
  PROVE  OrderIrrelevant
<1>. SUFFICES ASSUME ~Ambiguous, NEW p \in Orders(DOMAIN listed)
              PROVE  Taken(schema, [i \in DOMAIN listed |-> listed[p[i]]]) = Taken(schema, listed)
  BY DEF OrderIrrelevant
<1> DEFINE D == DOMAIN listed
           l == [i \in D |-> listed[p[i]]]
           W == Identities(listed)
<1>1. D = 1..Len(listed) /\ Len(listed) \in Nat /\ \A i \in D : listed[i] \in Rows
  OBVIOUS
<1>2. p \in [D -> D] /\ \A w \in D : \E v \in D : p[v] = w
  BY DEF Orders, D
<1>. HIDE DEF D
<1>3. DOMAIN l = D /\ \A i \in D : l[i] = listed[p[i]] /\ l[i] \in Rows
  BY <1>1, <1>2
<1>4. l \in Seq(Rows)
  BY <1>1, <1>2
<1>. HIDE DEF l
<1>5. Identities(l) = W
  <2>1. {l[i] : i \in {i \in DOMAIN l : l[i].name # ""}}
          = {listed[i] : i \in {i \in DOMAIN listed : listed[i].name # ""}}
    <3>. DEFINE A == {l[i] : i \in {i \in DOMAIN l : l[i].name # ""}}
                B == {listed[i] : i \in {i \in DOMAIN listed : listed[i].name # ""}}
    <3>1. ASSUME NEW x \in A PROVE x \in B
      <4>1. PICK i \in D : l[i].name # "" /\ x = l[i]
        BY <1>3
      <4>2. p[i] \in D /\ x = listed[p[i]] /\ listed[p[i]].name # ""
        BY <1>2, <1>3, <4>1
      <4>. QED
        BY <4>2 DEF D
    <3>2. ASSUME NEW x \in B PROVE x \in A
      <4>1. PICK k \in D : listed[k].name # "" /\ x = listed[k]
        BY DEF D
      <4>2. PICK i \in D : p[i] = k
        BY <1>2
      <4>3. i \in DOMAIN l /\ l[i] = x /\ l[i].name # ""
        BY <1>3, <4>1, <4>2
      <4>. QED
        BY <4>3
    <3>. QED
      BY <3>1, <3>2
  <2>. QED
    BY <2>1 DEF Identities
<1>6. Unambiguous(W)
  <2>. SUFFICES ASSUME NEW x \in W, NEW y \in W,
                       x.identity = y.identity,
                       ~VersionLess(x.version, y.version), ~VersionLess(y.version, x.version)
                PROVE  x = y
    BY DEF Unambiguous
  <2>1. PICK i \in DOMAIN NamedListed : x = WithIdentity(NamedListed[i])
    <3>1. PICK k \in D : listed[k].name # "" /\ x = WithIdentity(listed[k])
      BY DEF Identities, D
    <3>. QED
      BY <3>1, NamedRows DEF D
  <2>2. PICK j \in DOMAIN NamedListed : y = WithIdentity(NamedListed[j])
    <3>1. PICK k \in D : listed[k].name # "" /\ y = WithIdentity(listed[k])
      BY DEF Identities, D
    <3>. QED
      BY <3>1, NamedRows DEF D
  <2>. QED
    BY <2>1, <2>2 DEF Ambiguous
<1>7. normalize(2, l) = normalize(2, listed)
  BY <1>4, <1>5, <1>6, TakenFromSet
<1>. QED
  BY <1>7 DEF Taken, l, D

-----------------------------------------------------------------------------
(* The difference of two snapshots *)

\* Rows of one key come from one source: both keys name it.
LEMMA KeyNamesSource ==
  ASSUME NEW s \in {1, 2}, NEW S, NEW T, IsSnapshot(s, S), IsSnapshot(s, T),
         NEW x \in S, NEW y \in T, identity_key(s, x) = identity_key(s, y)
  PROVE  x.source = y.source
<1>1. CASE s = 2
  <2>1. Identified(x) /\ Identified(y)
    BY <1>1 DEF IsSnapshot
  <2>2. identity_key(s, x) = x.identity /\ identity_key(s, y) = y.identity
    BY <1>1, <2>1 DEF Identified, identity_key
  <2>. QED
    BY <2>1, <2>2, OneIdentity
<1>2. CASE s = 1
  <2>1. comparison_key(x) = comparison_key(y)
    BY <1>2 DEF identity_key
  <2>2. <<Lowered(x.name), Lowered(x.publisher), Lowered(x.arch), x.source>>
          = <<Lowered(y.name), Lowered(y.publisher), Lowered(y.arch), y.source>>
    BY <2>1 DEF comparison_key
  <2>. QED
    BY <2>2, PartsEqual
<1>. QED
  BY <1>1, <1>2

\* Of each key a snapshot has one row, which is the one that diff looks up.
LEMMA RowOfKey ==
  ASSUME NEW s, NEW S, IsSnapshot(s, S)
  PROVE  /\ \A x \in S : /\ identity_key(s, x) \in KeysOf(s, S)
                         /\ Rowed(s, S, identity_key(s, x)) = x
         /\ \A k \in KeysOf(s, S) : /\ Rowed(s, S, k) \in S
                                     /\ identity_key(s, Rowed(s, S, k)) = k
<1>1. ASSUME NEW x \in S PROVE Rowed(s, S, identity_key(s, x)) = x
  <2>1. /\ Rowed(s, S, identity_key(s, x)) \in S
        /\ identity_key(s, Rowed(s, S, identity_key(s, x))) = identity_key(s, x)
    BY DEF Rowed
  <2>. QED
    BY <2>1 DEF IsSnapshot
<1>2. ASSUME NEW x \in S PROVE identity_key(s, x) \in KeysOf(s, S)
  BY DEF KeysOf
<1>3. ASSUME NEW k \in KeysOf(s, S)
      PROVE  Rowed(s, S, k) \in S /\ identity_key(s, Rowed(s, S, k)) = k
  <2>1. PICK x \in S : identity_key(s, x) = k
    BY DEF KeysOf
  <2>. QED
    BY <1>1, <2>1
<1>. QED
  BY <1>1, <1>2, <1>3

\* The rows a difference reports as removed, and those it reports as added or
\* modified.
Gone(delta) == {d.row : d \in {d \in delta : d.action = "removed"}}
New(delta) == {d.row : d \in {d \in delta : d.action # "removed"}}

\* What diff reports: a row whose key is in one snapshot only, or whose version
\* the other has not, when its source counts.
LEMMA DiffRows ==
  ASSUME NEW s, NEW C, NEW P, NEW done, IsSnapshot(s, C), IsSnapshot(s, P)
  PROVE  /\ Gone(diff(s, C, P, done))
              = {x \in P : identity_key(s, x) \notin KeysOf(s, C) /\ Counts(s, x, done)}
         /\ New(diff(s, C, P, done))
              = {x \in C : /\ Counts(s, x, done)
                           /\ \A y \in P : identity_key(s, y) = identity_key(s, x)
                                           => x.version # y.version}
<1> DEFINE now == KeysOf(s, C)
           old == KeysOf(s, P)
           A == {[action |-> "added", row |-> Rowed(s, C, k)] :
                   k \in {k \in now \ old : Counts(s, Rowed(s, C, k), done)}}
           M == {[action |-> "modified", row |-> Rowed(s, C, k)] :
                   k \in {k \in now \cap old :
                           /\ Counts(s, Rowed(s, C, k), done)
                           /\ Rowed(s, C, k).version # Rowed(s, P, k).version}}
           R == {[action |-> "removed", row |-> Rowed(s, P, k)] :
                   k \in {k \in old \ now : Counts(s, Rowed(s, P, k), done)}}
           delta == diff(s, C, P, done)
<1>1. delta = A \cup M \cup R
  BY DEF diff
<1>2. /\ \A x \in C : identity_key(s, x) \in now /\ Rowed(s, C, identity_key(s, x)) = x
      /\ \A x \in P : identity_key(s, x) \in old /\ Rowed(s, P, identity_key(s, x)) = x
      /\ \A k \in now : Rowed(s, C, k) \in C /\ identity_key(s, Rowed(s, C, k)) = k
      /\ \A k \in old : Rowed(s, P, k) \in P /\ identity_key(s, Rowed(s, P, k)) = k
  BY RowOfKey
<1>. HIDE DEF now, old, A, M, R, delta
<1>3. ASSUME NEW d \in A
      PROVE  d.action = "added" /\ \E k \in now \ old :
             /\ d.row = Rowed(s, C, k) /\ Counts(s, Rowed(s, C, k), done)
  <2>1. PICK k \in now \ old :
             /\ d = [action |-> "added", row |-> Rowed(s, C, k)]
             /\ Counts(s, Rowed(s, C, k), done)
    BY DEF A
  <2>. QED
    BY <2>1
<1>4. ASSUME NEW k \in now \ old, Counts(s, Rowed(s, C, k), done)
      PROVE  \E d \in A : d.action = "added" /\ d.row = Rowed(s, C, k)
  <2>. DEFINE d == [action |-> "added", row |-> Rowed(s, C, k)]
  <2>1. d \in A
    BY <1>4 DEF A
  <2>. QED
    BY <2>1
<1>5. ASSUME NEW d \in M
      PROVE  d.action = "modified" /\ \E k \in now \cap old :
             /\ d.row = Rowed(s, C, k) /\ Counts(s, Rowed(s, C, k), done)
             /\ Rowed(s, C, k).version # Rowed(s, P, k).version
  <2>1. PICK k \in now \cap old :
             /\ d = [action |-> "modified", row |-> Rowed(s, C, k)]
             /\ Counts(s, Rowed(s, C, k), done)
             /\ Rowed(s, C, k).version # Rowed(s, P, k).version
    BY DEF M
  <2>. QED
    BY <2>1
<1>6. ASSUME NEW k \in now \cap old, Counts(s, Rowed(s, C, k), done),
               Rowed(s, C, k).version # Rowed(s, P, k).version
      PROVE  \E d \in M : d.action = "modified" /\ d.row = Rowed(s, C, k)
  <2>. DEFINE d == [action |-> "modified", row |-> Rowed(s, C, k)]
  <2>1. d \in M
    BY <1>6 DEF M
  <2>. QED
    BY <2>1
<1>7. ASSUME NEW d \in R
      PROVE  d.action = "removed" /\ \E k \in old \ now :
             /\ d.row = Rowed(s, P, k) /\ Counts(s, Rowed(s, P, k), done)
  <2>1. PICK k \in old \ now :
             /\ d = [action |-> "removed", row |-> Rowed(s, P, k)]
             /\ Counts(s, Rowed(s, P, k), done)
    BY DEF R
  <2>. QED
    BY <2>1
<1>8. ASSUME NEW k \in old \ now, Counts(s, Rowed(s, P, k), done)
      PROVE  \E d \in R : d.action = "removed" /\ d.row = Rowed(s, P, k)
  <2>. DEFINE d == [action |-> "removed", row |-> Rowed(s, P, k)]
  <2>1. d \in R
    BY <1>8 DEF R
  <2>. QED
    BY <2>1
<1>9. ASSUME NEW x \in Gone(delta)
      PROVE  x \in P /\ identity_key(s, x) \notin now /\ Counts(s, x, done)
  <2>1. PICK d \in delta : d.action = "removed" /\ d.row = x
    BY DEF Gone
  <2>2. d \in R
    BY <1>1, <1>3, <1>4, <1>5, <1>6, <2>1
  <2>. QED
    BY <1>2, <1>7, <1>8, <2>1, <2>2
<1>10. ASSUME NEW x \in P, identity_key(s, x) \notin now, Counts(s, x, done)
      PROVE  x \in Gone(delta)
  <2>1. PICK d \in R : d.action = "removed" /\ d.row = x
    BY <1>2, <1>7, <1>8, <1>10
  <2>. QED
    BY <1>1, <2>1 DEF Gone
<1>11. ASSUME NEW x \in New(delta)
      PROVE  /\ x \in C /\ Counts(s, x, done)
             /\ \A y \in P : identity_key(s, y) = identity_key(s, x) => x.version # y.version
  <2>1. PICK d \in delta : d.action # "removed" /\ d.row = x
    BY DEF New
  <2>2. d \in A \cup M
    BY <1>1, <1>7, <1>8, <2>1
  <2>3. CASE d \in A
    BY <1>2, <1>3, <1>4, <2>1, <2>3
  <2>4. CASE d \in M
    <3>1. PICK k \in now \cap old : /\ x = Rowed(s, C, k) /\ Counts(s, Rowed(s, C, k), done)
                                    /\ Rowed(s, C, k).version # Rowed(s, P, k).version
      BY <1>5, <1>6, <2>1, <2>4
    <3>2. \A y \in P : identity_key(s, y) = k => y = Rowed(s, P, k)
      BY <1>2
    <3>. QED
      BY <1>2, <3>1, <3>2
  <2>. QED
    BY <2>2, <2>3, <2>4
<1>12. ASSUME NEW x \in C, Counts(s, x, done),
             \A y \in P : identity_key(s, y) = identity_key(s, x) => x.version # y.version
      PROVE  x \in New(delta)
  <2>1. PICK d \in A \cup M : d.action # "removed" /\ d.row = x
    <3>1. CASE identity_key(s, x) \in old
      <4>1. PICK d \in M : d.action = "modified" /\ d.row = x
        BY <1>2, <1>5, <1>6, <1>12, <3>1
      <4>. QED
        BY <4>1
    <3>2. CASE identity_key(s, x) \notin old
      <4>1. PICK d \in A : d.action = "added" /\ d.row = x
        BY <1>2, <1>3, <1>4, <1>12, <3>2
      <4>. QED
        BY <4>1
    <3>. QED
      BY <3>1, <3>2
  <2>. QED
    BY <1>1, <2>1 DEF New
<1>. QED
  BY <1>9, <1>10, <1>11, <1>12 DEF now, delta

\* The rows that leave the sources that are done, that are new in them, and
\* that stay.
Left(s, C, P, done) ==
  {x \in P : identity_key(s, x) \notin KeysOf(s, C) /\ x.source \in done}

Newer(s, C, P, done) ==
  {x \in C : /\ x.source \in done
             /\ \A y \in P : identity_key(s, y) = identity_key(s, x)
                             => x.version # y.version}

Stay(s, C, P, done) ==
  {x \in P \ Left(s, C, P, done) :
     identity_key(s, x) \notin KeysOf(s, Newer(s, C, P, done))}

\* Applying what a difference says rebuilds the sources that count, and leaves
\* the rows of every other source as they were.
LEMMA Rebuilt ==
  ASSUME NEW s \in {1, 2}, NEW C, NEW P, IsSnapshot(s, C), IsSnapshot(s, P), NEW done
  PROVE  LET new == Newer(s, C, P, done)
             kept == Stay(s, C, P, done)
         IN /\ \A x \in kept \cup new : x.source \in done =>
                 \E y \in C : /\ y.source \in done /\ identity_key(s, y) = identity_key(s, x)
                              /\ y.version = x.version
            /\ \A y \in C : y.source \in done =>
                 \E x \in kept \cup new : /\ x.source \in done
                                          /\ identity_key(s, x) = identity_key(s, y)
                                          /\ x.version = y.version
            /\ \A x : x.source \notin done => (x \in kept \cup new <=> x \in P)
<1> DEFINE gone == Left(s, C, P, done)
           new == Newer(s, C, P, done)
           kept == Stay(s, C, P, done)
<1>0. /\ gone = {x \in P : identity_key(s, x) \notin KeysOf(s, C) /\ x.source \in done}
      /\ new = {x \in C : /\ x.source \in done
                          /\ \A y \in P : identity_key(s, y) = identity_key(s, x)
                                          => x.version # y.version}
      /\ kept = {x \in P \ gone : identity_key(s, x) \notin KeysOf(s, new)}
  BY DEF Left, Newer, Stay
<1>. HIDE DEF gone, new, kept
<1>1. \A x, y : x \in P /\ y \in C /\ identity_key(s, x) = identity_key(s, y)
                => x.source = y.source
  BY KeyNamesSource
<1>2. ASSUME NEW S, NEW x PROVE identity_key(s, x) \in KeysOf(s, S)
                               <=> \E y \in S : identity_key(s, y) = identity_key(s, x)
  BY DEF KeysOf
<1>3. ASSUME NEW x \in kept, x.source \in done
      PROVE  \E y \in C : /\ y.source \in done /\ identity_key(s, y) = identity_key(s, x)
                          /\ y.version = x.version
  <2>1. x \in P /\ x \notin gone /\ identity_key(s, x) \notin KeysOf(s, new)
    BY <1>0
  <2>2. PICK y \in C : identity_key(s, y) = identity_key(s, x)
    BY <1>0, <1>2, <1>3, <2>1
  <2>3. y.source \in done /\ y \notin new
    BY <1>0, <1>1, <1>2, <1>3, <2>1, <2>2
  <2>4. PICK z \in P : identity_key(s, z) = identity_key(s, y) /\ y.version = z.version
    BY <1>0, <2>3
  <2>5. z = x
    BY <2>1, <2>2, <2>4 DEF IsSnapshot
  <2>. QED
    BY <2>2, <2>3, <2>4, <2>5
<1>4. ASSUME NEW y \in C, y.source \in done
      PROVE  \E x \in kept \cup new : /\ x.source \in done
                                      /\ identity_key(s, x) = identity_key(s, y)
                                      /\ x.version = y.version
  <2>1. CASE y \in new
    BY <1>0, <1>4, <2>1
  <2>2. CASE y \notin new
    <3>1. PICK z \in P : identity_key(s, z) = identity_key(s, y) /\ y.version = z.version
      BY <1>0, <1>4, <2>2
    <3>2. z.source \in done
      BY <1>1, <1>4, <3>1
    <3>3. z \notin gone
      BY <1>0, <1>2, <3>1
    <3>4. identity_key(s, z) \notin KeysOf(s, new)
      <4>. SUFFICES ASSUME NEW w \in new, identity_key(s, w) = identity_key(s, z)
                    PROVE  FALSE
        BY <1>2
      <4>1. w = y
        BY <1>0, <3>1 DEF IsSnapshot
      <4>. QED
        BY <2>2, <4>1
    <3>5. z \in kept
      BY <1>0, <3>3, <3>4
    <3>. QED
      BY <3>1, <3>2, <3>5
  <2>. QED
    BY <2>1, <2>2
<1>5. ASSUME NEW x, x.source \notin done
      PROVE  x \in kept \cup new <=> x \in P
  <2>1. x \notin new /\ x \notin gone
    BY <1>0, <1>5
  <2>2. ASSUME x \in P PROVE identity_key(s, x) \notin KeysOf(s, new)
    <3>. SUFFICES ASSUME NEW w \in new, identity_key(s, w) = identity_key(s, x)
                  PROVE  FALSE
      BY <1>2
    <3>. QED
      BY <1>0, <1>1, <1>5, <2>2
  <2>. QED
    BY <1>0, <2>1, <2>2
<1>. QED
  BY <1>0, <1>3, <1>4, <1>5 DEF gone, new, kept

\* The difference that is sent rebuilds the later snapshot.
LEMMA ListDiffers ==
  ASSUME schema \in {1, 2}, listed \in Seq(Rows), IsSnapshot(schema, previous)
  PROVE  DiffRebuilds
<1> DEFINE current == Taken(schema, listed)
           delta == diff(schema, current, previous, complete)
           gone == {d.row : d \in {d \in delta : d.action = "removed"}}
           new == {d.row : d \in {d \in delta : d.action # "removed"}}
           kept == {r \in previous \ gone :
                       identity_key(schema, r) \notin KeysOf(schema, new)}
           Shape(rows) == {<<identity_key(schema, r), r.version>> : r \in rows}
           all == {r.source : r \in current \cup previous}
           done == IF schema = 1 THEN all ELSE complete
           In(rows, S) == {r \in rows : r.source \in S}
<1>1. IsSnapshot(schema, current)
  BY TakenIsSnapshot
<1>. HIDE DEF current
<1>2. \A x : x \in current \/ x \in previous => (Counts(schema, x, complete) <=> x.source \in done)
  BY DEF Counts
<1>3. /\ gone = Left(schema, current, previous, done)
      /\ new = Newer(schema, current, previous, done)
  <2>1. gone = Gone(delta) /\ new = New(delta)
    BY DEF Gone, New
  <2>. HIDE DEF gone, new, delta, done
  <2>2. /\ Gone(delta)
             = {x \in previous : /\ identity_key(schema, x) \notin KeysOf(schema, current)
                                 /\ Counts(schema, x, complete)}
        /\ New(delta)
             = {x \in current :
                  /\ Counts(schema, x, complete)
                  /\ \A y \in previous : identity_key(schema, y) = identity_key(schema, x)
                                         => x.version # y.version}
    BY <1>1, DiffRows DEF delta
  <2>. QED
    BY <1>2, <2>1, <2>2 DEF Left, Newer
<1>. HIDE DEF gone, new, delta, done
<1>4. kept = Stay(schema, current, previous, done)
  BY <1>3 DEF Stay
<1>. HIDE DEF kept
<1>5. /\ \A x \in kept \cup new : x.source \in done =>
           \E y \in current : /\ y.source \in done
                              /\ identity_key(schema, y) = identity_key(schema, x)
                              /\ y.version = x.version
      /\ \A y \in current : y.source \in done =>
           \E x \in kept \cup new : /\ x.source \in done
                                    /\ identity_key(schema, x) = identity_key(schema, y)
                                    /\ x.version = y.version
      /\ \A x : x.source \notin done => (x \in kept \cup new <=> x \in previous)
  <2>1. IsSnapshot(schema, current) /\ IsSnapshot(schema, previous) /\ schema \in {1, 2}
    BY <1>1
  <2>. QED
    BY <2>1, <1>3, <1>4, Rebuilt
<1>6. Shape(In(kept \cup new, done)) = Shape(In(current, done))
  BY <1>5
<1>7. \A s \in all \ done : In(kept \cup new, {s}) = In(previous, {s})
  BY <1>5
<1>. QED
  BY <1>6, <1>7 DEF DiffRebuilds, current, delta, gone, new, kept, done

-----------------------------------------------------------------------------
(* The theorems *)

\* ListRow and TakeSnapshot: the rows of the snapshot taken before are those of
\* a snapshot, of the schema that was negotiated.
THEOREM Inductive == Spec => []SnapshotInv
<1>1. Init => SnapshotInv
  BY SnapshotAssumption, FS_EmptySet DEF Init, SnapshotInv, IsSnapshot
<1>2. ASSUME SnapshotInv, [Next]_vars PROVE SnapshotInv'
  <2>0. /\ schema \in {1, 2} /\ listed \in Seq(Rows) /\ Len(listed) <= MaxListed + MaxCompared
        /\ complete \subseteq Sources /\ IsSnapshot(schema, previous)
        /\ MaxListed \in Nat /\ MaxCompared \in Nat
    BY <1>2, SnapshotAssumption DEF SnapshotInv
  <2>1. CASE ListRow
    <3>1. PICK r \in Rows : listed' = Append(listed, r)
      BY <2>1 DEF ListRow
    <3>2. Len(listed) < MaxListed \/ Len(listed) < MaxCompared
      BY <2>1 DEF ListRow
    <3>3. /\ listed' \in Seq(Rows) /\ Len(listed') = Len(listed) + 1 /\ Len(listed) \in Nat
      BY <2>0, <3>1
    <3>4. Len(listed') <= MaxListed + MaxCompared
      BY <2>0, <3>2, <3>3
    <3>5. schema' = schema /\ complete' = complete /\ previous' = previous
      BY <2>1 DEF ListRow
    <3>6. IsSnapshot(schema', previous')
      BY <2>0, <3>5
    <3>. QED
      BY <2>0, <3>3, <3>4, <3>5, <3>6 DEF SnapshotInv
  <2>2. CASE TakeSnapshot
    <3>1. /\ previous' = Taken(schema, listed) /\ listed' = << >>
          /\ complete' \subseteq Sources /\ schema' = schema
      BY <2>2 DEF TakeSnapshot
    <3>2. IsSnapshot(schema', previous')
      <4>1. IsSnapshot(schema, Taken(schema, listed))
        BY <2>0, TakenIsSnapshot
      <4>. QED
        BY <3>1, <4>1
    <3>3. listed' \in Seq(Rows) /\ Len(listed') <= MaxListed + MaxCompared
      BY <2>0, <3>1
    <3>. QED
      BY <2>0, <3>1, <3>2, <3>3 DEF SnapshotInv
  <2>3. CASE UNCHANGED vars
    BY <2>0, <2>3 DEF vars, SnapshotInv
  <2>. QED
    BY <1>2, <2>1, <2>2, <2>3 DEF Next
<1>. QED
  BY <1>1, <1>2, PTL DEF Spec

\* InventorySnapshot::normalize and into_v1: the rows of a snapshot are named,
\* and only those of schema 2 carry an identity.
THEOREM TypeCorrect == Spec => []TypeOK
<1>1. ASSUME SnapshotInv PROVE TypeOK
  <2>1. schema \in {1, 2} /\ IsSnapshot(schema, previous)
    BY <1>1 DEF SnapshotInv
  <2>2. ASSUME NEW r \in previous
        PROVE  r.name # "" /\ (r.identity = None <=> schema = 1)
    <3>1. CASE schema = 2
      <4>1. Identified(r)
        BY <2>1, <3>1 DEF IsSnapshot
      <4>2. r.name # "" /\ r.identity # None
        BY <4>1 DEF Identified
      <4>3. schema # 1
        BY <3>1
      <4>. QED
        BY <4>2, <4>3
    <3>2. CASE schema = 1
      <4>1. Legacy(r)
        BY <2>1, <3>2 DEF IsSnapshot
      <4>. QED
        BY <3>2, <4>1 DEF Legacy
    <3>. QED
      BY <2>1, <3>1, <3>2
  <2>. QED
    BY <1>1, <2>2 DEF SnapshotInv, TypeOK
<1>. QED
  BY <1>1, Inductive, PTL

\* deduplicate_software and compare_versions under schema 1: every product that
\* was listed is sent once, and never an older row of it for a newer one.
THEOREM NewestIsSent == Spec => []NewestSurvives
<1>1. SnapshotInv => NewestSurvives
  BY ListKeepsNewest DEF SnapshotInv
<1>. QED
  BY <1>1, Inductive, PTL

\* ensure_installation_identity and deduplicate_software under schema 2: every
\* named row has exactly one sent row of its identity, and two rows share it only
\* if they agree on product, package, scope and place.
THEOREM InstallationsKept == Spec => []NoInstallationHidden
<1>1. SnapshotInv => NoInstallationHidden
  BY ListHidesNothing DEF SnapshotInv
<1>. QED
  BY <1>1, Inductive, PTL

\* InventorySnapshot::normalize and validate: what was sent is left as it is
\* when it is normalised again, and is fit to be sent.
THEOREM ResendIsStable == Spec => []ResendKeepsIdentity
<1>1. SnapshotInv => ResendKeepsIdentity
  BY ListIsResent DEF SnapshotInv
<1>. QED
  BY <1>1, Inductive, PTL

\* The sort in normalize: where no two different rows of one installation compare
\* equal, as rows do whose versions are spelled in two ways or whose names or
\* publishers differ in case only, the order in which the host enumerates its
\* software does not reach the server.
THEOREM OrderDoesNotMatter == Spec => []OrderIrrelevant
<1>1. SnapshotInv => OrderIrrelevant
  BY ListOrderIrrelevant DEF SnapshotInv
<1>. QED
  BY <1>1, Inductive, PTL

\* InventorySnapshot::diff: the changes it reports lead from the snapshot taken
\* before to this one on the sources read completely, and touch no other.
THEOREM DifferenceRebuilds == Spec => []DiffRebuilds
<1>1. SnapshotInv => DiffRebuilds
  BY ListDiffers DEF SnapshotInv
<1>. QED
  BY <1>1, Inductive, PTL
=============================================================================
