----------------------- MODULE DependencyCycleProofs -----------------------
(***************************************************************************)
(* The search for a dependency cycle is right for any graph: it finds one  *)
(* if there is one, and the shortest unless it stopped at one of three.    *)
(* The walks along deps are the measure of both the search and the         *)
(* reference it is compared with.                                          *)
(***************************************************************************)
EXTENDS DependencyCycle, FiniteSetTheorems, TLAPS

Before == {p \in Nat \X Nat : p[1] < p[2]}

(* A set of natural numbers has a least one. *)
LEMMA LeastOf ==
  ASSUME NEW T \in SUBSET Nat, T # {}
  PROVE  \E x \in T : \A y \in T : x <= y
<1>1. IsWellFoundedOn(Before, Nat)
  BY NatLessThanWellFounded DEF OpToRel, Before
<1>2. PICK x \in T : \A y \in T : ~(<<y, x>> \in Before)
  BY <1>1, WFMin
<1>3. ASSUME NEW y \in T PROVE x <= y
  <2>1. <<y, x>> \notin Before
    BY <1>2
  <2> QED BY <2>1 DEF Before
<1> QED BY <1>3

LEMMA MinIs ==
  ASSUME NEW T \in SUBSET Nat, T # {}
  PROVE  Min(T) \in T /\ \A y \in T : Min(T) <= y
BY LeastOf DEF Min

(* Induction over the natural numbers up to a last one, for a set of them. *)
LEMMA Climb ==
  ASSUME NEW last \in Nat, NEW T, 0 \in T, \A n \in 0..(last - 1) : n \in T => n + 1 \in T
  PROVE  \A n \in 0..last : n \in T
<1> SUFFICES ASSUME NEW m \in 0..last, m \notin T PROVE FALSE
  OBVIOUS
<1>1. PICK x \in {n \in 0..last : n \notin T} : \A y \in {n \in 0..last : n \notin T} : x <= y
  <2>1. {n \in 0..last : n \notin T} \in SUBSET Nat /\ {n \in 0..last : n \notin T} # {}
    OBVIOUS
  <2> QED BY <2>1, LeastOf
<1>2. x # 0 /\ x - 1 \in 0..(last - 1)
  OBVIOUS
<1>3. x - 1 \in T
  BY <1>1, <1>2
<1> QED BY <1>2, <1>3

Follows(f, last, S, x, G) ==
  f \in [0..last -> S] /\ f[0] = x /\ \A n \in 0..(last - 1) : f[n + 1] = G[n][f[n]]

(* A function that takes its value at n + 1 from that at n exists. *)
LEMMA Recursion ==
  ASSUME NEW last \in Nat, NEW S, NEW x \in S, NEW G \in [0..last -> [S -> S]]
  PROVE  \E f : Follows(f, last, S, x, G)
<1> DEFINE Part(n) == {g \in [0..n -> S] : g[0] = x /\ \A i \in 0..(n - 1) : g[i + 1] = G[i][g[i]]}
           T == {n \in 0..last : Part(n) # {}}
<1>1. 0 \in T
  <2>1. [i \in 0..0 |-> x] \in Part(0)
    OBVIOUS
  <2> QED BY <2>1
<1>2. ASSUME NEW n \in 0..(last - 1), n \in T PROVE n + 1 \in T
  <2>1. PICK g \in Part(n) : TRUE
    BY <1>2
  <2>2. n \in Nat /\ G[n] \in [S -> S] /\ g[n] \in S
    OBVIOUS
  <2> DEFINE h == [i \in 0..(n + 1) |-> IF i <= n THEN g[i] ELSE G[n][g[n]]]
  <2>3. h \in [0..(n + 1) -> S] /\ h[0] = x
    BY <2>1, <2>2
  <2>4. ASSUME NEW i \in 0..n PROVE h[i + 1] = G[i][h[i]]
    <3>1. CASE i = n
      BY <2>2, <3>1
    <3>2. CASE i # n
      <4>1. i \in 0..(n - 1) /\ i + 1 \in 0..n
        BY <3>2
      <4> QED BY <2>1, <4>1
    <3> QED BY <3>1, <3>2
  <2>5. h \in Part(n + 1)
    <3>1. (n + 1) - 1 = n
      OBVIOUS
    <3> HIDE DEF h
    <3> QED BY <3>1, <2>3, <2>4
  <2>6. n + 1 \in 0..last
    OBVIOUS
  <2> HIDE DEF Part
  <2> QED BY <2>5, <2>6
<1> HIDE DEF T
<1>3. \A n \in 0..last : n \in T
  BY <1>1, <1>2, Climb
<1> QED BY <1>3 DEF T, Follows

-----------------------------------------------------------------------------
(* The graph, and walks in it. *)

size == Cardinality(Node)

Graph ==
  /\ modules \in SUBSET Node
  /\ edges \in [Node -> SUBSET Node]
  /\ \A n \in Node : n \notin edges[n]

Grown(X) == X \cup UNION {edges[m] : m \in X \cap modules}

(* There is a walk of k deps from n to y, within the universe up to y. *)
Walk(n, y, k) ==
  \E w \in [0..k -> Node] :
    w[0] = n /\ w[k] = y /\ \A i \in 0..(k - 1) : w[i] \in modules /\ w[i + 1] \in edges[w[i]]

LEMMA SizeIsNat == size \in Nat
BY NodeAssumption, FS_CardinalityType DEF size

LEMMA GrownIs ==
  ASSUME Graph, NEW X \in SUBSET Node
  PROVE  /\ Grown(X) \in SUBSET Node
         /\ X \subseteq Grown(X)
         /\ \A y : y \in Grown(X) <=> y \in X \/ \E m \in X \cap modules : y \in edges[m]
BY DEF Graph, Grown

(* Visited grows by a step along deps until max_length. *)
LEMMA VisitedIs ==
  ASSUME Graph, NEW n \in Node, NEW max_length \in Nat
  PROVE  /\ Visited(n, max_length) \in [0..(size + 1) -> SUBSET Node]
         /\ Visited(n, max_length)[0] = {n}
         /\ \A d \in 0..size : Visited(n, max_length)[d + 1] =
              IF d >= max_length - 1 THEN Visited(n, max_length)[d]
              ELSE Grown(Visited(n, max_length)[d])
<1> DEFINE S == SUBSET Node
           G == [d \in 0..(size + 1) |-> [X \in S |-> IF d >= max_length - 1 THEN X ELSE Grown(X)]]
           Is(f) == f = [d \in 0..(size + 1) |->
                           IF d = 0 THEN {n}
                           ELSE IF d - 1 >= max_length - 1 THEN f[d - 1] ELSE Grown(f[d - 1])]
<1>1. PICK f \in [0..(size + 1) -> S] :
        f[0] = {n} /\ \A d \in 0..size : f[d + 1] = G[d][f[d]]
  <2> DEFINE last == size + 1
             x == {n}
  <2>1. G \in [0..last -> [S -> S]] /\ x \in S
    BY GrownIs
  <2>2. last \in Nat /\ last - 1 = size
    BY SizeIsNat
  <2> HIDE DEF S, G, last, x
  <2>3. \E f : Follows(f, last, S, x, G)
    BY <2>1, <2>2, Recursion
  <2> QED BY <2>2, <2>3 DEF Follows, last, x
<1>2. Is(f)
  <2>1. ASSUME NEW d \in 0..(size + 1)
        PROVE  f[d] = IF d = 0 THEN {n}
                      ELSE IF d - 1 >= max_length - 1 THEN f[d - 1] ELSE Grown(f[d - 1])
    <3>1. CASE d = 0
      BY <1>1, <3>1
    <3>2. CASE d # 0
      <4>1. d - 1 \in 0..size /\ (d - 1) + 1 = d /\ d - 1 \in 0..(size + 1)
        BY <3>2, SizeIsNat
      <4>2. f[d] = G[d - 1][f[d - 1]]
        BY <1>1, <4>1
      <4> QED BY <3>2, <4>1, <4>2
    <3> QED BY <3>1, <3>2
  <2> QED BY <2>1
<1>3. Visited(n, max_length) = CHOOSE g : Is(g)
  BY DEF Visited, Grown, size
<1>4. Is(Visited(n, max_length))
  <2> HIDE DEF Is
  <2> QED BY <1>2, <1>3
<1>5. \A d \in 0..size : d + 1 \in 0..(size + 1) /\ (d + 1) - 1 = d /\ d + 1 # 0
  BY SizeIsNat
<1>6. Visited(n, max_length) \in [0..(size + 1) -> S]
  <2> DEFINE v == Visited(n, max_length)
  <2>1. \A d \in 0..size : v[d + 1] = IF d >= max_length - 1 THEN v[d] ELSE Grown(v[d])
    BY <1>4, <1>5
  <2>2. v[0] = {n}
    BY <1>4, SizeIsNat
  <2> DEFINE T == {d \in 0..(size + 1) : v[d] \in S}
  <2>3. 0 \in T
    BY <2>2, SizeIsNat
  <2>4. \A d \in 0..size : d \in T => d + 1 \in T
    BY <2>1, <1>5, GrownIs
  <2>5. \A d \in 0..(size + 1) : d \in T
    <3> DEFINE last == size + 1
    <3>1. last \in Nat /\ last - 1 = size
      BY SizeIsNat
    <3> HIDE DEF T, last
    <3>2. \A d \in 0..last : d \in T
      BY <2>3, <2>4, <3>1, Climb
    <3> QED BY <3>2 DEF last
  <2>6. v = [d \in 0..(size + 1) |-> v[d]]
    BY <1>4
  <2> HIDE DEF v
  <2> QED BY <2>5, <2>6 DEF v
<1>7. Visited(n, max_length)[0] = {n}
  BY <1>4, SizeIsNat
<1>8. \A d \in 0..size : Visited(n, max_length)[d + 1] =
        IF d >= max_length - 1 THEN Visited(n, max_length)[d] ELSE Grown(Visited(n, max_length)[d])
  BY <1>4, <1>5
<1> QED BY <1>6, <1>7, <1>8

(* The reference grows in the same way, from the deps of n on. *)
LEMMA ReachesIs ==
  ASSUME Graph, NEW n \in Node
  PROVE  /\ Reaches(n)[0] = edges[n]
         /\ \A k \in 0..(size - 1) : Reaches(n)[k + 1] = Grown(Reaches(n)[k])
         /\ \A k \in 0..size : Reaches(n)[k] \in SUBSET Node
<1> DEFINE S == SUBSET Node
           G == [k \in 0..size |-> [X \in S |-> Grown(X)]]
           x == edges[n]
           Is(f) == f = [k \in 0..size |-> IF k = 0 THEN x ELSE Grown(f[k - 1])]
<1>1. PICK f : Follows(f, size, S, x, G)
  <2>1. G \in [0..size -> [S -> S]] /\ x \in S
    BY GrownIs DEF Graph
  <2> HIDE DEF S, G, x
  <2> QED BY <2>1, SizeIsNat, Recursion
<1>2. f \in [0..size -> S] /\ f[0] = x /\ \A k \in 0..(size - 1) : f[k + 1] = G[k][f[k]]
  BY <1>1 DEF Follows
<1>3. Is(f)
  <2>1. ASSUME NEW k \in 0..size PROVE f[k] = IF k = 0 THEN x ELSE Grown(f[k - 1])
    <3>1. CASE k = 0
      BY <1>2, <3>1
    <3>2. CASE k # 0
      <4>1. k - 1 \in 0..(size - 1) /\ (k - 1) + 1 = k /\ k - 1 \in 0..size
        BY <3>2, SizeIsNat
      <4>2. f[k] = G[k - 1][f[k - 1]]
        BY <1>2, <4>1
      <4>3. f[k - 1] \in S
        BY <1>2, <4>1
      <4> HIDE DEF S, x
      <4> QED BY <3>2, <4>1, <4>2, <4>3
    <3> QED BY <3>1, <3>2
  <2> HIDE DEF x
  <2> QED BY <1>2, <2>1
<1>4. Reaches(n) = CHOOSE g : Is(g)
  BY DEF Reaches, Grown, size
<1>5. Is(Reaches(n))
  <2> HIDE DEF Is
  <2> QED BY <1>3, <1>4
<1>6. \A k \in 0..(size - 1) : k + 1 \in 0..size /\ (k + 1) - 1 = k /\ k + 1 # 0
  BY SizeIsNat
<1>7. Reaches(n)[0] = edges[n]
  BY <1>5, SizeIsNat
<1>8. \A k \in 0..(size - 1) : Reaches(n)[k + 1] = Grown(Reaches(n)[k])
  BY <1>5, <1>6
<1>9. \A k \in 0..size : Reaches(n)[k] \in S
  <2> DEFINE T == {k \in 0..size : Reaches(n)[k] \in S}
  <2>1. 0 \in T
    BY <1>7, SizeIsNat DEF Graph
  <2>2. \A k \in 0..(size - 1) : k \in T => k + 1 \in T
    BY <1>6, <1>8, GrownIs
  <2> HIDE DEF T
  <2>3. \A k \in 0..size : k \in T
    BY <2>1, <2>2, SizeIsNat, Climb
  <2> QED BY <2>3 DEF T
<1> QED BY <1>7, <1>8, <1>9

-----------------------------------------------------------------------------
(* What the reference says, as walks. *)

(* A walk is followed in as many steps. *)
LEMMA WalkIsReached ==
  ASSUME Graph, NEW n \in Node, NEW y, NEW k \in 1..(size + 1), Walk(n, y, k)
  PROVE  y \in Reaches(n)[k - 1]
<1>1. PICK w \in [0..k -> Node] :
        w[0] = n /\ w[k] = y /\ \A i \in 0..(k - 1) : w[i] \in modules /\ w[i + 1] \in edges[w[i]]
  BY DEF Walk
<1> DEFINE r == Reaches(n)
           T == {i \in 0..(k - 1) : w[i + 1] \in r[i]}
<1>2. k \in Nat /\ k - 1 \in Nat /\ k - 1 <= size
  BY SizeIsNat
<1>3. /\ r[0] = edges[n]
      /\ \A i \in 0..(size - 1) : r[i + 1] = Grown(r[i])
      /\ \A i \in 0..size : r[i] \in SUBSET Node
  BY ReachesIs
<1> HIDE DEF r
<1>4. 0 \in T
  BY <1>1, <1>2, <1>3
<1>5. ASSUME NEW i \in 0..((k - 1) - 1), i \in T PROVE i + 1 \in T
  <2>1. i \in 0..(size - 1) /\ i \in 0..size /\ i + 1 \in 0..(k - 1)
    BY <1>2, SizeIsNat
  <2>2. w[(i + 1) + 1] \in edges[w[i + 1]] /\ w[i + 1] \in modules /\ w[i + 1] \in r[i]
    BY <1>1, <1>5, <2>1
  <2>3. w[(i + 1) + 1] \in r[i + 1]
    BY <1>3, <2>1, <2>2, GrownIs
  <2> QED BY <2>1, <2>3
<1> HIDE DEF T
<1>6. \A i \in 0..(k - 1) : i \in T
  BY <1>2, <1>4, <1>5, Climb
<1>7. k - 1 \in T /\ (k - 1) + 1 = k
  BY <1>2, <1>6
<1> QED BY <1>1, <1>7 DEF T, r

(* A walk of one dep more. *)
LEMMA WalkOn ==
  ASSUME NEW n, NEW m \in modules, NEW y \in Node, NEW k \in Nat, Graph, Walk(n, m, k), y \in edges[m]
  PROVE  Walk(n, y, k + 1)
<1>1. PICK w \in [0..k -> Node] :
        w[0] = n /\ w[k] = m /\ \A i \in 0..(k - 1) : w[i] \in modules /\ w[i + 1] \in edges[w[i]]
  BY DEF Walk
<1> DEFINE u == [i \in 0..(k + 1) |-> IF i <= k THEN w[i] ELSE y]
<1>2. u \in [0..(k + 1) -> Node] /\ u[0] = n /\ u[k + 1] = y
  BY <1>1
<1>3. ASSUME NEW i \in 0..k PROVE u[i] \in modules /\ u[i + 1] \in edges[u[i]]
  <2>1. CASE i = k
    BY <1>1, <2>1
  <2>2. CASE i # k
    <3>1. i \in 0..(k - 1) /\ i + 1 \in 0..k /\ i <= k /\ i + 1 <= k /\ i + 1 \in 0..(k + 1)
      BY <2>2
    <3> QED BY <1>1, <3>1
  <2> QED BY <2>1, <2>2
<1>4. (k + 1) - 1 = k
  OBVIOUS
<1> HIDE DEF u
<1> QED BY <1>2, <1>3, <1>4 DEF Walk

LEMMA NoWalk == ASSUME NEW n \in Node PROVE Walk(n, n, 0)
<1>1. [i \in 0..0 |-> n] \in [0..0 -> Node] /\ [i \in 0..0 |-> n][0] = n
  OBVIOUS
<1>2. \A i \in 0..(0 - 1) : FALSE
  OBVIOUS
<1> QED BY <1>1, <1>2 DEF Walk

(* What is reached is reached by a walk. *)
LEMMA ReachedIsWalked ==
  ASSUME Graph, NEW n \in modules, NEW k \in 0..size, NEW y \in Reaches(n)[k]
  PROVE  \E l \in 1..(k + 1) : Walk(n, y, l)
<1> DEFINE r == Reaches(n)
           T == {i \in 0..size : \A x \in r[i] : \E l \in 1..(i + 1) : Walk(n, x, l)}
<1>1. n \in Node /\ size \in Nat
  BY SizeIsNat DEF Graph
<1>2. /\ r[0] = edges[n]
      /\ \A i \in 0..(size - 1) : r[i + 1] = Grown(r[i])
      /\ \A i \in 0..size : r[i] \in SUBSET Node
  BY <1>1, ReachesIs
<1> HIDE DEF r
<1>3. 0 \in T
  <2>1. ASSUME NEW x \in r[0] PROVE Walk(n, x, 1)
    <3>1. Walk(n, n, 0) /\ x \in edges[n] /\ x \in Node
      BY <1>1, <1>2, <2>1, NoWalk
    <3>2. Walk(n, x, 0 + 1)
      BY <3>1, WalkOn
    <3> QED BY <3>2
  <2>2. 1 \in 1..(0 + 1) /\ 0 \in 0..size
    BY <1>1
  <2> QED BY <2>1, <2>2
<1>4. ASSUME NEW i \in 0..(size - 1), i \in T PROVE i + 1 \in T
  <2>1. i \in Nat /\ i \in 0..size /\ i + 1 \in 0..size
    BY <1>1
  <2>2. ASSUME NEW x \in r[i + 1] PROVE \E l \in 1..((i + 1) + 1) : Walk(n, x, l)
    <3>1. CASE x \in r[i]
      <4>1. PICK l \in 1..(i + 1) : Walk(n, x, l)
        BY <1>4, <3>1
      <4>2. l \in 1..((i + 1) + 1)
        BY <2>1
      <4> QED BY <4>1, <4>2
    <3>2. CASE x \notin r[i]
      <4>1. PICK m \in r[i] \cap modules : x \in edges[m]
        BY <1>2, <2>1, <2>2, <3>2, GrownIs
      <4>2. PICK l \in 1..(i + 1) : Walk(n, m, l)
        BY <1>4, <4>1
      <4>3. x \in Node /\ l \in Nat /\ l + 1 \in 1..((i + 1) + 1)
        BY <1>2, <2>1, <2>2
      <4>4. Walk(n, x, l + 1)
        BY <4>1, <4>2, <4>3, WalkOn
      <4> QED BY <4>3, <4>4
    <3> QED BY <3>1, <3>2
  <2> QED BY <2>1, <2>2
<1> HIDE DEF T
<1>5. \A i \in 0..size : i \in T
  BY <1>1, <1>3, <1>4, Climb
<1> QED BY <1>5 DEF T, r

(* A shorter walk than max_length is followed by the search as well. *)
LEMMA WalkIsVisited ==
  ASSUME Graph, NEW n \in Node, NEW y, NEW max_length \in Nat, NEW k \in 0..(size + 1),
         k < max_length, Walk(n, y, k)
  PROVE  y \in Visited(n, max_length)[k]
<1>1. PICK w \in [0..k -> Node] :
        w[0] = n /\ w[k] = y /\ \A i \in 0..(k - 1) : w[i] \in modules /\ w[i + 1] \in edges[w[i]]
  BY DEF Walk
<1> DEFINE v == Visited(n, max_length)
           T == {i \in 0..k : w[i] \in v[i]}
<1>2. k \in Nat /\ k <= size + 1 /\ size \in Nat
  BY SizeIsNat
<1>3. /\ v[0] = {n}
      /\ \A d \in 0..size : v[d + 1] = IF d >= max_length - 1 THEN v[d] ELSE Grown(v[d])
      /\ \A d \in 0..(size + 1) : v[d] \in SUBSET Node
  BY VisitedIs
<1> HIDE DEF v
<1>4. 0 \in T
  BY <1>1, <1>2, <1>3
<1>5. ASSUME NEW i \in 0..(k - 1), i \in T PROVE i + 1 \in T
  <2>1. i \in 0..size /\ i \in 0..(size + 1) /\ i + 1 \in 0..k /\ ~(i >= max_length - 1)
    BY <1>2
  <2>2. w[i + 1] \in edges[w[i]] /\ w[i] \in modules /\ w[i] \in v[i]
    BY <1>1, <1>5
  <2>3. w[i + 1] \in v[i + 1]
    BY <1>3, <2>1, <2>2, GrownIs
  <2> QED BY <2>1, <2>3
<1> HIDE DEF T
<1>6. \A i \in 0..k : i \in T
  BY <1>2, <1>4, <1>5, Climb
<1>7. k \in T
  BY <1>2, <1>6
<1> QED BY <1>1, <1>7 DEF T, v

-----------------------------------------------------------------------------
(* The search from one module. *)

Distance == 0..(size + 1)

(* Layers splits what is visited by distance; what is at a distance of d + 1 has a
   dependent at a distance of d, which was expanded. *)
LEMMA LayersAre ==
  ASSUME Graph, NEW n \in Node, NEW max_length \in Nat
  PROVE  /\ DOMAIN Layers(n, max_length) = Distance
         /\ Layers(n, max_length)[0] = {n}
         /\ \A d \in Distance : Layers(n, max_length)[d] \in SUBSET Node
         /\ \A d \in 0..size : \A x \in Layers(n, max_length)[d + 1] :
              \E m \in Layers(n, max_length)[d] \cap modules : x \in edges[m]
         /\ \A d, e \in Distance :
              \A x \in Layers(n, max_length)[d] \cap Layers(n, max_length)[e] : d = e
<1> DEFINE v == Visited(n, max_length)
           layer == Layers(n, max_length)
<1>1. /\ v \in [Distance -> SUBSET Node]
      /\ v[0] = {n}
      /\ \A d \in 0..size : v[d + 1] = IF d >= max_length - 1 THEN v[d] ELSE Grown(v[d])
  BY VisitedIs DEF Distance
<1>2. layer = [d \in Distance |-> IF d = 0 THEN {n} ELSE v[d] \ v[d - 1]]
  BY <1>1 DEF Layers
<1> HIDE DEF v, layer
<1>3. size \in Nat /\ 0 \in Distance
  BY SizeIsNat DEF Distance
<1>4. \A d \in Distance : d # 0 => d - 1 \in 0..size /\ d - 1 \in Distance /\ (d - 1) + 1 = d
  BY <1>3 DEF Distance
<1>5. \A d \in 0..size : d \in Distance /\ d + 1 \in Distance /\ d + 1 # 0 /\ (d + 1) - 1 = d
  BY <1>3 DEF Distance
<1>6. \A d \in 0..size : layer[d + 1] = v[d + 1] \ v[d]
  BY <1>2, <1>5
<1>7. ASSUME NEW d \in 0..size, NEW x \in layer[d + 1]
      PROVE  \E m \in layer[d] \cap modules : x \in edges[m]
  <2>1. x \in v[d + 1] /\ x \notin v[d] /\ v[d] \in SUBSET Node
    BY <1>1, <1>5, <1>6, <1>7
  <2>2. ~(d >= max_length - 1) /\ v[d + 1] = Grown(v[d])
    BY <1>1, <2>1
  <2>3. PICK m \in v[d] \cap modules : x \in edges[m]
    BY <2>1, <2>2, GrownIs
  <2>4. CASE d = 0
    BY <1>1, <1>2, <1>3, <2>3, <2>4
  <2>5. CASE d # 0
    <3>1. d - 1 \in 0..size /\ d - 1 \in Distance /\ (d - 1) + 1 = d /\ d \in Distance
      BY <1>4, <1>5, <2>5
    <3>2. ~(d - 1 >= max_length - 1)
      BY <1>3, <2>2
    <3>3. v[d] = Grown(v[d - 1]) /\ v[d - 1] \in SUBSET Node
      BY <1>1, <3>1, <3>2
    <3>4. m \notin v[d - 1]
      BY <2>1, <2>3, <3>3, GrownIs
    <3>5. layer[d] = v[d] \ v[d - 1]
      BY <1>2, <2>5, <3>1
    <3> QED BY <2>3, <3>4, <3>5
  <2> QED BY <2>4, <2>5
<1>8. \A d \in 0..size : v[d] \subseteq v[d + 1]
  BY <1>1, <1>5, GrownIs
<1>9. \A d \in Distance : \A e \in Distance : d <= e => v[d] \subseteq v[e]
  <2> SUFFICES ASSUME NEW d \in Distance PROVE \A e \in Distance : d <= e => v[d] \subseteq v[e]
    OBVIOUS
  <2> DEFINE T == {e \in Distance : d <= e => v[d] \subseteq v[e]}
             last == size + 1
  <2>1. 0 \in T
    BY <1>3 DEF Distance
  <2>2. ASSUME NEW e \in 0..size, e \in T PROVE e + 1 \in T
    <3>1. CASE d <= e
      BY <1>5, <1>8, <2>2, <3>1
    <3>2. CASE ~(d <= e)
      <4>1. d <= e + 1 => d = e + 1
        BY <1>3, <3>2 DEF Distance
      <4> QED BY <1>5, <4>1
    <3> QED BY <3>1, <3>2
  <2>3. last \in Nat /\ last - 1 = size
    BY <1>3
  <2> HIDE DEF T, last
  <2>4. \A e \in 0..last : e \in T
    BY <2>1, <2>2, <2>3, Climb
  <2> QED BY <2>4 DEF T, last, Distance
<1>10. ASSUME NEW d \in Distance, NEW e \in Distance, NEW x \in layer[d] \cap layer[e], d < e
       PROVE  FALSE
  <2>1. e # 0 /\ e - 1 \in Distance /\ d <= e - 1
    BY <1>3, <1>4, <1>10 DEF Distance
  <2>2. x \notin v[e - 1]
    BY <1>2, <1>10, <2>1
  <2>3. x \in v[d]
    BY <1>1, <1>2, <1>10
  <2> QED BY <1>9, <2>1, <2>2, <2>3
<1>11. \A d, e \in Distance : \A x \in layer[d] \cap layer[e] : d = e
  <2>1. \A d, e \in Distance : d < e \/ e < d \/ d = e
    BY <1>3 DEF Distance
  <2> QED BY <1>10, <2>1
<1>12. \A d \in Distance : layer[d] \in SUBSET Node
  BY <1>1, <1>2
<1>13. DOMAIN layer = Distance /\ layer[0] = {n}
  BY <1>2, <1>3
<1> QED BY <1>7, <1>11, <1>12, <1>13 DEF layer

IsCycle(s) ==
  /\ s \in Seq(modules) /\ s # <<>>
  /\ \A i \in 1..Len(s) : s[i] \in edges[s[IF i = Len(s) THEN 1 ELSE i + 1]]
  /\ \A i, j \in 1..Len(s) : s[i] = s[j] => i = j

(* The distances at which the search comes back to where it began. *)
Closing(n, max_length) ==
  {d \in Distance : d < max_length - 1
                     /\ \E m \in Layers(n, max_length)[d] \cap modules : n \in edges[m]}

(* The ways back from there, of k modules. *)
IsWayBack(p, n, max_length, k) ==
  /\ p \in [1..k -> modules]
  /\ p[1] = n
  /\ \A i \in 2..k : p[i] \in Layers(n, max_length)[k + 1 - i]
  /\ \A i \in 1..k : p[i] \in edges[p[(i % k) + 1]]

LEMMA BfsIs ==
  ASSUME Graph, NEW n \in Node, NEW max_length \in Nat, NEW p
  PROVE  p \in find_cycle_bfs(n, max_length) <=>
           Closing(n, max_length) # {}
             /\ IsWayBack(p, n, max_length, Min(Closing(n, max_length)) + 1)
<1>1. DOMAIN Layers(n, max_length) = Distance
  BY LayersAre
<1> QED BY <1>1 DEF find_cycle_bfs, Closing, IsWayBack

(* Modulo the length the next position is the one after it, or the first. *)
LEMMA NextPosition ==
  ASSUME NEW k \in Nat \ {0}, NEW i \in 1..k
  PROVE  (i % k) + 1 = IF i = k THEN 1 ELSE i + 1
OBVIOUS

(* What the search returns is a cycle, and shorter than the bound. *)
LEMMA BfsFindsCycles ==
  ASSUME Graph, NEW n \in Node, NEW max_length \in Nat, NEW p \in find_cycle_bfs(n, max_length)
  PROVE  /\ IsCycle(p) /\ Len(p) < max_length
         /\ Closing(n, max_length) # {} /\ Len(p) = Min(Closing(n, max_length)) + 1
<1> DEFINE layer == Layers(n, max_length)
           least == Min(Closing(n, max_length))
           k == least + 1
<1>1. Closing(n, max_length) # {} /\ IsWayBack(p, n, max_length, k)
  BY BfsIs
<1>2. least \in Distance /\ least < max_length - 1
  <2>1. Closing(n, max_length) \in SUBSET Nat
    BY SizeIsNat DEF Closing, Distance
  <2>2. least \in Closing(n, max_length)
    BY <1>1, <2>1, MinIs
  <2> QED BY <2>2 DEF Closing
<1> HIDE DEF least
<1>3. k \in Nat \ {0} /\ k < max_length /\ \A i \in 2..k : k + 1 - i \in Distance /\ k + 1 - i # 0
  BY <1>2, SizeIsNat DEF Distance
<1> HIDE DEF k
<1>4. /\ p \in [1..k -> modules]
      /\ p[1] = n
      /\ \A i \in 2..k : p[i] \in layer[k + 1 - i]
      /\ \A i \in 1..k : p[i] \in edges[p[(i % k) + 1]]
  BY <1>1 DEF IsWayBack
<1>5. /\ layer[0] = {n} /\ 0 \in Distance
      /\ \A d, e \in Distance : \A x \in layer[d] \cap layer[e] : d = e
  BY LayersAre, SizeIsNat DEF Distance
<1> HIDE DEF layer
<1>6. p \in Seq(modules) /\ Len(p) = k /\ p # <<>>
  BY <1>3, <1>4
<1>7. \A i \in 1..k : p[i] \in edges[p[IF i = k THEN 1 ELSE i + 1]]
  BY <1>3, <1>4, NextPosition
<1>8. ASSUME NEW i \in 1..k, NEW j \in 1..k, p[i] = p[j] PROVE i = j
  <2>1. \A h \in 1..k : h = 1 \/ h \in 2..k
    OBVIOUS
  <2>2. CASE i = 1 /\ j \in 2..k
    BY <1>3, <1>4, <1>5, <1>8, <2>2
  <2>3. CASE j = 1 /\ i \in 2..k
    BY <1>3, <1>4, <1>5, <1>8, <2>3
  <2>4. CASE i \in 2..k /\ j \in 2..k
    <3>1. k + 1 - i = k + 1 - j
      BY <1>3, <1>4, <1>5, <1>8, <2>4
    <3> QED BY <1>3, <3>1
  <2> QED BY <2>1, <2>2, <2>3, <2>4
<1> QED BY <1>1, <1>3, <1>6, <1>7, <1>8 DEF IsCycle, k, least

LeadsBack(f, n, max_length, d, m) ==
  /\ f \in [0..d -> modules] /\ f[0] = m
  /\ \A j \in 0..d : f[j] \in Layers(n, max_length)[d - j]
  /\ \A j \in 0..(d - 1) : f[j] \in edges[f[j + 1]]

(* From a module that closes a cycle the parents lead back to where the search began. *)
LEMMA ParentsLeadBack ==
  ASSUME Graph, NEW n \in Node, NEW max_length \in Nat, NEW d \in Distance,
         NEW m \in Layers(n, max_length)[d] \cap modules
  PROVE  \E f : LeadsBack(f, n, max_length, d, m)
<1> DEFINE layer == Layers(n, max_length)
           Parents(j, x) == {y \in layer[d - (j + 1)] \cap modules : x \in edges[y]}
           G == [j \in 0..d |-> [x \in modules |->
                   IF Parents(j, x) = {} THEN x ELSE CHOOSE y \in Parents(j, x) : TRUE]]
<1>1. d \in Nat /\ size \in Nat /\ d <= size + 1
  BY SizeIsNat DEF Distance
<1>2. \A e \in 0..size : \A x \in layer[e + 1] : \E y \in layer[e] \cap modules : x \in edges[y]
  BY LayersAre
<1>3. m \in layer[d] /\ m \in modules
  OBVIOUS
<1> HIDE DEF layer
<1>4. G \in [0..d -> [modules -> modules]]
  OBVIOUS
<1>5. PICK f : Follows(f, d, modules, m, G)
  <2> HIDE DEF G
  <2> QED BY <1>1, <1>3, <1>4, Recursion
<1>6. f \in [0..d -> modules] /\ f[0] = m /\ \A j \in 0..(d - 1) : f[j + 1] = G[j][f[j]]
  BY <1>5 DEF Follows
<1>7. ASSUME NEW j \in 0..(d - 1), f[j] \in layer[d - j]
      PROVE  f[j + 1] \in layer[d - (j + 1)] /\ f[j] \in edges[f[j + 1]]
  <2>1. j \in 0..d /\ d - (j + 1) \in 0..size /\ (d - (j + 1)) + 1 = d - j
    BY <1>1
  <2>2. Parents(j, f[j]) # {}
    BY <1>2, <1>7, <2>1
  <2>3. f[j] \in modules /\ f[j + 1] = G[j][f[j]]
    BY <1>6, <2>1
  <2>4. f[j + 1] \in Parents(j, f[j])
    BY <2>1, <2>2, <2>3
  <2> QED BY <2>4
<1>8. \A j \in 0..d : f[j] \in layer[d - j]
  <2> DEFINE T == {j \in 0..d : f[j] \in layer[d - j]}
  <2>1. 0 \in T
    BY <1>1, <1>3, <1>6
  <2>2. \A j \in 0..(d - 1) : j \in T => j + 1 \in T
    BY <1>1, <1>7
  <2> HIDE DEF T
  <2>3. \A j \in 0..d : j \in T
    BY <1>1, <2>1, <2>2, Climb
  <2> QED BY <2>3 DEF T
<1>9. \A j \in 0..(d - 1) : f[j] \in edges[f[j + 1]]
  BY <1>1, <1>7, <1>8
<1> QED BY <1>6, <1>8, <1>9 DEF LeadsBack, layer

(* The search finds a cycle if there is one through start that is shorter than the bound,
   and none that is longer than it. *)
LEMMA BfsFinds ==
  ASSUME Graph, NEW n \in modules, NEW max_length \in Nat, NEW l \in 1..(size + 1),
         l < max_length, Walk(n, n, l)
  PROVE  /\ find_cycle_bfs(n, max_length) # {}
         /\ \A p \in find_cycle_bfs(n, max_length) : Len(p) <= l
<1> DEFINE layer == Layers(n, max_length)
           v == Visited(n, max_length)
           closing == Closing(n, max_length)
<1>1. n \in Node /\ size \in Nat /\ l \in Nat /\ l - 1 \in Distance /\ l - 1 < max_length - 1
  BY SizeIsNat DEF Graph, Distance
<1>2. \E d \in closing : d <= l - 1
  <2>1. PICK w \in [0..l -> Node] :
          w[0] = n /\ w[l] = n /\ \A i \in 0..(l - 1) : w[i] \in modules /\ w[i + 1] \in edges[w[i]]
    BY DEF Walk
  <2> DEFINE m == w[l - 1]
             u == [i \in 0..(l - 1) |-> w[i]]
  <2>2. m \in modules /\ n \in edges[m]
    BY <2>1, <1>1
  <2>3. Walk(n, m, l - 1)
    <3>1. u \in [0..(l - 1) -> Node] /\ u[0] = n /\ u[l - 1] = m
      BY <2>1, <1>1
    <3>2. ASSUME NEW i \in 0..((l - 1) - 1) PROVE u[i] \in modules /\ u[i + 1] \in edges[u[i]]
      <4>1. i \in 0..(l - 1) /\ i + 1 \in 0..(l - 1)
        BY <1>1
      <4> QED BY <2>1, <4>1
    <3> HIDE DEF u, m
    <3> QED BY <3>1, <3>2 DEF Walk
  <2> HIDE DEF m
  <2>4. m \in v[l - 1]
    BY <1>1, <2>3, WalkIsVisited DEF Distance
  <2>5. {d \in Distance : m \in v[d]} \in SUBSET Nat /\ l - 1 \in {d \in Distance : m \in v[d]}
    BY <1>1, <2>4 DEF Distance
  <2>6. PICK d \in {d \in Distance : m \in v[d]} : \A e \in {e \in Distance : m \in v[e]} : d <= e
    BY <2>5, LeastOf
  <2>7. d <= l - 1 /\ d \in Distance /\ d \in Nat
    BY <2>5, <2>6
  <2>8. m \in layer[d]
    <3>1. /\ v \in [Distance -> SUBSET Node] /\ v[0] = {n}
          /\ layer = [e \in Distance |-> IF e = 0 THEN {n} ELSE v[e] \ v[e - 1]]
      BY <1>1, VisitedIs DEF Layers, Distance
    <3> HIDE DEF v, layer
    <3>2. CASE d = 0
      BY <2>6, <3>1, <3>2
    <3>3. CASE d # 0
      <4>1. d - 1 \in Distance /\ ~(d <= d - 1)
        BY <1>1, <2>7, <3>3 DEF Distance
      <4>2. m \notin v[d - 1]
        BY <2>6, <4>1
      <4> QED BY <2>6, <2>7, <3>1, <3>3, <4>2
    <3> QED BY <3>2, <3>3
  <2>9. d < max_length - 1
    BY <1>1, <2>7
  <2> QED BY <2>2, <2>7, <2>8, <2>9 DEF Closing
<1>3. closing # {} /\ Min(closing) \in closing /\ Min(closing) <= l - 1
  <2>1. closing \in SUBSET Nat
    BY SizeIsNat DEF Closing, Distance
  <2>2. PICK d \in closing : d <= l - 1
    BY <1>2
  <2> HIDE DEF closing
  <2>3. Min(closing) \in closing /\ Min(closing) <= d
    BY <2>1, <2>2, MinIs
  <2>4. Min(closing) \in Nat /\ d \in Nat
    BY <2>1, <2>2, <2>3
  <2>5. Min(closing) <= l - 1
    BY <1>1, <2>2, <2>3, <2>4
  <2> QED BY <2>3, <2>5
<1>4. \A p \in find_cycle_bfs(n, max_length) : Len(p) <= l
  <2>1. \A p \in find_cycle_bfs(n, max_length) : Len(p) = Min(closing) + 1
    BY <1>1, BfsFindsCycles
  <2>2. Min(closing) \in Nat
    BY <1>1, <1>3 DEF Closing, Distance
  <2> HIDE DEF closing
  <2> QED BY <1>1, <1>3, <2>1, <2>2
<1> DEFINE d == Min(closing)
           k == d + 1
<1>5. d \in Distance /\ d \in Nat /\ \E m \in layer[d] \cap modules : n \in edges[m]
  BY <1>1, <1>3 DEF Closing, Distance
<1>6. PICK m \in layer[d] \cap modules : n \in edges[m]
  BY <1>5
<1>7. layer[0] = {n} /\ n \notin edges[n]
  BY <1>1, LayersAre DEF Graph
<1> HIDE DEF closing, d
<1>8. d # 0
  BY <1>6, <1>7
<1>9. PICK f : LeadsBack(f, n, max_length, d, m)
  BY <1>1, <1>5, <1>6, ParentsLeadBack
<1>10. /\ f \in [0..d -> modules] /\ f[0] = m
       /\ \A j \in 0..d : f[j] \in layer[d - j]
       /\ \A j \in 0..(d - 1) : f[j] \in edges[f[j + 1]]
  BY <1>9 DEF LeadsBack
<1> DEFINE p == [i \in 1..k |-> IF i = 1 THEN n ELSE f[i - 2]]
<1>11. f[d] = n
  <2>1. d \in 0..d /\ d - d = 0
    BY <1>5
  <2> HIDE DEF layer
  <2> QED BY <1>7, <1>10, <2>1
<1>12. p \in [1..k -> modules] /\ p[1] = n
  BY <1>5, <1>10
<1>13. ASSUME NEW i \in 2..k PROVE p[i] \in layer[k + 1 - i]
  <2>1. i - 2 \in 0..d /\ i \in 1..k /\ i # 1 /\ d - (i - 2) = k + 1 - i
    BY <1>5
  <2> HIDE DEF layer
  <2> QED BY <1>10, <2>1
<1>14. ASSUME NEW i \in 1..k PROVE p[i] \in edges[p[(i % k) + 1]]
  <2>1. k \in Nat \ {0} /\ 1 \in 1..k /\ 2 \in 1..k /\ k # 1
    BY <1>5, <1>8
  <2>2. (i % k) + 1 = IF i = k THEN 1 ELSE i + 1
    BY <2>1, NextPosition
  <2>3. CASE i = 1
    BY <1>6, <1>10, <2>1, <2>2, <2>3
  <2>4. CASE i # 1 /\ i = k
    <3>1. i - 2 \in 0..(d - 1) /\ (i - 2) + 1 = d
      BY <1>5, <2>4
    <3> QED BY <1>10, <1>11, <2>1, <2>2, <2>4, <3>1
  <2>5. CASE i # 1 /\ i # k
    <3>1. i - 2 \in 0..(d - 1) /\ (i - 2) + 1 = (i + 1) - 2 /\ i + 1 \in 1..k /\ i + 1 # 1
      BY <1>5, <2>5
    <3> QED BY <1>10, <2>2, <2>5, <3>1
  <2> QED BY <2>3, <2>4, <2>5
<1>15. IsWayBack(p, n, max_length, k)
  <2> HIDE DEF k, p
  <2> QED BY <1>12, <1>13, <1>14 DEF IsWayBack
<1>16. p \in find_cycle_bfs(n, max_length)
  <2>1. IsWayBack(p, n, max_length, Min(closing) + 1)
    BY <1>15 DEF d
  <2> HIDE DEF p
  <2> QED BY <1>1, <1>3, <2>1, BfsIs DEF closing
<1> QED BY <1>4, <1>16

-----------------------------------------------------------------------------
(* The searches from one module after the other. *)

(* A module that was tried is on no cycle that is shorter than the one that is known. *)
NoneShorter ==
  \A n \in modules \ start_nodes : \A l \in 1..(size + 1) :
    Walk(n, n, l) => shortest_cycle # <<>> /\ Len(shortest_cycle) <= l

IInv ==
  /\ Graph
  /\ start_nodes \in SUBSET modules
  /\ shortest_cycle # <<>> => IsCycle(shortest_cycle)
  /\ NoneShorter

LEMMA InitIsSearched == CycleInit => IInv
<1> SUFFICES ASSUME CycleInit PROVE IInv
  OBVIOUS
<1>1. Graph
  <2>1. edges \in [Node -> UNION {kSubset(k, Node) : k \in 0..MaxDeps}]
    BY DEF CycleInit
  <2>2. \A k : kSubset(k, Node) \subseteq SUBSET Node
    BY DEF kSubset
  <2>3. UNION {kSubset(k, Node) : k \in 0..MaxDeps} \subseteq SUBSET Node
    BY <2>2
  <2> QED BY <2>1, <2>3, NodeAssumption DEF Graph, CycleInit
<1>2. NoneShorter
  <2> SUFFICES ASSUME NEW n \in modules \ start_nodes, NEW l \in 1..(size + 1), Walk(n, n, l)
               PROVE  FALSE
    BY DEF NoneShorter
  <2>1. edges[n] = {}
    BY DEF CycleInit
  <2>2. 0 \in 0..(l - 1) /\ 0 + 1 = 1
    BY SizeIsNat
  <2>3. PICK w \in [0..l -> Node] : w[0] = n /\ \A i \in 0..(l - 1) : w[i + 1] \in edges[w[i]]
    BY DEF Walk
  <2> QED BY <2>1, <2>2, <2>3
<1> QED BY <1>1, <1>2 DEF IInv, CycleInit

LEMMA SearchKeepsInv ==
  ASSUME IInv, NEW n \in Node, FindFrom(n)
  PROVE  IInv'
<1> DEFINE bound == current_shortest_length
           found == IF in_degree(n) = 0 THEN {} ELSE find_cycle_bfs(n, bound)
<1>1. Graph /\ n \in modules /\ start_nodes' = start_nodes \ {n} /\ UNCHANGED <<modules, edges>>
  BY DEF IInv, FindFrom
<1>2. /\ size \in Nat /\ bound \in Nat
      /\ shortest_cycle # <<>> => Len(shortest_cycle) \in Nat /\ bound = Len(shortest_cycle)
      /\ shortest_cycle = <<>> => bound = size + 2
  BY SizeIsNat DEF current_shortest_length, NoBound, IInv, IsCycle, size
<1>3. /\ Graph' /\ \A m, l : Walk(m, m, l)' <=> Walk(m, m, l)
      /\ \A s : IsCycle(s) => IsCycle(s)'
  BY <1>1 DEF Graph, Walk, IsCycle
<1>4. \A p \in found : IsCycle(p) /\ Len(p) < bound
  BY <1>1, <1>2, BfsFindsCycles DEF Graph
<1>5. ASSUME NEW l \in 1..(size + 1), Walk(n, n, l), l < bound
      PROVE  found # {} /\ \A p \in found : Len(p) <= l
  <2>1. in_degree(n) # 0
    <3>1. PICK w \in [0..l -> Node] :
            w[l] = n /\ \A i \in 0..(l - 1) : w[i] \in modules /\ w[i + 1] \in edges[w[i]]
      BY <1>5 DEF Walk
    <3>2. l - 1 \in 0..(l - 1) /\ (l - 1) + 1 = l
      BY <1>2
    <3>3. w[l - 1] \in {m \in modules : n \in edges[m]}
      BY <3>1, <3>2
    <3>4. IsFiniteSet({m \in modules : n \in edges[m]})
      BY <1>1, NodeAssumption, FS_Subset DEF Graph
    <3> QED BY <3>3, <3>4, FS_EmptySet DEF in_degree
  <2>2. found = find_cycle_bfs(n, bound)
    BY <2>1
  <2> HIDE DEF found, bound
  <2> QED BY <1>1, <1>2, <1>5, <2>2, BfsFinds
<1>6. CASE found = {} /\ UNCHANGED shortest_cycle
  <2>1. ASSUME NEW l \in 1..(size + 1), Walk(n, n, l)
        PROVE  shortest_cycle # <<>> /\ Len(shortest_cycle) <= l
    <3>1. ~(l < bound)
      BY <1>5, <1>6, <2>1
    <3> HIDE DEF bound
    <3> QED BY <1>2, <3>1
  <2>2. NoneShorter'
    BY <1>1, <1>3, <1>6, <2>1 DEF NoneShorter, IInv, size
  <2> QED BY <1>1, <1>3, <1>6, <2>2 DEF IInv
<1>7. ASSUME NEW cycle \in found,
             shortest_cycle' = IF shortest_cycle = <<>> \/ Len(cycle) < Len(shortest_cycle)
                               THEN cycle ELSE shortest_cycle
      PROVE  IInv'
  <2>1. IsCycle(cycle) /\ Len(cycle) < bound /\ Len(cycle) \in Nat
    BY <1>4 DEF IsCycle
  <2>2. shortest_cycle' = cycle /\ shortest_cycle' # <<>> /\ IsCycle(shortest_cycle)'
    <3>1. shortest_cycle = <<>> \/ Len(cycle) < Len(shortest_cycle)
      BY <1>2, <2>1
    <3>2. shortest_cycle' = cycle
      BY <1>7, <3>1
    <3> QED BY <1>3, <2>1, <3>2 DEF IsCycle
  <2>3. ASSUME NEW l \in 1..(size + 1), Walk(n, n, l) PROVE Len(cycle) <= l
    <3>1. CASE l < bound
      BY <1>5, <1>7, <2>3, <3>1
    <3>2. CASE ~(l < bound)
      <4> HIDE DEF bound, found
      <4> QED BY <1>2, <2>1, <3>2
    <3> QED BY <3>1, <3>2
  <2>4. ASSUME NEW m \in modules \ start_nodes, NEW l \in 1..(size + 1), Walk(m, m, l)
        PROVE  Len(cycle) <= l
    <3>1. shortest_cycle # <<>> /\ Len(shortest_cycle) <= l
      BY <2>4 DEF IInv, NoneShorter
    <3> HIDE DEF bound, found
    <3> QED BY <1>2, <2>1, <3>1
  <2>5. NoneShorter'
    <3>1. modules' \ start_nodes' \subseteq (modules \ start_nodes) \cup {n}
      BY <1>1
    <3>2. size' = size
      BY DEF size
    <3> HIDE DEF found, bound
    <3> QED BY <1>3, <2>2, <2>3, <2>4, <3>1, <3>2 DEF NoneShorter
  <2> QED BY <1>1, <1>3, <2>2, <2>5 DEF IInv
<1> QED BY <1>6, <1>7 DEF FindFrom

LEMMA SearchInvariant == CycleSpec => []IInv
<1>1. IInv /\ UNCHANGED searchVars => IInv'
  BY DEF IInv, Graph, NoneShorter, IsCycle, Walk, size, searchVars
<1>2. IInv /\ CycleNext => IInv'
  BY SearchKeepsInv DEF CycleNext
<1> QED BY InitIsSearched, <1>1, <1>2, PTL DEF CycleSpec

-----------------------------------------------------------------------------
(* A cycle has no more modules than there are, and each of them reaches itself in as
   many steps. *)
LEMMA CycleReaches ==
  ASSUME Graph, NEW s, IsCycle(s)
  PROVE  /\ Len(s) \in 1..size
         /\ Cardinality({s[i] : i \in 1..Len(s)}) = Len(s)
         /\ s[1] \in modules /\ s[1] \in Reaches(s[1])[Len(s) - 1]
<1> DEFINE k == Len(s)
           n == s[1]
           image == {s[i] : i \in 1..k}
<1>1. /\ s \in Seq(modules) /\ k \in Nat /\ k # 0 /\ n \in modules /\ n \in Node
      /\ \A i \in 1..k : s[i] \in modules /\ s[i] \in Node
      /\ modules \in SUBSET Node
  BY DEF IsCycle, Graph
<1>2. Cardinality(1..k) = k /\ IsFiniteSet(1..k)
  BY <1>1, FS_Interval
<1>3. k <= size
  <2>1. s \in Injection(1..k, Node)
    BY <1>1 DEF IsCycle, Injection, IsInjective
  <2> QED BY <1>2, <2>1, NodeAssumption, FS_Injection DEF size
<1>4. Cardinality(image) = k
  <2>1. s \in Bijection(1..k, image)
    BY <1>1 DEF IsCycle, Bijection, Injection, Surjection, IsInjective
  <2>2. ExistsBijection(1..k, image)
    BY <2>1 DEF ExistsBijection
  <2> QED BY <1>2, <2>2, FS_Bijection
<1>5. n \in Reaches(n)[k - 1]
  <2> DEFINE w == [i \in 0..k |-> IF i = 0 THEN n ELSE s[k + 1 - i]]
  <2>1. w \in [0..k -> Node] /\ w[0] = n /\ w[k] = n
    BY <1>1
  <2>2. ASSUME NEW i \in 0..(k - 1) PROVE w[i] \in modules /\ w[i + 1] \in edges[w[i]]
    <3>1. CASE i = 0
      <4>1. s[k] \in edges[s[1]]
        BY <1>1 DEF IsCycle
      <4> QED BY <1>1, <3>1, <4>1
    <3>2. CASE i # 0
      <4>1. k - i \in 1..k /\ k - i # k /\ (k - i) + 1 = k + 1 - i /\ k + 1 - i \in 1..k
        BY <1>1, <3>2
      <4>2. s[k - i] \in edges[s[k + 1 - i]]
        BY <4>1 DEF IsCycle
      <4>3. w[i] = s[k + 1 - i] /\ w[i + 1] = s[k - i]
        BY <1>1, <3>2
      <4> QED BY <1>1, <4>1, <4>2, <4>3
    <3> QED BY <3>1, <3>2
  <2>3. Walk(n, n, k)
    <3> HIDE DEF w
    <3> QED BY <2>1, <2>2 DEF Walk
  <2>4. k \in 1..(size + 1)
    BY <1>1, <1>3, SizeIsNat
  <2> HIDE DEF k, n
  <2> QED BY <1>1, <2>3, <2>4, WalkIsReached
<1>6. k \in 1..size
  BY <1>1, <1>3, SizeIsNat
<1>7. n \in modules
  BY <1>1
<1> QED BY <1>4, <1>5, <1>6, <1>7

LEMMA ReachesMore ==
  ASSUME Graph, NEW n \in Node, NEW k \in 0..size
  PROVE  Reaches(n)[k] \subseteq Reaches(n)[size]
<1> DEFINE r == Reaches(n)
           T == {i \in 0..size : k <= i => r[k] \subseteq r[i]}
<1>1. /\ size \in Nat /\ \A i \in 0..(size - 1) : r[i + 1] = Grown(r[i])
      /\ \A i \in 0..size : r[i] \in SUBSET Node
  BY SizeIsNat, ReachesIs
<1> HIDE DEF r
<1>2. 0 \in T
  BY <1>1
<1>3. ASSUME NEW i \in 0..(size - 1), i \in T PROVE i + 1 \in T
  <2>1. i \in 0..size /\ i + 1 \in 0..size /\ r[i] \subseteq r[i + 1]
    BY <1>1, GrownIs
  <2>2. k <= i + 1 => k <= i \/ k = i + 1
    BY <1>1
  <2> QED BY <1>3, <2>1, <2>2
<1> HIDE DEF T
<1>4. \A i \in 0..size : i \in T
  BY <1>1, <1>2, <1>3, Climb
<1>5. size \in T /\ k <= size
  BY <1>1, <1>4
<1> QED BY <1>5 DEF T, r

Lengths == {k \in 1..Cardinality(Node) : \E n \in OnCycle : n \in Reaches(n)[k - 1]}

(* What the invariant says of a search that has ended, in terms of the reference. *)
LEMMA EndedIsRight ==
  ASSUME IInv
  PROVE  CycleFoundIffThereIsOne /\ CycleIsShortest
<1>1. Graph /\ size \in Nat /\ size = Cardinality(Node)
  BY SizeIsNat DEF IInv, size
<1> DEFINE s == shortest_cycle
           k == Len(s)
<1>2. s # <<>> => IsCycle(s)
  BY DEF IInv
<1>3. ASSUME s # <<>>
      PROVE  /\ k \in 1..size /\ Cardinality({s[i] : i \in 1..k}) = k
             /\ s[1] \in OnCycle /\ s[1] \in Reaches(s[1])[k - 1]
  <2>1. /\ k \in 1..size /\ Cardinality({s[i] : i \in 1..k}) = k
        /\ s[1] \in modules /\ s[1] \in Reaches(s[1])[k - 1]
    BY <1>1, <1>2, <1>3, CycleReaches
  <2>2. s[1] \in Node /\ k - 1 \in 0..size
    <3>1. s[1] \in Node
      BY <1>1, <2>1 DEF Graph
    <3> HIDE DEF k
    <3> QED BY <1>1, <2>1, <3>1
  <2>3. s[1] \in Reaches(s[1])[size]
    <3> HIDE DEF s, k
    <3> QED BY <1>1, <2>1, <2>2, ReachesMore
  <2> QED BY <1>1, <2>1, <2>3 DEF OnCycle
<1>4. ASSUME start_nodes = {}, NEW n \in modules, NEW j \in 0..size, n \in Reaches(n)[j]
      PROVE  s # <<>> /\ k <= j + 1
  <2>1. PICK l \in 1..(j + 1) : Walk(n, n, l)
    BY <1>1, <1>4, ReachedIsWalked
  <2>2. l \in 1..(size + 1) /\ l <= j + 1 /\ l \in Nat
    BY <1>1
  <2>3. s # <<>> /\ k <= l
    BY <1>4, <2>1, <2>2 DEF IInv, NoneShorter
  <2>4. k \in Nat
    <3>1. k \in 1..size
      BY <1>3, <2>3
    <3> HIDE DEF k
    <3> QED BY <3>1
  <2> QED BY <2>2, <2>3, <2>4
<1>5. SearchEnded => s # <<>> \/ start_nodes = {}
  BY DEF SearchEnded, Stop
<1>6. CycleFoundIffThereIsOne
  <2>1. ASSUME start_nodes = {}, NEW n \in OnCycle PROVE s # <<>>
    <3>1. n \in modules /\ n \in Reaches(n)[size] /\ size \in 0..size
      BY <1>1 DEF OnCycle
    <3> QED BY <1>4, <2>1, <3>1
  <2> QED BY <1>3, <1>5, <2>1 DEF CycleFoundIffThereIsOne
<1>7. ASSUME SearchEnded, s # <<>>, ~(k <= 3) PROVE k = Girth
  <2>1. start_nodes = {}
    BY <1>7 DEF SearchEnded, Stop
  <2>2. k \in Lengths
    BY <1>1, <1>3, <1>7 DEF Lengths
  <2>3. ASSUME NEW l \in Lengths PROVE k <= l
    <3>1. PICK n \in OnCycle : n \in Reaches(n)[l - 1]
      BY DEF Lengths
    <3>2. n \in modules /\ l \in 1..size /\ l - 1 \in 0..size /\ (l - 1) + 1 = l
      BY <1>1 DEF OnCycle, Lengths
    <3>3. k <= (l - 1) + 1
      BY <1>4, <2>1, <3>1, <3>2
    <3> QED BY <3>2, <3>3
  <2>4. Lengths \in SUBSET Nat
    BY <1>1 DEF Lengths
  <2> HIDE DEF k
  <2>5. Min(Lengths) \in Lengths /\ Min(Lengths) <= k
    BY <2>2, <2>4, MinIs
  <2>6. k = Min(Lengths)
    <3>1. k <= Min(Lengths)
      BY <2>3, <2>5
    <3>2. k \in Nat /\ Min(Lengths) \in Nat
      BY <2>2, <2>4, <2>5
    <3> QED BY <2>5, <3>1, <3>2
  <2> QED BY <2>6 DEF Girth, Lengths
<1>8. CycleIsShortest
  <2> SUFFICES ASSUME SearchEnded, s # <<>>
               PROVE  /\ \A i \in 1..k : s[i] \in edges[s[IF i = k THEN 1 ELSE i + 1]]
                      /\ Cardinality({s[i] : i \in 1..k}) = k
                      /\ k <= 3 \/ k = Girth
    BY DEF CycleIsShortest
  <2>1. \A i \in 1..k : s[i] \in edges[s[IF i = k THEN 1 ELSE i + 1]]
    BY <1>2 DEF IsCycle
  <2> QED BY <1>3, <1>7, <2>1
<1> QED BY <1>6, <1>8

(* The search finds a cycle if and only if there is one, although it is cut off at the
   length of what it found before, and starts at no module without deps or dependents
   (dependency_cycle.rs). *)
THEOREM CycleIsFound == CycleSpec => []CycleFoundIffThereIsOne
BY SearchInvariant, EndedIsRight, PTL

(* What it finds is a cycle, and the shortest, unless it stopped at one of three
   modules. *)
THEOREM ShortestIsFound == CycleSpec => []CycleIsShortest
BY SearchInvariant, EndedIsRight, PTL
=============================================================================
