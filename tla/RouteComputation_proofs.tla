----------------------- MODULE RouteComputation_proofs -----------------------
(* Theorems about RouteComputation, for every strongly connected topology,   *)
(* every assignment of latencies, and any number of changes and walks:       *)
(* Dijkstra finds the shortest paths, and the walk takes them.               *)
EXTENDS RouteComputation, DataLemmas, FiniteSetTheorems

(* Latencies as the assumption has them, and distances.                      *)
Lats == {x \in Nat \ {0} : x * NodeNum < Inf}
LatencyMaps == [Links -> Lats]
Distances == [Nodes -> Nat]

-----------------------------------------------------------------------------
(* Operators *)

LEMMA MinIsLeast ==
  ASSUME NEW S, S \subseteq Nat, S # {}
  PROVE  Min(S) \in S /\ \A x \in S : Min(S) <= x
BY Least DEF Min

LEMMA NodesFacts ==
  /\ Nodes \subseteq Nat
  /\ NodeNum \in Nat \ {0} /\ NodeNum - 1 \in 0 .. NodeNum
  /\ Inf \in Nat
  /\ IsFiniteSet(Nodes) /\ Cardinality(Nodes) = NodeNum
  /\ \A l \in Links : l[1] \in Nodes /\ l[2] \in Nodes /\ l[1] # l[2] /\ l = <<l[1], l[2]>>
<1>1. NodeNum \in Nat \ {0} /\ Inf \in Nat /\ Links \subseteq Nodes \X Nodes /\ \A l \in Links : l[1] # l[2]
  BY RouteAssumption
<1>2. 0 \in Int /\ NodeNum - 1 \in Int /\ (NodeNum - 1) - 0 + 1 = NodeNum /\ ~ (0 > NodeNum - 1)
  BY <1>1
<1>3. IsFiniteSet(0 .. NodeNum - 1) /\ Cardinality(0 .. NodeNum - 1) = NodeNum
  BY <1>2, FS_Interval
<1>4. Nodes \subseteq Nat /\ NodeNum - 1 \in 0 .. NodeNum
  BY <1>1 DEF Nodes
<1>5. \A l \in Links : l[1] \in Nodes /\ l[2] \in Nodes /\ l[1] # l[2] /\ l = <<l[1], l[2]>>
  BY <1>1
<1> QED
  BY <1>1, <1>3, <1>4, <1>5 DEF Nodes

(* A set of nodes that is not all of them has a link that leaves it.         *)
LEMMA LinkLeaves ==
  ASSUME NEW V, NEW n \in V, V \subseteq Nodes, V # Nodes
  PROVE  \E l \in Links : l[1] \in V /\ l[2] \in Nodes \ V
<1> DEFINE grow == [k \in Nat |-> [x \in SUBSET Nodes |->
                      x \cup {l[2] : l \in {e \in Links : e[1] \in x}}]]
           within == Reached(n)
<1>1. n \in Nodes /\ {n} \in SUBSET Nodes /\ NodeNum \in Nat
  BY NodesFacts
<1>2. ASSUME NEW x \in SUBSET Nodes
      PROVE  x \cup {l[2] : l \in {e \in Links : e[1] \in x}} \in SUBSET Nodes
  BY NodesFacts
<1>3. grow \in [Nat -> [SUBSET Nodes -> SUBSET Nodes]]
  BY <1>2
<1>4. PICK f \in [0 .. NodeNum -> SUBSET Nodes] : Iterates(f, {n}, grow, NodeNum)
  <2> HIDE DEF grow
  <2> QED
    BY <1>1, <1>3, Iteration
<1>5. ASSUME NEW k \in 0 .. NodeNum
      PROVE  f[k] = IF k = 0 THEN {n} ELSE f[k - 1] \cup {l[2] : l \in {e \in Links : e[1] \in f[k - 1]}}
  <2>1. CASE k = 0
    BY <2>1, <1>4 DEF Iterates
  <2>2. CASE k # 0
    <3>1. k \in 1 .. NodeNum /\ k - 1 \in 0 .. NodeNum /\ k \in Nat
      BY <1>1, <2>2
    <3>2. f[k] = grow[k][f[k - 1]] /\ f[k - 1] \in SUBSET Nodes
      BY <3>1, <1>4 DEF Iterates
    <3> QED
      BY <2>2, <3>1, <3>2
  <2> QED
    BY <2>1, <2>2
<1>6. f = [k \in 0 .. NodeNum |->
             IF k = 0 THEN {n} ELSE f[k - 1] \cup {l[2] : l \in {e \in Links : e[1] \in f[k - 1]}}]
  BY <1>5
<1>7. within = [k \in 0 .. NodeNum |->
             IF k = 0 THEN {n} ELSE within[k - 1] \cup {l[2] : l \in {e \in Links : e[1] \in within[k - 1]}}]
  BY <1>6 DEF Reached
<1> HIDE DEF within
<1> SUFFICES ASSUME \A l \in Links : l[1] \in V => l[2] \in V PROVE FALSE
  BY NodesFacts
<1> DEFINE Out == {k \in 0 .. NodeNum : ~ (within[k] \subseteq V)}
<1>8. Out = {}
  <2> SUFFICES ASSUME Out # {} PROVE FALSE
    OBVIOUS
  <2>1. PICK k \in Out : \A j \in Out : k <= j
    <3>1. Out \subseteq Nat
      BY <1>1
    <3> QED
      BY <3>1, Least
  <2>2. k # 0
    BY <1>1, <1>7
  <2>3. k - 1 \in 0 .. NodeNum /\ ~ (k <= k - 1)
    BY <1>1, <2>2
  <2>4. within[k - 1] \subseteq V
    BY <2>1, <2>3
  <2>5. within[k] = within[k - 1] \cup {l[2] : l \in {e \in Links : e[1] \in within[k - 1]}}
    BY <2>2, <1>7
  <2> QED
    BY <2>4, <2>5
<1>9. NodeNum \in 0 .. NodeNum
  BY <1>1
<1>10. Reach(n) \subseteq V
  BY <1>8, <1>9 DEF Reach, within
<1> QED
  BY <1>1, <1>10, ReachAssumption

-----------------------------------------------------------------------------
(* Distances *)

(* One more link: no longer than before, nor than over any link, and         *)
(* attained.                                                                 *)
LEMMA CloserFacts ==
  ASSUME NEW lat \in LatencyMaps, NEW f \in Distances
  PROVE  /\ Closer(lat, f) \in Distances
         /\ \A m \in Nodes : Closer(lat, f)[m] <= f[m]
         /\ \A l \in Links : Closer(lat, f)[l[1]] <= lat[l] + f[l[2]]
         /\ \A m \in Nodes : \/ Closer(lat, f)[m] = f[m]
                             \/ \E l \in Links : l[1] = m /\ Closer(lat, f)[m] = lat[l] + f[l[2]]
<1> DEFINE Over(m) == {f[m]} \cup {lat[l] + f[l[2]] : l \in {e \in Links : e[1] = m}}
<1>1. \A l \in Links : lat[l] \in Nat /\ f[l[2]] \in Nat /\ lat[l] + f[l[2]] \in Nat /\ l[1] \in Nodes
  BY NodesFacts DEF LatencyMaps, Lats, Distances
<1>2. \A m \in Nodes : Over(m) \subseteq Nat /\ Over(m) # {}
  BY <1>1 DEF Distances
<1>3. \A m \in Nodes : Min(Over(m)) \in Over(m) /\ Min(Over(m)) \in Nat /\ \A x \in Over(m) : Min(Over(m)) <= x
  <2> HIDE DEF Over
  <2> QED
    BY <1>2, MinIsLeast
<1>4. Closer(lat, f) = [m \in Nodes |-> Min(Over(m))]
  BY DEF Closer
<1>5. \A l \in Links : lat[l] + f[l[2]] \in Over(l[1])
  OBVIOUS
<1>6. \A m \in Nodes : f[m] \in Over(m)
  OBVIOUS
<1>7. \A m \in Nodes : \A x \in Over(m) :
        x = f[m] \/ \E l \in Links : l[1] = m /\ x = lat[l] + f[l[2]]
  OBVIOUS
<1> HIDE DEF Over
<1> QED
  BY <1>1, <1>3, <1>4, <1>5, <1>6, <1>7 DEF Distances

(* What the recursive definition says.                                       *)
LEMMA WithinFacts ==
  ASSUME NEW lat \in LatencyMaps, NEW d \in Nodes
  PROVE  /\ Within(lat, d) \in [0 .. NodeNum -> Distances]
         /\ Within(lat, d)[0] = [m \in Nodes |-> IF m = d THEN 0 ELSE Inf]
         /\ \A k \in 1 .. NodeNum : Within(lat, d)[k] = Closer(lat, Within(lat, d)[k - 1])
<1> DEFINE zero == [m \in Nodes |-> IF m = d THEN 0 ELSE Inf]
           closer == [k \in Nat |-> [f \in Distances |-> Closer(lat, f)]]
           within == Within(lat, d)
<1>1. zero \in Distances /\ NodeNum \in Nat
  BY NodesFacts DEF Distances
<1>2. closer \in [Nat -> [Distances -> Distances]]
  BY CloserFacts
<1>3. PICK f \in [0 .. NodeNum -> Distances] : Iterates(f, zero, closer, NodeNum)
  <2> HIDE DEF zero, closer
  <2> QED
    BY <1>1, <1>2, Iteration
<1>4. ASSUME NEW k \in 1 .. NodeNum PROVE k # 0 /\ f[k] = Closer(lat, f[k - 1])
  <2>1. k - 1 \in 0 .. NodeNum /\ k \in Nat /\ k # 0
    BY <1>1
  <2>2. f[k] = closer[k][f[k - 1]] /\ f[k - 1] \in Distances
    BY <2>1, <1>3 DEF Iterates
  <2> QED
    BY <2>1, <2>2
<1>5. f[0] = zero
  BY <1>3 DEF Iterates
<1>6. \A k \in 0 .. NodeNum : k = 0 \/ k \in 1 .. NodeNum
  BY <1>1
<1> HIDE DEF zero
<1>7. f = [k \in 0 .. NodeNum |-> IF k = 0 THEN zero ELSE Closer(lat, f[k - 1])]
  BY <1>4, <1>5, <1>6
<1>8. within = CHOOSE g : g = [k \in 0 .. NodeNum |-> IF k = 0 THEN zero ELSE Closer(lat, g[k - 1])]
  BY DEF Within, zero
<1>9. within = [k \in 0 .. NodeNum |-> IF k = 0 THEN zero ELSE Closer(lat, within[k - 1])]
  <2> HIDE DEF within
  <2> QED
    BY <1>7, <1>8
<1> HIDE DEF within
<1>10. within[0] = zero /\ \A k \in 1 .. NodeNum : within[k] = Closer(lat, within[k - 1])
  BY <1>1, <1>4, <1>9
<1>11. DOMAIN within = 0 .. NodeNum /\ within = [k \in DOMAIN within |-> within[k]]
  BY <1>9
<1> DEFINE Out == {k \in 0 .. NodeNum : within[k] \notin Distances}
<1>12. Out = {}
  <2> SUFFICES ASSUME Out # {} PROVE FALSE
    OBVIOUS
  <2>1. PICK k \in Out : \A j \in Out : k <= j
    <3>1. Out \subseteq Nat
      BY <1>1
    <3> QED
      BY <3>1, Least
  <2>2. k # 0
    BY <1>1, <1>10
  <2>3. k - 1 \in 0 .. NodeNum /\ ~ (k <= k - 1) /\ k \in 1 .. NodeNum
    BY <1>1, <2>2
  <2>4. within[k - 1] \in Distances
    BY <2>1, <2>3
  <2> QED
    BY <2>1, <2>3, <2>4, <1>10, CloserFacts
<1> QED
  BY <1>10, <1>11, <1>12 DEF within, zero

(* Paths with more links only help, until there are as many links as nodes:   *)
(* a node that gains from its k-th link is farther from d than k others.      *)
LEMMA WithinShrinks ==
  ASSUME NEW lat \in LatencyMaps, NEW d \in Nodes, NEW k \in 1 .. NodeNum
  PROVE  LET now == Within(lat, d)[k]
             before == Within(lat, d)[k - 1]
         IN  /\ now \in Distances /\ before \in Distances
             /\ \A m \in Nodes : now[m] <= before[m]
             /\ \A l \in Links : now[l[1]] <= lat[l] + before[l[2]]
             /\ \A m \in Nodes : now[m] = before[m] \/ \E l \in Links : l[1] = m /\ now[m] = lat[l] + before[l[2]]
<1>1. k - 1 \in 0 .. NodeNum /\ k \in 0 .. NodeNum
  BY NodesFacts
<1>2. /\ Within(lat, d)[k - 1] \in Distances /\ Within(lat, d)[k] \in Distances
      /\ Within(lat, d)[k] = Closer(lat, Within(lat, d)[k - 1])
  BY <1>1, WithinFacts
<1> QED
  BY <1>2, CloserFacts

LEMMA GainHasNearer ==
  ASSUME NEW lat \in LatencyMaps, NEW d \in Nodes, NEW k \in 1 .. NodeNum, NEW m \in Nodes,
         Within(lat, d)[k][m] < Within(lat, d)[k - 1][m]
  PROVE  Cardinality({x \in Nodes : Within(lat, d)[k][x] <= Within(lat, d)[k][m]}) >= k + 1
<1> DEFINE w == Within(lat, d)
           Near(j, y) == {x \in Nodes : w[j][x] <= w[j][y]}
           Bad == {j \in 1 .. NodeNum : \E y \in Nodes : w[j][y] < w[j - 1][y] /\ ~ (Cardinality(Near(j, y)) >= j + 1)}
<1>0. NodeNum \in Nat /\ Inf \in Nat
  BY NodesFacts
<1>1. w \in [0 .. NodeNum -> Distances] /\ w[0] = [y \in Nodes |-> IF y = d THEN 0 ELSE Inf]
  BY WithinFacts
<1>2. \A j \in 0 .. NodeNum : \A y \in Nodes : w[j][y] \in Nat
  BY <1>1 DEF Distances
<1>3. ASSUME NEW j \in 1 .. NodeNum
      PROVE  /\ \A y \in Nodes : w[j][y] <= w[j - 1][y]
             /\ \A l \in Links : w[j][l[1]] <= lat[l] + w[j - 1][l[2]]
             /\ \A y \in Nodes : w[j][y] = w[j - 1][y] \/ \E l \in Links : l[1] = y /\ w[j][y] = lat[l] + w[j - 1][l[2]]
  BY WithinShrinks
<1>4. \A j \in 0 .. NodeNum : \A y \in Nodes : IsFiniteSet(Near(j, y)) /\ Cardinality(Near(j, y)) \in Nat
  BY NodesFacts, FS_Subset, FS_CardinalityType
<1>5. \A l \in Links : l[1] \in Nodes /\ l[2] \in Nodes /\ lat[l] \in Nat /\ lat[l] > 0
  BY NodesFacts DEF LatencyMaps, Lats
<1> HIDE DEF w
<1>6. Bad = {}
  <2> SUFFICES ASSUME Bad # {} PROVE FALSE
    OBVIOUS
  <2>1. PICK j \in Bad : \A i \in Bad : j <= i
    <3>1. Bad \subseteq Nat
      BY <1>0
    <3> HIDE DEF Bad
    <3> QED
      BY <3>1, Least
  <2>2. PICK y \in Nodes : w[j][y] < w[j - 1][y] /\ ~ (Cardinality(Near(j, y)) >= j + 1)
    BY <2>1
  <2>3. /\ j \in 1 .. NodeNum /\ j \in 0 .. NodeNum /\ j - 1 \in 0 .. NodeNum /\ j \in Nat
        /\ w[j][y] \in Nat /\ w[j - 1][y] \in Nat
    BY <1>0, <1>2, <2>1
  <2>4. PICK l \in Links : l[1] = y /\ w[j][y] = lat[l] + w[j - 1][l[2]]
    BY <1>3, <2>2, <2>3
  <2> DEFINE z == l[2]
  <2>5. z \in Nodes /\ w[j - 1][z] \in Nat /\ w[j - 1][z] < w[j][y] /\ w[j][z] \in Nat
    BY <1>2, <1>5, <2>3, <2>4
  <2>6. Cardinality(Near(j - 1, z)) >= j
    <3>1. CASE j = 1
      <4>1. z \in Near(j - 1, z)
        BY <2>5
      <4>2. Cardinality(Near(j - 1, z)) # 0
        BY <4>1, <1>4, <2>3, <2>5, FS_EmptySet
      <4>3. Cardinality(Near(j - 1, z)) \in Nat
        BY <1>4, <2>3, <2>5
      <4> HIDE DEF Near
      <4> QED
        BY <3>1, <4>2, <4>3
    <3>2. CASE j # 1
      <4>0. j - 1 \in 1 .. NodeNum /\ (j - 1) - 1 = j - 2 /\ j - 2 \in 0 .. NodeNum /\ ~ (j <= j - 1)
        BY <1>0, <2>3, <3>2
      <4>1. j - 1 \in 1 .. NodeNum /\ j - 1 \notin Bad /\ (j - 1) - 1 = j - 2 /\ j - 2 \in 0 .. NodeNum
        BY <2>1, <4>0
      <4>2. w[j - 1][z] < w[j - 2][z]
        <5>1. w[j - 1][y] <= lat[l] + w[j - 2][l[2]]
          BY <4>1, <1>3, <2>4
        <5>2. w[j - 2][z] \in Nat /\ lat[l] \in Nat
          BY <1>2, <1>5, <2>5, <4>1
        <5> QED
          BY <5>1, <5>2, <2>2, <2>3, <2>4, <2>5
      <4>3. Cardinality(Near(j - 1, z)) >= (j - 1) + 1
        BY <4>1, <4>2, <2>5
      <4> QED
        BY <4>3, <2>3
    <3> QED
      BY <3>1, <3>2
  <2>7. Near(j - 1, z) \subseteq Near(j, y) \ {y}
    <3> SUFFICES ASSUME NEW x \in Near(j - 1, z) PROVE x \in Near(j, y) /\ x # y
      OBVIOUS
    <3>1. x \in Nodes /\ w[j - 1][x] <= w[j - 1][z] /\ w[j - 1][x] \in Nat /\ w[j][x] \in Nat /\ w[j][x] <= w[j - 1][x]
      BY <1>2, <1>3, <2>3
    <3> QED
      BY <3>1, <2>2, <2>3, <2>5
  <2>8. y \in Near(j, y)
    BY <2>3
  <2> HIDE DEF Near, Bad
  <2>9. /\ IsFiniteSet(Near(j, y)) /\ IsFiniteSet(Near(j, y) \ {y})
        /\ Cardinality(Near(j, y) \ {y}) = Cardinality(Near(j, y)) - 1
    BY <1>4, <2>3, <2>8, FS_RemoveElement
  <2>10. Cardinality(Near(j - 1, z)) <= Cardinality(Near(j, y) \ {y})
    BY <2>7, <2>9, FS_Subset
  <2>11. Cardinality(Near(j, y)) \in Nat /\ Cardinality(Near(j - 1, z)) \in Nat
    BY <1>4, <2>3, <2>5
  <2> QED
    BY <2>2, <2>3, <2>6, <2>9, <2>10, <2>11
<1> QED
  BY <1>6 DEF w

(* Every distance is final: a path needs no more links than NodeNum - 1.      *)
LEMMA DistanceFacts ==
  ASSUME NEW lat \in LatencyMaps
  PROVE  /\ \A n, d \in Nodes : Distance(lat, n, d) \in Nat /\ Distance(lat, n, d) <= Inf
         /\ \A d \in Nodes : Distance(lat, d, d) = 0
         /\ \A d \in Nodes : \A l \in Links : Distance(lat, l[1], d) <= lat[l] + Distance(lat, l[2], d)
<1>1. NodeNum \in Nat \ {0} /\ Inf \in Nat /\ NodeNum \in 1 .. NodeNum /\ NodeNum - 1 \in 0 .. NodeNum
  BY NodesFacts
<1>2. ASSUME NEW d \in Nodes PROVE \A m \in Nodes : Within(lat, d)[NodeNum - 1][m] <= Within(lat, d)[0][m]
  <2> DEFINE w == Within(lat, d)
             Bad == {k \in 0 .. NodeNum : \E m \in Nodes : ~ (w[k][m] <= w[0][m])}
  <2>1. ASSUME NEW k \in 1 .. NodeNum
        PROVE  \A m \in Nodes : w[k][m] \in Nat /\ w[k - 1][m] \in Nat /\ w[k][m] <= w[k - 1][m]
    BY WithinShrinks DEF Distances
  <2>2. \A m \in Nodes : w[0][m] \in Nat
    <3>1. w[0] = [m \in Nodes |-> IF m = d THEN 0 ELSE Inf]
      BY WithinFacts
    <3> QED
      BY <1>1, <3>1
  <2> HIDE DEF w
  <2>3. Bad = {}
    <3> SUFFICES ASSUME Bad # {} PROVE FALSE
      OBVIOUS
    <3>1. PICK k \in Bad : \A j \in Bad : k <= j
      <4>1. Bad \subseteq Nat
        BY <1>1
      <4> HIDE DEF Bad
      <4> QED
        BY <4>1, Least
    <3>2. PICK m \in Nodes : ~ (w[k][m] <= w[0][m])
      BY <3>1
    <3>3. k # 0
      BY <2>2, <3>2
    <3>4. k \in 1 .. NodeNum /\ k - 1 \in 0 .. NodeNum /\ ~ (k <= k - 1)
      BY <1>1, <3>1, <3>3
    <3>5. w[k - 1][m] <= w[0][m]
      BY <3>1, <3>4
    <3> QED
      BY <2>1, <2>2, <3>2, <3>4, <3>5
  <2> QED
    BY <1>1, <2>3 DEF w
<1>3. ASSUME NEW d \in Nodes
      PROVE  /\ Within(lat, d)[NodeNum - 1] \in Distances
             /\ Within(lat, d)[0] = [m \in Nodes |-> IF m = d THEN 0 ELSE Inf]
  BY <1>1, WithinFacts
<1>4. ASSUME NEW n \in Nodes, NEW d \in Nodes
      PROVE  Distance(lat, n, d) \in Nat /\ Distance(lat, n, d) <= Inf /\ (n = d => Distance(lat, n, d) = 0)
  <2>1. Within(lat, d)[NodeNum - 1][n] \in Nat /\ Within(lat, d)[0][n] = IF n = d THEN 0 ELSE Inf
    BY <1>3 DEF Distances
  <2>2. Within(lat, d)[NodeNum - 1][n] <= Within(lat, d)[0][n]
    BY <1>2
  <2>3. Distance(lat, n, d) \in Nat /\ Distance(lat, n, d) <= IF n = d THEN 0 ELSE Inf
    BY <2>1, <2>2 DEF Distance
  <2> QED
    BY <2>3, <1>1
<1>5. ASSUME NEW d \in Nodes, NEW m \in Nodes
      PROVE  Within(lat, d)[NodeNum][m] = Within(lat, d)[NodeNum - 1][m]
  <2>1. /\ Within(lat, d)[NodeNum][m] \in Nat /\ Within(lat, d)[NodeNum - 1][m] \in Nat
        /\ Within(lat, d)[NodeNum][m] <= Within(lat, d)[NodeNum - 1][m]
    BY <1>1, WithinShrinks DEF Distances
  <2>2. ASSUME Within(lat, d)[NodeNum][m] < Within(lat, d)[NodeNum - 1][m] PROVE FALSE
    <3> DEFINE near == {x \in Nodes : Within(lat, d)[NodeNum][x] <= Within(lat, d)[NodeNum][m]}
    <3>1. Cardinality(near) >= NodeNum + 1
      BY <1>1, <2>2, GainHasNearer
    <3>2. near \subseteq Nodes
      OBVIOUS
    <3> HIDE DEF near
    <3>3. Cardinality(near) <= NodeNum /\ Cardinality(near) \in Nat
      BY <3>2, NodesFacts, FS_Subset, FS_CardinalityType
    <3> QED
      BY <3>1, <3>3, <1>1
  <2> QED
    BY <2>1, <2>2
<1>6. ASSUME NEW d \in Nodes, NEW l \in Links
      PROVE  Distance(lat, l[1], d) <= lat[l] + Distance(lat, l[2], d)
  <2>1. Within(lat, d)[NodeNum][l[1]] <= lat[l] + Within(lat, d)[NodeNum - 1][l[2]]
    BY <1>1, WithinShrinks
  <2>2. l[1] \in Nodes
    BY NodesFacts
  <2> QED
    BY <2>1, <2>2, <1>5 DEF Distance
<1> QED
  BY <1>4, <1>6

(* A path through p is no shorter than the shortest one; a link is a path.    *)
LEMMA Triangle ==
  ASSUME NEW lat \in LatencyMaps, NEW n \in Nodes, NEW p \in Nodes, NEW d \in Nodes
  PROVE  Distance(lat, n, d) <= Distance(lat, n, p) + Distance(lat, p, d)
<1> DEFINE w == Within(lat, p)
           Bad == {k \in 0 .. NodeNum : \E m \in Nodes : ~ (Distance(lat, m, d) <= w[k][m] + Distance(lat, p, d))}
<1>1. NodeNum \in Nat /\ Inf \in Nat /\ NodeNum - 1 \in 0 .. NodeNum
  BY NodesFacts
<1>2. \A m, x \in Nodes : Distance(lat, m, x) \in Nat /\ Distance(lat, m, x) <= Inf
  BY DistanceFacts
<1>3. \A k \in 0 .. NodeNum : \A m \in Nodes : w[k][m] \in Nat
  <2>1. w \in [0 .. NodeNum -> [Nodes -> Nat]]
    BY WithinFacts DEF Distances
  <2> QED
    BY <2>1
<1>4. w[0] = [m \in Nodes |-> IF m = p THEN 0 ELSE Inf]
  BY WithinFacts
<1>5. ASSUME NEW k \in 1 .. NodeNum, NEW m \in Nodes
      PROVE  w[k][m] = w[k - 1][m] \/ \E l \in Links : l[1] = m /\ w[k][m] = lat[l] + w[k - 1][l[2]]
  BY WithinShrinks
<1>6. \A l \in Links : l[1] \in Nodes /\ l[2] \in Nodes /\ lat[l] \in Nat
  BY NodesFacts DEF LatencyMaps, Lats
<1> HIDE DEF w
<1>7. Bad = {}
  <2> SUFFICES ASSUME Bad # {} PROVE FALSE
    OBVIOUS
  <2>1. PICK k \in Bad : \A j \in Bad : k <= j
    <3>1. Bad \subseteq Nat
      BY <1>1
    <3> HIDE DEF Bad
    <3> QED
      BY <3>1, Least
  <2>2. PICK m \in Nodes : ~ (Distance(lat, m, d) <= w[k][m] + Distance(lat, p, d))
    BY <2>1
  <2>3. k \in 0 .. NodeNum
    BY <2>1
  <2>4. CASE k = 0
    <3>1. w[k][m] = IF m = p THEN 0 ELSE Inf
      BY <1>4, <2>4
    <3> QED
      BY <3>1, <1>1, <1>2, <2>2
  <2>5. CASE k # 0
    <3>1. k \in 1 .. NodeNum /\ k - 1 \in 0 .. NodeNum /\ ~ (k <= k - 1)
      BY <1>1, <2>3, <2>5
    <3>2. \A x \in Nodes : Distance(lat, x, d) <= w[k - 1][x] + Distance(lat, p, d)
      BY <2>1, <3>1
    <3>3. w[k][m] # w[k - 1][m]
      BY <2>2, <3>2
    <3>4. PICK l \in Links : l[1] = m /\ w[k][m] = lat[l] + w[k - 1][l[2]]
      BY <1>5, <3>1, <3>3
    <3>5. Distance(lat, m, d) <= lat[l] + Distance(lat, l[2], d)
      BY <3>4, DistanceFacts
    <3>6. Distance(lat, l[2], d) <= w[k - 1][l[2]] + Distance(lat, p, d)
      BY <1>6, <3>2
    <3>7. /\ Distance(lat, m, d) \in Nat /\ Distance(lat, l[2], d) \in Nat /\ Distance(lat, p, d) \in Nat
          /\ lat[l] \in Nat /\ w[k - 1][l[2]] \in Nat
      BY <1>2, <1>3, <1>6, <3>1
    <3> QED
      BY <2>2, <3>4, <3>5, <3>6, <3>7
  <2> QED
    BY <2>4, <2>5
<1>8. Distance(lat, n, d) <= w[NodeNum - 1][n] + Distance(lat, p, d)
  BY <1>1, <1>7
<1> QED
  BY <1>8 DEF Distance, w

LEMMA LinkIsPath ==
  ASSUME NEW lat \in LatencyMaps, NEW n \in Nodes, NEW l \in Links
  PROVE  Distance(lat, n, l[2]) <= Distance(lat, n, l[1]) + lat[l]
<1>1. l[1] \in Nodes /\ l[2] \in Nodes /\ lat[l] \in Nat
  BY NodesFacts DEF LatencyMaps, Lats
<1>2. Distance(lat, l[1], l[2]) <= lat[l] + Distance(lat, l[2], l[2]) /\ Distance(lat, l[2], l[2]) = 0
  BY <1>1, DistanceFacts
<1>3. Distance(lat, n, l[2]) <= Distance(lat, n, l[1]) + Distance(lat, l[1], l[2])
  BY <1>1, Triangle
<1>4. /\ Distance(lat, n, l[2]) \in Nat /\ Distance(lat, n, l[1]) \in Nat /\ Distance(lat, l[1], l[2]) \in Nat
  BY <1>1, DistanceFacts
<1> QED
  BY <1>1, <1>2, <1>3, <1>4

(* What Dijkstra relies on: every path out of the set V costs at least M when *)
(* the links that leave V do.                                                 *)
LEMMA PathLeaves ==
  ASSUME NEW lat \in LatencyMaps, NEW V \in SUBSET Nodes, NEW d \in Nodes \ V,
         NEW M \in Nat, M <= Inf, NEW dx \in Distances,
         \A l \in Links : l[1] \in V => IF l[2] \in V THEN dx[l[2]] <= dx[l[1]] + lat[l] ELSE M <= dx[l[1]] + lat[l]
  PROVE  \A m \in V : M <= dx[m] + Distance(lat, m, d)
<1> DEFINE w == Within(lat, d)
           Bad == {k \in 0 .. NodeNum : \E m \in V : ~ (M <= dx[m] + w[k][m])}
<1>1. NodeNum \in Nat /\ Inf \in Nat /\ NodeNum - 1 \in 0 .. NodeNum
  BY NodesFacts
<1>2. \A m \in V : dx[m] \in Nat /\ m \in Nodes /\ m # d
  BY DEF Distances
<1>3. \A k \in 0 .. NodeNum : \A m \in Nodes : w[k][m] \in Nat
  <2>1. w \in [0 .. NodeNum -> [Nodes -> Nat]]
    BY WithinFacts DEF Distances
  <2> QED
    BY <2>1
<1>4. w[0] = [m \in Nodes |-> IF m = d THEN 0 ELSE Inf]
  BY WithinFacts
<1>5. ASSUME NEW k \in 1 .. NodeNum, NEW m \in Nodes
      PROVE  w[k][m] = w[k - 1][m] \/ \E l \in Links : l[1] = m /\ w[k][m] = lat[l] + w[k - 1][l[2]]
  BY WithinShrinks
<1>6. \A l \in Links : l[1] \in Nodes /\ l[2] \in Nodes /\ lat[l] \in Nat
  BY NodesFacts DEF LatencyMaps, Lats
<1> HIDE DEF w
<1>7. Bad = {}
  <2> SUFFICES ASSUME Bad # {} PROVE FALSE
    OBVIOUS
  <2>1. PICK k \in Bad : \A j \in Bad : k <= j
    <3>1. Bad \subseteq Nat
      BY <1>1
    <3> HIDE DEF Bad
    <3> QED
      BY <3>1, Least
  <2>2. PICK m \in V : ~ (M <= dx[m] + w[k][m])
    BY <2>1
  <2>3. k \in 0 .. NodeNum
    BY <2>1
  <2>4. k # 0
    <3>1. w[0][m] = Inf
      BY <1>2, <1>4
    <3> QED
      BY <3>1, <1>1, <1>2, <2>2
  <2>5. k \in 1 .. NodeNum /\ k - 1 \in 0 .. NodeNum /\ ~ (k <= k - 1)
    BY <1>1, <2>3, <2>4
  <2>6. \A x \in V : M <= dx[x] + w[k - 1][x]
    BY <2>1, <2>5
  <2>7. w[k][m] # w[k - 1][m]
    BY <2>2, <2>6
  <2>8. PICK l \in Links : l[1] = m /\ w[k][m] = lat[l] + w[k - 1][l[2]]
    BY <1>2, <1>5, <2>5, <2>7
  <2>9. lat[l] \in Nat /\ dx[m] \in Nat /\ w[k - 1][l[2]] \in Nat
    BY <1>2, <1>3, <1>6, <2>5
  <2>10. CASE l[2] \in V
    <3>1. dx[l[2]] <= dx[m] + lat[l] /\ M <= dx[l[2]] + w[k - 1][l[2]] /\ dx[l[2]] \in Nat
      BY <1>2, <2>6, <2>8, <2>10
    <3> QED
      BY <2>2, <2>8, <2>9, <3>1
  <2>11. CASE l[2] \notin V
    <3>1. M <= dx[m] + lat[l]
      BY <2>8, <2>11
    <3> QED
      BY <2>2, <2>8, <2>9, <3>1
  <2> QED
    BY <2>10, <2>11
<1> QED
  BY <1>1, <1>7 DEF Distance, w

-----------------------------------------------------------------------------
(* Dijkstra *)

(* A path of k links costs no more than k times the largest latency, and      *)
(* with less than NodeNum links it costs less than Inf.                       *)
Light(k, x) == x * NodeNum <= k * (Inf - 1)

LEMMA LightPaths ==
  ASSUME NEW k \in Nat, NEW x \in Nat, Light(k, x), NEW lat \in Lats
  PROVE  Light(k + 1, x + lat) /\ (k + 1 < NodeNum => x + lat < Inf)
<1>1. NodeNum \in Nat \ {0} /\ Inf \in Nat /\ lat \in Nat /\ lat * NodeNum < Inf /\ lat > 0
  BY NodesFacts DEF Lats
<1> DEFINE N == NodeNum
           I == Inf - 1
<1>2. lat * N \in Nat /\ x * N \in Nat
  BY <1>1
<1>3. I \in Nat /\ lat * N <= I
  BY <1>1, <1>2
<1>4. (x + lat) * N = x * N + lat * N /\ (k + 1) * I = k * I + I
  BY <1>1, <1>3
<1>5. k * I \in Nat
  BY <1>3
<1>6. (x + lat) * N <= (k + 1) * I
  <2>1. x * N <= k * I
    BY DEF Light
  <2> HIDE DEF N, I
  <2> QED
    BY <2>1, <1>2, <1>3, <1>4, <1>5
<1>7. ASSUME k + 1 < N PROVE x + lat < Inf
  <2> SUFFICES ASSUME x + lat >= Inf PROVE FALSE
    BY <1>1
  <2>1. x + lat = (I + 1) + (x + lat - Inf) /\ x + lat - Inf \in Nat
    BY <1>1
  <2>2. N = (k + 1) + (N - (k + 1)) /\ N - (k + 1) \in Nat
    BY <1>1, <1>7
  <2> DEFINE a == x + lat - Inf
             b == N - (k + 1)
  <2>3. (x + lat) * N = (I + 1) * N + a * N /\ a * N \in Nat
    BY <1>1, <1>3, <2>1
  <2>4. (I + 1) * N = I * N + N /\ I * N = I * (k + 1) + I * b /\ I * b \in Nat
    BY <1>1, <1>3, <2>2
  <2>5. I * (k + 1) = (k + 1) * I
    BY <1>3
  <2>6. (k + 1) * I \in Nat /\ N > 0 /\ N \in Nat
    BY <1>1, <1>3
  <2> HIDE DEF a, b, N, I
  <2> QED
    BY <1>6, <2>3, <2>4, <2>5, <2>6
<1> QED
  BY <1>6, <1>7 DEF Light

(* The invariant of the loop, for the latencies lat in the database of n: V   *)
(* has been visited, dist is dx with 0 for n itself, and row is the own row.  *)
(* What is finite goes back over a link from a visited node; no link from a   *)
(* visited node leads anywhere sooner; the closest nodes are visited first;   *)
(* and the distances of the visited nodes are those of the shortest paths.    *)
Settled(lat, n, V, dist, row) ==
  /\ n \in V /\ V \subseteq Nodes
  /\ dist \in Distances /\ dist[n] = 0
  /\ \A d \in Nodes \ {n} : d \in V \/ dist[d] < Inf =>
        /\ d \in DOMAIN row /\ row[d] \in V /\ <<row[d], d>> \in Links
        /\ dist[d] = dist[row[d]] + lat[<<row[d], d>>]
  /\ \A l \in Links : l[1] \in V => dist[l[2]] <= dist[l[1]] + lat[l]
  /\ \A v \in V, u \in Nodes \ V : dist[v] <= dist[u]
  /\ \A v \in V : dist[v] = Distance(lat, n, v) /\ Light(Cardinality(V) - 1, dist[v])

LEMMA SettledAtFirst ==
  ASSUME NEW lat \in LatencyMaps, NEW n \in Nodes, NEW dist \in Distances, dist[n] = 0,
         NEW S, \A l \in Links : l[1] = n => l[2] \in S,
         \A d \in Nodes \ {n} : IF <<n, d>> \in Links THEN dist[d] = lat[<<n, d>>] ELSE Inf <= dist[d]
  PROVE  Settled(lat, n, {n}, dist, [d \in S |-> n])
<1> DEFINE row == [d \in S |-> n]
<1>1. Inf \in Nat /\ NodeNum \in Nat
  BY NodesFacts
<1>2. \A l \in Links : l[1] \in Nodes /\ l[2] \in Nodes /\ l[1] # l[2] /\ l = <<l[1], l[2]>> /\ lat[l] \in Nat
  BY NodesFacts DEF LatencyMaps, Lats
<1>3. \A d \in Nodes : dist[d] \in Nat
  BY DEF Distances
<1>4. \A d \in Nodes \ {n} : d \in {n} \/ dist[d] < Inf =>
        /\ d \in DOMAIN row /\ row[d] \in {n} /\ <<row[d], d>> \in Links
        /\ dist[d] = dist[row[d]] + lat[<<row[d], d>>]
  <2> SUFFICES ASSUME NEW d \in Nodes \ {n}, dist[d] < Inf
               PROVE  /\ d \in S /\ <<n, d>> \in Links
                      /\ dist[d] = dist[n] + lat[<<n, d>>]
    OBVIOUS
  <2>1. <<n, d>> \in Links
    BY <1>1, <1>3
  <2>2. dist[d] = lat[<<n, d>>] /\ dist[d] \in Nat /\ d \in S
    BY <1>3, <2>1
  <2> QED
    BY <2>1, <2>2
<1>5. ASSUME NEW l \in Links, l[1] \in {n} PROVE dist[l[2]] <= dist[l[1]] + lat[l]
  <2>1. dist[l[2]] = lat[l] /\ l[1] = n /\ lat[l] \in Nat
    BY <1>2, <1>5
  <2> QED
    BY <2>1
<1>6. \A v \in {n}, u \in Nodes \ {n} : dist[v] <= dist[u]
  BY <1>3
<1>7. \A v \in {n} : dist[v] = Distance(lat, n, v)
  BY DistanceFacts
<1>8. Cardinality({n}) = 1
  BY FS_Singleton
<1>9. \A v \in {n} : Light(Cardinality({n}) - 1, dist[v])
  BY <1>1, <1>8 DEF Light
<1> QED
  BY <1>4, <1>5, <1>6, <1>7, <1>9 DEF Settled

(* As long as a node is left, one can be reached.                             *)
LEMMA SettledGoesOn ==
  ASSUME NEW lat \in LatencyMaps, NEW n \in Nodes, NEW V, NEW dist, NEW row,
         Settled(lat, n, V, dist, row), V # Nodes
  PROVE  \E d \in Nodes \ V : dist[d] < Inf
<1>1. PICK l \in Links : l[1] \in V /\ l[2] \in Nodes \ V
  BY LinkLeaves DEF Settled
<1>2. IsFiniteSet(V) /\ Cardinality(V) \in Nat \ {0} /\ Cardinality(V) < NodeNum
  <2>1. V \subseteq Nodes /\ V # {} /\ V # Nodes
    BY DEF Settled
  <2>2. IsFiniteSet(V) /\ Cardinality(V) \in Nat /\ Cardinality(V) <= NodeNum /\ Cardinality(V) # NodeNum
    BY <2>1, NodesFacts, FS_Subset, FS_CardinalityType
  <2>3. Cardinality(V) # 0
    BY <2>1, <2>2, FS_EmptySet
  <2> QED
    BY <2>2, <2>3, NodesFacts
<1>3. lat[l] \in Lats /\ dist[l[1]] \in Nat /\ dist[l[2]] \in Nat
  BY <1>1 DEF Settled, Distances, LatencyMaps
<1>4. Light(Cardinality(V) - 1, dist[l[1]]) /\ dist[l[2]] <= dist[l[1]] + lat[l]
  BY <1>1 DEF Settled
<1>5. Cardinality(V) - 1 \in Nat /\ (Cardinality(V) - 1) + 1 = Cardinality(V) /\ NodeNum \in Nat
  BY <1>2, NodesFacts
<1>6. dist[l[1]] + lat[l] < Inf
  BY <1>2, <1>3, <1>4, <1>5, LightPaths
<1>7. lat[l] \in Nat /\ Inf \in Nat
  BY <1>3, NodesFacts DEF Lats
<1> QED
  BY <1>1, <1>3, <1>4, <1>6, <1>7

(* One turn of the loop: the nodes to which the way over the relay r is       *)
(* better, and the vector and the row with that way.                          *)
Better(lat, V, dist, r) ==
  {d \in Nodes \ (V \cup {r}) : <<r, d>> \in Links /\ dist[d] > lat[<<r, d>>] + dist[r]}
DistVia(lat, better, dist, r) == [d \in Nodes |-> IF d \in better THEN lat[<<r, d>>] + dist[r] ELSE dist[d]]
RowVia(row, better, r) == [d \in DOMAIN row \cup better |-> IF d \in better THEN r ELSE row[d]]

LEMMA SettledByRelay ==
  ASSUME NEW lat \in LatencyMaps, NEW n \in Nodes, NEW V, NEW dist, NEW row,
         Settled(lat, n, V, dist, row),
         NEW r \in Nodes \ V, dist[r] < Inf, \A e \in Nodes \ V : dist[r] <= dist[e]
  PROVE  LET better == Better(lat, V, dist, r)
         IN  Settled(lat, n, V \cup {r}, DistVia(lat, better, dist, r), RowVia(row, better, r))
<1> DEFINE W == V \cup {r}
           better == Better(lat, V, dist, r)
           dist2 == DistVia(lat, better, dist, r)
           row2 == RowVia(row, better, r)
<1>0. /\ better = {d \in Nodes \ W : <<r, d>> \in Links /\ dist[d] > lat[<<r, d>>] + dist[r]}
      /\ dist2 = [d \in Nodes |-> IF d \in better THEN lat[<<r, d>>] + dist[r] ELSE dist[d]]
      /\ row2 = [d \in DOMAIN row \cup better |-> IF d \in better THEN r ELSE row[d]]
  BY DEF Better, DistVia, RowVia
<1> HIDE DEF better, dist2, row2
<1>1. Inf \in Nat /\ NodeNum \in Nat
  BY NodesFacts
<1>2. \A l \in Links : l[1] \in Nodes /\ l[2] \in Nodes /\ l[1] # l[2] /\ l = <<l[1], l[2]>> /\ lat[l] \in Nat
  BY NodesFacts DEF LatencyMaps, Lats
<1>3. n \in V /\ V \subseteq Nodes /\ (\A d \in Nodes : dist[d] \in Nat) /\ dist[n] = 0
  BY DEF Settled, Distances
<1>4. \A d \in better : /\ d \in Nodes \ W /\ <<r, d>> \in Links /\ lat[<<r, d>>] \in Nat
                         /\ dist[d] > lat[<<r, d>>] + dist[r] /\ dist2[d] = lat[<<r, d>>] + dist[r]
  BY <1>0, <1>2
<1>5. \A d \in Nodes : d \notin better => dist2[d] = dist[d]
  BY <1>0
<1>6. \A d \in W : d \in Nodes /\ dist2[d] = dist[d]
  BY <1>3, <1>4, <1>5
<1>7. ASSUME NEW d \in Nodes PROVE dist2[d] \in Nat /\ dist2[d] <= dist[d]
  <2>1. dist[d] \in Nat /\ dist[r] \in Nat
    BY <1>3
  <2>2. CASE d \in better
    <3>1. /\ lat[<<r, d>>] \in Nat /\ dist[d] > lat[<<r, d>>] + dist[r]
          /\ dist2[d] = lat[<<r, d>>] + dist[r]
      BY <1>4, <2>2
    <3> QED
      BY <2>1, <3>1
  <2>3. CASE d \notin better
    BY <1>5, <2>1, <2>3
  <2> QED
    BY <2>2, <2>3
<1>8. dist2 \in Distances /\ dist2[n] = 0
  <2>1. dist2 = [d \in Nodes |-> dist2[d]]
    BY <1>0
  <2>2. dist2[n] = 0
    BY <1>3, <1>6
  <2> QED
    BY <1>7, <2>1, <2>2 DEF Distances
<1>9. DOMAIN row2 = DOMAIN row \cup better /\ (\A d \in better : row2[d] = r)
      /\ \A d \in DOMAIN row \ better : row2[d] = row[d]
  BY <1>0
<1>10. ASSUME NEW d \in Nodes \ {n}, d \in W \/ dist2[d] < Inf
       PROVE  /\ d \in DOMAIN row2 /\ row2[d] \in W /\ <<row2[d], d>> \in Links
              /\ dist2[d] = dist2[row2[d]] + lat[<<row2[d], d>>]
  <2>1. CASE d \in better
    <3>1. row2[d] = r /\ d \in DOMAIN row2 /\ dist2[r] = dist[r] /\ dist[r] \in Nat
      BY <1>3, <1>6, <1>9, <2>1
    <3> QED
      BY <1>4, <2>1, <3>1
  <2>2. CASE d \notin better
    <3>1. dist2[d] = dist[d] /\ (d \in V \/ dist[d] < Inf)
      BY <1>5, <1>10, <2>2
    <3>2. /\ d \in DOMAIN row /\ row[d] \in V /\ <<row[d], d>> \in Links
          /\ dist[d] = dist[row[d]] + lat[<<row[d], d>>]
      BY <3>1 DEF Settled
    <3>3. row2[d] = row[d] /\ d \in DOMAIN row2 /\ dist2[row[d]] = dist[row[d]]
      BY <1>6, <1>9, <2>2, <3>2
    <3> QED
      BY <3>1, <3>2, <3>3
  <2> QED
    BY <2>1, <2>2
<1>11. ASSUME NEW l \in Links, l[1] \in W PROVE dist2[l[2]] <= dist2[l[1]] + lat[l]
  <2>1. /\ l[1] \in Nodes /\ l[2] \in Nodes /\ lat[l] \in Nat /\ dist2[l[1]] = dist[l[1]]
        /\ dist[l[1]] \in Nat /\ dist[l[2]] \in Nat /\ dist2[l[2]] \in Nat /\ dist2[l[2]] <= dist[l[2]]
    BY <1>2, <1>3, <1>6, <1>7, <1>11
  <2>2. CASE l[1] \in V
    <3>1. dist[l[2]] <= dist[l[1]] + lat[l]
      BY <2>2 DEF Settled
    <3> QED
      BY <2>1, <3>1
  <2>3. CASE l[1] = r
    <3>1. CASE l[2] \in W
      <4>1. dist[l[2]] <= dist[r]
        BY <3>1, <1>3 DEF Settled
      <4> QED
        BY <2>1, <2>3, <4>1
    <3>2. CASE l[2] \notin W
      <4>1. <<r, l[2]>> \in Links /\ lat[<<r, l[2]>>] = lat[l]
        BY <1>2, <2>3
      <4>2. CASE l[2] \in better
        BY <1>4, <2>1, <2>3, <4>1, <4>2
      <4>3. CASE l[2] \notin better
        <5>1. ~ (dist[l[2]] > lat[<<r, l[2]>>] + dist[r])
          BY <1>0, <2>1, <3>2, <4>1, <4>3
        <5> QED
          BY <2>1, <2>3, <4>1, <5>1
      <4> QED
        BY <4>2, <4>3
    <3> QED
      BY <3>1, <3>2
  <2> QED
    BY <1>11, <2>2, <2>3
<1>12. ASSUME NEW v \in W, NEW u \in Nodes \ W PROVE dist2[v] <= dist2[u]
  <2>1. /\ dist2[v] = dist[v] /\ dist[v] \in Nat /\ dist[r] \in Nat /\ dist[u] \in Nat
        /\ dist[r] <= dist[u]
    BY <1>3, <1>6
  <2>2. dist[v] <= dist[r]
    BY <1>3 DEF Settled
  <2>3. CASE u \in better
    <3>1. dist2[u] = lat[<<r, u>>] + dist[r] /\ lat[<<r, u>>] \in Nat
      BY <1>4, <2>3
    <3> QED
      BY <2>1, <2>2, <3>1
  <2>4. CASE u \notin better
    BY <1>5, <2>1, <2>2, <2>4
  <2> QED
    BY <2>3, <2>4
<1>13. /\ r # n /\ row[r] \in V /\ <<row[r], r>> \in Links
       /\ dist[r] = dist[row[r]] + lat[<<row[r], r>>]
  BY <1>3 DEF Settled
<1>14. dist[r] = Distance(lat, n, r)
  <2>1. Distance(lat, n, r) <= Distance(lat, n, row[r]) + lat[<<row[r], r>>]
    BY <1>13, LinkIsPath
  <2>2. Distance(lat, n, row[r]) = dist[row[r]]
    BY <1>13 DEF Settled
  <2>3. \A l \in Links : l[1] \in V => IF l[2] \in V THEN dist[l[2]] <= dist[l[1]] + lat[l]
                                       ELSE dist[r] <= dist[l[1]] + lat[l]
    <3> SUFFICES ASSUME NEW l \in Links, l[1] \in V, l[2] \notin V
                 PROVE  dist[r] <= dist[l[1]] + lat[l]
      BY DEF Settled
    <3>1. dist[l[2]] <= dist[l[1]] + lat[l] /\ dist[r] <= dist[l[2]]
      BY <1>2 DEF Settled
    <3>2. dist[l[2]] \in Nat /\ dist[l[1]] \in Nat /\ lat[l] \in Nat /\ dist[r] \in Nat
      BY <1>2, <1>3
    <3> QED
      BY <3>1, <3>2
  <2>4. dist[r] <= dist[n] + Distance(lat, n, r)
    <3>1. V \in SUBSET Nodes /\ dist[r] \in Nat /\ dist[r] <= Inf /\ dist \in Distances
      BY <1>1, <1>3 DEF Settled
    <3>2. \A m \in V : dist[r] <= dist[m] + Distance(lat, m, r)
      BY <2>3, <3>1, PathLeaves
    <3> QED
      BY <1>3, <3>2
  <2>5. Distance(lat, n, r) \in Nat
    BY DistanceFacts
  <2> QED
    BY <1>3, <1>13, <2>1, <2>2, <2>4, <2>5
<1>15. Cardinality(V) \in Nat \ {0} /\ Cardinality(W) = Cardinality(V) + 1
  <2>1. IsFiniteSet(V)
    BY <1>3, NodesFacts, FS_Subset
  <2>2. Cardinality(V) \in Nat /\ Cardinality(V) # 0
    BY <1>3, <2>1, FS_CardinalityType, FS_EmptySet
  <2> QED
    BY <2>1, <2>2, FS_AddElement
<1> DEFINE k == Cardinality(V) - 1
<1>16. k \in Nat /\ Cardinality(W) - 1 = k + 1
  BY <1>15
<1>17. ASSUME NEW v \in W PROVE dist2[v] = Distance(lat, n, v) /\ Light(Cardinality(W) - 1, dist2[v])
  <2>1. CASE v = r
    <3>1. Light(k, dist[row[r]]) /\ dist[row[r]] \in Nat /\ lat[<<row[r], r>>] \in Lats
      BY <1>3, <1>13 DEF Settled, LatencyMaps
    <3> HIDE DEF k
    <3>2. Light(k + 1, dist[row[r]] + lat[<<row[r], r>>])
      BY <1>16, <3>1, LightPaths
    <3> QED
      BY <1>6, <1>13, <1>14, <1>16, <2>1, <3>2
  <2>2. CASE v \in V
    <3>1. dist2[v] = dist[v] /\ dist[v] = Distance(lat, n, v) /\ Light(k, dist[v]) /\ dist[v] \in Nat
      BY <1>3, <1>6, <2>2 DEF Settled
    <3> HIDE DEF k
    <3>2. k * (Inf - 1) <= (k + 1) * (Inf - 1)
      <4>1. Inf - 1 \in Nat
        BY <1>1, <1>3
      <4>2. (k + 1) * (Inf - 1) = k * (Inf - 1) + (Inf - 1)
        BY <1>16, <4>1
      <4>3. k * (Inf - 1) \in Nat
        BY <1>16, <4>1
      <4> QED
        BY <4>1, <4>2, <4>3
    <3>3. Light(k + 1, dist[v])
      <4>1. dist[v] * NodeNum \in Int /\ k * (Inf - 1) \in Int /\ (k + 1) * (Inf - 1) \in Int
        BY <1>1, <1>16, <3>1
      <4>2. dist[v] * NodeNum <= k * (Inf - 1)
        BY <3>1 DEF Light
      <4>3. dist[v] * NodeNum <= (k + 1) * (Inf - 1)
        BY <3>2, <4>1, <4>2
      <4> QED
        BY <4>3 DEF Light
    <3> QED
      BY <1>16, <3>1, <3>3
  <2> QED
    BY <2>1, <2>2
<1>18. n \in W /\ W \subseteq Nodes
  BY <1>3
<1>19. Settled(lat, n, W, dist2, row2)
  <2> HIDE DEF W
  <2> QED
    BY <1>8, <1>10, <1>11, <1>12, <1>17, <1>18, Zenon DEF Settled
<1> QED
  BY <1>19 DEF better, dist2, row2

-----------------------------------------------------------------------------
(* The state *)

Rows == UNION {[S -> Nodes \cup {MaxUnsigned}] : S \in SUBSET Nodes}
Walks == [phase : {"walk", "loop"}, dest : Nodes, path : Seq(Nodes) \ {<<>>}]
DijkstraRuns == [phase : {"dijkstra"}, visited : SUBSET Nodes, dx : Distances]
FollowRuns == [phase : {"follow"}, cur_dst : Nodes]

(* A row has an entry for every neighbour; Dijkstra runs for a walk that has  *)
(* not come to its destination.                                              *)
Typed ==
  /\ latency \in LatencyMaps /\ lsvalue \in [Nodes -> LatencyMaps]
  /\ prev \in [Nodes -> Rows]
  /\ \A l \in Links : l[2] \in DOMAIN prev[l[1]]
  /\ walk = None \/ walk \in Walks
  /\ run = None \/ (run \in DijkstraRuns \cup FollowRuns /\ walk \in Walks /\ walk.phase = "walk" /\ At # walk.dest)

LEMMA RowsFacts ==
  /\ \A r \in Rows : DOMAIN r \subseteq Nodes /\ r \in [DOMAIN r -> Nodes \cup {MaxUnsigned}]
  /\ \A S \in SUBSET Nodes : \A r \in [S -> Nodes \cup {MaxUnsigned}] : r \in Rows
BY DEF Rows

LEMMA WalkFacts ==
  ASSUME walk \in Walks
  PROVE  /\ walk # None /\ walk.dest \in Nodes /\ walk.path \in Seq(Nodes) /\ walk.path # <<>>
         /\ Len(walk.path) \in Nat \ {0} /\ At \in Nodes /\ walk.path[1] \in Nodes
         /\ walk.phase \in {"walk", "loop"}
<1>1. /\ walk.dest \in Nodes /\ walk.path \in Seq(Nodes) /\ walk.path # <<>>
      /\ walk.phase \in {"walk", "loop"}
  BY DEF Walks
<1>2. Len(walk.path) \in Nat \ {0}
  BY <1>1
<1>3. At \in Nodes /\ walk.path[1] \in Nodes
  BY <1>1, <1>2 DEF At
<1> QED
  BY <1>1, <1>2, <1>3 DEF None

LEMMA RunFacts ==
  /\ \A r \in DijkstraRuns : /\ r # None /\ r.phase = "dijkstra" /\ r \notin FollowRuns
                            /\ r.visited \subseteq Nodes /\ r.dx \in Distances
  /\ \A r \in FollowRuns : r # None /\ r.phase = "follow" /\ r \notin DijkstraRuns /\ r.cur_dst \in Nodes
  /\ None.phase = "none"
BY DEF DijkstraRuns, FollowRuns, None

(* The relay is a closest one of the nodes that are left.                     *)
LEMMA RelayFacts ==
  ASSUME run \in DijkstraRuns, Candidates # {}
  PROVE  Relay \in Candidates /\ \A e \in Candidates : run.dx[Relay] <= run.dx[e]
<1> DEFINE Closest == {d \in Candidates : \A e \in Candidates : run.dx[d] <= run.dx[e]}
           Dxs == {run.dx[d] : d \in Candidates}
<1>1. Candidates \subseteq Nodes /\ \A d \in Candidates : run.dx[d] \in Nat
  BY RunFacts DEF Candidates, Distances
<1>2. PICK x \in Dxs : \A y \in Dxs : x <= y
  <2>1. Dxs \subseteq Nat /\ Dxs # {}
    BY <1>1
  <2> HIDE DEF Dxs
  <2> QED
    BY <2>1, Least
<1>3. PICK d \in Candidates : x = run.dx[d]
  BY <1>2
<1>4. d \in Closest
  BY <1>2, <1>3
<1>5. Closest \subseteq Nat /\ Closest # {}
  BY <1>1, <1>4, NodesFacts
<1>6. Min(Closest) \in Closest
  <2> HIDE DEF Closest
  <2> QED
    BY <1>5, MinIsLeast
<1> QED
  BY <1>6 DEF Relay

(* No offer is too large for an unsigned.                                     *)
LEMMA OfferFacts ==
  ASSUME Typed, run \in DijkstraRuns, NEW n \in Nodes, NEW r \in Nodes, run.dx[r] < Inf,
         NEW d \in Nodes, <<r, d>> \in Links
  PROVE  Offer(n, r, d) = lsvalue[n][<<r, d>>] + run.dx[r]
<1>1. lsvalue[n][<<r, d>>] \in Lats /\ run.dx[r] \in Nat
  BY RunFacts DEF Typed, LatencyMaps, Distances
<1> DEFINE x == lsvalue[n][<<r, d>>]
           y == run.dx[r]
<1>2. x \in Nat /\ x * NodeNum < Inf /\ NodeNum \in Nat \ {0} /\ Inf \in Nat
  BY <1>1, NodesFacts DEF Lats
<1>3. x < Inf
  <2>1. x * NodeNum = x + x * (NodeNum - 1) /\ x * (NodeNum - 1) \in Nat
    BY <1>2
  <2> HIDE DEF x
  <2> QED
    BY <1>2, <2>1
<1>4. \A a, m \in Nat : a < m => a % m = a
  OBVIOUS
<1> HIDE DEF x, y
<1>5. x + y \in Nat /\ MaxUnsigned + 1 \in Nat /\ x + y < MaxUnsigned + 1
  BY <1>1, <1>2, <1>3 DEF MaxUnsigned, y
<1>6. (x + y) % (MaxUnsigned + 1) = x + y
  BY <1>4, <1>5
<1> QED
  BY <1>6 DEF Offer, x, y

LEMMA TypedInit == Init => Typed
<1> SUFFICES ASSUME Init PROVE Typed
  OBVIOUS
<1>1. InitLatency \in LatencyMaps
  BY RouteAssumption, NodesFacts DEF LatencyMaps, Lats
<1>2. latency \in LatencyMaps /\ lsvalue \in [Nodes -> LatencyMaps]
  BY <1>1 DEF Init
<1> DEFINE Own(n) == {n} \cup {l[2] : l \in {e \in Links : e[1] = n}}
<1>3. prev = [n \in Nodes |-> [d \in Own(n) |-> MaxUnsigned]]
  BY DEF Init
<1>4. \A n \in Nodes : Own(n) \in SUBSET Nodes
  BY NodesFacts
<1>5. \A l \in Links : l[1] \in Nodes /\ l[2] \in Own(l[1])
  BY NodesFacts
<1> HIDE DEF Own
<1>6. \A n \in Nodes : prev[n] \in Rows
  <2> SUFFICES ASSUME NEW n \in Nodes PROVE prev[n] \in Rows
    OBVIOUS
  <2>1. prev[n] \in [Own(n) -> Nodes \cup {MaxUnsigned}]
    BY <1>3
  <2> QED
    BY <2>1, <1>4, RowsFacts
<1>7. prev \in [Nodes -> Rows] /\ \A l \in Links : l[2] \in DOMAIN prev[l[1]]
  BY <1>3, <1>5, <1>6
<1> QED
  BY <1>2, <1>7 DEF Init, Typed

(* A change of a latency, in the topology or in a database.                   *)
LEMMA TypedSet ==
  ASSUME Typed, NEW n \in Nodes, NEW l \in Links, NEW x \in Lats
  PROVE  [lsvalue EXCEPT ![n][l] = x] \in [Nodes -> LatencyMaps] /\ [latency EXCEPT ![l] = x] \in LatencyMaps
BY DEF Typed, LatencyMaps

LEMMA ChangesTyped ==
  ASSUME Typed,
         \/ \E l \in Links, lat \in Latencies : ChangeLink(l, lat)
         \/ \E n \in Nodes, l \in Links : AdjmatUpdate(n, l)
  PROVE  Typed'
<1>1. ASSUME NEW l \in Links, NEW lat \in Latencies, ChangeLink(l, lat) PROVE Typed'
  <2>1. lat \in Lats /\ l[1] \in Nodes
    BY RouteAssumption, NodesFacts DEF Lats
  <2>2. latency' \in LatencyMaps /\ lsvalue' \in [Nodes -> LatencyMaps]
    BY <1>1, <2>1, TypedSet DEF ChangeLink
  <2> QED
    BY <1>1, <2>2 DEF Typed, ChangeLink, At
<1>2. ASSUME NEW n \in Nodes, NEW l \in Links, AdjmatUpdate(n, l) PROVE Typed'
  <2>1. latency[l] \in Lats
    BY DEF Typed, LatencyMaps
  <2>2. lsvalue' \in [Nodes -> LatencyMaps]
    BY <1>2, <2>1, TypedSet DEF AdjmatUpdate
  <2> QED
    BY <1>2, <2>2 DEF Typed, AdjmatUpdate, At
<1> QED
  BY <1>1, <1>2

LEMMA DrawPathTyped ==
  ASSUME Typed, NEW src \in Nodes, NEW dest \in Nodes, DrawPath(src, dest)
  PROVE  Typed' /\ run = None /\ run' = None
<1>1. <<src>> \in Seq(Nodes) \ {<<>>}
  OBVIOUS
<1>2. walk' \in Walks /\ walk \notin Walks
  BY <1>1, WalkFacts DEF DrawPath, Walks
<1>3. run = None
  BY <1>2 DEF Typed
<1> QED
  BY <1>2, <1>3 DEF Typed, DrawPath

(* What every step of Dijkstra does to the type.                              *)
LEMMA RowChanged ==
  ASSUME Typed, NEW n \in Nodes, NEW S \in SUBSET Nodes, DOMAIN prev[n] \subseteq S,
         NEW row \in [S -> Nodes \cup {MaxUnsigned}], prev' = [prev EXCEPT ![n] = row]
  PROVE  prev' \in [Nodes -> Rows] /\ prev'[n] = row /\ \A l \in Links : l[2] \in DOMAIN prev'[l[1]]
<1>1. row \in Rows
  BY RowsFacts
<1>2. prev \in [Nodes -> Rows] /\ \A l \in Links : l[2] \in DOMAIN prev[l[1]]
  BY DEF Typed
<1>3. \A l \in Links : l[1] \in Nodes
  BY NodesFacts
<1> QED
  BY <1>1, <1>2, <1>3

LEMMA StartDijkstraTyped ==
  ASSUME Typed, StartDijkstra
  PROVE  /\ Typed' /\ walk \in Walks /\ run' \in DijkstraRuns /\ At' = At
         /\ run'.visited = {At} /\ prev'[At] = [d \in DOMAIN prev[At] |-> At]
         /\ run'.dx = [d \in Nodes |-> IF d \in DOMAIN prev[At] THEN OwnLsValue(At, d) ELSE Inf]
<1> DEFINE n == At
           row == DOMAIN prev[n]
           dx == [d \in Nodes |-> IF d \in row THEN OwnLsValue(n, d) ELSE Inf]
<1>1. walk \in Walks /\ walk.phase = "walk" /\ At # walk.dest
  BY RunFacts DEF Typed, StartDijkstra, None
<1>2. n \in Nodes
  BY <1>1, WalkFacts
<1>3. \A d \in Nodes : OwnLsValue(n, d) \in Nat
  BY <1>2, NodesFacts DEF OwnLsValue, Typed, LatencyMaps, Lats, MaxUnsigned
<1>4. dx \in Distances
  BY <1>3, NodesFacts DEF Distances
<1>5. run' = [phase |-> "dijkstra", visited |-> {n}, dx |-> dx] /\ prev' = [prev EXCEPT ![n] = [d \in row |-> n]]
  BY DEF StartDijkstra
<1>6. row \in SUBSET Nodes
  BY <1>2, RowsFacts DEF Typed
<1> HIDE DEF dx, n
<1>7. run' \in DijkstraRuns /\ run'.visited = {n} /\ run'.dx = dx
  BY <1>2, <1>4, <1>5 DEF DijkstraRuns
<1>8. /\ prev' \in [Nodes -> Rows] /\ prev'[n] = [d \in row |-> n]
      /\ \A l \in Links : l[2] \in DOMAIN prev'[l[1]]
  BY <1>2, <1>5, <1>6, RowChanged
<1>9. UNCHANGED <<latency, lsvalue, walk>> /\ At' = At
  BY DEF StartDijkstra, At
<1> QED
  BY <1>1, <1>7, <1>8, <1>9 DEF Typed, dx, n

LEMMA VisitRelayTyped ==
  ASSUME Typed, VisitRelay
  PROVE  LET n == At
             better == {d \in Nodes \ (run.visited \cup {Relay}) :
                          <<Relay, d>> \in Links /\ run.dx[d] > lsvalue[n][<<Relay, d>>] + run.dx[Relay]}
         IN  /\ Typed' /\ walk \in Walks /\ run \in DijkstraRuns /\ run' \in DijkstraRuns /\ At' = At
             /\ Relay \in Candidates /\ \A e \in Candidates : run.dx[Relay] <= run.dx[e]
             /\ run'.visited = run.visited \cup {Relay}
             /\ run'.dx = [d \in Nodes |-> IF d \in better THEN lsvalue[n][<<Relay, d>>] + run.dx[Relay] ELSE run.dx[d]]
             /\ prev'[n] = [d \in DOMAIN prev[n] \cup better |-> IF d \in better THEN Relay ELSE prev[n][d]]
<1> DEFINE n == At
           r == Relay
           V == run.visited \cup {r}
           offer(d) == lsvalue[n][<<r, d>>] + run.dx[r]
           better == {d \in Nodes \ V : <<r, d>> \in Links /\ run.dx[d] > offer(d)}
           dx == [d \in Nodes |-> IF d \in better THEN offer(d) ELSE run.dx[d]]
           row == [d \in DOMAIN prev[n] \cup better |-> IF d \in better THEN r ELSE prev[n][d]]
<1>1. run \in DijkstraRuns /\ walk \in Walks /\ walk.phase = "walk" /\ At # walk.dest
  BY RunFacts DEF Typed, VisitRelay
<1>2. n \in Nodes
  BY <1>1, WalkFacts
<1>3. r \in Candidates /\ \A e \in Candidates : run.dx[r] <= run.dx[e]
  BY <1>1, RelayFacts DEF VisitRelay
<1>4. r \in Nodes /\ run.dx[r] < Inf
  BY <1>3 DEF Candidates
<1>5. \A d \in Nodes : <<r, d>> \in Links => Offer(n, r, d) = offer(d) /\ offer(d) \in Nat
  <2> SUFFICES ASSUME NEW d \in Nodes, <<r, d>> \in Links
               PROVE  Offer(n, r, d) = offer(d) /\ offer(d) \in Nat
    OBVIOUS
  <2>1. Offer(n, r, d) = offer(d)
    BY <1>1, <1>2, <1>4, OfferFacts
  <2>2. lsvalue[n][<<r, d>>] \in Nat /\ run.dx[r] \in Nat
    BY <1>1, <1>2, <1>4, RunFacts DEF Typed, LatencyMaps, Lats, Distances
  <2> QED
    BY <2>1, <2>2
<1>6. better = {d \in Nodes \ V : <<r, d>> \in Links /\ run.dx[d] > Offer(n, r, d)}
  <2> HIDE DEF r, n, offer
  <2> QED
    BY <1>5
<1>7. \A d \in better : d \in Nodes /\ Offer(n, r, d) = offer(d) /\ offer(d) \in Nat
  BY <1>5
<1>8. run' = [run EXCEPT !.visited = V, !.dx = [d \in Nodes |-> IF d \in better THEN Offer(n, r, d) ELSE run.dx[d]]]
  BY <1>6 DEF VisitRelay
<1>9. prev' = [prev EXCEPT ![n] = row]
  BY <1>2, <1>6 DEF VisitRelay, Typed
<1> HIDE DEF better, r, n, offer
<1>10. [d \in Nodes |-> IF d \in better THEN Offer(n, r, d) ELSE run.dx[d]] = dx
  BY <1>7
<1>11. V \subseteq Nodes /\ dx \in Distances
  BY <1>1, <1>4, <1>7, RunFacts DEF Distances
<1>12. DOMAIN prev[n] \cup better \in SUBSET Nodes /\ prev[n] \in [DOMAIN prev[n] -> Nodes \cup {MaxUnsigned}]
  BY <1>2, <1>7, RowsFacts DEF Typed
<1>13. row \in [DOMAIN prev[n] \cup better -> Nodes \cup {MaxUnsigned}]
  BY <1>4, <1>12
<1> HIDE DEF dx, row, V
<1>14. run' \in DijkstraRuns /\ run'.visited = V /\ run'.dx = dx
  BY <1>1, <1>8, <1>10, <1>11 DEF DijkstraRuns
<1>15. prev' \in [Nodes -> Rows] /\ prev'[n] = row /\ \A l \in Links : l[2] \in DOMAIN prev'[l[1]]
  BY <1>2, <1>9, <1>12, <1>13, RowChanged
<1>16. UNCHANGED <<latency, lsvalue, walk>> /\ At' = At
  BY DEF VisitRelay, At
<1>17. Typed'
  BY <1>1, <1>14, <1>15, <1>16 DEF Typed
<1> QED
  BY <1>1, <1>3, <1>14, <1>15, <1>16, <1>17 DEF V, dx, row, better, offer, r, n

-----------------------------------------------------------------------------
(* Dijkstra in the model, and what it leaves for GetNextHop to follow.        *)

Dist == [d \in Nodes |-> IF d = At THEN 0 ELSE run.dx[d]]

(* The predecessors of n, which are those of shortest paths.                  *)
Tree(lat, n, row) ==
  \A d \in Nodes \ {n} :
    /\ row[d] \in Nodes /\ <<row[d], d>> \in Links
    /\ Distance(lat, n, row[d]) + lat[<<row[d], d>>] = Distance(lat, n, d)

(* The predecessors are followed along a shortest path to the destination.    *)
OnPath ==
  /\ run.cur_dst # At
  /\ Tree(lsvalue[At], At, prev[At])
  /\ Distance(lsvalue[At], At, run.cur_dst) + Distance(lsvalue[At], run.cur_dst, walk.dest)
       = Distance(lsvalue[At], At, walk.dest)

Routed ==
  /\ Typed
  /\ run \in DijkstraRuns => Settled(lsvalue[At], At, run.visited, Dist, prev[At])
  /\ run \in FollowRuns => OnPath

LEMMA StartDijkstraRouted ==
  ASSUME Routed, StartDijkstra
  PROVE  Routed'
<1> DEFINE n == At
           lat == lsvalue[n]
           row == DOMAIN prev[n]
           dist == Dist'
<1>1. /\ Typed' /\ walk \in Walks /\ run' \in DijkstraRuns /\ At' = At
      /\ run'.visited = {n} /\ prev'[n] = [d \in row |-> n]
      /\ run'.dx = [d \in Nodes |-> IF d \in row THEN OwnLsValue(n, d) ELSE Inf]
  BY StartDijkstraTyped DEF Routed
<1>2. n \in Nodes /\ lat \in LatencyMaps /\ Inf \in Nat
  BY <1>1, WalkFacts, NodesFacts DEF Routed, Typed
<1>3. \A l \in Links : l[1] = n => l[2] \in row
  BY DEF Routed, Typed
<1>4. dist = [d \in Nodes |-> IF d = n THEN 0 ELSE run'.dx[d]]
  BY <1>1 DEF Dist
<1>5. dist \in Distances /\ dist[n] = 0
  BY <1>1, <1>2, <1>4, RunFacts DEF Distances
<1>6. \A d \in Nodes \ {n} : IF <<n, d>> \in Links THEN dist[d] = lat[<<n, d>>] ELSE Inf <= dist[d]
  <2> SUFFICES ASSUME NEW d \in Nodes \ {n}
               PROVE  IF <<n, d>> \in Links THEN dist[d] = lat[<<n, d>>] ELSE Inf <= dist[d]
    OBVIOUS
  <2>1. dist[d] = IF d \in row THEN OwnLsValue(n, d) ELSE Inf
    BY <1>1, <1>4
  <2>2. <<n, d>> \in Links => d \in row
    BY <1>3
  <2>3. Inf <= MaxUnsigned
    BY <1>2 DEF MaxUnsigned
  <2> QED
    BY <1>2, <2>1, <2>2, <2>3 DEF OwnLsValue
<1> HIDE DEF n, lat, row, dist
<1>7. Settled(lat, n, {n}, dist, [d \in row |-> n])
  BY <1>2, <1>3, <1>5, <1>6, SettledAtFirst
<1>8. lsvalue' = lsvalue
  BY DEF StartDijkstra
<1>9. lsvalue'[At'] = lat /\ At' = n
  BY <1>1, <1>8 DEF lat, n
<1>10. Settled(lsvalue'[At'], At', run'.visited, Dist', prev'[At'])
  BY <1>1, <1>7, <1>9 DEF dist
<1>11. Settled(lsvalue[At], At, run.visited, Dist, prev[At])'
  BY <1>10
<1>12. run' \notin FollowRuns
  BY <1>1, RunFacts
<1> QED
  BY <1>1, <1>11, <1>12 DEF Routed

LEMMA VisitRelayRouted ==
  ASSUME Routed, VisitRelay
  PROVE  Routed'
<1> DEFINE n == At
           lat == lsvalue[n]
           r == Relay
           V == run.visited
           dist == Dist
           row == prev[n]
           better == {d \in Nodes \ (V \cup {r}) : <<r, d>> \in Links /\ run.dx[d] > lat[<<r, d>>] + run.dx[r]}
           row2 == [d \in DOMAIN row \cup better |-> IF d \in better THEN r ELSE row[d]]
           dist2 == [d \in Nodes |-> IF d \in better THEN lat[<<r, d>>] + dist[r] ELSE dist[d]]
<1>1. /\ Typed' /\ walk \in Walks /\ run \in DijkstraRuns /\ run' \in DijkstraRuns /\ At' = At
      /\ r \in Candidates /\ \A e \in Candidates : run.dx[r] <= run.dx[e]
      /\ run'.visited = V \cup {r}
      /\ run'.dx = [d \in Nodes |-> IF d \in better THEN lat[<<r, d>>] + run.dx[r] ELSE run.dx[d]]
      /\ prev'[n] = row2
  BY VisitRelayTyped DEF Routed
<1>2. n \in Nodes /\ lat \in LatencyMaps /\ Inf \in Nat
  BY <1>1, WalkFacts, NodesFacts DEF Routed, Typed
<1>3. Settled(lat, n, V, dist, row)
  BY <1>1 DEF Routed
<1>4. n \in V /\ V \subseteq Nodes /\ r \in Nodes \ V /\ r # n /\ run.dx[r] < Inf
  BY <1>1, <1>3 DEF Settled, Candidates
<1>5. \A d \in Nodes \ V : dist[d] = run.dx[d] /\ run.dx[d] \in Nat
  BY <1>1, <1>4, RunFacts DEF Dist, Distances
<1>6. dist[r] < Inf /\ \A e \in Nodes \ V : dist[r] <= dist[e]
  <2> SUFFICES ASSUME NEW e \in Nodes \ V PROVE run.dx[r] <= run.dx[e]
    BY <1>4, <1>5
  <2>1. e \in Candidates \/ ~ (run.dx[e] < Inf)
    BY DEF Candidates
  <2> QED
    BY <1>1, <1>2, <1>4, <1>5, <2>1
<1>7. better = Better(lat, V, dist, r) /\ \A d \in better : d \in Nodes \ V
  BY <1>4, <1>5 DEF Better
<1>8. dist2 = Dist'
  <2>1. Dist' = [d \in Nodes |-> IF d = n THEN 0 ELSE run'.dx[d]]
    BY <1>1 DEF Dist
  <2>2. \A d \in Nodes : dist2[d] = IF d = n THEN 0 ELSE run'.dx[d]
    <3> SUFFICES ASSUME NEW d \in Nodes PROVE dist2[d] = IF d = n THEN 0 ELSE run'.dx[d]
      OBVIOUS
    <3>1. dist[d] = IF d = n THEN 0 ELSE run.dx[d]
      BY DEF Dist
    <3>2. run'.dx[d] = IF d \in better THEN lat[<<r, d>>] + run.dx[r] ELSE run.dx[d]
      BY <1>1
    <3>3. d \in better => d # n
      BY <1>4, <1>7
    <3>4. dist[r] = run.dx[r]
      BY <1>4, <1>5
    <3> HIDE DEF better, n, lat, r, dist
    <3> QED
      BY <3>1, <3>2, <3>3, <3>4
  <2> HIDE DEF better, n, lat, r, dist
  <2> QED
    BY <2>1, <2>2
<1>9. dist2 = DistVia(lat, better, dist, r) /\ row2 = RowVia(row, better, r)
  BY DEF DistVia, RowVia
<1> HIDE DEF n, lat, r, V, dist, row, better, row2, dist2
<1>10. Settled(lat, n, V \cup {r}, dist2, row2)
  BY <1>2, <1>3, <1>4, <1>6, <1>7, <1>9, SettledByRelay
<1>11. lsvalue' = lsvalue
  BY DEF VisitRelay
<1>12. lsvalue'[At'] = lat /\ At' = n
  BY <1>1, <1>11 DEF lat, n
<1>13. Settled(lsvalue'[At'], At', run'.visited, Dist', prev'[At'])
  BY <1>1, <1>8, <1>10, <1>12
<1>14. Settled(lsvalue[At], At, run.visited, Dist, prev[At])'
  BY <1>13
<1>15. run' \notin FollowRuns
  BY <1>1, RunFacts
<1> QED
  BY <1>1, <1>14, <1>15 DEF Routed

(* When all nodes are visited, every entry is the predecessor on a shortest   *)
(* path.                                                                      *)
LEMMA SettledIsTree ==
  ASSUME NEW lat, NEW n \in Nodes, NEW dist, NEW row, Settled(lat, n, Nodes, dist, row)
  PROVE  Tree(lat, n, row)
BY DEF Settled, Tree

LEMMA StartFollowRouted ==
  ASSUME Routed, StartFollow
  PROVE  Routed'
<1>1. run \in DijkstraRuns /\ walk \in Walks /\ walk.phase = "walk" /\ At # walk.dest
  BY RunFacts DEF Routed, Typed, StartFollow
<1>2. At \in Nodes /\ walk.dest \in Nodes /\ lsvalue[At] \in LatencyMaps
  BY <1>1, WalkFacts DEF Routed, Typed
<1>3. Tree(lsvalue[At], At, prev[At])
  BY <1>1, <1>2, SettledIsTree DEF Routed, StartFollow
<1>4. run' = [phase |-> "follow", cur_dst |-> walk.dest] /\ UNCHANGED <<latency, lsvalue, prev, walk>> /\ At' = At
  BY DEF StartFollow, At
<1>5. run' \in FollowRuns /\ run'.cur_dst = walk.dest /\ run' \notin DijkstraRuns
  BY <1>2, <1>4, RunFacts DEF FollowRuns
<1>6. Distance(lsvalue[At], At, walk.dest) \in Nat /\ Distance(lsvalue[At], walk.dest, walk.dest) = 0
  BY <1>2, DistanceFacts
<1>7. Typed'
  BY <1>1, <1>4, <1>5 DEF Routed, Typed
<1>8. OnPath'
  <2>1. /\ run'.cur_dst # At
        /\ Tree(lsvalue[At], At, prev[At])
        /\ Distance(lsvalue[At], At, run'.cur_dst) + Distance(lsvalue[At], run'.cur_dst, walk.dest)
             = Distance(lsvalue[At], At, walk.dest)
    BY <1>1, <1>3, <1>5, <1>6
  <2> QED
    BY <1>4, <2>1 DEF OnPath
<1> QED
  BY <1>5, <1>7, <1>8 DEF Routed

(* One predecessor further back is still on a shortest path, and when it is   *)
(* the node itself, the path begins with a link.                              *)
LEMMA StepBack ==
  ASSUME NEW lat \in LatencyMaps, NEW n \in Nodes, NEW row, Tree(lat, n, row),
         NEW c \in Nodes \ {n}, NEW dest \in Nodes,
         Distance(lat, n, c) + Distance(lat, c, dest) = Distance(lat, n, dest)
  PROVE  row[c] \in Nodes /\ Distance(lat, n, row[c]) + Distance(lat, row[c], dest) = Distance(lat, n, dest)
<1> DEFINE p == row[c]
           l == <<p, c>>
<1>1. p \in Nodes /\ l \in Links /\ Distance(lat, n, p) + lat[l] = Distance(lat, n, c)
  BY DEF Tree
<1>2. Distance(lat, p, dest) <= lat[l] + Distance(lat, c, dest)
  <2>1. Distance(lat, l[1], dest) <= lat[l] + Distance(lat, l[2], dest)
    BY <1>1, DistanceFacts
  <2> QED
    BY <2>1
<1>3. Distance(lat, n, dest) <= Distance(lat, n, p) + Distance(lat, p, dest)
  BY <1>1, Triangle
<1>4. /\ Distance(lat, n, p) \in Nat /\ Distance(lat, p, dest) \in Nat /\ Distance(lat, c, dest) \in Nat
      /\ Distance(lat, n, c) \in Nat /\ Distance(lat, n, dest) \in Nat /\ lat[l] \in Nat
  BY <1>1, DistanceFacts DEF LatencyMaps, Lats
<1> HIDE DEF p, l
<1>5. Distance(lat, n, p) + Distance(lat, p, dest) = Distance(lat, n, dest)
  BY <1>1, <1>2, <1>3, <1>4
<1> QED
  BY <1>1, <1>5 DEF p, l

LEMMA FirstStep ==
  ASSUME NEW lat \in LatencyMaps, NEW n \in Nodes, NEW row, Tree(lat, n, row),
         NEW c \in Nodes \ {n}, NEW dest \in Nodes, row[c] = n,
         Distance(lat, n, c) + Distance(lat, c, dest) = Distance(lat, n, dest)
  PROVE  <<n, c>> \in Links /\ lat[<<n, c>>] + Distance(lat, c, dest) = Distance(lat, n, dest)
<1> DEFINE l == <<n, c>>
<1>1. l \in Links /\ Distance(lat, n, n) + lat[l] = Distance(lat, n, c)
  BY DEF Tree
<1>2. Distance(lat, n, n) = 0 /\ lat[l] \in Nat
  BY <1>1, DistanceFacts DEF LatencyMaps, Lats
<1> QED
  BY <1>1, <1>2

LEMMA FollowPrevRouted ==
  ASSUME Routed, FollowPrev
  PROVE  Routed'
<1>1. run \in FollowRuns /\ walk \in Walks /\ walk.phase = "walk" /\ At # walk.dest
  BY RunFacts DEF Routed, Typed, FollowPrev
<1>2. At \in Nodes /\ walk.dest \in Nodes /\ lsvalue[At] \in LatencyMaps /\ run.cur_dst \in Nodes
  BY <1>1, WalkFacts, RunFacts DEF Routed, Typed
<1> DEFINE p == prev[At][run.cur_dst]
<1>3. OnPath
  BY <1>1 DEF Routed
<1>4. p \in Nodes /\ Distance(lsvalue[At], At, p) + Distance(lsvalue[At], p, walk.dest) = Distance(lsvalue[At], At, walk.dest)
  <2> DEFINE lat == lsvalue[At]
             row == prev[At]
             c == run.cur_dst
  <2>1. /\ lat \in LatencyMaps /\ At \in Nodes /\ Tree(lat, At, row) /\ c \in Nodes \ {At} /\ walk.dest \in Nodes
        /\ Distance(lat, At, c) + Distance(lat, c, walk.dest) = Distance(lat, At, walk.dest)
    BY <1>2, <1>3 DEF OnPath
  <2> HIDE DEF lat, row, c
  <2>2. row[c] \in Nodes /\ Distance(lat, At, row[c]) + Distance(lat, row[c], walk.dest) = Distance(lat, At, walk.dest)
    BY <2>1, StepBack
  <2> QED
    BY <2>2 DEF lat, row, c
<1>5. run' = [run EXCEPT !.cur_dst = p] /\ p # At /\ UNCHANGED <<latency, lsvalue, prev, walk>> /\ At' = At
  BY DEF FollowPrev, At
<1> HIDE DEF p
<1>6. run' \in FollowRuns /\ run'.cur_dst = p
  BY <1>1, <1>4, <1>5 DEF FollowRuns
<1>7. run' \notin DijkstraRuns
  BY <1>6, RunFacts
<1>8. Typed'
  BY <1>1, <1>5, <1>6 DEF Routed, Typed
<1>9. OnPath'
  <2>1. /\ run'.cur_dst # At
        /\ Tree(lsvalue[At], At, prev[At])
        /\ Distance(lsvalue[At], At, run'.cur_dst) + Distance(lsvalue[At], run'.cur_dst, walk.dest)
             = Distance(lsvalue[At], At, walk.dest)
    BY <1>3, <1>4, <1>5, <1>6 DEF OnPath
  <2> QED
    BY <1>5, <2>1 DEF OnPath
<1> QED
  BY <1>6, <1>7, <1>8, <1>9 DEF Routed

(* The next hop: a neighbour on a shortest path, for all that the node knows. *)
LEMMA ReturnNextHopRouted ==
  ASSUME Routed, ReturnNextHop
  PROVE  /\ Routed' /\ walk \in Walks /\ walk' \in Walks
         /\ walk.phase = "walk" /\ walk'.phase = (IF GivesUp THEN "loop" ELSE "walk")
         /\ walk'.dest = walk.dest /\ walk'.path = Append(walk.path, run.cur_dst)
         /\ run.cur_dst \in Nodes /\ <<At, run.cur_dst>> \in Links
         /\ lsvalue[At][<<At, run.cur_dst>>] + Distance(lsvalue[At], run.cur_dst, walk.dest)
              = Distance(lsvalue[At], At, walk.dest)
<1>1. run \in FollowRuns /\ walk \in Walks /\ walk.phase = "walk" /\ At # walk.dest
  BY RunFacts DEF Routed, Typed, ReturnNextHop
<1>2. At \in Nodes /\ walk.dest \in Nodes /\ lsvalue[At] \in LatencyMaps /\ run.cur_dst \in Nodes
  BY <1>1, WalkFacts, RunFacts DEF Routed, Typed
<1>3. OnPath /\ prev[At][run.cur_dst] = At
  BY <1>1 DEF Routed, ReturnNextHop
<1>4. /\ <<At, run.cur_dst>> \in Links
      /\ lsvalue[At][<<At, run.cur_dst>>] + Distance(lsvalue[At], run.cur_dst, walk.dest)
           = Distance(lsvalue[At], At, walk.dest)
  BY <1>2, <1>3, FirstStep DEF OnPath
<1> DEFINE longer == Append(walk.path, run.cur_dst)
           phase == IF GivesUp THEN "loop" ELSE "walk"
<1>5. longer \in Seq(Nodes) \ {<<>>}
  BY <1>1, <1>2, WalkFacts
<1>6. walk' = [walk EXCEPT !.phase = phase, !.path = longer] /\ run' = None
  BY DEF ReturnNextHop, NextHop
<1>7. phase \in {"walk", "loop"}
  OBVIOUS
<1> HIDE DEF longer, phase
<1>8. walk' \in Walks /\ walk'.phase = phase /\ walk'.dest = walk.dest /\ walk'.path = longer
  BY <1>1, <1>5, <1>6, <1>7 DEF Walks
<1>9. Typed' /\ run' \notin DijkstraRuns /\ run' \notin FollowRuns
  BY <1>6, <1>8, RunFacts DEF Routed, Typed, ReturnNextHop
<1>10. Routed'
  BY <1>9 DEF Routed
<1> QED
  BY <1>1, <1>2, <1>4, <1>8, <1>10 DEF longer, phase

LEMMA ChangesRouted ==
  ASSUME Routed, \/ \E l \in Links, lat \in Latencies : ChangeLink(l, lat)
                 \/ \E n \in Nodes, l \in Links : AdjmatUpdate(n, l)
  PROVE  Routed' /\ walk = None /\ walk' = None
<1>1. walk = None /\ UNCHANGED <<walk, run>>
  BY DEF ChangeLink, AdjmatUpdate
<1>2. Typed'
  BY ChangesTyped DEF Routed
<1>3. run = None
  BY <1>1, WalkFacts DEF Routed, Typed
<1>4. run' \notin DijkstraRuns /\ run' \notin FollowRuns
  BY <1>1, <1>3, RunFacts
<1> QED
  BY <1>1, <1>2, <1>4 DEF Routed

LEMMA NoRunRouted ==
  ASSUME Typed', run' = None
  PROVE  Routed'
<1>1. run' \notin DijkstraRuns /\ run' \notin FollowRuns
  BY RunFacts
<1> QED
  BY <1>1 DEF Routed

LEMMA EndWalkRouted ==
  ASSUME Routed, EndWalk
  PROVE  Routed' /\ walk' = None
<1>1. run' = None /\ walk' = None /\ UNCHANGED <<latency, lsvalue, prev>>
  BY DEF EndWalk
<1>2. Typed'
  BY <1>1 DEF Routed, Typed
<1> QED
  BY <1>1, <1>2, NoRunRouted

LEMMA RoutedInvariant == Spec => []Routed
<1>1. Init => Routed
  <2>1. ASSUME Init PROVE run \notin DijkstraRuns /\ run \notin FollowRuns
    BY <2>1, RunFacts DEF Init
  <2> QED
    BY <2>1, TypedInit DEF Routed
<1>2. Routed /\ [Next]_vars => Routed'
  <2> SUFFICES ASSUME Routed, [Next]_vars PROVE Routed'
    OBVIOUS
  <2>1. CASE \/ \E l \in Links, lat \in Latencies : ChangeLink(l, lat)
             \/ \E n \in Nodes, l \in Links : AdjmatUpdate(n, l)
    BY <2>1, ChangesRouted
  <2>2. ASSUME NEW src \in Nodes, NEW dest \in Nodes, DrawPath(src, dest) PROVE Routed'
    BY <2>2, DrawPathTyped, NoRunRouted DEF Routed
  <2>3. CASE StartDijkstra
    BY <2>3, StartDijkstraRouted
  <2>4. CASE VisitRelay
    BY <2>4, VisitRelayRouted
  <2>5. CASE StartFollow
    BY <2>5, StartFollowRouted
  <2>6. CASE FollowPrev
    BY <2>6, FollowPrevRouted
  <2>7. CASE ReturnNextHop
    BY <2>7, ReturnNextHopRouted
  <2>8. CASE EndWalk
    BY <2>8, EndWalkRouted
  <2>9. CASE UNCHANGED vars
    BY <2>9 DEF vars, Routed, Typed, OnPath, Dist, At
  <2> QED
    BY <2>1, <2>2, <2>3, <2>4, <2>5, <2>6, <2>7, <2>8, <2>9 DEF Next, Walk
<1> QED
  BY <1>1, <1>2, PTL DEF Spec

(* While Dijkstra runs, every node it has visited has its final distance and  *)
(* a predecessor on a shortest path, and there is a relay as long as a node   *)
(* is left: Table::Dijkstra never takes the vectors at -1.                    *)
THEOREM VisitedFinal == Spec => []VisitedAreFinal
<1>1. Routed => VisitedAreFinal
  <2> SUFFICES ASSUME Routed, run.phase = "dijkstra" PROVE VisitedAreFinal
    BY DEF VisitedAreFinal
  <2>1. run \in DijkstraRuns /\ walk \in Walks
    BY RunFacts DEF Routed, Typed
  <2>2. At \in Nodes /\ lsvalue[At] \in LatencyMaps
    BY <2>1, WalkFacts DEF Routed, Typed
  <2>3. Settled(lsvalue[At], At, run.visited, Dist, prev[At])
    BY <2>1 DEF Routed
  <2>4. \A d \in Nodes \ {At} : Dist[d] = run.dx[d]
    BY DEF Dist
  <2>5. ASSUME NEW d \in run.visited \ {At}
        PROVE  LET p == prev[At][d]
                   ls == lsvalue[At]
               IN  /\ run.dx[d] = Distance(ls, At, d)
                   /\ <<p, d>> \in Links /\ Distance(ls, At, p) + ls[<<p, d>>] = run.dx[d]
    BY <2>3, <2>4 DEF Settled
  <2>6. ASSUME run.visited # Nodes PROVE Candidates # {}
    <3>1. PICK d \in Nodes \ run.visited : Dist[d] < Inf
      BY <2>2, <2>3, <2>6, SettledGoesOn
    <3>2. d # At
      BY <2>3 DEF Settled
    <3> QED
      BY <2>4, <3>1, <3>2 DEF Candidates
  <2> QED
    BY <2>5, <2>6 DEF VisitedAreFinal
<1> QED
  BY <1>1, RoutedInvariant, PTL

(* A node sends to a neighbour through which, for all it knows, a shortest    *)
(* path leads.                                                                *)
THEOREM NextHopsShortest == Spec => NextHopShortest
<1> DEFINE Hop == \A n, m \in Nodes :
         walk # None /\ walk' # None /\ walk'.path # walk.path /\ At = n /\ m = walk'.path[Len(walk'.path)] =>
            /\ <<n, m>> \in Links
            /\ lsvalue[n][<<n, m>>] + Distance(lsvalue[n], m, walk.dest) = Distance(lsvalue[n], n, walk.dest)
<1>1. Routed /\ [Next]_vars => [Hop]_walk
  <2> SUFFICES ASSUME Routed, [Next]_vars, walk' # walk PROVE Hop
    OBVIOUS
  <2>1. CASE ReturnNextHop
    <3>1. /\ walk \in Walks /\ walk'.path = Append(walk.path, run.cur_dst)
          /\ <<At, run.cur_dst>> \in Links
          /\ lsvalue[At][<<At, run.cur_dst>>] + Distance(lsvalue[At], run.cur_dst, walk.dest)
              = Distance(lsvalue[At], At, walk.dest)
          /\ run.cur_dst \in Nodes
      BY <2>1, ReturnNextHopRouted
    <3>2. walk'.path[Len(walk'.path)] = run.cur_dst
      <4>1. walk.path \in Seq(Nodes)
        BY <3>1, WalkFacts
      <4> QED
        BY <3>1, <4>1
    <3> QED
      BY <3>1, <3>2
  <2>2. ASSUME walk # None, walk' # None, ~ ReturnNextHop PROVE FALSE
    BY <2>2 DEF Next, Walk, vars, ChangeLink, AdjmatUpdate, DrawPath, StartDijkstra, VisitRelay, StartFollow, FollowPrev, EndWalk
  <2> QED
    BY <2>1, <2>2
<1> QED
  BY <1>1, RoutedInvariant, PTL DEF Spec, NextHopShortest

-----------------------------------------------------------------------------
(* The walk *)

OverLinks(path) == \A i \in 1 .. Len(path) - 1 : <<path[i], path[i + 1]>> \in Links

(* What the recursive definition of the length of a path says.                *)
LEMMA UptoFacts ==
  ASSUME NEW lat \in LatencyMaps, NEW path \in Seq(Nodes), path # <<>>, OverLinks(path)
  PROVE  /\ Upto(lat, path) \in [1 .. Len(path) -> Nat]
         /\ Upto(lat, path)[1] = 0
         /\ \A i \in 2 .. Len(path) : Upto(lat, path)[i] = Upto(lat, path)[i - 1] + lat[<<path[i - 1], path[i]>>]
<1> DEFINE upto == Upto(lat, path)
           L == Len(path)
           add == [k \in Nat |-> [x \in Nat |-> x + (IF k \in 1 .. L - 1 THEN lat[<<path[k], path[k + 1]>>] ELSE 0)]]
<1>1. L \in Nat \ {0} /\ L - 1 \in Nat /\ (L - 1) + 1 = L
  BY DEF L
<1>2. \A k \in 1 .. L - 1 : lat[<<path[k], path[k + 1]>>] \in Nat
  BY DEF OverLinks, LatencyMaps, Lats
<1>3. add \in [Nat -> [Nat -> Nat]]
  BY <1>2
<1>4. PICK f \in [0 .. L - 1 -> Nat] : Iterates(f, 0, add, L - 1)
  <2> HIDE DEF add
  <2> QED
    BY <1>1, <1>3, Iteration
<1> HIDE DEF L
<1> DEFINE g == [i \in 1 .. L |-> f[i - 1]]
<1>5. \A i \in 1 .. L : i - 1 \in 0 .. L - 1 /\ g[i] = f[i - 1] /\ g[i] \in Nat
  BY <1>1
<1>6. 1 \in 1 .. L /\ g[1] = 0
  BY <1>1, <1>4, <1>5 DEF Iterates
<1>7. ASSUME NEW i \in 1 .. L, i # 1 PROVE g[i] = g[i - 1] + lat[<<path[i - 1], path[i]>>]
  <2>1. i - 1 \in 1 .. L - 1 /\ i - 1 \in 1 .. L /\ i - 1 \in Nat /\ (i - 1) + 1 = i /\ (i - 1) - 1 \in 0 .. L - 1
    BY <1>1, <1>7
  <2>2. f[i - 1] = add[i - 1][f[(i - 1) - 1]]
    BY <1>4, <2>1 DEF Iterates
  <2>3. f[(i - 1) - 1] \in Nat
    BY <2>1
  <2>4. f[i - 1] = f[(i - 1) - 1] + lat[<<path[i - 1], path[i]>>]
    BY <2>1, <2>2, <2>3
  <2> QED
    BY <2>1, <2>4, <1>5
<1> HIDE DEF g
<1>8. g = [i \in 1 .. L |-> IF i = 1 THEN 0 ELSE g[i - 1] + lat[<<path[i - 1], path[i]>>]]
  <2>1. g = [i \in 1 .. L |-> g[i]]
    BY DEF g
  <2> QED
    BY <1>6, <1>7, <2>1
<1>9. upto = CHOOSE h : h = [i \in 1 .. L |-> IF i = 1 THEN 0 ELSE h[i - 1] + lat[<<path[i - 1], path[i]>>]]
  BY DEF Upto, L
<1>10. upto = [i \in 1 .. L |-> IF i = 1 THEN 0 ELSE upto[i - 1] + lat[<<path[i - 1], path[i]>>]]
  <2> HIDE DEF upto
  <2> QED
    BY <1>8, <1>9
<1> HIDE DEF upto
<1>11. upto[1] = 0 /\ \A i \in 2 .. L : upto[i] = upto[i - 1] + lat[<<path[i - 1], path[i]>>]
  <2>1. \A i \in 2 .. L : i \in 1 .. L /\ i # 1
    BY <1>1
  <2> QED
    BY <1>6, <1>10, <2>1
<1> DEFINE Bad == {i \in 1 .. L : upto[i] \notin Nat}
<1>12. Bad = {}
  <2> SUFFICES ASSUME Bad # {} PROVE FALSE
    OBVIOUS
  <2>1. PICK k \in Bad : \A j \in Bad : k <= j
    <3>1. Bad \subseteq Nat
      BY <1>1
    <3> QED
      BY <3>1, Least
  <2>2. k # 1
    BY <1>6, <1>11
  <2>3. k \in 2 .. L /\ k - 1 \in 1 .. L /\ ~ (k <= k - 1) /\ k - 1 \in 1 .. L - 1 /\ (k - 1) + 1 = k
    BY <1>1, <2>2
  <2>4. upto[k - 1] \in Nat /\ lat[<<path[k - 1], path[k]>>] \in Nat
    BY <1>2, <2>1, <2>3
  <2> QED
    BY <1>11, <2>1, <2>3, <2>4
<1>13. upto \in [1 .. L -> Nat]
  BY <1>10, <1>12
<1> QED
  BY <1>11, <1>13 DEF upto, L

(* A walk that has not moved has no length; a hop adds its latency.           *)
LEMMA LengthFacts ==
  ASSUME NEW lat \in LatencyMaps
  PROVE  /\ \A n \in Nodes : LengthOf(lat, <<n>>) = 0
         /\ \A path \in Seq(Nodes) : \A m \in Nodes :
              path # <<>> /\ OverLinks(path) /\ <<path[Len(path)], m>> \in Links =>
                /\ OverLinks(Append(path, m)) /\ LengthOf(lat, path) \in Nat
                /\ LengthOf(lat, Append(path, m)) = LengthOf(lat, path) + lat[<<path[Len(path)], m>>]
<1>1. ASSUME NEW n \in Nodes PROVE LengthOf(lat, <<n>>) = 0
  <2>1. <<n>> \in Seq(Nodes) /\ <<n>> # <<>> /\ Len(<<n>>) = 1 /\ OverLinks(<<n>>)
    BY DEF OverLinks
  <2> QED
    BY <2>1, UptoFacts DEF LengthOf
<1>2. ASSUME NEW path \in Seq(Nodes), NEW m \in Nodes,
             path # <<>>, OverLinks(path), <<path[Len(path)], m>> \in Links
      PROVE  /\ OverLinks(Append(path, m)) /\ LengthOf(lat, path) \in Nat
             /\ LengthOf(lat, Append(path, m)) = LengthOf(lat, path) + lat[<<path[Len(path)], m>>]
  <2> DEFINE L == Len(path)
             p2 == Append(path, m)
  <2>1. /\ L \in Nat \ {0} /\ p2 \in Seq(Nodes) /\ p2 # <<>> /\ Len(p2) = L + 1
        /\ (\A i \in 1 .. L : p2[i] = path[i]) /\ p2[L + 1] = m
    BY <1>2
  <2> HIDE DEF L, p2
  <2>2. OverLinks(p2)
    <3> SUFFICES ASSUME NEW i \in 1 .. Len(p2) - 1 PROVE <<p2[i], p2[i + 1]>> \in Links
      BY DEF OverLinks
    <3>1. i \in 1 .. L /\ (i = L \/ (i \in 1 .. L - 1 /\ i + 1 \in 1 .. L))
      BY <2>1
    <3>2. CASE i = L
      BY <1>2, <2>1, <3>1, <3>2 DEF L
    <3>3. CASE i \in 1 .. L - 1 /\ i + 1 \in 1 .. L
      BY <1>2, <2>1, <3>1, <3>3 DEF L, OverLinks
    <3> QED
      BY <3>1, <3>2, <3>3
  <2> DEFINE u == Upto(lat, path)
             v == Upto(lat, p2)
  <2>3. u \in [1 .. L -> Nat] /\ u[1] = 0 /\ \A i \in 2 .. L : u[i] = u[i - 1] + lat[<<path[i - 1], path[i]>>]
    BY <1>2, UptoFacts DEF L
  <2>4. v[1] = 0 /\ \A i \in 2 .. L + 1 : v[i] = v[i - 1] + lat[<<p2[i - 1], p2[i]>>]
    BY <2>1, <2>2, UptoFacts
  <2> HIDE DEF u, v
  <2> DEFINE Bad == {i \in 1 .. L : v[i] # u[i]}
  <2>5. Bad = {}
    <3> SUFFICES ASSUME Bad # {} PROVE FALSE
      OBVIOUS
    <3>1. PICK k \in Bad : \A j \in Bad : k <= j
      <4>1. Bad \subseteq Nat
        BY <2>1
      <4> QED
        BY <4>1, Least
    <3>2. k # 1
      BY <2>3, <2>4
    <3>3. k \in 2 .. L /\ k \in 2 .. L + 1 /\ k - 1 \in 1 .. L /\ ~ (k <= k - 1) /\ k \in 1 .. L
      BY <2>1, <3>2
    <3>4. v[k - 1] = u[k - 1]
      BY <3>1, <3>3
    <3>5. p2[k - 1] = path[k - 1] /\ p2[k] = path[k]
      BY <2>1, <3>3
    <3>6. v[k] = v[k - 1] + lat[<<p2[k - 1], p2[k]>>] /\ u[k] = u[k - 1] + lat[<<path[k - 1], path[k]>>]
      BY <2>3, <2>4, <3>3
    <3>7. v[k] = u[k]
      BY <3>4, <3>5, <3>6
    <3> QED
      BY <3>1, <3>7
  <2>6. L + 1 \in 2 .. L + 1 /\ L \in 1 .. L /\ (L + 1) - 1 = L
    BY <2>1
  <2>7. v[L + 1] = v[L] + lat[<<path[L], m>>] /\ v[L] = u[L] /\ u[L] \in Nat
    BY <2>1, <2>3, <2>4, <2>5, <2>6
  <2> QED
    BY <2>1, <2>2, <2>7 DEF LengthOf, L, p2, u, v
<1> QED
  BY <1>1, <1>2

(* A walk in databases that agree with the topology: what has been walked and  *)
(* what is left make up a shortest path, and every hop brings it closer.      *)
Closing ==
  /\ walk.phase = "walk"
  /\ LengthOf(latency, walk.path) + Distance(latency, At, walk.dest) = Distance(latency, walk.path[1], walk.dest)
  /\ \A i, j \in 1 .. Len(walk.path) : i < j =>
        Distance(latency, walk.path[j], walk.dest) < Distance(latency, walk.path[i], walk.dest)

Walked ==
  /\ Routed
  /\ walk \in Walks => OverLinks(walk.path)
  /\ walk \in Walks /\ (\A n \in Nodes : lsvalue[n] = latency) => Closing

LEMMA DrawPathWalked ==
  ASSUME Walked, NEW src \in Nodes, NEW dest \in Nodes, DrawPath(src, dest)
  PROVE  Walked'
<1>1. Routed'
  BY DrawPathTyped, NoRunRouted DEF Walked, Routed
<1>2. walk' = [phase |-> "walk", dest |-> dest, path |-> <<src>>] /\ latency' = latency
  BY DEF DrawPath
<1>3. walk'.phase = "walk" /\ walk'.dest = dest /\ walk'.path = <<src>> /\ Len(walk'.path) = 1
      /\ walk'.path[1] = src /\ At' = src
  BY <1>2 DEF At
<1>4. OverLinks(walk'.path)
  BY <1>3 DEF OverLinks
<1>5. latency \in LatencyMaps
  BY DEF Walked, Routed, Typed
<1>6. LengthOf(latency, <<src>>) = 0 /\ Distance(latency, src, dest) \in Nat
  BY <1>5, LengthFacts, DistanceFacts
<1>7. LengthOf(latency', walk'.path) + Distance(latency', At', walk'.dest) = Distance(latency', walk'.path[1], walk'.dest)
  BY <1>2, <1>3, <1>6
<1>8. \A i, j \in 1 .. Len(walk'.path) : ~ (i < j)
  BY <1>3
<1>9. Closing'
  BY <1>3, <1>7, <1>8 DEF Closing
<1>10. (walk \in Walks => OverLinks(walk.path))'
  BY <1>4
<1> QED
  BY <1>1, <1>9, <1>10 DEF Walked

(* As every hop brings the walk closer, it visits no node twice.              *)
LEMMA ClosingIsShort ==
  ASSUME Typed, walk \in Walks, Closing
  PROVE  Len(walk.path) <= NodeNum
<1> DEFINE L == Len(walk.path)
<1>1. L \in Nat \ {0} /\ walk.path \in Seq(Nodes) /\ walk.dest \in Nodes /\ NodeNum \in Nat
  BY WalkFacts, NodesFacts
<1>2. DOMAIN walk.path = 1 .. L /\ walk.path \in [1 .. L -> Nodes]
  BY <1>1
<1>3. \A i \in 1 .. L : Distance(latency, walk.path[i], walk.dest) \in Nat
  BY <1>1, <1>2, DistanceFacts DEF Typed
<1>4. ASSUME NEW i \in 1 .. L, NEW j \in 1 .. L, i # j PROVE walk.path[i] # walk.path[j]
  <2>1. i < j \/ j < i
    BY <1>1, <1>4
  <2>2. Distance(latency, walk.path[i], walk.dest) \in Nat /\ Distance(latency, walk.path[j], walk.dest) \in Nat
    BY <1>3
  <2>3. Distance(latency, walk.path[i], walk.dest) # Distance(latency, walk.path[j], walk.dest)
    BY <2>1, <2>2 DEF Closing
  <2> QED
    BY <2>3
<1>5. walk.path \in Injection(1 .. L, Nodes)
  BY <1>2, <1>4 DEF Injection, IsInjective
<1>6. IsFiniteSet(1 .. L) /\ Cardinality(1 .. L) = L
  <2>1. 1 \in Int /\ L \in Int /\ L - 1 + 1 = L /\ ~ (1 > L)
    BY <1>1
  <2> HIDE DEF L
  <2> QED
    BY <2>1, FS_Interval
<1>7. Cardinality(1 .. L) <= Cardinality(Nodes)
  <2>1. IsFiniteSet(Nodes)
    BY NodesFacts
  <2> HIDE DEF L
  <2> QED
    BY <1>5, <2>1, FS_Injection
<1> QED
  BY <1>6, <1>7, NodesFacts

LEMMA ReturnNextHopWalked ==
  ASSUME Walked, ReturnNextHop
  PROVE  Walked'
<1> DEFINE m == run.cur_dst
           L == Len(walk.path)
           dest == walk.dest
<1>1. /\ Routed' /\ walk \in Walks /\ walk' \in Walks
      /\ walk.phase = "walk" /\ walk'.phase = (IF GivesUp THEN "loop" ELSE "walk")
      /\ walk'.dest = dest /\ walk'.path = Append(walk.path, m)
      /\ m \in Nodes /\ <<At, m>> \in Links
      /\ lsvalue[At][<<At, m>>] + Distance(lsvalue[At], m, dest) = Distance(lsvalue[At], At, dest)
  BY ReturnNextHopRouted DEF Walked
<1>2. /\ walk.path \in Seq(Nodes) /\ walk.path # <<>> /\ L \in Nat \ {0} /\ At \in Nodes /\ dest \in Nodes
      /\ walk.path[1] \in Nodes /\ At = walk.path[L]
  BY <1>1, WalkFacts DEF At
<1>3. latency \in LatencyMaps /\ Typed
  BY DEF Walked, Routed, Typed
<1>4. OverLinks(walk.path)
  BY <1>1 DEF Walked
<1>5. /\ OverLinks(Append(walk.path, m)) /\ LengthOf(latency, walk.path) \in Nat
      /\ LengthOf(latency, Append(walk.path, m)) = LengthOf(latency, walk.path) + latency[<<At, m>>]
  BY <1>1, <1>2, <1>3, <1>4, LengthFacts
<1>6. Len(walk'.path) = L + 1 /\ (\A i \in 1 .. L : walk'.path[i] = walk.path[i]) /\ walk'.path[L + 1] = m /\ At' = m
  BY <1>1, <1>2 DEF At
<1>7. UNCHANGED <<latency, lsvalue>>
  BY DEF ReturnNextHop
<1> HIDE DEF m, L, dest
<1>8. ASSUME \A n \in Nodes : lsvalue[n] = latency PROVE Closing'
  <2>1. Closing
    BY <1>1, <1>8 DEF Walked
  <2>2. /\ latency[<<At, m>>] + Distance(latency, m, dest) = Distance(latency, At, dest)
        /\ latency[<<At, m>>] \in Nat \ {0}
        /\ Distance(latency, m, dest) \in Nat /\ Distance(latency, At, dest) \in Nat
    BY <1>1, <1>2, <1>3, <1>8, DistanceFacts DEF LatencyMaps, Lats
  <2>3. walk'.phase = "walk"
    <3>1. L <= NodeNum /\ NodeNum \in Nat
      BY <1>1, <1>3, <2>1, ClosingIsShort, NodesFacts DEF L
    <3>2. ~ (L > NodeNum * 2)
      BY <1>2, <3>1
    <3> QED
      BY <1>1, <3>2 DEF GivesUp, L
  <2>4. LengthOf(latency, walk'.path) + Distance(latency, m, dest) = Distance(latency, walk'.path[1], dest)
    <3>1. LengthOf(latency, walk.path) + Distance(latency, At, dest) = Distance(latency, walk.path[1], dest)
      BY <2>1 DEF Closing, dest
    <3>2. walk'.path[1] = walk.path[1]
      BY <1>2, <1>6
    <3> QED
      BY <1>1, <1>5, <2>2, <3>1, <3>2
  <2>5. ASSUME NEW i \in 1 .. L + 1, NEW j \in 1 .. L + 1, i < j
        PROVE  Distance(latency, walk'.path[j], dest) < Distance(latency, walk'.path[i], dest)
    <3>1. i \in 1 .. L /\ L \in 1 .. L /\ (j \in 1 .. L \/ j = L + 1) /\ (i = L \/ i < L)
      <4>1. L \in Nat \ {0} /\ i \in Nat \ {0} /\ j \in Nat \ {0} /\ j <= L + 1 /\ i < j
        BY <1>2, <2>5
      <4> QED
        BY <4>1
    <3>2. CASE j \in 1 .. L
      BY <1>6, <2>1, <2>5, <3>1, <3>2 DEF Closing, L, dest
    <3>3. CASE j = L + 1
      <4>1. Distance(latency, m, dest) < Distance(latency, At, dest)
        BY <2>2
      <4>2. i = L \/ Distance(latency, At, dest) < Distance(latency, walk.path[i], dest)
        BY <1>2, <2>1, <3>1 DEF Closing, L, dest
      <4>3. walk'.path[j] = m /\ walk'.path[i] = walk.path[i]
        BY <1>6, <3>1, <3>3
      <4>4. Distance(latency, walk.path[i], dest) \in Nat
        <5>1. walk.path[i] \in Nodes
          BY <1>2, <3>1 DEF L
        <5> QED
          BY <1>2, <1>3, <5>1, DistanceFacts
      <4> QED
        BY <1>2, <2>2, <4>1, <4>2, <4>3, <4>4
    <3> QED
      BY <3>1, <3>2, <3>3
  <2> QED
    BY <1>1, <1>6, <1>7, <2>3, <2>4, <2>5 DEF Closing
<1>9. OverLinks(walk'.path)
  BY <1>1, <1>5
<1> QED
  BY <1>1, <1>7, <1>8, <1>9 DEF Walked

(* When all databases are right, the walk is a shortest path, and no loop is  *)
(* suspected: the nodes break ties each in its own way.                       *)
THEOREM WalkIsShortest == Spec => []PathIsShortest
<1>1. Init => Walked
  <2>1. ASSUME Init PROVE run \notin DijkstraRuns /\ run \notin FollowRuns /\ walk \notin Walks
    BY <2>1, RunFacts, WalkFacts DEF Init
  <2> QED
    BY <2>1, TypedInit DEF Routed, Walked
<1>2. Walked /\ [Next]_vars => Walked'
  <2> SUFFICES ASSUME Walked, [Next]_vars PROVE Walked'
    OBVIOUS
  <2>1. CASE \/ \E l \in Links, lat \in Latencies : ChangeLink(l, lat)
             \/ \E n \in Nodes, l \in Links : AdjmatUpdate(n, l)
    <3>1. Routed' /\ walk' = None
      BY <2>1, ChangesRouted DEF Walked
    <3>2. (walk \notin Walks)'
      <4>1. None \notin Walks
        BY DEF None, Walks
      <4> QED
        BY <3>1, <4>1
    <3> QED
      BY <3>1, <3>2 DEF Walked
  <2>2. ASSUME NEW src \in Nodes, NEW dest \in Nodes, DrawPath(src, dest) PROVE Walked'
    BY <2>2, DrawPathWalked
  <2>3. ASSUME UNCHANGED <<latency, lsvalue, walk>>, Routed' PROVE Walked'
    <3>1. Closing => Closing'
      BY <2>3 DEF Closing, At
    <3> QED
      BY <2>3, <3>1 DEF Walked
  <2>4. CASE StartDijkstra
    BY <2>3, <2>4, StartDijkstraRouted DEF Walked, StartDijkstra
  <2>5. CASE VisitRelay
    BY <2>3, <2>5, VisitRelayRouted DEF Walked, VisitRelay
  <2>6. CASE StartFollow
    BY <2>3, <2>6, StartFollowRouted DEF Walked, StartFollow
  <2>7. CASE FollowPrev
    BY <2>3, <2>7, FollowPrevRouted DEF Walked, FollowPrev
  <2>8. CASE ReturnNextHop
    BY <2>8, ReturnNextHopWalked
  <2>9. CASE EndWalk
    <3>1. Routed' /\ walk' = None
      BY <2>9, EndWalkRouted DEF Walked
    <3>2. (walk \notin Walks)'
      <4>1. None \notin Walks
        BY DEF None, Walks
      <4> QED
        BY <3>1, <4>1
    <3> QED
      BY <3>1, <3>2 DEF Walked
  <2>10. CASE UNCHANGED vars
    <3>1. Routed'
      BY <2>10 DEF vars, Walked, Routed, Typed, OnPath, Dist, At
    <3> QED
      BY <2>3, <2>10, <3>1 DEF vars
  <2> QED
    BY <2>1, <2>2, <2>4, <2>5, <2>6, <2>7, <2>8, <2>9, <2>10 DEF Next, Walk
<1>3. Walked => PathIsShortest
  <2> SUFFICES ASSUME Walked, walk # None, \A n \in Nodes : lsvalue[n] = latency
               PROVE  /\ walk.phase # "loop"
                      /\ LengthOf(latency, walk.path) + Distance(latency, At, walk.dest) = Distance(latency, walk.path[1], walk.dest)
    BY DEF PathIsShortest
  <2>1. walk \in Walks
    BY DEF Walked, Routed, Typed
  <2> QED
    BY <2>1 DEF Walked, Closing
<1> QED
  BY <1>1, <1>2, <1>3, PTL DEF Spec

==============================================================================
