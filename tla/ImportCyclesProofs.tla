------------------------- MODULE ImportCyclesProofs -------------------------
(* Proofs that find_import_cycles (ImportCycles.tla) finds the groups of any *)
(* graph and a shortest loop for each: Tarjan's search with its own work     *)
(* list, and the breadth-first search for the loop.                          *)
EXTENDS ScanAnalysesProofs

-----------------------------------------------------------------------------
\* A function that calls itself last, with three measures of what is left.
IsLeastOfThree(s, T, f, l, k) ==
  s \in T /\ \A r \in T : f[s] < f[r] \/ (f[s] = f[r] /\ (l[s] < l[r] \/ (l[s] = l[r] /\ k[s] <= k[r])))

\* A nonempty set has an element at which three measures, compared one after the other, are least.
LEMMA LeastOfThree ==
  ASSUME NEW D, NEW f \in [D -> Nat], NEW l \in [D -> Nat], NEW k \in [D -> Nat], NEW T \in SUBSET D, T # {}
  PROVE  \E s : IsLeastOfThree(s, T, f, l, k)
<1>1. PICK t : IsLeast(t, T, f, l)
  BY LeastOfTwo
<1> DEFINE U == {s \in T : f[s] = f[t] /\ l[s] = l[t]}
<1>2. U \in SUBSET D /\ t \in U
  BY <1>1 DEF IsLeast
<1>3. PICK s : IsLeast(s, U, k, k)
  BY <1>2, LeastOfTwo
<1>4. s \in T /\ f[s] = f[t] /\ l[s] = l[t] /\ \A r \in U : k[s] < k[r] \/ (k[s] = k[r] /\ k[s] <= k[r])
  BY <1>3 DEF IsLeast
<1>5. ASSUME NEW r \in T
      PROVE  f[s] < f[r] \/ (f[s] = f[r] /\ (l[s] < l[r] \/ (l[s] = l[r] /\ k[s] <= k[r])))
  <2>1. f[t] < f[r] \/ (f[t] = f[r] /\ l[t] <= l[r])
    BY <1>1 DEF IsLeast
  <2>2. /\ f[s] \in Nat /\ f[r] \in Nat /\ l[s] \in Nat /\ l[r] \in Nat /\ k[s] \in Nat /\ k[r] \in Nat
        /\ f[t] \in Nat /\ l[t] \in Nat
    BY <1>2, <1>4
  <2>3. CASE r \in U
    BY <1>4, <2>2, <2>3
  <2>4. CASE r \notin U
    BY <1>4, <2>1, <2>2, <2>4
  <2> QED
    BY <2>3, <2>4
<1> QED
  BY <1>4, <1>5, Zenon DEF IsLeastOfThree

Less(r, s, f, l, k) == f[r] < f[s] \/ (f[r] = f[s] /\ (l[r] < l[s] \/ (l[r] = l[s] /\ k[r] < k[s])))

Shrinks(Allowed, T, Stop, f, l, k) ==
  \A s \in Allowed : s \notin Stop => T[s] \in Allowed /\ Less(T[s], s, f, l, k)
EndsInside(Allowed, Stop, out, g) == \A s \in Allowed : \E e \in Allowed : e \in Stop /\ g[s] = out[e]

\* When less is left at each step and the steps stay in a set, the calls end
\* at a stop in that set.
LEMMA CallsEnd ==
  ASSUME NEW D, NEW T \in [D -> D], NEW Stop, NEW out, NEW g, CallsItselfLast(g, D, T, Stop, out),
         NEW Allowed \in SUBSET D, NEW f \in [D -> Nat], NEW l \in [D -> Nat], NEW k \in [D -> Nat],
         Shrinks(Allowed, T, Stop, f, l, k)
  PROVE  EndsInside(Allowed, Stop, out, g)
<1> DEFINE B == {s \in Allowed : ~\E e \in Allowed : e \in Stop /\ g[s] = out[e]}
<1> SUFFICES ASSUME B # {} PROVE FALSE
  BY DEF EndsInside
<1>1. B \in SUBSET D
  OBVIOUS
<1>2. PICK s : IsLeastOfThree(s, B, f, l, k)
  <2> HIDE DEF B
  <2> QED
    BY <1>1, LeastOfThree
<1>3. s \in Allowed /\ s \in D /\ s \in B
  BY <1>2 DEF IsLeastOfThree
<1>4. g[s] = IF s \in Stop THEN out[s] ELSE g[T[s]]
  BY <1>3, Zenon DEF CallsItselfLast
<1>5. s \notin Stop
  BY <1>3, <1>4
<1>6. T[s] \in Allowed /\ Less(T[s], s, f, l, k) /\ g[s] = g[T[s]]
  BY <1>3, <1>4, <1>5 DEF Shrinks
<1>7. T[s] \in B
  BY <1>3, <1>6
<1>8. /\ f[s] \in Nat /\ l[s] \in Nat /\ k[s] \in Nat
      /\ f[T[s]] \in Nat /\ l[T[s]] \in Nat /\ k[T[s]] \in Nat
  BY <1>3, <1>6
<1>9. f[s] < f[T[s]] \/ (f[s] = f[T[s]] /\ (l[s] < l[T[s]] \/ (l[s] = l[T[s]] /\ k[s] <= k[T[s]])))
  BY <1>2, <1>7, Zenon DEF IsLeastOfThree
<1> HIDE DEF B
<1> QED
  BY <1>6, <1>8, <1>9 DEF Less

-----------------------------------------------------------------------------
\* Where edges lead.

Between == Files \X Files
ClosedUnder(E, C) == \A e \in E : e[1] \in C => e[2] \in C

\* b is in every closed set that a is in.
Reaches(E, a, b) == \A C \in SUBSET Files : a \in C /\ ClosedUnder(E, C) => b \in C

\* Leading to is the reflexive and transitive closure of the edges.
LEMMA ReachesFacts ==
  ASSUME NEW E \in SUBSET Between
  PROVE  /\ \A a \in Files : Reaches(E, a, a)
         /\ \A a, b, c \in Files : Reaches(E, a, b) /\ Reaches(E, b, c) => Reaches(E, a, c)
         /\ \A e \in E : Reaches(E, e[1], e[2])
         /\ \A a \in Files : \A b : Reaches(E, a, b) => b \in Files
         /\ \A e \in E : e[1] \in Files /\ e[2] \in Files /\ e = <<e[1], e[2]>>
<1>1. \A e \in E : e[1] \in Files /\ e[2] \in Files /\ e = <<e[1], e[2]>>
  BY DEF Between
<1>2. ClosedUnder(E, Files)
  BY <1>1 DEF ClosedUnder
<1>3. \A a \in Files : \A b : Reaches(E, a, b) => b \in Files
  BY <1>2 DEF Reaches
<1>4. \A a \in Files : Reaches(E, a, a)
  BY DEF Reaches
<1>5. \A a, b, c \in Files : Reaches(E, a, b) /\ Reaches(E, b, c) => Reaches(E, a, c)
  BY DEF Reaches
<1>6. \A e \in E : Reaches(E, e[1], e[2])
  BY DEF Reaches, ClosedUnder
<1> QED
  BY <1>1, <1>3, <1>4, <1>5, <1>6

\* What is reached in n steps, step by step.
LEMMA AfterRuns ==
  ASSUME NEW E \in SUBSET Between, NEW from \in SUBSET Files, NEW N \in Nat
  PROVE  \E f : /\ After(E, from, N) = f[N] /\ f[0] = from
                /\ \A n \in 0..N : f[n] \in SUBSET Files
                /\ \A n \in 1..N : f[n] = From(E, f[n - 1])
<1> DEFINE S == SUBSET Files
           Step(v) == From(E, v)
           Body(u) == [n \in 0..N |-> IF n = 0 THEN from ELSE Step(u[n - 1])]
           U == CHOOSE u : u = Body(u)
           D == [n \in 1..N |-> [v \in S |-> Step(v)]]
<1>1. After(E, from, N) = U[N]
  BY Zenon DEF After
<1>2. \A v \in S : Step(v) \in S
  BY DEF From, Between
<1>3. from \in S
  OBVIOUS
<1> HIDE DEF S, Step
<1>4. D \in Steps(N, S) /\ \A n \in 1..N, v \in S : D[n][v] = Step(v)
  BY <1>2, Zenon DEF Steps
<1> HIDE DEF D
<1>5. PICK g : Iterates(g, N, S, from, D)
  BY <1>3, <1>4, Iteration
<1>6. /\ g \in [0..N -> S] /\ g[0] = from
      /\ \A n \in 1..N : g[n - 1] \in S /\ g[n] = D[n][g[n - 1]]
  BY <1>5, IteratesFacts
<1>7. \A n \in 1..N : g[n] = Step(g[n - 1])
  BY <1>4, <1>6
<1>8. g = Body(g)
  <2>1. \A n \in 0..N : g[n] = IF n = 0 THEN from ELSE Step(g[n - 1])
    BY <1>6, <1>7, OneToN, Zenon
  <2> QED
    BY <1>6, <2>1, Zenon
<1>9. U = Body(U)
  BY <1>8, Zenon
<1> HIDE DEF U
<1>10. U[0] = from /\ \A n \in 1..N : U[n] = Step(U[n - 1])
  BY <1>9, OneToN, Zenon
<1>11. \A n \in 0..N : U[n] \in S
  <2>1. U[0] \in S /\ \A n \in 1..N : U[n - 1] \in S => U[n] \in S
    BY <1>2, <1>3, <1>10, Zenon
  <2> QED
    BY <2>1, RunStays
<1> QED
  BY <1>1, <1>10, <1>11, Zenon DEF S, Step

\* What is reached in exactly N steps: files, the start for none, and one step more each time.
LEMMA AfterFacts ==
  ASSUME NEW E \in SUBSET Between, NEW from \in SUBSET Files, NEW N \in Nat
  PROVE  /\ After(E, from, 0) = from
         /\ After(E, from, N) \in SUBSET Files
         /\ After(E, from, N + 1) = From(E, After(E, from, N))
<1>1. \A n \in Nat : \E f : /\ After(E, from, n) = f[n] /\ f[0] = from
                            /\ \A m \in 0..n : f[m] \in SUBSET Files
                            /\ \A m \in 1..n : f[m] = From(E, f[m - 1])
  BY AfterRuns
<1>2. After(E, from, 0) = from
  BY <1>1
<1>3. PICK f : /\ After(E, from, N) = f[N] /\ f[0] = from
               /\ \A m \in 0..N : f[m] \in SUBSET Files
               /\ \A m \in 1..N : f[m] = From(E, f[m - 1])
  BY <1>1
<1>4. PICK g : /\ After(E, from, N + 1) = g[N + 1] /\ g[0] = from
               /\ \A m \in 0..(N + 1) : g[m] \in SUBSET Files
               /\ \A m \in 1..(N + 1) : g[m] = From(E, g[m - 1])
  <2>1. N + 1 \in Nat
    OBVIOUS
  <2> QED
    BY <1>1, <2>1, Zenon
<1> DEFINE T == {k \in Nat : k <= N => f[k] = g[k]}
<1>5. 0 \in T
  BY <1>3, <1>4
<1>6. ASSUME NEW k \in T PROVE k + 1 \in T
  <2> SUFFICES ASSUME k + 1 <= N PROVE f[k + 1] = g[k + 1]
    OBVIOUS
  <2>1. k \in Nat /\ k <= N /\ k + 1 \in 1..N /\ k + 1 \in 1..(N + 1) /\ (k + 1) - 1 = k /\ f[k] = g[k]
    BY <1>6
  <2> QED
    BY <1>3, <1>4, <2>1
<1>7. f[N] = g[N]
  <2> HIDE DEF T
  <2>1. T = Nat
    <3>1. T \in SUBSET Nat
      BY DEF T
    <3> QED
      BY <1>5, <1>6, <3>1, NaturalInduction
  <2>2. N \in T /\ N <= N
    BY <2>1
  <2> QED
    BY <2>2 DEF T
<1>8. N + 1 \in 1..(N + 1) /\ (N + 1) - 1 = N /\ N \in 0..N
  OBVIOUS
<1>9. g[N + 1] = From(E, g[N])
  BY <1>4, <1>8
<1> QED
  BY <1>2, <1>3, <1>4, <1>7, <1>8, <1>9

\* Where a way that is not empty leads to.
LeadsOn(E, a, b) == \E e \in E : e[1] = a /\ Reaches(E, e[2], b)

\* Leading to another place takes an edge.
LEMMA FirstEdge ==
  ASSUME NEW E \in SUBSET Between, NEW a \in Files, NEW b, Reaches(E, a, b), a # b
  PROVE  LeadsOn(E, a, b)
<1> DEFINE C == {c \in Files : c = a \/ LeadsOn(E, a, c)}
<1>1. /\ \A x \in Files : Reaches(E, x, x)
      /\ \A x, y, z \in Files : Reaches(E, x, y) /\ Reaches(E, y, z) => Reaches(E, x, z)
      /\ \A e \in E : Reaches(E, e[1], e[2])
      /\ \A e \in E : e[1] \in Files /\ e[2] \in Files
  BY ReachesFacts
<1>2. ASSUME NEW e \in E, e[1] \in C PROVE e[2] \in C
  <2>1. CASE e[1] = a
    BY <1>1, <2>1 DEF LeadsOn
  <2>2. CASE e[1] # a
    <3>1. PICK d \in E : d[1] = a /\ Reaches(E, d[2], e[1])
      BY <1>2, <2>2 DEF LeadsOn
    <3>2. Reaches(E, d[2], e[2])
      BY <1>1, <3>1
    <3> QED
      BY <1>1, <3>1, <3>2 DEF LeadsOn
  <2> QED
    BY <2>1, <2>2
<1>3. C \in SUBSET Files /\ a \in C /\ ClosedUnder(E, C)
  BY <1>2 DEF ClosedUnder
<1>4. b \in C
  BY <1>3 DEF Reaches
<1> QED
  BY <1>4

\* What is reached in so many steps is led to.
LEMMA AfterReaches ==
  ASSUME NEW E \in SUBSET Between, NEW a \in Files, NEW n \in Nat, NEW b \in After(E, {a}, n)
  PROVE  Reaches(E, a, b) /\ (n # 0 => LeadsOn(E, a, b))
<1>1. /\ \A x \in Files : Reaches(E, x, x)
      /\ \A x, y, z \in Files : Reaches(E, x, y) /\ Reaches(E, y, z) => Reaches(E, x, z)
      /\ \A e \in E : Reaches(E, e[1], e[2])
      /\ \A e \in E : e[1] \in Files /\ e[2] \in Files
  BY ReachesFacts
<1>2. {a} \in SUBSET Files
  OBVIOUS
<1>3. \A m \in Nat : /\ After(E, {a}, 0) = {a} /\ After(E, {a}, m) \in SUBSET Files
                     /\ After(E, {a}, m + 1) = From(E, After(E, {a}, m))
  BY <1>2, AfterFacts
<1> DEFINE T == {m \in Nat : \A x \in After(E, {a}, m) : Reaches(E, a, x) /\ (m # 0 => LeadsOn(E, a, x))}
<1>4. 0 \in T
  BY <1>1, <1>3
<1>5. ASSUME NEW m \in T PROVE m + 1 \in T
  <2>1. m \in Nat /\ \A x \in After(E, {a}, m) : Reaches(E, a, x) /\ (m # 0 => LeadsOn(E, a, x))
    BY <1>5
  <2>2. ASSUME NEW y \in After(E, {a}, m + 1) PROVE Reaches(E, a, y) /\ LeadsOn(E, a, y)
    <3>1. PICK e \in E : e[1] \in After(E, {a}, m) /\ e[2] = y
      BY <1>3, <2>1, <2>2 DEF From
    <3>2. Reaches(E, a, y)
      BY <1>1, <2>1, <3>1
    <3>3. CASE m = 0
      <4>1. e[1] = a
        BY <1>3, <3>1, <3>3
      <4> QED
        BY <1>1, <3>1, <3>2, <4>1 DEF LeadsOn
    <3>4. CASE m # 0
      <4>1. PICK d \in E : d[1] = a /\ Reaches(E, d[2], e[1])
        BY <2>1, <3>1, <3>4 DEF LeadsOn
      <4> QED
        BY <1>1, <3>1, <3>2, <4>1 DEF LeadsOn
    <3> QED
      BY <3>2, <3>3, <3>4
  <2> QED
    BY <2>1, <2>2
<1>6. T = Nat
  <2>1. T \in SUBSET Nat
    OBVIOUS
  <2> HIDE DEF T
  <2> QED
    BY <1>4, <1>5, <2>1, NaturalInduction
<1> QED
  BY <1>6

\* As many steps as there are files are enough: each one comes to a new file,
\* or no later one does.
LEMMA StepsAreEnough ==
  ASSUME NEW E \in SUBSET Between, NEW a \in Files, NEW b
  PROVE  ReachesIn(E, a, b) <=> LeadsOn(E, a, b)
<1>1. ASSUME ReachesIn(E, a, b) PROVE LeadsOn(E, a, b)
  <2>1. PICK n \in Lengths : b \in After(E, {a}, n)
    BY <1>1 DEF ReachesIn
  <2>2. n \in Nat /\ n # 0
    BY FS_CardinalityType, ScanConstants DEF Lengths
  <2> QED
    BY <2>1, <2>2, AfterReaches
<1>2. ASSUME LeadsOn(E, a, b) PROVE ReachesIn(E, a, b)
  <2> DEFINE New(k) == {x \in Files : \E j \in 1..k : x \in After(E, {a}, j)}
             N == Cardinality(Files)
             T == {k \in Nat : ClosedUnder(E, New(k + 1)) \/ Cardinality(New(k + 1)) >= k + 1}
  <2>1. PICK e \in E : e[1] = a /\ Reaches(E, e[2], b)
    BY <1>2 DEF LeadsOn
  <2>2. \A m \in Nat : /\ After(E, {a}, 0) = {a} /\ After(E, {a}, m) \in SUBSET Files
                       /\ After(E, {a}, m + 1) = From(E, After(E, {a}, m))
    <3>1. {a} \in SUBSET Files
      OBVIOUS
    <3> QED
      BY <3>1, AfterFacts
  <2>3. \A k \in Nat : /\ New(k) \in SUBSET Files /\ IsFiniteSet(New(k)) /\ Cardinality(New(k)) \in Nat
    BY ScanConstants, FS_Subset, FS_CardinalityType
  <2>4. ASSUME NEW k \in Nat
        PROVE  /\ New(k) \subseteq New(k + 1)
               /\ New(k + 1) = New(k) \cup After(E, {a}, k + 1)
               /\ k # 0 => From(E, New(k)) \subseteq New(k + 1)
    <3>1. 1..(k + 1) = 1..k \cup {k + 1}
      OBVIOUS
    <3>2. New(k + 1) = New(k) \cup After(E, {a}, k + 1)
      <4>1. After(E, {a}, k + 1) \in SUBSET Files
        <5>1. k + 1 \in Nat
          OBVIOUS
        <5> QED
          BY <2>2, <5>1, Zenon
      <4> QED
        BY <3>1, <4>1
    <3>3. ASSUME NEW y \in From(E, New(k)) PROVE y \in New(k + 1)
      <4>1. PICK d \in E : d[1] \in New(k) /\ d[2] = y
        BY DEF From
      <4>2. PICK j \in 1..k : d[1] \in After(E, {a}, j)
        BY <4>1
      <4>3. j \in Nat /\ j + 1 \in Nat /\ j + 1 \in 1..(k + 1)
        OBVIOUS
      <4>4. After(E, {a}, j + 1) = From(E, After(E, {a}, j)) /\ After(E, {a}, j + 1) \in SUBSET Files
        BY <2>2, <4>3, Zenon
      <4>5. y \in After(E, {a}, j + 1)
        BY <4>1, <4>2, <4>4 DEF From
      <4> QED
        BY <4>3, <4>4, <4>5
    <3> QED
      BY <3>2, <3>3
  <2>5. e[2] \in New(1)
    <3>1. After(E, {a}, 0) = {a} /\ After(E, {a}, 0 + 1) = From(E, After(E, {a}, 0))
      BY <2>2, Zenon
    <3>2. 0 + 1 = 1
      OBVIOUS
    <3>3. e[2] \in After(E, {a}, 1) /\ e[2] \in Files
      BY <2>1, <3>1, <3>2 DEF From, Between
    <3> QED
      BY <3>3
  <2> HIDE DEF New
  <2>6. 0 \in T
    <3>1. Cardinality(New(1)) # 0
      BY <2>3, <2>5, FS_EmptySet
    <3> QED
      BY <2>3, <3>1
  <2>7. ASSUME NEW k \in T PROVE k + 1 \in T
    <3>1. k \in Nat /\ k + 1 \in Nat /\ k + 1 # 0 /\ (k + 1) + 1 = k + 2
      OBVIOUS
    <3>2. /\ New(k + 1) \subseteq New((k + 1) + 1) /\ From(E, New(k + 1)) \subseteq New((k + 1) + 1)
          /\ New((k + 1) + 1) = New(k + 1) \cup After(E, {a}, (k + 1) + 1)
      BY <2>4, <3>1
    <3>3. CASE New((k + 1) + 1) = New(k + 1)
      <4>1. ClosedUnder(E, New(k + 1))
        BY <3>2, <3>3 DEF ClosedUnder, From
      <4> QED
        BY <3>1, <3>3, <4>1
    <3>4. CASE New((k + 1) + 1) # New(k + 1) /\ ClosedUnder(E, New(k + 1))
      <4>1. After(E, {a}, k + 1) \subseteq New(k + 1)
        BY <2>4, <3>1
      <4>2. After(E, {a}, (k + 1) + 1) = From(E, After(E, {a}, k + 1))
        BY <2>2, <3>1
      <4>3. From(E, After(E, {a}, k + 1)) \subseteq New(k + 1)
        BY <3>4, <4>1 DEF ClosedUnder, From
      <4> QED
        BY <3>2, <3>4, <4>2, <4>3
    <3>5. CASE New((k + 1) + 1) # New(k + 1) /\ Cardinality(New(k + 1)) >= k + 1
      <4>1. Cardinality(New(k + 1)) < Cardinality(New((k + 1) + 1))
        <5>1. /\ IsFiniteSet(New((k + 1) + 1)) /\ Cardinality(New((k + 1) + 1)) \in Nat
              /\ Cardinality(New(k + 1)) \in Nat
          BY <2>3, <3>1
        <5> QED
          BY <3>2, <3>5, <5>1, FS_Subset
      <4>2. Cardinality(New(k + 1)) \in Nat /\ Cardinality(New((k + 1) + 1)) \in Nat
        BY <2>3, <3>1
      <4>3. Cardinality(New((k + 1) + 1)) >= (k + 1) + 1
        BY <3>5, <4>1, <4>2, <3>1
      <4> QED
        BY <3>1, <4>3
    <3> QED
      BY <2>7, <3>3, <3>4, <3>5
  <2>8. T = Nat
    <3>1. T \in SUBSET Nat
      OBVIOUS
    <3> HIDE DEF T
    <3> QED
      BY <2>6, <2>7, <3>1, NaturalInduction
  <2>9. N \in Nat /\ N # 0 /\ N - 1 \in Nat /\ (N - 1) + 1 = N
    BY ScanConstants, FS_CardinalityType, FS_EmptySet
  <2>10. ClosedUnder(E, New(N))
    <3>1. N - 1 \in T
      BY <2>8, <2>9
    <3>2. ClosedUnder(E, New(N)) \/ Cardinality(New(N)) >= N
      BY <2>9, <3>1
    <3>3. ASSUME Cardinality(New(N)) >= N PROVE New(N) = Files
      <4>1. New(N) \in SUBSET Files /\ Cardinality(New(N)) \in Nat
        BY <2>3, <2>9
      <4>3. \A A \in SUBSET Files : Cardinality(A) <= Cardinality(Files) /\ (Cardinality(Files) = Cardinality(A) => Files = A)
        BY ScanConstants, FS_Subset
      <4>4. Cardinality(New(N)) <= N /\ (N = Cardinality(New(N)) => Files = New(N))
        BY <4>1, <4>3, Zenon
      <4> QED
        BY <2>9, <3>3, <4>1, <4>4
    <3>4. ClosedUnder(E, Files)
      BY DEF ClosedUnder, Between
    <3> QED
      BY <3>2, <3>3, <3>4
  <2>11. \A k \in Nat : New(1) \subseteq New(k + 1)
    <3> DEFINE U == {k \in Nat : New(1) \subseteq New(k + 1)}
    <3>1. 0 \in U
      OBVIOUS
    <3>2. ASSUME NEW k \in U PROVE k + 1 \in U
      BY <2>4
    <3>3. U \in SUBSET Nat
      OBVIOUS
    <3> HIDE DEF U
    <3>4. U = Nat
      BY <3>1, <3>2, <3>3, NaturalInduction
    <3> QED
      BY <3>4 DEF U
  <2>12. e[2] \in New(N)
    BY <2>5, <2>9, <2>11
  <2>13. b \in New(N)
    BY <2>1, <2>3, <2>9, <2>10, <2>12 DEF Reaches
  <2> QED
    BY <2>13 DEF New, ReachesIn, Lengths
<1> QED
  BY <1>1, <1>2

-----------------------------------------------------------------------------
\* Tarjan's search: where it stands.

Mutual(E, x) == {y \in Files : Reaches(E, x, y) /\ Reaches(E, y, x)}

\* The nodes of the frames, the nodes on the stack, and the neighbours of a
\* node that a frame has still to look at.
NodesOf(frames) == {f.node : f \in ToSet(frames)}
NextOf(frames, x) == UNION {ToSet(f.next) : f \in {f \in ToSet(frames) : f.node = x}}

Gray(s) == NodesOf(s.work)
Stacked(s) == ToSet(s.stack)
Ahead(s, x) == NextOf(s.work, x)
Left(s) == Visited(s) \ Stacked(s)

\* The frame above which a node was visited.
Owns(s, x, y) ==
  /\ x \in Gray(s) /\ s.index[x] <= s.index[y]
  /\ \A w \in Gray(s) : s.index[w] <= s.index[y] => s.index[w] <= s.index[x]

Numbered(s) ==
  /\ \A x \in Visited(s) : s.index[x] < Cardinality(Visited(s))
  /\ \A x, y \in Visited(s) : s.index[x] = s.index[y] => x = y
  /\ Gray(s) \subseteq Stacked(s) /\ Stacked(s) \subseteq Visited(s)

\* From a frame there are ways to all that was visited later, and from what
\* is on the stack to a frame that is older.
Ways(E, s) ==
  /\ \A x \in Gray(s), y \in Stacked(s) : s.index[x] <= s.index[y] => Reaches(E, x, y)
  /\ \A y \in Stacked(s) : \E x \in Gray(s) : s.index[x] <= s.index[y] /\ Reaches(E, y, x)

\* The low of a frame is the index of a node it leads to, and no greater than
\* that of any node that those it owns have an edge to.
Lows(E, s) ==
  /\ \A x \in Gray(s) : s.low[x] <= s.index[x] /\ \E z \in Stacked(s) : s.index[z] = s.low[x] /\ Reaches(E, x, z)
  /\ \A x \in Gray(s), y \in Stacked(s) : Owns(s, x, y) =>
       \A e \in E : e[1] = y /\ e[2] \in Stacked(s) => s.low[x] <= s.index[e[2]] \/ (y = x /\ e[2] \in Ahead(s, x))

\* Nothing is missed, and nothing leads back from what was left.
Complete(E, s) ==
  /\ \A e \in E : e[1] \in Visited(s) => e[2] \in Visited(s) \cup Ahead(s, e[1])
  /\ \A e \in E : e[1] \in Left(s) => e[2] \in Left(s)
  /\ \A x \in Gray(s) : \A y \in Ahead(s, x) : <<x, y>> \in E

Grouped(E, s) == s.components = {m \in {Mutual(E, x) : x \in Left(s)} : Cardinality(m) > 1}

Searching(E, s) == Numbered(s) /\ Ways(E, s) /\ Lows(E, s) /\ Complete(E, s) /\ Grouped(E, s)

\* What is known of a search's fields: the visited files are finitely many and have numbers.
LEMMA SearchesFacts ==
  ASSUME NEW s \in Searches
  PROVE  /\ Visited(s) \in SUBSET Files /\ \A x \in Visited(s) : s.index[x] \in Nat
         /\ \A x \in Files : s.low[x] \in Nat
         /\ Cardinality(Visited(s)) \in Nat /\ IsFiniteSet(Visited(s))
<1>1. s.index \in [Files -> Nat \cup {None}] /\ s.low \in [Files -> Nat]
  BY DEF Searches
<1>2. Visited(s) \in SUBSET Files /\ \A x \in Visited(s) : s.index[x] \in Nat
  BY <1>1 DEF Visited
<1> QED
  BY <1>1, <1>2, ScanConstants, FS_Subset, FS_CardinalityType

-----------------------------------------------------------------------------
\* A node is opened.

Opens(E, s, t, z) ==
  /\ z \in Files \ Visited(s) /\ Visited(t) = Visited(s) \cup {z}
  /\ \A x \in Visited(s) : t.index[x] = s.index[x] /\ t.low[x] = s.low[x]
  /\ t.index[z] = Cardinality(Visited(s)) /\ t.low[z] = Cardinality(Visited(s))
  /\ Cardinality(Visited(t)) = Cardinality(Visited(s)) + 1
  /\ Stacked(t) = Stacked(s) \cup {z} /\ Gray(t) = Gray(s) \cup {z}
  /\ \A x \in Gray(s) : Ahead(t, x) \subseteq Ahead(s, x) /\ Ahead(s, x) \subseteq Ahead(t, x) \cup {z}
  /\ \A x \in Visited(s) : x \notin Gray(s) => Ahead(s, x) = {}
  /\ \A e \in E : e[1] = z => e[2] \in Ahead(t, z)
  /\ \A y \in Ahead(t, z) : <<z, y>> \in E
  /\ \A x \in Gray(s) : Reaches(E, x, z)
  /\ t.components = s.components

\* Opening a file the search has not seen keeps what the search has established.
LEMMA OpensKeeps ==
  ASSUME NEW E \in SUBSET Between, NEW s \in Searches, NEW t \in Searches, NEW z,
         Searching(E, s), Opens(E, s, t, z)
  PROVE  Searching(E, t)
<1>1. /\ Visited(s) \in SUBSET Files /\ \A x \in Visited(s) : s.index[x] \in Nat
      /\ \A x \in Visited(s) : s.low[x] \in Nat
      /\ Cardinality(Visited(s)) \in Nat
  BY SearchesFacts
<1>2. /\ z \in Files \ Visited(s) /\ Visited(t) = Visited(s) \cup {z}
      /\ \A x \in Visited(s) : t.index[x] = s.index[x] /\ t.low[x] = s.low[x]
      /\ t.index[z] = Cardinality(Visited(s)) /\ t.low[z] = Cardinality(Visited(s))
      /\ Cardinality(Visited(t)) = Cardinality(Visited(s)) + 1
      /\ Stacked(t) = Stacked(s) \cup {z} /\ Gray(t) = Gray(s) \cup {z}
      /\ \A x \in Gray(s) : Ahead(t, x) \subseteq Ahead(s, x) /\ Ahead(s, x) \subseteq Ahead(t, x) \cup {z}
      /\ \A x \in Visited(s) : x \notin Gray(s) => Ahead(s, x) = {}
      /\ \A e \in E : e[1] = z => e[2] \in Ahead(t, z)
      /\ \A y \in Ahead(t, z) : <<z, y>> \in E
      /\ \A x \in Gray(s) : Reaches(E, x, z)
      /\ t.components = s.components
  BY Zenon DEF Opens
<1>3. /\ \A x \in Visited(s) : s.index[x] < Cardinality(Visited(s))
      /\ \A x, y \in Visited(s) : s.index[x] = s.index[y] => x = y
      /\ Gray(s) \subseteq Stacked(s) /\ Stacked(s) \subseteq Visited(s)
  BY DEF Searching, Numbered
<1>4. \A x \in Files : Reaches(E, x, x)
  BY ReachesFacts
<1>5. Numbered(t)
  BY <1>1, <1>2, <1>3 DEF Numbered
<1>6. Ways(E, t)
  <2>1. /\ \A x \in Gray(s), y \in Stacked(s) : s.index[x] <= s.index[y] => Reaches(E, x, y)
        /\ \A y \in Stacked(s) : \E x \in Gray(s) : s.index[x] <= s.index[y] /\ Reaches(E, y, x)
    BY DEF Searching, Ways
  <2>2. ASSUME NEW x \in Gray(t), NEW y \in Stacked(t), t.index[x] <= t.index[y] PROVE Reaches(E, x, y)
    BY <1>1, <1>2, <1>3, <1>4, <2>1, <2>2
  <2>3. ASSUME NEW y \in Stacked(t) PROVE \E x \in Gray(t) : t.index[x] <= t.index[y] /\ Reaches(E, y, x)
    <3>1. CASE y = z
      BY <1>1, <1>2, <1>4, <3>1
    <3>2. CASE y \in Stacked(s)
      BY <1>2, <1>3, <2>1, <3>2
    <3> QED
      BY <1>2, <3>1, <3>2
  <2> QED
    BY <2>2, <2>3 DEF Ways
<1>7. Lows(E, t)
  <2>1. /\ \A x \in Gray(s) : s.low[x] <= s.index[x] /\ \E y \in Stacked(s) : s.index[y] = s.low[x] /\ Reaches(E, x, y)
        /\ \A x \in Gray(s), y \in Stacked(s) : Owns(s, x, y) =>
             \A e \in E : e[1] = y /\ e[2] \in Stacked(s) => s.low[x] <= s.index[e[2]] \/ (y = x /\ e[2] \in Ahead(s, x))
    BY Zenon DEF Searching, Lows
  <2>2. ASSUME NEW x \in Gray(t)
        PROVE  t.low[x] <= t.index[x] /\ \E y \in Stacked(t) : t.index[y] = t.low[x] /\ Reaches(E, x, y)
    <3>1. CASE x = z
      BY <1>1, <1>2, <1>4, <3>1
    <3>2. CASE x \in Gray(s)
      BY <1>2, <1>3, <2>1, <3>2
    <3> QED
      BY <1>2, <3>1, <3>2
  <2>3. ASSUME NEW x \in Gray(t), NEW y \in Stacked(t), Owns(t, x, y),
               NEW e \in E, e[1] = y, e[2] \in Stacked(t)
        PROVE  t.low[x] <= t.index[e[2]] \/ (y = x /\ e[2] \in Ahead(t, x))
    <3>1. /\ t.index[x] <= t.index[y]
          /\ \A w \in Gray(t) : t.index[w] <= t.index[y] => t.index[w] <= t.index[x]
      BY <2>3 DEF Owns
    <3>2. CASE y = z
      <4>1. x = z
        BY <1>1, <1>2, <1>3, <3>1, <3>2
      <4> QED
        BY <1>2, <2>3, <3>2, <4>1
    <3>3. CASE y \in Stacked(s) /\ e[2] = z
      <4>1. x \in Gray(s)
        BY <1>1, <1>2, <1>3, <3>1, <3>3
      <4> QED
        BY <1>1, <1>2, <1>3, <2>1, <3>3, <4>1
    <3>4. CASE y \in Stacked(s) /\ e[2] \in Stacked(s)
      <4>1. x \in Gray(s)
        BY <1>1, <1>2, <1>3, <3>1, <3>4
      <4>2. Owns(s, x, y)
        BY <1>2, <1>3, <3>1, <3>4, <4>1 DEF Owns
      <4>3. s.low[x] <= s.index[e[2]] \/ (y = x /\ e[2] \in Ahead(s, x))
        BY <2>1, <2>3, <3>4, <4>1, <4>2, Zenon
      <4>4. e[2] # z
        BY <1>2, <1>3, <3>4
      <4> QED
        BY <1>2, <1>3, <3>4, <4>1, <4>3, <4>4
    <3> QED
      BY <1>2, <2>3, <3>2, <3>3, <3>4
  <2> QED
    BY <2>2, <2>3 DEF Lows
<1>8. Left(t) = Left(s)
  BY <1>2, <1>3 DEF Left
<1>9. Complete(E, t)
  <2>1. /\ \A e \in E : e[1] \in Visited(s) => e[2] \in Visited(s) \cup Ahead(s, e[1])
        /\ \A e \in E : e[1] \in Left(s) => e[2] \in Left(s)
        /\ \A x \in Gray(s) : \A y \in Ahead(s, x) : <<x, y>> \in E
    BY DEF Searching, Complete
  <2>2. \A e \in E : e[1] \in Visited(t) => e[2] \in Visited(t) \cup Ahead(t, e[1])
    BY <1>2, <2>1
  <2>3. \A x \in Gray(t) : \A y \in Ahead(t, x) : <<x, y>> \in E
    BY <1>2, <2>1
  <2> QED
    BY <1>8, <2>1, <2>2, <2>3 DEF Complete
<1>10. Grouped(E, t)
  BY <1>2, <1>8 DEF Searching, Grouped
<1> QED
  BY <1>5, <1>6, <1>7, <1>9, <1>10 DEF Searching

-----------------------------------------------------------------------------
\* A neighbour is looked at that was visited before.

Passes(E, s, t, x, z) ==
  /\ x \in Gray(s) /\ z \in Visited(s) /\ <<x, z>> \in E
  /\ Visited(t) = Visited(s) /\ t.index = s.index
  /\ Stacked(t) = Stacked(s) /\ Gray(t) = Gray(s)
  /\ \A w \in Files : w # x => t.low[w] = s.low[w] /\ Ahead(t, w) = Ahead(s, w)
  /\ t.low[x] = IF z \in Stacked(s) THEN Least(s.low[x], s.index[z]) ELSE s.low[x]
  /\ Ahead(s, x) = Ahead(t, x) \cup {z}
  /\ t.components = s.components

\* Passing over a neighbour that was seen, lowering `low` if it is on the stack, keeps it too.
LEMMA PassesKeeps ==
  ASSUME NEW E \in SUBSET Between, NEW s \in Searches, NEW t \in Searches, NEW x, NEW z,
         Searching(E, s), Passes(E, s, t, x, z)
  PROVE  Searching(E, t)
<1>1. /\ Visited(s) \in SUBSET Files /\ \A y \in Visited(s) : s.index[y] \in Nat
      /\ \A y \in Visited(s) : s.low[y] \in Nat
      /\ Cardinality(Visited(s)) \in Nat
  BY SearchesFacts
<1>2. /\ x \in Gray(s) /\ z \in Visited(s) /\ <<x, z>> \in E
      /\ Visited(t) = Visited(s) /\ t.index = s.index
      /\ Stacked(t) = Stacked(s) /\ Gray(t) = Gray(s)
      /\ \A w \in Files : w # x => t.low[w] = s.low[w] /\ Ahead(t, w) = Ahead(s, w)
      /\ t.low[x] = IF z \in Stacked(s) THEN Least(s.low[x], s.index[z]) ELSE s.low[x]
      /\ Ahead(s, x) = Ahead(t, x) \cup {z}
      /\ t.components = s.components
  BY Zenon DEF Passes
<1>3. /\ Gray(s) \subseteq Stacked(s) /\ Stacked(s) \subseteq Visited(s)
  BY DEF Searching, Numbered
<1>4. Numbered(t)
  BY <1>2, Zenon DEF Searching, Numbered
<1>5. Ways(E, t)
  BY <1>2, Zenon DEF Searching, Ways
<1>6. Lows(E, t)
  <2>1. /\ \A w \in Gray(s) : s.low[w] <= s.index[w] /\ \E y \in Stacked(s) : s.index[y] = s.low[w] /\ Reaches(E, w, y)
        /\ \A w \in Gray(s), y \in Stacked(s) : Owns(s, w, y) =>
             \A e \in E : e[1] = y /\ e[2] \in Stacked(s) => s.low[w] <= s.index[e[2]] \/ (y = w /\ e[2] \in Ahead(s, w))
    BY Zenon DEF Searching, Lows
  <2>2. Reaches(E, x, z)
    <3>1. \A e \in E : Reaches(E, e[1], e[2])
      BY ReachesFacts
    <3> QED
      BY <1>2, <3>1
  <2>3. /\ t.low[x] <= s.low[x] /\ (z \in Stacked(s) => t.low[x] <= s.index[z])
        /\ t.low[x] = s.low[x] \/ (z \in Stacked(s) /\ t.low[x] = s.index[z])
    BY <1>1, <1>2, <1>3 DEF Least
  <2>4. t.low[x] \in Nat
    BY <1>1, <1>2, <1>3, <2>3
  <2>5. ASSUME NEW w \in Gray(t)
        PROVE  t.low[w] <= t.index[w] /\ \E y \in Stacked(t) : t.index[y] = t.low[w] /\ Reaches(E, w, y)
    <3>1. CASE w = x
      <4>1. t.low[w] <= t.index[w]
        BY <1>1, <1>2, <1>3, <2>1, <2>3, <2>4, <3>1
      <4>2. \E y \in Stacked(t) : t.index[y] = t.low[w] /\ Reaches(E, w, y)
        BY <1>2, <2>1, <2>2, <2>3, <3>1
      <4> QED
        BY <4>1, <4>2
    <3>2. CASE w # x
      BY <1>1, <1>2, <1>3, <2>1, <3>2
    <3> QED
      BY <3>1, <3>2
  <2>6. ASSUME NEW w \in Gray(t), NEW y \in Stacked(t), Owns(t, w, y), NEW e \in E, e[1] = y, e[2] \in Stacked(t)
        PROVE  t.low[w] <= t.index[e[2]] \/ (y = w /\ e[2] \in Ahead(t, w))
    <3>1. Owns(s, w, y)
      BY <1>2, <2>6, Zenon DEF Owns
    <3>2. s.low[w] <= s.index[e[2]] \/ (y = w /\ e[2] \in Ahead(s, w))
      BY <1>2, <2>1, <2>6, <3>1, Zenon
    <3>3. s.index[e[2]] \in Nat /\ s.low[w] \in Nat /\ w \in Files
      BY <1>1, <1>2, <1>3, <2>6
    <3>4. CASE w # x
      BY <1>2, <3>2, <3>3, <3>4
    <3>5. CASE w = x /\ s.low[w] <= s.index[e[2]]
      BY <1>2, <2>3, <2>4, <3>3, <3>5
    <3>6. CASE w = x /\ y = w /\ e[2] \in Ahead(s, w)
      BY <1>2, <2>3, <2>6, <3>6
    <3> QED
      BY <3>2, <3>4, <3>5, <3>6
  <2> QED
    BY <2>5, <2>6 DEF Lows
<1>7. Left(t) = Left(s)
  BY <1>2 DEF Left
<1>8. Complete(E, t)
  <2>1. /\ \A e \in E : e[1] \in Visited(s) => e[2] \in Visited(s) \cup Ahead(s, e[1])
        /\ \A e \in E : e[1] \in Left(s) => e[2] \in Left(s)
        /\ \A w \in Gray(s) : \A y \in Ahead(s, w) : <<w, y>> \in E
    BY DEF Searching, Complete
  <2>2. \A e \in E : e[1] \in Visited(t) => e[2] \in Visited(t) \cup Ahead(t, e[1])
    BY <1>1, <1>2, <2>1
  <2>3. \A w \in Gray(t) : \A y \in Ahead(t, w) : <<w, y>> \in E
    BY <1>1, <1>2, <1>3, <2>1
  <2> QED
    BY <1>7, <2>1, <2>2, <2>3 DEF Complete
<1>9. Grouped(E, t)
  BY <1>2, <1>7 DEF Searching, Grouped
<1> QED
  BY <1>4, <1>5, <1>6, <1>8, <1>9 DEF Searching

-----------------------------------------------------------------------------
\* The last frame has nothing ahead and is left.

Returns(s, t, x) ==
  /\ x \in Gray(s) /\ \A w \in Gray(s) : s.index[w] <= s.index[x]
  /\ Ahead(s, x) = {} /\ \A w \in Files : Ahead(t, w) = Ahead(s, w)
  /\ Visited(t) = Visited(s) /\ t.index = s.index
  /\ Gray(t) = Gray(s) \ {x}
  /\ \A w \in Gray(t) :
       t.low[w] = IF \A v \in Gray(t) : s.index[v] <= s.index[w]
                  THEN Least(s.low[w], s.low[x]) ELSE s.low[w]

Keeps(s, t, x) == s.low[x] # s.index[x] /\ Stacked(t) = Stacked(s) /\ t.components = s.components

Above(s, x) == {y \in Stacked(s) : s.index[x] <= s.index[y]}

Closes(s, t, x) ==
  /\ s.low[x] = s.index[x]
  /\ Stacked(t) = {y \in Stacked(s) : s.index[y] < s.index[x]}
  /\ t.components = IF Cardinality(Above(s, x)) > 1 THEN s.components \cup {Above(s, x)} ELSE s.components

\* The low of a frame falls no lower than that of what it leads to.
LEMMA ReturnsLows ==
  ASSUME NEW E \in SUBSET Between, NEW s \in Searches, NEW t \in Searches, NEW x,
         Searching(E, s), Returns(s, t, x), NEW w \in Gray(t)
  PROVE  /\ t.low[w] <= s.low[w] /\ t.low[w] \in Nat
         /\ t.low[w] = s.low[w] \/ t.low[w] = s.low[x]
         /\ (\A v \in Gray(t) : s.index[v] <= s.index[w]) => t.low[w] <= s.low[x]
<1>1. x \in Files /\ w \in Files
  BY SearchesFacts DEF Searching, Numbered, Returns
<1>2. s.low[w] \in Nat /\ s.low[x] \in Nat
  BY <1>1, SearchesFacts
<1>3. t.low[w] = IF \A v \in Gray(t) : s.index[v] <= s.index[w] THEN Least(s.low[w], s.low[x]) ELSE s.low[w]
  BY Zenon DEF Returns
<1> QED
  BY <1>2, <1>3 DEF Least

\* So does returning from a file that is not the root of its component.
LEMMA KeepsKeeps ==
  ASSUME NEW E \in SUBSET Between, NEW s \in Searches, NEW t \in Searches, NEW x,
         Searching(E, s), Returns(s, t, x), Keeps(s, t, x)
  PROVE  Searching(E, t)
<1>1. /\ Visited(s) \in SUBSET Files /\ \A y \in Visited(s) : s.index[y] \in Nat
      /\ \A y \in Visited(s) : s.low[y] \in Nat
  BY SearchesFacts
<1>2. /\ x \in Gray(s) /\ \A w \in Gray(s) : s.index[w] <= s.index[x]
      /\ Ahead(s, x) = {} /\ \A w \in Files : Ahead(t, w) = Ahead(s, w)
      /\ Visited(t) = Visited(s) /\ t.index = s.index
      /\ Gray(t) = Gray(s) \ {x}
      /\ s.low[x] # s.index[x] /\ Stacked(t) = Stacked(s) /\ t.components = s.components
  BY Zenon DEF Returns, Keeps
<1>3. /\ Gray(s) \subseteq Stacked(s) /\ Stacked(s) \subseteq Visited(s)
  BY DEF Searching, Numbered
<1>4. \A a, b, c \in Files : Reaches(E, a, b) /\ Reaches(E, b, c) => Reaches(E, a, c)
  BY ReachesFacts
<1>5. /\ \A v \in Gray(s), y \in Stacked(s) : s.index[v] <= s.index[y] => Reaches(E, v, y)
      /\ \A y \in Stacked(s) : \E v \in Gray(s) : s.index[v] <= s.index[y] /\ Reaches(E, y, v)
  BY DEF Searching, Ways
<1>6. /\ \A w \in Gray(s) : s.low[w] <= s.index[w] /\ \E y \in Stacked(s) : s.index[y] = s.low[w] /\ Reaches(E, w, y)
      /\ \A w \in Gray(s), y \in Stacked(s) : Owns(s, w, y) =>
           \A e \in E : e[1] = y /\ e[2] \in Stacked(s) => s.low[w] <= s.index[e[2]] \/ (y = w /\ e[2] \in Ahead(s, w))
  BY Zenon DEF Searching, Lows
<1>7. \A w \in Gray(t) :
        /\ t.low[w] <= s.low[w] /\ t.low[w] \in Nat
        /\ t.low[w] = s.low[w] \/ t.low[w] = s.low[x]
        /\ (\A v \in Gray(t) : s.index[v] <= s.index[w]) => t.low[w] <= s.low[x]
  BY ReturnsLows, Zenon
<1>8. Numbered(t)
  BY <1>2 DEF Searching, Numbered
<1>9. PICK u \in Gray(t) : s.index[u] < s.index[x] /\ Reaches(E, x, u)
  <2>1. PICK z \in Stacked(s) : s.index[z] = s.low[x] /\ Reaches(E, x, z)
    BY <1>2, <1>6
  <2>2. PICK u \in Gray(s) : s.index[u] <= s.index[z] /\ Reaches(E, z, u)
    BY <1>5
  <2>3. s.index[z] < s.index[x]
    BY <1>1, <1>2, <1>3, <1>6, <2>1
  <2>4. s.index[u] < s.index[x]
    BY <1>1, <1>2, <1>3, <2>2, <2>3
  <2>5. x \in Files /\ z \in Files /\ u \in Files
    BY <1>1, <1>2, <1>3, <2>2
  <2>6. Reaches(E, x, u)
    BY <1>4, <2>1, <2>2, <2>5, Zenon
  <2>7. u # x
    BY <1>1, <1>2, <1>3, <2>4
  <2> QED
    BY <1>2, <2>2, <2>4, <2>6, <2>7
<1>10. Ways(E, t)
  <2>1. \A v \in Gray(t), y \in Stacked(t) : t.index[v] <= t.index[y] => Reaches(E, v, y)
    BY <1>2, <1>5
  <2>2. ASSUME NEW y \in Stacked(t) PROVE \E v \in Gray(t) : t.index[v] <= t.index[y] /\ Reaches(E, y, v)
    <3>1. PICK v \in Gray(s) : s.index[v] <= s.index[y] /\ Reaches(E, y, v)
      BY <1>2, <1>5
    <3>2. CASE v # x
      BY <1>2, <3>1, <3>2
    <3>3. CASE v = x
      <4>1. Reaches(E, y, u)
        BY <1>1, <1>2, <1>3, <1>4, <1>9, <3>1, <3>3
      <4>2. s.index[u] <= s.index[y]
        <5>1. s.index[u] \in Nat /\ s.index[x] \in Nat /\ s.index[y] \in Nat
          BY <1>1, <1>2, <1>3
        <5> QED
          BY <1>9, <3>1, <3>3, <5>1
      <4> QED
        BY <1>2, <4>1, <4>2
    <3> QED
      BY <3>2, <3>3
  <2> QED
    BY <2>1, <2>2 DEF Ways
<1>11. Lows(E, t)
  <2>1. ASSUME NEW w \in Gray(t)
        PROVE  t.low[w] <= t.index[w] /\ \E y \in Stacked(t) : t.index[y] = t.low[w] /\ Reaches(E, w, y)
    <3>1. t.low[w] <= t.index[w]
      <4>1. t.low[w] <= s.low[w] /\ t.low[w] \in Nat /\ s.low[w] <= s.index[w] /\ s.low[w] \in Nat /\ s.index[w] \in Nat
        BY <1>1, <1>2, <1>3, <1>6, <1>7
      <4> QED
        BY <1>2, <4>1
    <3>2. CASE t.low[w] = s.low[w]
      BY <1>2, <1>6, <3>1, <3>2
    <3>3. CASE t.low[w] = s.low[x]
      <4>1. PICK z \in Stacked(s) : s.index[z] = s.low[x] /\ Reaches(E, x, z)
        BY <1>2, <1>6
      <4>2. Reaches(E, w, x)
        BY <1>2, <1>3, <1>5
      <4>3. Reaches(E, w, z)
        BY <1>1, <1>2, <1>3, <1>4, <4>1, <4>2
      <4> QED
        BY <1>2, <3>1, <3>3, <4>1, <4>3
    <3> QED
      BY <1>7, <3>2, <3>3
  <2>2. ASSUME NEW w \in Gray(t), NEW y \in Stacked(t), Owns(t, w, y), NEW e \in E, e[1] = y, e[2] \in Stacked(t)
        PROVE  t.low[w] <= t.index[e[2]] \/ (y = w /\ e[2] \in Ahead(t, w))
    <3>1. /\ s.index[w] <= s.index[y]
          /\ \A v \in Gray(t) : s.index[v] <= s.index[y] => s.index[v] <= s.index[w]
      BY <1>2, <2>2 DEF Owns
    <3>2. /\ s.index[e[2]] \in Nat /\ s.low[w] \in Nat /\ s.low[x] \in Nat /\ w \in Files /\ w \in Gray(s) /\ w # x
          /\ s.index[y] \in Nat /\ s.index[x] \in Nat
      BY <1>1, <1>2, <1>3, <2>2
    <3>3. CASE Owns(s, w, y)
      <4>1. s.low[w] <= s.index[e[2]] \/ (y = w /\ e[2] \in Ahead(s, w))
        BY <1>2, <1>6, <2>2, <3>2, <3>3, Zenon
      <4>2. t.low[w] <= s.low[w] /\ t.low[w] \in Nat
        BY <1>7
      <4> QED
        BY <1>2, <3>2, <4>1, <4>2
    <3>4. CASE ~Owns(s, w, y)
      <4>1. PICK v \in Gray(s) : s.index[v] <= s.index[y] /\ ~(s.index[v] <= s.index[w])
        BY <3>1, <3>2, <3>4 DEF Owns
      <4>2. v = x
        BY <1>2, <3>1, <4>1
      <4>3. Owns(s, x, y)
        BY <1>2, <4>1, <4>2 DEF Owns
      <4>4. s.low[x] <= s.index[e[2]]
        BY <1>2, <1>6, <2>2, <4>3
      <4>5. \A a \in Gray(t) : s.index[a] <= s.index[w]
        <5> SUFFICES ASSUME NEW a \in Gray(t) PROVE s.index[a] <= s.index[w]
          OBVIOUS
        <5>1. s.index[a] <= s.index[x] /\ s.index[x] <= s.index[y] /\ s.index[a] \in Nat
          BY <1>1, <1>2, <1>3, <4>1, <4>2
        <5>2. s.index[a] <= s.index[y]
          BY <3>2, <5>1
        <5> QED
          BY <3>1, <5>2
      <4>6. t.low[w] <= s.low[x] /\ t.low[w] \in Nat
        BY <1>7, <4>5
      <4> QED
        BY <1>2, <3>2, <4>4, <4>6
    <3> QED
      BY <3>3, <3>4
  <2> QED
    BY <2>1, <2>2 DEF Lows
<1>12. Left(t) = Left(s)
  BY <1>2 DEF Left
<1>13. Complete(E, t)
  <2>1. /\ \A e \in E : e[1] \in Visited(s) => e[2] \in Visited(s) \cup Ahead(s, e[1])
        /\ \A e \in E : e[1] \in Left(s) => e[2] \in Left(s)
        /\ \A w \in Gray(s) : \A y \in Ahead(s, w) : <<w, y>> \in E
    BY DEF Searching, Complete
  <2>2. \A e \in E : e[1] \in Visited(t) => e[2] \in Visited(t) \cup Ahead(t, e[1])
    BY <1>1, <1>2, <2>1
  <2>3. \A w \in Gray(t) : \A y \in Ahead(t, w) : <<w, y>> \in E
    BY <1>1, <1>2, <1>3, <2>1
  <2> QED
    BY <1>12, <2>1, <2>2, <2>3 DEF Complete
<1>14. Grouped(E, t)
  BY <1>2, <1>12 DEF Searching, Grouped
<1> QED
  BY <1>8, <1>10, <1>11, <1>13, <1>14 DEF Searching

\* The files that reach each other form classes: each file is in its own, and members share theirs.
LEMMA MutualFacts ==
  ASSUME NEW E \in SUBSET Between, NEW x \in Files
  PROVE  /\ x \in Mutual(E, x) /\ Mutual(E, x) \in SUBSET Files
         /\ \A y \in Mutual(E, x) : Mutual(E, y) = Mutual(E, x)
<1>1. /\ \A a \in Files : Reaches(E, a, a)
      /\ \A a, b, c \in Files : Reaches(E, a, b) /\ Reaches(E, b, c) => Reaches(E, a, c)
  BY ReachesFacts
<1>2. ASSUME NEW y \in Mutual(E, x), NEW z PROVE z \in Mutual(E, y) <=> z \in Mutual(E, x)
  <2>1. y \in Files /\ Reaches(E, x, y) /\ Reaches(E, y, x)
    BY DEF Mutual
  <2> QED
    BY <1>1, <2>1 DEF Mutual
<1> QED
  BY <1>1, <1>2 DEF Mutual

\* What is above a frame whose low is its own index reaches only itself and
\* what was left before: it is the group of that node.
LEMMA AboveIsMutual ==
  ASSUME NEW E \in SUBSET Between, NEW s \in Searches, NEW x,
         Searching(E, s), x \in Gray(s), \A w \in Gray(s) : s.index[w] <= s.index[x],
         Ahead(s, x) = {}, s.low[x] = s.index[x]
  PROVE  /\ Above(s, x) = Mutual(E, x)
         /\ \A e \in E : e[1] \in Above(s, x) => e[2] \in Above(s, x) \cup Left(s)
<1>1. /\ Visited(s) \in SUBSET Files /\ \A y \in Visited(s) : s.index[y] \in Nat
  BY SearchesFacts
<1>2. /\ Gray(s) \subseteq Stacked(s) /\ Stacked(s) \subseteq Visited(s)
      /\ \A a, b \in Visited(s) : s.index[a] = s.index[b] => a = b
  BY DEF Searching, Numbered
<1>3. \A a, b, c \in Files : Reaches(E, a, b) /\ Reaches(E, b, c) => Reaches(E, a, c)
  BY ReachesFacts
<1>4. /\ \A v \in Gray(s), y \in Stacked(s) : s.index[v] <= s.index[y] => Reaches(E, v, y)
      /\ \A y \in Stacked(s) : \E v \in Gray(s) : s.index[v] <= s.index[y] /\ Reaches(E, y, v)
  BY DEF Searching, Ways
<1>5. \A w \in Gray(s), y \in Stacked(s) : Owns(s, w, y) =>
        \A e \in E : e[1] = y /\ e[2] \in Stacked(s) => s.low[w] <= s.index[e[2]] \/ (y = w /\ e[2] \in Ahead(s, w))
  BY Zenon DEF Searching, Lows
<1>6. /\ \A e \in E : e[1] \in Visited(s) => e[2] \in Visited(s) \cup Ahead(s, e[1])
      /\ \A e \in E : e[1] \in Left(s) => e[2] \in Left(s)
  BY DEF Searching, Complete
<1>7. \A y : y \notin Gray(s) => Ahead(s, y) = {}
  BY DEF Ahead, Gray, NextOf, NodesOf
<1>8. x \in Files /\ x \in Stacked(s) /\ x \in Visited(s) /\ s.index[x] \in Nat
  BY <1>1, <1>2
<1>9. ASSUME NEW e \in E, e[1] \in Above(s, x) PROVE e[2] \in Above(s, x) \cup Left(s)
  <2>1. e[1] \in Stacked(s) /\ s.index[x] <= s.index[e[1]] /\ s.index[e[1]] \in Nat /\ e[1] \in Visited(s)
    BY <1>1, <1>2, <1>9 DEF Above
  <2>2. e[1] \in Gray(s) => e[1] = x
    BY <1>2, <1>8, <2>1
  <2>3. Ahead(s, e[1]) = {}
    BY <1>7, <2>2
  <2>4. e[2] \in Visited(s)
    BY <1>6, <2>1, <2>3
  <2>5. Owns(s, x, e[1])
    BY <2>1 DEF Owns
  <2>6. CASE e[2] \in Stacked(s)
    <3>1. s.low[x] <= s.index[e[2]]
      BY <1>5, <2>1, <2>5, <2>6
    <3> QED
      BY <2>6, <3>1 DEF Above
  <2> QED
    BY <2>4, <2>6 DEF Left
<1>10. ASSUME NEW y \in Above(s, x) PROVE y \in Mutual(E, x)
  <2>1. y \in Stacked(s) /\ s.index[x] <= s.index[y] /\ y \in Files
    BY <1>1, <1>2 DEF Above
  <2>2. Reaches(E, x, y)
    BY <1>4, <2>1
  <2>3. PICK v \in Gray(s) : s.index[v] <= s.index[y] /\ Reaches(E, y, v)
    BY <1>4, <2>1
  <2>4. Reaches(E, v, x) /\ v \in Files
    BY <1>1, <1>2, <1>4, <1>8
  <2> QED
    BY <1>3, <1>8, <2>1, <2>2, <2>3, <2>4 DEF Mutual
<1>11. ASSUME NEW y \in Mutual(E, x) PROVE y \in Above(s, x)
  <2> DEFINE C == Above(s, x) \cup Left(s)
  <2>1. y \in Files /\ Reaches(E, x, y) /\ Reaches(E, y, x)
    BY DEF Mutual
  <2>2. C \in SUBSET Files /\ Left(s) \in SUBSET Files
    BY <1>1, <1>2 DEF Above, Left
  <2>3. ClosedUnder(E, C) /\ ClosedUnder(E, Left(s))
    BY <1>6, <1>9 DEF ClosedUnder
  <2>4. x \in Above(s, x) /\ x \notin Left(s)
    BY <1>8 DEF Above, Left
  <2>5. y \in C
    BY <2>1, <2>2, <2>3, <2>4 DEF Reaches
  <2>6. y \notin Left(s)
    BY <2>1, <2>2, <2>3, <2>4 DEF Reaches
  <2> QED
    BY <2>5, <2>6
<1> QED
  BY <1>9, <1>10, <1>11

\* And so does returning from the root of a component, which is taken off the stack whole.
LEMMA ClosesKeeps ==
  ASSUME NEW E \in SUBSET Between, NEW s \in Searches, NEW t \in Searches, NEW x,
         Searching(E, s), Returns(s, t, x), Closes(s, t, x)
  PROVE  Searching(E, t)
<1>1. /\ Visited(s) \in SUBSET Files /\ \A y \in Visited(s) : s.index[y] \in Nat
      /\ \A y \in Visited(s) : s.low[y] \in Nat
  BY SearchesFacts
<1>2. /\ x \in Gray(s) /\ \A w \in Gray(s) : s.index[w] <= s.index[x]
      /\ Ahead(s, x) = {} /\ \A w \in Files : Ahead(t, w) = Ahead(s, w)
      /\ Visited(t) = Visited(s) /\ t.index = s.index
      /\ Gray(t) = Gray(s) \ {x}
      /\ s.low[x] = s.index[x]
      /\ Stacked(t) = {y \in Stacked(s) : s.index[y] < s.index[x]}
      /\ t.components = IF Cardinality(Above(s, x)) > 1 THEN s.components \cup {Above(s, x)} ELSE s.components
  BY Zenon DEF Returns, Closes
<1>3. /\ Gray(s) \subseteq Stacked(s) /\ Stacked(s) \subseteq Visited(s)
      /\ \A a, b \in Visited(s) : s.index[a] = s.index[b] => a = b
      /\ \A y \in Visited(s) : s.index[y] < Cardinality(Visited(s))
  BY DEF Searching, Numbered
<1>4. /\ \A v \in Gray(s), y \in Stacked(s) : s.index[v] <= s.index[y] => Reaches(E, v, y)
      /\ \A y \in Stacked(s) : \E v \in Gray(s) : s.index[v] <= s.index[y] /\ Reaches(E, y, v)
  BY DEF Searching, Ways
<1>5. /\ \A w \in Gray(s) : s.low[w] <= s.index[w] /\ \E y \in Stacked(s) : s.index[y] = s.low[w] /\ Reaches(E, w, y)
      /\ \A w \in Gray(s), y \in Stacked(s) : Owns(s, w, y) =>
           \A e \in E : e[1] = y /\ e[2] \in Stacked(s) => s.low[w] <= s.index[e[2]] \/ (y = w /\ e[2] \in Ahead(s, w))
  BY Zenon DEF Searching, Lows
<1>6. /\ \A e \in E : e[1] \in Visited(s) => e[2] \in Visited(s) \cup Ahead(s, e[1])
      /\ \A e \in E : e[1] \in Left(s) => e[2] \in Left(s)
      /\ \A w \in Gray(s) : \A y \in Ahead(s, w) : <<w, y>> \in E
  BY DEF Searching, Complete
<1>7. /\ Above(s, x) = Mutual(E, x)
      /\ \A e \in E : e[1] \in Above(s, x) => e[2] \in Above(s, x) \cup Left(s)
  BY <1>2, AboveIsMutual
<1>8. x \in Files /\ s.index[x] \in Nat
  BY <1>1, <1>2, <1>3
<1>9. ASSUME NEW w \in Gray(t)
      PROVE  /\ w \in Gray(s) /\ w # x /\ w \in Files /\ s.index[w] \in Nat
             /\ s.index[w] < s.index[x] /\ t.low[w] = s.low[w]
  <2>1. w \in Gray(s) /\ w # x /\ w \in Visited(s) /\ x \in Visited(s) /\ s.index[w] \in Nat
    BY <1>1, <1>2, <1>3
  <2>2. s.index[w] < s.index[x]
    BY <1>2, <1>3, <1>8, <2>1
  <2>3. s.low[w] <= s.index[w] /\ s.low[w] \in Nat
    BY <1>1, <1>5, <2>1
  <2>4. t.low[w] = s.low[w] \/ t.low[w] = Least(s.low[w], s.low[x])
    BY DEF Returns
  <2> QED
    BY <1>1, <1>2, <1>8, <2>1, <2>2, <2>3, <2>4 DEF Least
<1>10. Numbered(t)
  <2>1. Gray(t) \subseteq Stacked(t)
    BY <1>2, <1>3, <1>9
  <2>2. Stacked(t) \subseteq Visited(t)
    BY <1>2, <1>3
  <2>3. \A y \in Visited(t) : t.index[y] < Cardinality(Visited(t))
    BY <1>2, <1>3, Zenon
  <2>4. \A a, b \in Visited(t) : t.index[a] = t.index[b] => a = b
    BY <1>2, <1>3, Zenon
  <2> QED
    BY <2>1, <2>2, <2>3, <2>4, Zenon DEF Numbered
<1>11. Ways(E, t)
  <2>1. \A v \in Gray(t), y \in Stacked(t) : t.index[v] <= t.index[y] => Reaches(E, v, y)
    BY <1>2, <1>4
  <2>2. ASSUME NEW y \in Stacked(t) PROVE \E v \in Gray(t) : t.index[v] <= t.index[y] /\ Reaches(E, y, v)
    <3>1. PICK v \in Gray(s) : s.index[v] <= s.index[y] /\ Reaches(E, y, v)
      BY <1>2, <1>4
    <3>2. v # x
      BY <1>1, <1>2, <1>3, <1>8, <3>1
    <3> QED
      BY <1>2, <3>1, <3>2
  <2> QED
    BY <2>1, <2>2 DEF Ways
<1>12. Lows(E, t)
  <2>1. ASSUME NEW w \in Gray(t)
        PROVE  t.low[w] <= t.index[w] /\ \E y \in Stacked(t) : t.index[y] = t.low[w] /\ Reaches(E, w, y)
    <3>1. w \in Gray(s) /\ s.index[w] < s.index[x] /\ t.low[w] = s.low[w] /\ s.index[w] \in Nat
      BY <1>9
    <3>2. s.low[w] <= s.index[w]
      BY <1>5, <3>1
    <3>3. PICK y \in Stacked(s) : s.index[y] = s.low[w] /\ Reaches(E, w, y)
      BY <1>5, <3>1
    <3>4. s.index[y] < s.index[x]
      <4>1. s.index[y] \in Nat
        BY <1>1, <1>3
      <4> QED
        BY <1>8, <3>1, <3>2, <3>3, <4>1
    <3> QED
      BY <1>2, <3>1, <3>2, <3>3, <3>4
  <2>2. ASSUME NEW w \in Gray(t), NEW y \in Stacked(t), Owns(t, w, y), NEW e \in E, e[1] = y, e[2] \in Stacked(t)
        PROVE  t.low[w] <= t.index[e[2]] \/ (y = w /\ e[2] \in Ahead(t, w))
    <3>1. /\ s.index[w] <= s.index[y]
          /\ \A v \in Gray(t) : s.index[v] <= s.index[y] => s.index[v] <= s.index[w]
      BY <1>2, <2>2 DEF Owns
    <3>2. y \in Stacked(s) /\ s.index[y] < s.index[x] /\ e[2] \in Stacked(s) /\ s.index[y] \in Nat
      BY <1>1, <1>2, <1>3, <2>2
    <3>3. Owns(s, w, y)
      <4>1. ASSUME NEW v \in Gray(s), s.index[v] <= s.index[y] PROVE s.index[v] <= s.index[w]
        <5>1. v # x
          BY <1>8, <3>2, <4>1
        <5> QED
          BY <1>2, <3>1, <4>1, <5>1
      <4> QED
        BY <1>9, <3>1, <4>1 DEF Owns
    <3>4. s.low[w] <= s.index[e[2]] \/ (y = w /\ e[2] \in Ahead(s, w))
      BY <1>5, <1>9, <2>2, <3>2, <3>3, Zenon
    <3> QED
      BY <1>2, <1>9, <3>4
  <2> QED
    BY <2>1, <2>2 DEF Lows
<1>13. Left(t) = Left(s) \cup Above(s, x)
  <2>1. \A y \in Stacked(s) : s.index[y] < s.index[x] <=> ~(s.index[x] <= s.index[y])
    BY <1>1, <1>3, <1>8
  <2> QED
    BY <1>2, <1>3, <2>1 DEF Left, Above
<1>14. Complete(E, t)
  <2>1. \A e \in E : e[1] \in Visited(t) => e[2] \in Visited(t) \cup Ahead(t, e[1])
    BY <1>1, <1>2, <1>6
  <2>2. \A w \in Gray(t) : \A y \in Ahead(t, w) : <<w, y>> \in E
    BY <1>2, <1>6, <1>9
  <2>3. \A e \in E : e[1] \in Left(t) => e[2] \in Left(t)
    BY <1>6, <1>7, <1>13
  <2> QED
    BY <2>1, <2>2, <2>3 DEF Complete
<1>15. Grouped(E, t)
  <2>1. s.components = {m \in {Mutual(E, y) : y \in Left(s)} : Cardinality(m) > 1}
    BY DEF Searching, Grouped
  <2>2. {Mutual(E, y) : y \in Left(t)} = {Mutual(E, y) : y \in Left(s)} \cup {Above(s, x)}
    <3>1. x \in Mutual(E, x) /\ \A y \in Mutual(E, x) : Mutual(E, y) = Mutual(E, x)
      BY <1>8, MutualFacts
    <3> QED
      BY <1>7, <1>13, <3>1
  <2> QED
    BY <1>2, <2>1, <2>2 DEF Grouped
<1> QED
  BY <1>10, <1>11, <1>12, <1>14, <1>15 DEF Searching

-----------------------------------------------------------------------------
\* Lists that ascend, the stack and the frames.

Frames == [node : Files, next : Seq(Files)]

Ascends(list, key) == \A i, j \in DOMAIN list : i < j => key[list[i]] < key[list[j]]

\* A nonempty list is its front with its last element appended.
LEMMA FrontAndLast ==
  ASSUME NEW P, NEW list \in Seq(P), list # <<>>
  PROVE  /\ Front(list) \in Seq(P) /\ Last(list) \in P /\ list = Append(Front(list), Last(list))
         /\ Len(Front(list)) = Len(list) - 1
<1> DEFINE n == Len(list)
           front == SubSeq(list, 1, n - 1)
<1>1. n \in Nat /\ n # 0 /\ DOMAIN list = 1..n /\ \A i \in 1..n : list[i] \in P
  OBVIOUS
<1>2. front \in Seq(P) /\ Len(front) = n - 1 /\ \A i \in 1..(n - 1) : front[i] = list[i]
  OBVIOUS
<1>3. list[n] \in P
  BY <1>1
<1> DEFINE whole == Append(front, list[n])
<1>4. whole \in Seq(P) /\ Len(whole) = n /\ \A i \in 1..n : whole[i] = list[i]
  <2> HIDE DEF front, n
  <2> QED
    BY <1>1, <1>2, <1>3
<1>5. list = whole
  <2> HIDE DEF whole, front
  <2> QED
    BY <1>1, <1>4
<1> QED
  BY <1>2, <1>3, <1>5 DEF Front, Last

\* A list ascends with one element more iff it ascended and the new one is above all others.
LEMMA AscendsAppend ==
  ASSUME NEW P, NEW list \in Seq(P), NEW x \in P, NEW key
  PROVE  Ascends(Append(list, x), key) <=> Ascends(list, key) /\ \A y \in ToSet(list) : key[y] < key[x]
<1> DEFINE c == Append(list, x)
           n == Len(list)
<1>1. /\ Len(c) = n + 1 /\ n \in Nat
      /\ DOMAIN list = 1..n /\ DOMAIN c = 1..(n + 1)
      /\ \A i \in 1..n : c[i] = list[i]
      /\ c[n + 1] = x /\ \A i \in 1..n : list[i] \in P
  OBVIOUS
<1> HIDE DEF c, n
<1>2. ToSet(list) = {list[i] : i \in 1..n}
  BY <1>1, Zenon DEF ToSet
<1>3. ASSUME Ascends(c, key) PROVE Ascends(list, key) /\ \A y \in ToSet(list) : key[y] < key[x]
  <2>1. \A i, j \in 1..(n + 1) : i < j => key[c[i]] < key[c[j]]
    BY <1>1, <1>3 DEF Ascends
  <2>2. \A i \in 1..n : i \in 1..(n + 1) /\ n + 1 \in 1..(n + 1) /\ i < n + 1
    BY <1>1
  <2>3. \A i, j \in 1..n : i < j => key[list[i]] < key[list[j]]
    BY <1>1, <2>1, <2>2
  <2>4. \A i \in 1..n : key[list[i]] < key[x]
    BY <1>1, <2>1, <2>2
  <2> QED
    BY <1>1, <1>2, <2>3, <2>4 DEF Ascends
<1>4. ASSUME Ascends(list, key), \A y \in ToSet(list) : key[y] < key[x] PROVE Ascends(c, key)
  <2>1. \A i, j \in 1..n : i < j => key[list[i]] < key[list[j]]
    BY <1>1, <1>4 DEF Ascends
  <2>2. \A i \in 1..n : key[list[i]] < key[x]
    BY <1>2, <1>4
  <2>3. ASSUME NEW i \in 1..(n + 1), NEW j \in 1..(n + 1), i < j PROVE key[c[i]] < key[c[j]]
    <3>1. i \in 1..n /\ (j \in 1..n \/ j = n + 1)
      BY <1>1, <2>3
    <3> QED
      BY <1>1, <2>1, <2>2, <2>3, <3>1
  <2> QED
    BY <1>1, <2>3 DEF Ascends
<1> QED
  BY <1>3, <1>4 DEF c

\* Only what is in the list counts.
LEMMA AscendsAlike ==
  ASSUME NEW P, NEW list \in Seq(P), NEW key, NEW same, \A y \in ToSet(list) : key[y] = same[y],
         Ascends(list, key)
  PROVE  Ascends(list, same)
<1>1. \A i \in DOMAIN list : list[i] \in ToSet(list)
  BY Zenon DEF ToSet
<1> QED
  BY <1>1 DEF Ascends

\* A frame pushed on the work list adds its file, and what is left to look at from it.
LEMMA FramesAppend ==
  ASSUME NEW frames \in Seq(Frames), NEW f \in Frames
  PROVE  /\ NodesOf(Append(frames, f)) = NodesOf(frames) \cup {f.node}
         /\ \A x : NextOf(Append(frames, f), x) =
                     NextOf(frames, x) \cup (IF x = f.node THEN ToSet(f.next) ELSE {})
<1>1. ToSet(Append(frames, f)) = ToSet(frames) \cup {f}
  BY AppendSet
<1> DEFINE all == Append(frames, f)
<1> HIDE DEF all
<1>2. NodesOf(all) = NodesOf(frames) \cup {f.node}
  BY <1>1, Zenon DEF NodesOf, all
<1>3. ASSUME NEW x PROVE NextOf(all, x) = NextOf(frames, x) \cup (IF x = f.node THEN ToSet(f.next) ELSE {})
  <2>1. ASSUME NEW y \in NextOf(all, x) PROVE y \in NextOf(frames, x) \cup (IF x = f.node THEN ToSet(f.next) ELSE {})
    BY <1>1, <2>1 DEF NextOf, all
  <2>2. ASSUME NEW y \in NextOf(frames, x) PROVE y \in NextOf(all, x)
    BY <1>1, <2>2 DEF NextOf, all
  <2>3. ASSUME x = f.node, NEW y \in ToSet(f.next) PROVE y \in NextOf(all, x)
    BY <1>1, <2>3 DEF NextOf, all
  <2> QED
    BY <2>1, <2>2, <2>3
<1> QED
  BY <1>2, <1>3 DEF all

\* The files of the work list, and what is left to look at, are files; of others nothing is left.
LEMMA FramesFacts ==
  ASSUME NEW frames \in Seq(Frames)
  PROVE  /\ NodesOf(frames) \in SUBSET Files
         /\ \A x : NextOf(frames, x) \in SUBSET Files
         /\ \A x : x \notin NodesOf(frames) => NextOf(frames, x) = {}
<1>1. \A f \in ToSet(frames) : f \in Frames
  BY DEF ToSet
<1>2. \A f \in Frames : f.node \in Files /\ f.next \in Seq(Files)
  BY DEF Frames
<1>3. \A list \in Seq(Files) : ToSet(list) \in SUBSET Files
  BY DEF ToSet
<1>4. NodesOf(frames) \in SUBSET Files
  BY <1>1, <1>2 DEF NodesOf
<1>5. \A x : NextOf(frames, x) \in SUBSET Files
  BY <1>1, <1>2, <1>3 DEF NextOf
<1>6. \A x : x \notin NodesOf(frames) => NextOf(frames, x) = {}
  BY DEF NodesOf, NextOf
<1> QED
  BY <1>4, <1>5, <1>6

Under(list, x) == {n \in DOMAIN list : \A m \in 1..n : list[m] # x}

\* The part of an ascending list before one of its members.
LEMMA CutBefore ==
  ASSUME NEW P, NEW list \in Seq(P), NEW key, \A y \in ToSet(list) : key[y] \in Nat, Ascends(list, key),
         NEW x \in ToSet(list)
  PROVE  /\ SubSeq(list, 1, Cardinality(Under(list, x))) \in Seq(P)
         /\ Ascends(SubSeq(list, 1, Cardinality(Under(list, x))), key)
         /\ ToSet(SubSeq(list, 1, Cardinality(Under(list, x)))) = {y \in ToSet(list) : key[y] < key[x]}
         /\ {list[n] : n \in DOMAIN list \ Under(list, x)} = {y \in ToSet(list) : key[x] <= key[y]}
<1> DEFINE below == Under(list, x)
           N == Len(list)
<1>1. N \in Nat /\ DOMAIN list = 1..N /\ \A i \in 1..N : list[i] \in P
  OBVIOUS
<1>2. ToSet(list) = {list[i] : i \in 1..N}
  BY <1>1, Zenon DEF ToSet
<1> HIDE DEF N
<1>3. PICK p \in 1..N : list[p] = x
  BY <1>2
<1>4. \A i, j \in 1..N : i < j => key[list[i]] < key[list[j]]
  BY <1>1 DEF Ascends
<1>5. \A i \in 1..N : key[list[i]] \in Nat
  BY <1>2
<1>6. \A i \in 1..N : (i < p <=> key[list[i]] < key[x]) /\ (list[i] = x => i = p)
  <2> SUFFICES ASSUME NEW i \in 1..N PROVE (i < p <=> key[list[i]] < key[x]) /\ (list[i] = x => i = p)
    OBVIOUS
  <2>1. CASE i < p
    BY <1>3, <1>4, <1>5, <2>1
  <2>2. CASE i = p
    BY <1>3, <1>5, <2>2
  <2>3. CASE p < i
    BY <1>3, <1>4, <1>5, <2>3
  <2> QED
    BY <2>1, <2>2, <2>3
<1>7. below = 1..(p - 1)
  <2>1. ASSUME NEW n \in below PROVE n \in 1..(p - 1)
    <3>1. n \in 1..N /\ \A m \in 1..n : list[m] # x
      BY <1>1 DEF Under
    <3>2. ~(p <= n)
      BY <1>3, <3>1
    <3> QED
      BY <3>1, <3>2
  <2>2. ASSUME NEW n \in 1..(p - 1) PROVE n \in below
    <3>1. n \in 1..N /\ \A m \in 1..n : m \in 1..N /\ m # p
      BY <1>1, <1>3
    <3> QED
      BY <1>1, <1>6, <3>1 DEF Under
  <2> QED
    BY <2>1, <2>2
<1>8. Cardinality(below) = p - 1
  <2>1. 1 \in Int /\ p - 1 \in Int
    BY <1>1
  <2>2. Cardinality(1..(p - 1)) = IF 1 > p - 1 THEN 0 ELSE (p - 1) - 1 + 1
    BY <2>1, FS_Interval
  <2>3. (IF 1 > p - 1 THEN 0 ELSE (p - 1) - 1 + 1) = p - 1
    BY <1>1
  <2> QED
    BY <1>7, <2>2, <2>3, Zenon
<1> HIDE DEF below
<1> DEFINE cut == SubSeq(list, 1, p - 1)
<1>9. cut \in Seq(P) /\ Len(cut) = p - 1 /\ \A i \in 1..(p - 1) : cut[i] = list[i]
  BY <1>1, SubSeqProperties
<1>10. DOMAIN cut = 1..(p - 1)
  BY <1>9
<1> HIDE DEF cut
<1>11. ToSet(cut) = {cut[i] : i \in 1..(p - 1)}
  BY <1>10, Zenon DEF ToSet
<1>12. \A i \in 1..(p - 1) : i \in 1..N /\ i < p
  BY <1>1
<1>13. ToSet(cut) = {y \in ToSet(list) : key[y] < key[x]}
  <2>1. ASSUME NEW y \in ToSet(cut) PROVE y \in ToSet(list) /\ key[y] < key[x]
    BY <1>2, <1>6, <1>9, <1>11, <1>12
  <2>2. ASSUME NEW y \in ToSet(list), key[y] < key[x] PROVE y \in ToSet(cut)
    <3>1. PICK i \in 1..N : y = list[i]
      BY <1>2
    <3>2. i \in 1..(p - 1)
      BY <1>1, <1>6, <2>2, <3>1
    <3> QED
      BY <1>9, <1>11, <3>1, <3>2
  <2> QED
    BY <2>1, <2>2
<1>14. Ascends(cut, key)
  BY <1>4, <1>9, <1>10, <1>12 DEF Ascends
<1>15. {list[n] : n \in DOMAIN list \ below} = {y \in ToSet(list) : key[x] <= key[y]}
  <2>1. \A n \in 1..N : n \notin below <=> ~(n < p)
    BY <1>1, <1>7
  <2>2. \A n \in 1..N : ~(n < p) <=> key[x] <= key[list[n]]
    BY <1>3, <1>5, <1>6
  <2> QED
    BY <1>1, <1>2, <2>1, <2>2
<1> QED
  BY <1>8, <1>9, <1>13, <1>14, <1>15 DEF below, cut

-----------------------------------------------------------------------------
\* Tarjan's search, step by step.

OnFrames(s) == [f \in Frames |-> s.index[f.node]]
InOrder(s) == Ascends(s.stack, s.index) /\ Ascends(s.work, OnFrames(s))

\* The neighbours of a node, in order.
LEMMA SortedFacts ==
  ASSUME NEW set \in SUBSET Files
  PROVE  /\ Sorted(set) \in Seq(Files) /\ ToSet(Sorted(set)) = set
         /\ set # {} => Head(Sorted(set)) \in set
<1>1. FileOrder \in Seq(Files) /\ ToSet(FileOrder) = Files
  BY OrderOfFiles
<1>2. Sorted(set) \in Seq(Files) /\ ToSet(Sorted(set)) = set
  <2>1. Among(FileOrder, set) \in Seq(Files) /\ ToSet(Among(FileOrder, set)) = ToSet(FileOrder) \cap set
    BY <1>1, AmongSet
  <2>2. Files \cap set = set
    OBVIOUS
  <2> QED
    BY <1>1, <2>1, <2>2, Zenon DEF Sorted
<1>3. ASSUME set # {} PROVE Head(Sorted(set)) \in set
  <2>1. Sorted(set) # <<>>
    BY <1>2, <1>3, FirstOf
  <2> QED
    BY <1>2, <2>1, HeadAndTail
<1> QED
  BY <1>2, <1>3

\* The neighbours of a file, as a list, are the ends of its edges.
LEMMA NeighboursFacts ==
  ASSUME NEW E \in SUBSET Between, NEW z
  PROVE  /\ Neighbours(E, z) \in Seq(Files)
         /\ \A y : y \in ToSet(Neighbours(E, z)) <=> <<z, y>> \in E
<1> DEFINE set == {e[2] : e \in {e \in E : e[1] = z}}
<1>1. set \in SUBSET Files /\ \A y : y \in set <=> <<z, y>> \in E
  <2>1. \A e \in E : e[1] \in Files /\ e[2] \in Files /\ e = <<e[1], e[2]>>
    BY ReachesFacts
  <2>2. set \in SUBSET Files
    BY <2>1
  <2>3. ASSUME NEW y \in set PROVE <<z, y>> \in E
    BY <2>1
  <2>4. ASSUME NEW y, <<z, y>> \in E PROVE y \in set
    <3>1. <<z, y>>[1] = z /\ <<z, y>>[2] = y
      OBVIOUS
    <3> QED
      BY <2>4, <3>1
  <2> QED
    BY <2>2, <2>3, <2>4
<1>2. Neighbours(E, z) = Sorted(set)
  BY Zenon DEF Neighbours
<1> HIDE DEF set
<1> QED
  BY <1>1, <1>2, SortedFacts

\* The types of the fields of a search, and of the sets that are read off them.
LEMMA SearchesFields ==
  ASSUME NEW s \in Searches
  PROVE  /\ s.index \in [Files -> Nat \cup {None}] /\ s.low \in [Files -> Nat] /\ s.stack \in Seq(Files)
         /\ s.components \in SUBSET SUBSET Files /\ s.work \in Seq(Frames)
         /\ Stacked(s) \in SUBSET Files /\ Gray(s) \in SUBSET Files
         /\ \A x : Ahead(s, x) \in SUBSET Files /\ (x \notin Gray(s) => Ahead(s, x) = {})
<1>1. /\ s.index \in [Files -> Nat \cup {None}] /\ s.low \in [Files -> Nat] /\ s.stack \in Seq(Files)
      /\ s.components \in SUBSET SUBSET Files /\ s.work \in Seq(Frames)
  BY DEF Searches, Frames
<1>2. Stacked(s) \in SUBSET Files
  BY <1>1 DEF Stacked, ToSet
<1> QED
  BY <1>1, <1>2, FramesFacts DEF Gray, Ahead

Made(index, low, stack, components, work) ==
  [index |-> index, low |-> low, stack |-> stack, components |-> components, work |-> work]

\* A search with those five fields.
HasFields(t, i, l, st, c, w) ==
  t \in Searches /\ t.index = i /\ t.low = l /\ t.stack = st /\ t.components = c /\ t.work = w

\* A search made of fields of their types has them.
LEMMA MadeFacts ==
  ASSUME NEW i \in [Files -> Nat \cup {None}], NEW l \in [Files -> Nat], NEW st \in Seq(Files),
         NEW c \in SUBSET SUBSET Files, NEW w \in Seq(Frames)
  PROVE  HasFields(Made(i, l, st, c, w), i, l, st, c, w)
  BY DEF HasFields, Made, Searches, Frames

\* What opening a file does to a search.
HasOpened(E, s, t, z) ==
  /\ t \in Searches /\ Visited(t) = Visited(s) \cup {z}
  /\ \A x \in Visited(s) : t.index[x] = s.index[x] /\ t.low[x] = s.low[x]
  /\ t.index[z] = Cardinality(Visited(s)) /\ t.low[z] = Cardinality(Visited(s))
  /\ Cardinality(Visited(t)) = Cardinality(Visited(s)) + 1
  /\ Stacked(t) = Stacked(s) \cup {z} /\ Gray(t) = Gray(s) \cup {z}
  /\ \A x \in Files : Ahead(t, x) = Ahead(s, x) \cup (IF x = z THEN ToSet(Neighbours(E, z)) ELSE {})
  /\ t.components = s.components
  /\ t.stack = Append(s.stack, z) /\ t.work = Append(s.work, [node |-> z, next |-> Neighbours(E, z)])

\* Opening a file numbers it next and puts it on the stack and on the work list.
LEMMA OpenFacts ==
  ASSUME NEW E \in SUBSET Between, NEW s \in Searches, NEW z \in Files \ Visited(s), NEW t, t = Open(E, s, z)
  PROVE  HasOpened(E, s, t, z)
<1> DEFINE n == Cardinality(Visited(s))
           i == [s.index EXCEPT ![z] = n]
           l == [s.low EXCEPT ![z] = n]
           f == [node |-> z, next |-> Neighbours(E, z)]
<1>1. /\ s.index \in [Files -> Nat \cup {None}] /\ s.low \in [Files -> Nat] /\ s.stack \in Seq(Files)
      /\ s.components \in SUBSET SUBSET Files /\ s.work \in Seq(Frames)
  BY SearchesFields
<1>2. /\ Visited(s) \in SUBSET Files /\ n \in Nat /\ IsFiniteSet(Visited(s))
  BY SearchesFacts
<1>3. f \in Frames /\ f.node = z /\ f.next = Neighbours(E, z)
  BY NeighboursFacts DEF Frames
<1>4. t = Made(i, l, Append(s.stack, z), s.components, Append(s.work, f))
  BY Zenon DEF Open, Made
<1>5. i \in [Files -> Nat \cup {None}] /\ l \in [Files -> Nat]
  BY <1>1, <1>2
<1>6. Append(s.stack, z) \in Seq(Files) /\ Append(s.work, f) \in Seq(Frames)
  BY <1>1, <1>3
<1>7. /\ i[z] = n /\ l[z] = n /\ \A x \in Files : x # z => i[x] = s.index[x] /\ l[x] = s.low[x]
  BY <1>1
<1> HIDE DEF f, i, l
<1>8. /\ t \in Searches /\ t.index = i /\ t.low = l /\ t.stack = Append(s.stack, z)
      /\ t.components = s.components /\ t.work = Append(s.work, f)
  <2> DEFINE st == Append(s.stack, z)
             w == Append(s.work, f)
             c == s.components
  <2>1. st \in Seq(Files) /\ w \in Seq(Frames) /\ c \in SUBSET SUBSET Files /\ t = Made(i, l, st, c, w)
    BY <1>1, <1>4, <1>6, Zenon
  <2> HIDE DEF st, w, c
  <2>2. t \in Searches /\ t.index = i /\ t.low = l /\ t.stack = st /\ t.components = c /\ t.work = w
    <3>1. HasFields(Made(i, l, st, c, w), i, l, st, c, w)
      BY <1>5, <2>1, MadeFacts
    <3> QED
      BY <2>1, <3>1, Zenon DEF HasFields
  <2> QED
    BY <2>2, Zenon DEF st, w, c
<1>9. Visited(t) = Visited(s) \cup {z}
  BY <1>2, <1>7, <1>8, NoIndex DEF Visited
<1>10. Cardinality(Visited(t)) = n + 1
  BY <1>2, <1>9, FS_AddElement
<1>11. Stacked(t) = Stacked(s) \cup {z}
  BY <1>1, <1>8, AppendSet DEF Stacked
<1>12. /\ Gray(t) = Gray(s) \cup {z}
       /\ \A x : Ahead(t, x) = Ahead(s, x) \cup (IF x = z THEN ToSet(Neighbours(E, z)) ELSE {})
  BY <1>1, <1>3, <1>8, FramesAppend DEF Gray, Ahead
<1>13. \A x \in Visited(s) : t.index[x] = s.index[x] /\ t.low[x] = s.low[x]
  BY <1>2, <1>7, <1>8
<1>14. t.index[z] = n /\ t.low[z] = n
  BY <1>7, <1>8
<1>15. t.work = Append(s.work, [node |-> z, next |-> Neighbours(E, z)])
  BY <1>8 DEF f
<1>16. \A x \in Files : Ahead(t, x) = Ahead(s, x) \cup (IF x = z THEN ToSet(Neighbours(E, z)) ELSE {})
  BY <1>12
<1> QED
  BY <1>8, <1>9, <1>10, <1>11, <1>12, <1>13, <1>14, <1>15, <1>16, Zenon DEF HasOpened

\* The stack and the work list stay ordered by number when a file is opened.
LEMMA OpenOrders ==
  ASSUME NEW E \in SUBSET Between, NEW s \in Searches, NEW z \in Files \ Visited(s), NEW t, t = Open(E, s, z),
         Numbered(s), InOrder(s)
  PROVE  InOrder(t)
<1>1. /\ t \in Searches
      /\ \A x \in Visited(s) : t.index[x] = s.index[x]
      /\ t.index[z] = Cardinality(Visited(s))
      /\ t.stack = Append(s.stack, z) /\ t.work = Append(s.work, [node |-> z, next |-> Neighbours(E, z)])
  <2>1. HasOpened(E, s, t, z)
    BY OpenFacts
  <2> QED
    BY <2>1, Zenon DEF HasOpened
<1>2. s.stack \in Seq(Files) /\ s.work \in Seq(Frames)
  BY SearchesFields
<1>3. /\ \A x \in Visited(s) : s.index[x] < Cardinality(Visited(s))
      /\ Gray(s) \subseteq Stacked(s) /\ Stacked(s) \subseteq Visited(s)
  BY DEF Numbered
<1>4. Ascends(s.stack, s.index) /\ Ascends(s.work, OnFrames(s))
  BY DEF InOrder
<1>5. Ascends(t.stack, t.index)
  <2>1. \A y \in ToSet(s.stack) : y \in Visited(s)
    BY <1>3 DEF Stacked
  <2>2. Ascends(s.stack, t.index)
    <3>1. \A y \in ToSet(s.stack) : s.index[y] = t.index[y]
      BY <1>1, <2>1
    <3> QED
      BY <1>2, <1>4, <3>1, AscendsAlike
  <2>3. \A y \in ToSet(s.stack) : t.index[y] < t.index[z]
    BY <1>1, <1>3, <2>1
  <2> QED
    BY <1>1, <1>2, <2>2, <2>3, AscendsAppend
<1>6. Ascends(t.work, OnFrames(t))
  <2> DEFINE f == [node |-> z, next |-> Neighbours(E, z)]
  <2>1. f \in Frames /\ f.node = z
    BY NeighboursFacts DEF Frames
  <2> HIDE DEF f
  <2>2. \A g \in ToSet(s.work) : g \in Frames /\ g.node \in Visited(s)
    <3>1. \A g \in ToSet(s.work) : g \in Frames
      BY <1>2 DEF ToSet
    <3>2. \A g \in ToSet(s.work) : g.node \in Gray(s)
      BY DEF Gray, NodesOf
    <3> QED
      BY <1>3, <3>1, <3>2
  <2>3. \A g \in ToSet(s.work) : OnFrames(s)[g] = s.index[g.node] /\ OnFrames(t)[g] = t.index[g.node]
    BY <2>2 DEF OnFrames
  <2>4. OnFrames(t)[f] = t.index[z]
    BY <2>1 DEF OnFrames
  <2>5. Ascends(s.work, OnFrames(t))
    <3>1. \A g \in ToSet(s.work) : OnFrames(s)[g] = OnFrames(t)[g]
      BY <1>1, <2>2, <2>3
    <3> QED
      BY <1>2, <1>4, <3>1, AscendsAlike
  <2>6. \A g \in ToSet(s.work) : OnFrames(t)[g] < OnFrames(t)[f]
    BY <1>1, <1>3, <2>2, <2>3, <2>4
  <2>7. t.work = Append(s.work, f)
    BY <1>1 DEF f
  <2> QED
    BY <1>2, <2>1, <2>5, <2>6, <2>7, AscendsAppend
<1> QED
  BY <1>5, <1>6 DEF InOrder

\* The last frame without the neighbour it looks at now.
Advanced(f) == [node |-> f.node, next |-> Tail(f.next)]
Looked(s) == Made(s.index, s.low, s.stack, s.components, Append(Front(s.work), Advanced(Last(s.work))))

\* An update of a search, field by field, written as the search made of its fields.
LEMMA MadeOf ==
  ASSUME NEW s \in Searches
  PROVE  /\ \A w : [s EXCEPT !.work = w] = Made(s.index, s.low, s.stack, s.components, w)
         /\ \A l : [s EXCEPT !.low = l] = Made(s.index, l, s.stack, s.components, s.work)
         /\ \A st, c : [s EXCEPT !.stack = st, !.components = c] = Made(s.index, s.low, st, c, s.work)
<1>1. s = Made(s.index, s.low, s.stack, s.components, s.work)
  BY DEF Searches, Made
<1> DEFINE a == s.index
           b == s.low
           d == s.stack
           e == s.components
           f == s.work
<1>2. s = Made(a, b, d, e, f)
  BY <1>1
<1> HIDE DEF a, b, d, e, f
<1>3. \A w : [s EXCEPT !.work = w] = Made(a, b, d, e, w)
  BY <1>2 DEF Made
<1>4. \A l : [s EXCEPT !.low = l] = Made(a, l, d, e, f)
  BY <1>2 DEF Made
<1>5. \A st, c : [s EXCEPT !.stack = st, !.components = c] = Made(a, b, st, c, f)
  <2> TAKE st, c
  <2>1. [s EXCEPT !.stack = st] = Made(a, b, st, e, f)
    BY <1>2 DEF Made
  <2>2. [s EXCEPT !.stack = st, !.components = c] = [Made(a, b, st, e, f) EXCEPT !.components = c]
    BY <2>1
  <2> QED
    BY <2>2 DEF Made
<1>6. QED
  BY <1>3, <1>4, <1>5 DEF a, b, d, e, f

\* The last frame of a search that has one.
LastFrame(s, front, f) ==
  /\ front \in Seq(Frames) /\ f \in Frames /\ s.work = Append(front, f) /\ Len(front) = Len(s.work) - 1
  /\ Front(s.work) = front /\ Last(s.work) = f
  /\ f.node \in Files /\ f.next \in Seq(Files)
  /\ Gray(s) = NodesOf(front) \cup {f.node} /\ NodesOf(front) \in SUBSET Files
  /\ \A x : Ahead(s, x) = NextOf(front, x) \cup (IF x = f.node THEN ToSet(f.next) ELSE {})

\* The last frame of a nonempty work list splits it into the frames before and itself.
LEMMA LastFrameFacts ==
  ASSUME NEW s \in Searches, s.work # <<>>
  PROVE  LastFrame(s, Front(s.work), Last(s.work))
<1>1. s.work \in Seq(Frames)
  BY SearchesFields
<1> DEFINE front == Front(s.work)
           f == Last(s.work)
<1>2. front \in Seq(Frames) /\ f \in Frames /\ s.work = Append(front, f) /\ Len(front) = Len(s.work) - 1
  BY <1>1, FrontAndLast
<1>3. f.node \in Files /\ f.next \in Seq(Files)
  BY <1>2 DEF Frames
<1> HIDE DEF front, f
<1>4. /\ NodesOf(Append(front, f)) = NodesOf(front) \cup {f.node}
      /\ \A x : NextOf(Append(front, f), x) = NextOf(front, x) \cup (IF x = f.node THEN ToSet(f.next) ELSE {})
  BY <1>2, FramesAppend
<1>5. /\ Gray(s) = NodesOf(front) \cup {f.node}
      /\ \A x : Ahead(s, x) = NextOf(front, x) \cup (IF x = f.node THEN ToSet(f.next) ELSE {})
  BY <1>2, <1>4, Zenon DEF Gray, Ahead
<1>6. NodesOf(front) \in SUBSET Files
  BY <1>2, FramesFacts
<1>7. Front(s.work) = front /\ Last(s.work) = f
  BY DEF front, f
<1>8. LastFrame(s, front, f)
  BY <1>2, <1>3, <1>5, <1>6, <1>7, Zenon DEF LastFrame
<1> QED
  BY <1>7, <1>8, Zenon

\* It is the frame of the node visited last.
LEMMA LastFrameIsLast ==
  ASSUME NEW s \in Searches, Numbered(s), InOrder(s), NEW front, NEW f, LastFrame(s, front, f)
  PROVE  /\ \A w \in NodesOf(front) : s.index[w] < s.index[f.node]
         /\ f.node \notin NodesOf(front) /\ \A w \in Gray(s) : s.index[w] <= s.index[f.node]
         /\ Ascends(front, OnFrames(s))
<1>1. /\ front \in Seq(Frames) /\ f \in Frames /\ s.work = Append(front, f)
      /\ Gray(s) = NodesOf(front) \cup {f.node}
  BY DEF LastFrame
<1>2. /\ Visited(s) \in SUBSET Files /\ \A x \in Visited(s) : s.index[x] \in Nat
      /\ Gray(s) \subseteq Visited(s)
  BY SearchesFacts DEF Numbered
<1>3. Ascends(front, OnFrames(s)) /\ \A g \in ToSet(front) : OnFrames(s)[g] < OnFrames(s)[f]
  BY <1>1, AscendsAppend DEF InOrder
<1>4. \A g \in ToSet(front) : g \in Frames
  BY <1>1 DEF ToSet
<1>5. \A g \in Frames : OnFrames(s)[g] = s.index[g.node]
  BY DEF OnFrames
<1>6. \A w \in NodesOf(front) : s.index[w] < s.index[f.node]
  BY <1>1, <1>3, <1>4, <1>5 DEF NodesOf
<1>7. s.index[f.node] \in Nat /\ \A w \in NodesOf(front) : s.index[w] \in Nat
  BY <1>1, <1>2
<1>8. f.node \notin NodesOf(front)
  BY <1>6, <1>7
<1>9. \A w \in Gray(s) : s.index[w] <= s.index[f.node]
  BY <1>1, <1>6, <1>7
<1> QED
  BY <1>3, <1>6, <1>8, <1>9

HasLooked(s, t, x, z) ==
  /\ t \in Searches /\ t.index = s.index /\ t.low = s.low /\ t.stack = s.stack /\ t.components = s.components
  /\ Visited(t) = Visited(s) /\ Stacked(t) = Stacked(s) /\ Gray(t) = Gray(s)
  /\ x \in Gray(s) /\ z \in Files
  /\ \A w \in Files : w # x => Ahead(t, w) = Ahead(s, w)
  /\ Ahead(s, x) = Ahead(t, x) \cup {z}
  /\ InOrder(t) /\ t.work # <<>> /\ Len(t.work) = Len(s.work)
  /\ Last(t.work).next = Tail(Last(s.work).next)
  /\ Len(Last(t.work).next) = Len(Last(s.work).next) - 1 /\ Len(Last(s.work).next) \in Nat

\* Taking the next neighbour off the last frame leaves all but that frame as it was.
LEMMA LookedFacts ==
  ASSUME NEW s \in Searches, Numbered(s), InOrder(s), s.work # <<>>, Last(s.work).next # <<>>,
         NEW t, t = Looked(s)
  PROVE  HasLooked(s, t, Last(s.work).node, Head(Last(s.work).next))
<1> DEFINE front == Front(s.work)
           f == Last(s.work)
           a == Advanced(f)
           w == Append(front, a)
<1>1. LastFrame(s, front, f)
  BY LastFrameFacts
<1> HIDE DEF front, f
<1>2. /\ front \in Seq(Frames) /\ f \in Frames /\ s.work = Append(front, f)
      /\ f.node \in Files /\ f.next \in Seq(Files) /\ Len(front) = Len(s.work) - 1
      /\ Gray(s) = NodesOf(front) \cup {f.node} /\ NodesOf(front) \in SUBSET Files
      /\ \A x : Ahead(s, x) = NextOf(front, x) \cup (IF x = f.node THEN ToSet(f.next) ELSE {})
  BY <1>1 DEF LastFrame
<1>3. /\ Head(f.next) \in Files /\ Tail(f.next) \in Seq(Files) /\ Len(Tail(f.next)) = Len(f.next) - 1
      /\ ToSet(f.next) = {Head(f.next)} \cup ToSet(Tail(f.next)) /\ Len(f.next) \in Nat
  <2>1. f.next # <<>>
    BY DEF f
  <2> QED
    BY <1>2, <2>1, HeadAndTail
<1>4. a \in Frames /\ a.node = f.node /\ a.next = Tail(f.next)
  BY <1>2, <1>3 DEF Advanced, Frames
<1> HIDE DEF a
<1>5. w \in Seq(Frames) /\ w # <<>> /\ Len(w) = Len(s.work) /\ Last(w) = a
  <2>1. Len(front) \in Nat /\ Len(w) = Len(front) + 1 /\ w[Len(front) + 1] = a /\ w \in Seq(Frames)
    BY <1>2, <1>4
  <2>2. Len(s.work) = Len(front) + 1
    BY <1>2
  <2> HIDE DEF w
  <2>3. w # <<>>
    BY <2>1
  <2> QED
    BY <2>1, <2>2, <2>3 DEF Last
<1>6. /\ s.index \in [Files -> Nat \cup {None}] /\ s.low \in [Files -> Nat] /\ s.stack \in Seq(Files)
      /\ s.components \in SUBSET SUBSET Files
  BY SearchesFields
<1>7. t = Made(s.index, s.low, s.stack, s.components, w)
  BY DEF Looked, f, a, front
<1>8. /\ NodesOf(w) = NodesOf(front) \cup {f.node}
      /\ \A x : NextOf(w, x) = NextOf(front, x) \cup (IF x = f.node THEN ToSet(Tail(f.next)) ELSE {})
  BY <1>2, <1>4, FramesAppend
<1>9. Ascends(w, OnFrames(s))
  <2>1. Ascends(front, OnFrames(s)) /\ \A g \in ToSet(front) : OnFrames(s)[g] < OnFrames(s)[f]
    BY <1>2, AscendsAppend DEF InOrder
  <2>2. OnFrames(s)[a] = OnFrames(s)[f]
    BY <1>2, <1>4 DEF OnFrames
  <2> QED
    BY <1>2, <1>4, <2>1, <2>2, AscendsAppend
<1> HIDE DEF w
<1>10. /\ t \in Searches /\ t.index = s.index /\ t.low = s.low /\ t.stack = s.stack
       /\ t.components = s.components /\ t.work = w
  <2> DEFINE i == s.index
             l == s.low
             st == s.stack
             c == s.components
  <2>1. /\ i \in [Files -> Nat \cup {None}] /\ l \in [Files -> Nat] /\ st \in Seq(Files)
        /\ c \in SUBSET SUBSET Files /\ t = Made(i, l, st, c, w)
    BY <1>6, <1>7, Zenon
  <2> HIDE DEF i, l, st, c
  <2>2. w \in Seq(Frames)
    BY <1>5
  <2>3. /\ Made(i, l, st, c, w) \in Searches
        /\ Made(i, l, st, c, w).index = i /\ Made(i, l, st, c, w).low = l /\ Made(i, l, st, c, w).stack = st
        /\ Made(i, l, st, c, w).components = c /\ Made(i, l, st, c, w).work = w
    BY <2>1, <2>2 DEF Made, Searches, Frames
  <2> QED
    BY <2>1, <2>3, Zenon DEF i, l, st, c
<1>11. Visited(t) = Visited(s) /\ Stacked(t) = Stacked(s)
  BY <1>10, Zenon DEF Visited, Stacked
<1>12. Gray(t) = Gray(s) /\ f.node \in Gray(s)
  BY <1>2, <1>8, <1>10 DEF Gray
<1>13. \A x : Ahead(t, x) = NextOf(front, x) \cup (IF x = f.node THEN ToSet(Tail(f.next)) ELSE {})
  BY <1>8, <1>10 DEF Ahead
<1>14. \A x \in Files : x # f.node => Ahead(t, x) = Ahead(s, x)
  BY <1>2, <1>13
<1>15. Ahead(s, f.node) = Ahead(t, f.node) \cup {Head(f.next)}
  BY <1>2, <1>3, <1>13
<1>16. InOrder(t)
  <2>1. OnFrames(t) = OnFrames(s)
    BY <1>10, Zenon DEF OnFrames
  <2> QED
    BY <1>9, <1>10, <2>1, Zenon DEF InOrder
<1>17. t.work # <<>> /\ Len(t.work) = Len(s.work) /\ Last(t.work).next = Tail(f.next)
  BY <1>4, <1>5, <1>10
<1>18. Len(Last(t.work).next) = Len(f.next) - 1
  BY <1>3, <1>17
<1>19. HasLooked(s, t, f.node, Head(f.next))
  BY <1>3, <1>10, <1>11, <1>12, <1>14, <1>15, <1>16, <1>17, <1>18, Zenon DEF HasLooked, f
<1> QED
  BY <1>19 DEF f

\* The search is under way.
At(E, s) == s \in Searches /\ Searching(E, s) /\ InOrder(s)

\* What the last frame has still to look at.
ToLookAt(s) == IF s.work = <<>> THEN 0 ELSE Len(Last(s.work).next)

\* More is visited, or as much and a frame or a neighbour less is left.
Progress(s, t) ==
  \/ Visited(s) \subseteq Visited(t) /\ Visited(s) # Visited(t)
  \/ /\ Visited(t) = Visited(s)
     /\ Len(t.work) < Len(s.work) \/ (Len(t.work) = Len(s.work) /\ ToLookAt(t) < ToLookAt(s))

\* A search with no work left opens a file not seen and keeps all that holds of it.
LEMMA RootKeeps ==
  ASSUME NEW E \in SUBSET Between, NEW s, At(E, s), s.work = <<>>, NEW z \in Files \ Visited(s),
         NEW t, t = Open(E, s, z)
  PROVE  At(E, t) /\ Progress(s, t)
<1>1. s \in Searches /\ Searching(E, s) /\ InOrder(s) /\ Numbered(s)
  BY DEF At, Searching
<1>2. HasOpened(E, s, t, z)
  BY <1>1, OpenFacts
<1>3. InOrder(t)
  BY <1>1, OpenOrders
<1>4. Gray(s) = {}
  <2>1. ToSet(s.work) = {}
    BY DEF ToSet
  <2> QED
    BY <2>1 DEF Gray, NodesOf
<1>5. \A x : Ahead(s, x) = {}
  BY <1>1, <1>4, SearchesFields
<1>6. /\ t \in Searches /\ Visited(t) = Visited(s) \cup {z}
      /\ \A x \in Visited(s) : t.index[x] = s.index[x] /\ t.low[x] = s.low[x]
      /\ t.index[z] = Cardinality(Visited(s)) /\ t.low[z] = Cardinality(Visited(s))
      /\ Cardinality(Visited(t)) = Cardinality(Visited(s)) + 1
      /\ Stacked(t) = Stacked(s) \cup {z} /\ Gray(t) = Gray(s) \cup {z}
      /\ \A x \in Files : Ahead(t, x) = Ahead(s, x) \cup (IF x = z THEN ToSet(Neighbours(E, z)) ELSE {})
      /\ t.components = s.components
  BY <1>2, Zenon DEF HasOpened
<1>7. \A y : y \in Ahead(t, z) <=> <<z, y>> \in E
  <2>1. Ahead(t, z) = ToSet(Neighbours(E, z))
    BY <1>5, <1>6
  <2> QED
    BY <2>1, NeighboursFacts
<1>8. \A e \in E : e = <<e[1], e[2]>>
  BY ReachesFacts
<1>9. Opens(E, s, t, z)
  BY <1>4, <1>5, <1>6, <1>7, <1>8 DEF Opens
<1>10. Searching(E, t)
  BY <1>1, <1>6, <1>9, OpensKeeps
<1> QED
  BY <1>3, <1>6, <1>10 DEF At, Progress

\* Looking at a neighbour not seen opens it.
LEMMA LookOpens ==
  ASSUME NEW E \in SUBSET Between, NEW s, At(E, s), NEW L, NEW x, NEW z, HasLooked(s, L, x, z),
         \A w \in Gray(s) : s.index[w] <= s.index[x],
         z \notin Visited(s), NEW t, t = Open(E, L, z)
  PROVE  At(E, t) /\ Progress(s, t)
<1>1. s \in Searches /\ Searching(E, s) /\ InOrder(s) /\ Numbered(s)
  BY DEF At, Searching
<1>2. /\ L \in Searches /\ L.index = s.index /\ L.low = s.low /\ L.stack = s.stack /\ L.components = s.components
      /\ Visited(L) = Visited(s) /\ Stacked(L) = Stacked(s) /\ Gray(L) = Gray(s)
      /\ x \in Gray(s) /\ z \in Files
      /\ \A w \in Files : w # x => Ahead(L, w) = Ahead(s, w)
      /\ Ahead(s, x) = Ahead(L, x) \cup {z}
      /\ InOrder(L)
  BY Zenon DEF HasLooked
<1>3. Numbered(L)
  BY <1>1, <1>2, Zenon DEF Numbered
<1>4. HasOpened(E, L, t, z)
  BY <1>2, OpenFacts
<1>5. InOrder(t)
  BY <1>2, <1>3, OpenOrders
<1>6. /\ t \in Searches /\ Visited(t) = Visited(L) \cup {z}
      /\ \A y \in Visited(L) : t.index[y] = L.index[y] /\ t.low[y] = L.low[y]
      /\ t.index[z] = Cardinality(Visited(L)) /\ t.low[z] = Cardinality(Visited(L))
      /\ Cardinality(Visited(t)) = Cardinality(Visited(L)) + 1
      /\ Stacked(t) = Stacked(L) \cup {z} /\ Gray(t) = Gray(L) \cup {z}
      /\ \A y \in Files : Ahead(t, y) = Ahead(L, y) \cup (IF y = z THEN ToSet(Neighbours(E, z)) ELSE {})
      /\ t.components = L.components
  BY <1>4, Zenon DEF HasOpened
<1>7. /\ Gray(s) \subseteq Stacked(s) /\ Stacked(s) \subseteq Visited(s) /\ Visited(s) \in SUBSET Files
  BY <1>1, SearchesFacts DEF Numbered
<1>8. \A y : (y \notin Gray(s) => Ahead(s, y) = {}) /\ (y \notin Gray(L) => Ahead(L, y) = {})
  BY <1>1, <1>2, SearchesFields
<1>9. \A y : y \in Ahead(t, z) <=> <<z, y>> \in E
  <2>1. Ahead(t, z) = ToSet(Neighbours(E, z))
    <3>1. z \in Files /\ Ahead(L, z) = {}
      BY <1>2, <1>7, <1>8
    <3>2. Ahead(t, z) = Ahead(L, z) \cup (IF z = z THEN ToSet(Neighbours(E, z)) ELSE {})
      BY <1>6, <3>1, Zenon
    <3> QED
      BY <3>1, <3>2
  <2> QED
    BY <2>1, NeighboursFacts
<1>10. \A e \in E : e = <<e[1], e[2]>> /\ Reaches(E, e[1], e[2])
  BY ReachesFacts
<1>11. ASSUME NEW w \in Gray(s) PROVE Reaches(E, w, z)
  <2>1. <<x, z>> \in E
    BY <1>1, <1>2 DEF Searching, Complete
  <2>2. Reaches(E, x, z)
    BY <1>10, <2>1
  <2>3. Reaches(E, w, x)
    BY <1>1, <1>2, <1>7 DEF Searching, Ways
  <2>4. \A a, b, c \in Files : Reaches(E, a, b) /\ Reaches(E, b, c) => Reaches(E, a, c)
    BY ReachesFacts
  <2> QED
    BY <1>2, <1>7, <2>2, <2>3, <2>4
<1>12. \A w \in Gray(s) : Ahead(t, w) \subseteq Ahead(s, w) /\ Ahead(s, w) \subseteq Ahead(t, w) \cup {z}
  <2> SUFFICES ASSUME NEW w \in Gray(s)
               PROVE  Ahead(t, w) \subseteq Ahead(s, w) /\ Ahead(s, w) \subseteq Ahead(t, w) \cup {z}
    OBVIOUS
  <2>1. w # z /\ w \in Files
    BY <1>7
  <2>2. Ahead(t, w) = Ahead(L, w)
    BY <1>6, <2>1
  <2> QED
    BY <1>2, <2>1, <2>2
<1>13. \A e \in E : e[1] = z => e[2] \in Ahead(t, z)
  BY <1>9, <1>10
<1>14. Opens(E, s, t, z)
  <2>1. z \in Files \ Visited(s) /\ Visited(t) = Visited(s) \cup {z}
    BY <1>2, <1>6
  <2>2. \A y \in Visited(s) : t.index[y] = s.index[y] /\ t.low[y] = s.low[y]
    BY <1>2, <1>6, Zenon
  <2>3. /\ t.index[z] = Cardinality(Visited(s)) /\ t.low[z] = Cardinality(Visited(s))
        /\ Cardinality(Visited(t)) = Cardinality(Visited(s)) + 1
        /\ Stacked(t) = Stacked(s) \cup {z} /\ Gray(t) = Gray(s) \cup {z}
        /\ t.components = s.components
    BY <1>2, <1>6, Zenon
  <2> QED
    BY <1>8, <1>9, <1>11, <1>12, <1>13, <2>1, <2>2, <2>3, Zenon DEF Opens
<1>15. Searching(E, t)
  BY <1>1, <1>6, <1>14, OpensKeeps
<1>16. Progress(s, t)
  BY <1>2, <1>6 DEF Progress
<1> QED
  BY <1>5, <1>6, <1>15, <1>16 DEF At

\* Looking at a neighbour that was seen passes over it.
LEMMA LookPasses ==
  ASSUME NEW E \in SUBSET Between, NEW s, At(E, s), NEW L, NEW x, NEW z, HasLooked(s, L, x, z),
         s.work # <<>>, x = Last(s.work).node,
         z \in Visited(s), NEW t,
         t = IF OnStack(L, z) THEN [L EXCEPT !.low = Lower(@, x, s.index[z])] ELSE L
  PROVE  At(E, t) /\ Progress(s, t)
<1>1. s \in Searches /\ Searching(E, s) /\ InOrder(s) /\ Numbered(s)
  BY DEF At, Searching
<1>2. /\ L \in Searches /\ L.index = s.index /\ L.low = s.low /\ L.stack = s.stack /\ L.components = s.components
      /\ Visited(L) = Visited(s) /\ Stacked(L) = Stacked(s) /\ Gray(L) = Gray(s)
      /\ x \in Gray(s) /\ z \in Files
      /\ \A w \in Files : w # x => Ahead(L, w) = Ahead(s, w)
      /\ Ahead(s, x) = Ahead(L, x) \cup {z}
      /\ InOrder(L) /\ L.work # <<>> /\ Len(L.work) = Len(s.work)
      /\ Len(Last(L.work).next) = Len(Last(s.work).next) - 1 /\ Len(Last(s.work).next) \in Nat
  BY Zenon DEF HasLooked
<1>3. /\ Visited(s) \in SUBSET Files /\ \A y \in Visited(s) : s.index[y] \in Nat /\ \A w \in Files : s.low[w] \in Nat
  BY <1>1, SearchesFacts
<1>4. x \in Files /\ s.index[z] \in Nat /\ s.low[x] \in Nat
  BY <1>1, <1>2, <1>3, SearchesFields
<1>5. OnStack(L, z) <=> z \in Stacked(s)
  BY <1>2, Zenon DEF OnStack, Stacked
<1>6. /\ L.index \in [Files -> Nat \cup {None}] /\ L.low \in [Files -> Nat] /\ L.stack \in Seq(Files)
      /\ L.components \in SUBSET SUBSET Files /\ L.work \in Seq(Frames)
  BY <1>2, SearchesFields
<1> DEFINE low == IF z \in Stacked(s) THEN Lower(L.low, x, s.index[z]) ELSE L.low
<1>7. /\ low \in [Files -> Nat] /\ \A w \in Files : w # x => low[w] = s.low[w]
      /\ low[x] = IF z \in Stacked(s) THEN Least(s.low[x], s.index[z]) ELSE s.low[x]
  BY <1>2, <1>4, <1>6 DEF Lower, Least
<1> HIDE DEF low
<1>8. t = Made(L.index, low, L.stack, L.components, L.work)
  <2>1. CASE z \in Stacked(s)
    <3>1. low = Lower(L.low, x, s.index[z])
      BY <2>1 DEF low
    <3>2. t = [L EXCEPT !.low = Lower(L.low, x, s.index[z])]
      BY <1>5, <2>1
    <3> QED
      BY <1>2, <3>1, <3>2, MadeOf, Zenon
  <2>2. CASE z \notin Stacked(s)
    <3>1. low = L.low /\ t = L
      BY <1>5, <2>2 DEF low
    <3>2. L = Made(L.index, L.low, L.stack, L.components, L.work)
      BY <1>2 DEF Searches, Made
    <3> QED
      BY <3>1, <3>2, Zenon
  <2> QED
    BY <2>1, <2>2
<1>9. /\ t \in Searches /\ t.index = L.index /\ t.low = low /\ t.stack = L.stack
      /\ t.components = L.components /\ t.work = L.work
  <2> DEFINE i == L.index
             st == L.stack
             c == L.components
             w == L.work
  <2>1. i \in [Files -> Nat \cup {None}] /\ st \in Seq(Files) /\ c \in SUBSET SUBSET Files /\ w \in Seq(Frames)
    BY <1>6, Zenon
  <2> HIDE DEF i, st, c, w
  <2>2. /\ Made(i, low, st, c, w) \in Searches
        /\ Made(i, low, st, c, w).index = i /\ Made(i, low, st, c, w).low = low /\ Made(i, low, st, c, w).stack = st
        /\ Made(i, low, st, c, w).components = c /\ Made(i, low, st, c, w).work = w
    BY <1>7, <2>1 DEF Made, Searches, Frames
  <2> QED
    BY <1>8, <2>2, Zenon DEF i, st, c, w
<1>10. Visited(t) = Visited(s) /\ Stacked(t) = Stacked(s) /\ Gray(t) = Gray(s) /\ \A w : Ahead(t, w) = Ahead(L, w)
  BY <1>2, <1>9, Zenon DEF Visited, Stacked, Gray, Ahead
<1>11. InOrder(t)
  <2>1. t.index = L.index
    BY <1>9
  <2>2. OnFrames(t) = OnFrames(L)
    BY <2>1 DEF OnFrames
  <2> QED
    BY <1>2, <1>9, <2>2, Zenon DEF InOrder
<1>12. <<x, z>> \in E
  BY <1>1, <1>2 DEF Searching, Complete
<1>13. Passes(E, s, t, x, z)
  <2>1. \A w \in Files : w # x => t.low[w] = s.low[w] /\ Ahead(t, w) = Ahead(s, w)
    BY <1>2, <1>7, <1>9, <1>10
  <2>2. t.low[x] = IF z \in Stacked(s) THEN Least(s.low[x], s.index[z]) ELSE s.low[x]
    BY <1>7, <1>9
  <2>3. Ahead(s, x) = Ahead(t, x) \cup {z} /\ t.components = s.components /\ t.index = s.index
    BY <1>2, <1>9, <1>10
  <2> QED
    BY <1>2, <1>10, <1>12, <2>1, <2>2, <2>3, Zenon DEF Passes
<1>14. Searching(E, t)
  BY <1>1, <1>9, <1>13, PassesKeeps
<1>15. Progress(s, t)
  <2>1. ToLookAt(t) = Len(Last(L.work).next) /\ ToLookAt(s) = Len(Last(s.work).next)
    BY <1>2, <1>9, Zenon DEF ToLookAt
  <2>2. ToLookAt(t) < ToLookAt(s) /\ Len(t.work) = Len(s.work)
    BY <1>2, <1>9, <2>1
  <2> QED
    BY <1>10, <2>2 DEF Progress
<1> QED
  BY <1>9, <1>11, <1>14, <1>15 DEF At

\* Looking at a neighbour keeps what holds of the search, and is progress.
LEMMA LookKeeps ==
  ASSUME NEW E \in SUBSET Between, NEW s, At(E, s), s.work # <<>>, Last(s.work).next # <<>>
  PROVE  At(E, Look(E, s)) /\ Progress(s, Look(E, s))
<1>1. s \in Searches /\ Numbered(s) /\ InOrder(s)
  BY DEF At, Searching
<1> DEFINE f == Last(s.work)
           x == f.node
           z == Head(f.next)
           L == Looked(s)
           t == Look(E, s)
<1>2. HasLooked(s, L, x, z)
  BY <1>1, LookedFacts
<1>3. \A w \in Gray(s) : s.index[w] <= s.index[x]
  <2>1. LastFrame(s, Front(s.work), f)
    BY <1>1, LastFrameFacts
  <2> HIDE DEF f
  <2> QED
    BY <1>1, <2>1, LastFrameIsLast
<1>4. L = [s EXCEPT !.work = Append(Front(@), [f EXCEPT !.next = Tail(@)])]
  <2>1. [f EXCEPT !.next = Tail(@)] = Advanced(f)
    <3>1. f \in Frames
      BY <1>1, LastFrameFacts DEF LastFrame
    <3> HIDE DEF f
    <3>2. f = [node |-> f.node, next |-> f.next]
      BY <3>1 DEF Frames
    <3> DEFINE g == [f EXCEPT !.next = Tail(@)]
               rest == Tail(f.next)
    <3>3. g = [f EXCEPT !.next = rest]
      BY Zenon
    <3>4. Advanced(f) = [node |-> f.node, next |-> rest]
      BY Zenon DEF Advanced
    <3> HIDE DEF g, rest
    <3>5. g = [node |-> f.node, next |-> rest]
      BY <3>2, <3>3
    <3> QED
      BY <3>4, <3>5, Zenon DEF g
  <2> HIDE DEF f
  <2>2. [s EXCEPT !.work = Append(Front(@), Advanced(f))] =
          Made(s.index, s.low, s.stack, s.components, Append(Front(s.work), Advanced(f)))
    BY <1>1, MadeOf
  <2> QED
    BY <2>1, <2>2 DEF Looked, f
<1>5. t = IF s.index[z] = None THEN Open(E, L, z)
          ELSE IF OnStack(s, z) THEN [L EXCEPT !.low = Lower(@, x, s.index[z])] ELSE L
  BY <1>4, Zenon DEF Look
<1>6. z \in Files /\ (OnStack(L, z) <=> OnStack(s, z))
  BY <1>2, Zenon DEF HasLooked, OnStack
<1>7. z \in Visited(s) <=> s.index[z] # None
  BY <1>6, Zenon DEF Visited
<1> HIDE DEF f, L, t, z
<1>8. CASE z \notin Visited(s)
  <2>1. t = Open(E, L, z)
    BY <1>5, <1>7, <1>8
  <2>2. At(E, t) /\ Progress(s, t)
    BY <1>2, <1>3, <1>8, <2>1, LookOpens
  <2> QED
    BY <2>2 DEF t
<1>9. CASE z \in Visited(s)
  <2>1. t = IF OnStack(L, z) THEN [L EXCEPT !.low = Lower(@, x, s.index[z])] ELSE L
    BY <1>5, <1>6, <1>7, <1>9, Zenon
  <2> DEFINE y == f.node
  <2>2. y = Last(s.work).node
    BY DEF f
  <2>3. HasLooked(s, L, y, z) /\ t = IF OnStack(L, z) THEN [L EXCEPT !.low = Lower(@, y, s.index[z])] ELSE L
    BY <1>2, <2>1
  <2> HIDE DEF y
  <2>4. At(E, t) /\ Progress(s, t)
    BY <1>9, <2>2, <2>3, LookPasses
  <2> QED
    BY <2>4 DEF t
<1> QED
  BY <1>8, <1>9

\* The lows when the last frame is left, and the search without it.
LowsAfter(s) ==
  IF Front(s.work) = <<>> THEN s.low
  ELSE Lower(s.low, Last(Front(s.work)).node, s.low[Last(s.work).node])
Returned(s) == Made(s.index, LowsAfter(s), s.stack, s.components, Front(s.work))

\* The same for the update of the work list and of `low` together.
LEMMA MadeOfBoth ==
  ASSUME NEW s \in Searches, NEW w, NEW l
  PROVE  [s EXCEPT !.work = w, !.low = l] = Made(s.index, l, s.stack, s.components, w)
<1>1. s = Made(s.index, s.low, s.stack, s.components, s.work)
  BY DEF Searches, Made
<1> DEFINE a == s.index
           b == s.low
           d == s.stack
           e == s.components
           f == s.work
<1>2. s = Made(a, b, d, e, f)
  BY <1>1
<1> HIDE DEF a, b, d, e, f
<1>3. [s EXCEPT !.work = w] = Made(a, b, d, e, w)
  BY <1>2 DEF Made
<1>4. [s EXCEPT !.work = w, !.low = l] = [Made(a, b, d, e, w) EXCEPT !.low = l]
  BY <1>3
<1>5. [s EXCEPT !.work = w, !.low = l] = Made(a, l, d, e, w)
  BY <1>4 DEF Made
<1> QED
  BY <1>5 DEF a, d, e

HasReturned(s, u, x) ==
  /\ u \in Searches /\ u.index = s.index /\ u.stack = s.stack /\ u.components = s.components
  /\ x \in Gray(s) /\ Returns(s, u, x) /\ InOrder(u) /\ Len(u.work) < Len(s.work)

\* Returning from a file takes its frame off and lowers the `low` of the file before it.
LEMMA ReturnedFacts ==
  ASSUME NEW s \in Searches, Numbered(s), InOrder(s), s.work # <<>>, Last(s.work).next = <<>>,
         NEW u, u = Returned(s)
  PROVE  HasReturned(s, u, Last(s.work).node)
<1> DEFINE front == Front(s.work)
           f == Last(s.work)
           x == f.node
           low == LowsAfter(s)
<1>1. LastFrame(s, front, f)
  BY LastFrameFacts
<1>2. f.next = <<>>
  OBVIOUS
<1>3. low = IF front = <<>> THEN s.low ELSE Lower(s.low, Last(front).node, s.low[x])
  BY Zenon DEF LowsAfter
<1>4. u = Made(s.index, low, s.stack, s.components, front)
  BY Zenon DEF Returned
<1> HIDE DEF front, f, low
<1>5. /\ front \in Seq(Frames) /\ x \in Files /\ Len(front) = Len(s.work) - 1 /\ s.work = Append(front, f)
      /\ Gray(s) = NodesOf(front) \cup {x} /\ NodesOf(front) \in SUBSET Files
      /\ \A w : Ahead(s, w) = NextOf(front, w) \cup (IF w = x THEN ToSet(f.next) ELSE {})
  BY <1>1, Zenon DEF LastFrame
<1>6. /\ \A w \in NodesOf(front) : s.index[w] < s.index[x]
      /\ x \notin NodesOf(front) /\ \A w \in Gray(s) : s.index[w] <= s.index[x]
      /\ Ascends(front, OnFrames(s))
  BY <1>1, LastFrameIsLast
<1>7. ToSet(f.next) = {} /\ NextOf(front, x) = {}
  BY <1>2, <1>5, <1>6, FramesFacts DEF ToSet
<1>8. \A w : Ahead(s, w) = NextOf(front, w)
  BY <1>5, <1>7
<1>9. /\ s.index \in [Files -> Nat \cup {None}] /\ s.low \in [Files -> Nat] /\ s.stack \in Seq(Files)
      /\ s.components \in SUBSET SUBSET Files /\ s.work \in Seq(Frames)
  BY SearchesFields
<1>10. front # <<>> => Last(front) \in Frames /\ Last(front).node \in Files
  <2>1. front # <<>> => Last(front) \in Frames
    BY <1>5, FrontAndLast
  <2>2. \A g \in Frames : g.node \in Files
    BY DEF Frames
  <2> QED
    BY <2>1, <2>2
<1>11. low \in [Files -> Nat]
  <2>1. \A n \in Files, v \in Nat : Lower(s.low, n, v) \in [Files -> Nat]
    BY <1>9 DEF Lower, Least
  <2>2. s.low[x] \in Nat
    BY <1>5, <1>9
  <2> QED
    BY <1>3, <1>9, <1>10, <2>1, <2>2
<1>12. /\ u \in Searches /\ u.index = s.index /\ u.low = low /\ u.stack = s.stack
       /\ u.components = s.components /\ u.work = front
  <2> DEFINE i == s.index
             st == s.stack
             c == s.components
  <2>1. i \in [Files -> Nat \cup {None}] /\ st \in Seq(Files) /\ c \in SUBSET SUBSET Files
    BY <1>9, Zenon
  <2> HIDE DEF i, st, c
  <2>2. /\ Made(i, low, st, c, front) \in Searches
        /\ Made(i, low, st, c, front).index = i /\ Made(i, low, st, c, front).low = low
        /\ Made(i, low, st, c, front).stack = st
        /\ Made(i, low, st, c, front).components = c /\ Made(i, low, st, c, front).work = front
    BY <1>5, <1>11, <2>1 DEF Made, Searches, Frames
  <2> QED
    BY <1>4, <2>2, Zenon DEF i, st, c
<1>13. Visited(u) = Visited(s) /\ Stacked(u) = Stacked(s)
  BY <1>12, Zenon DEF Visited, Stacked
<1>14. Gray(u) = Gray(s) \ {x} /\ Gray(u) = NodesOf(front)
  BY <1>5, <1>6, <1>12 DEF Gray
<1>15. \A w : Ahead(u, w) = Ahead(s, w)
  BY <1>8, <1>12 DEF Ahead
<1>16. Ahead(s, x) = {}
  BY <1>7, <1>8
<1>17. InOrder(u)
  <2>1. u.index = s.index /\ u.stack = s.stack /\ u.work = front
    BY <1>12
  <2>2. OnFrames(u) = OnFrames(s)
    BY <2>1 DEF OnFrames
  <2> QED
    BY <1>6, <2>1, <2>2, Zenon DEF InOrder
<1>18. ASSUME NEW w \in Gray(u)
       PROVE  u.low[w] = IF \A v \in Gray(u) : s.index[v] <= s.index[w] THEN Least(s.low[w], s.low[x]) ELSE s.low[w]
  <2>1. front # <<>>
    <3>1. ASSUME front = <<>> PROVE NodesOf(front) = {}
      <4>1. ToSet(front) = {}
        BY <3>1 DEF ToSet
      <4> QED
        BY <4>1 DEF NodesOf
    <3> QED
      BY <1>14, <1>18, <3>1
  <2> DEFINE g == Last(front)
             p == g.node
  <2>2. LastFrame(u, Front(front), g)
    BY <1>12, <2>1, LastFrameFacts
  <2>3. Numbered(u)
    <3>1. /\ \A y \in Visited(s) : s.index[y] < Cardinality(Visited(s))
          /\ \A y, z \in Visited(s) : s.index[y] = s.index[z] => y = z
          /\ Gray(s) \subseteq Stacked(s) /\ Stacked(s) \subseteq Visited(s)
      BY DEF Numbered
    <3>2. u.index = s.index /\ Gray(u) \subseteq Stacked(u)
      BY <1>12, <1>13, <1>14, <3>1
    <3> QED
      BY <1>13, <3>1, <3>2, Zenon DEF Numbered
  <2> HIDE DEF g
  <2>4. /\ \A v \in NodesOf(Front(front)) : u.index[v] < u.index[p] /\ v \in Files
        /\ \A v \in Gray(u) : u.index[v] <= u.index[p]
        /\ Gray(u) = NodesOf(Front(front)) \cup {p}
    BY <1>12, <1>17, <2>2, <2>3, LastFrameIsLast DEF LastFrame
  <2>5. Lower(s.low, p, s.low[x])[w] = IF w = p THEN Least(s.low[w], s.low[x]) ELSE s.low[w]
    <3>1. w \in Files /\ p \in Files
      BY <1>5, <1>14, <2>4
    <3> QED
      BY <1>9, <3>1 DEF Lower
  <2>6. u.low = Lower(s.low, p, s.low[x])
    BY <1>3, <1>12, <2>1 DEF g
  <2>7. (\A v \in Gray(u) : s.index[v] <= s.index[w]) <=> w = p
    <3>1. \A v \in Gray(u) : s.index[v] \in Nat
      BY <1>14, SearchesFacts DEF Numbered
    <3> QED
      BY <1>12, <2>4, <3>1
  <2> QED
    BY <2>5, <2>6, <2>7
<1>19. Returns(s, u, x)
  BY <1>5, <1>6, <1>12, <1>13, <1>14, <1>15, <1>16, <1>18, Zenon DEF Returns
<1>20. Len(u.work) < Len(s.work)
  BY <1>5, <1>9, <1>12
<1>21. x \in Gray(s)
  BY <1>5
<1>22. HasReturned(s, u, x)
  BY <1>12, <1>17, <1>19, <1>20, <1>21, Zenon DEF HasReturned
<1> QED
  BY <1>22 DEF f

\* Returning depends on the indexes, the lows and the frames only.
LEMMA ReturnsAlike ==
  ASSUME NEW s, NEW u, NEW x, Returns(s, u, x), NEW t, t.index = u.index, t.low = u.low, t.work = u.work
  PROVE  Returns(s, t, x) /\ Visited(t) = Visited(u)
<1>1. Visited(t) = Visited(u) /\ Gray(t) = Gray(u) /\ \A w : Ahead(t, w) = Ahead(u, w)
  BY Zenon DEF Visited, Gray, Ahead
<1> QED
  BY <1>1, Zenon DEF Returns

\* Leaving a file with no neighbour left keeps what holds of the search, and is progress.
LEMMA LeaveKeeps ==
  ASSUME NEW E \in SUBSET Between, NEW s, At(E, s), s.work # <<>>, Last(s.work).next = <<>>
  PROVE  At(E, Leave(s)) /\ Progress(s, Leave(s))
<1>1. s \in Searches /\ Searching(E, s) /\ Numbered(s) /\ InOrder(s)
  BY DEF At, Searching
<1> DEFINE x == Last(s.work).node
           u == Returned(s)
           t == Leave(s)
<1>2. HasReturned(s, u, x)
  BY <1>1, ReturnedFacts
<1>3. u = [s EXCEPT !.work = Front(s.work),
                    !.low = IF Front(s.work) = <<>> THEN @ ELSE Lower(@, Last(Front(s.work)).node, @[x])]
  <2>1. [s EXCEPT !.work = Front(s.work), !.low = LowsAfter(s)] = u
    <3> DEFINE w == Front(s.work)
               l == LowsAfter(s)
    <3>1. u = Made(s.index, l, s.stack, s.components, w)
      BY Zenon DEF Returned
    <3> HIDE DEF w, l, u
    <3>2. [s EXCEPT !.work = w, !.low = l] = Made(s.index, l, s.stack, s.components, w)
      BY <1>1, MadeOfBoth
    <3> QED
      BY <3>1, <3>2, Zenon DEF w, l
  <2> QED
    BY <2>1, Zenon DEF LowsAfter
<1>4. t = IF s.low[x] = s.index[x] THEN Close(u, x) ELSE u
  BY <1>3, Zenon DEF Leave
<1> HIDE DEF x, u, t
<1>5. /\ u \in Searches /\ u.index = s.index /\ u.stack = s.stack /\ u.components = s.components
      /\ x \in Gray(s) /\ Returns(s, u, x) /\ InOrder(u) /\ Len(u.work) < Len(s.work)
  BY <1>2, Zenon DEF HasReturned
<1>6. Visited(u) = Visited(s) /\ Stacked(u) = Stacked(s)
  BY <1>5, Zenon DEF Visited, Stacked
<1>7. CASE s.low[x] # s.index[x]
  <2>1. t = u
    BY <1>4, <1>7
  <2>2. Keeps(s, u, x)
    BY <1>5, <1>6, <1>7 DEF Keeps
  <2>3. Searching(E, u)
    BY <1>1, <1>5, <2>2, KeepsKeeps
  <2>4. At(E, u) /\ Progress(s, u)
    BY <1>5, <1>6, <2>3 DEF At, Progress
  <2> QED
    BY <2>1, <2>4 DEF t
<1>8. CASE s.low[x] = s.index[x]
  <2> DEFINE list == u.stack
             below == Under(list, x)
             above == {list[n] : n \in DOMAIN list \ below}
             st == SubSeq(list, 1, Cardinality(below))
             c == IF Cardinality(above) > 1 THEN u.components \cup {above} ELSE u.components
             key == s.index
  <2>1. t = Made(u.index, u.low, st, c, u.work)
    <3>1. [u EXCEPT !.stack = st, !.components = c] = Made(u.index, u.low, st, c, u.work)
      <4> HIDE DEF st, c
      <4> QED
        BY <1>5, MadeOf
    <3>2. Close(u, x) = [u EXCEPT !.stack = st, !.components = c]
      BY Zenon DEF Close, Under
    <3> QED
      BY <1>4, <1>8, <3>1, <3>2, Zenon
  <2>2. /\ list \in Seq(Files) /\ ToSet(list) = Stacked(s) /\ x \in ToSet(list)
        /\ \A y \in ToSet(list) : key[y] \in Nat
        /\ Ascends(list, key)
    <3>1. list \in Seq(Files) /\ ToSet(list) = Stacked(s) /\ Ascends(list, key)
      BY <1>5, <1>6, SearchesFields DEF Stacked, InOrder
    <3>2. x \in ToSet(list) /\ \A y \in ToSet(list) : key[y] \in Nat
      BY <1>1, <1>5, <3>1, SearchesFacts DEF Numbered
    <3> QED
      BY <3>1, <3>2, Zenon
  <2> HIDE DEF list, key
  <2>3. /\ st \in Seq(Files) /\ Ascends(st, key)
        /\ ToSet(st) = {y \in ToSet(list) : key[y] < key[x]}
        /\ above = {y \in ToSet(list) : key[x] <= key[y]}
    BY <2>2, CutBefore
  <2> HIDE DEF below, st
  <2>4. above = Above(s, x)
    BY <2>2, <2>3 DEF Above, key
  <2>5. c = IF Cardinality(Above(s, x)) > 1 THEN s.components \cup {Above(s, x)} ELSE s.components
    BY <1>5, <2>4
  <2> HIDE DEF above
  <2>6. c \in SUBSET SUBSET Files
    <3>1. Above(s, x) \in SUBSET Files /\ s.components \in SUBSET SUBSET Files
      BY <1>1, SearchesFields DEF Above
    <3> QED
      BY <2>5, <3>1
  <2> HIDE DEF c
  <2>7. /\ t \in Searches /\ t.index = u.index /\ t.low = u.low /\ t.stack = st
        /\ t.components = c /\ t.work = u.work
    <3> DEFINE i == u.index
               l == u.low
               w == u.work
    <3>1. i \in [Files -> Nat \cup {None}] /\ l \in [Files -> Nat] /\ w \in Seq(Frames)
      BY <1>5, SearchesFields
    <3> HIDE DEF i, l, w
    <3>2. /\ Made(i, l, st, c, w) \in Searches
          /\ Made(i, l, st, c, w).index = i /\ Made(i, l, st, c, w).low = l /\ Made(i, l, st, c, w).stack = st
          /\ Made(i, l, st, c, w).components = c /\ Made(i, l, st, c, w).work = w
      BY <2>3, <2>6, <3>1 DEF Made, Searches, Frames
    <3> QED
      BY <2>1, <3>2, Zenon DEF i, l, w
  <2>8. Returns(s, t, x) /\ Visited(t) = Visited(s)
    BY <1>5, <1>6, <2>7, ReturnsAlike
  <2>9. Closes(s, t, x)
    <3>1. Stacked(t) = {y \in Stacked(s) : s.index[y] < s.index[x]}
      BY <2>2, <2>3, <2>7 DEF Stacked, key
    <3> QED
      BY <1>8, <2>5, <2>7, <3>1, Zenon DEF Closes
  <2>10. Searching(E, t)
    BY <1>1, <2>7, <2>8, <2>9, ClosesKeeps
  <2>11. InOrder(t)
    <3>1. t.index = u.index /\ t.work = u.work /\ u.index = s.index /\ t.stack = st
      BY <1>5, <2>7
    <3>2. OnFrames(t) = OnFrames(u)
      BY <3>1 DEF OnFrames
    <3>3. Ascends(t.work, OnFrames(t))
      BY <1>5, <3>1, <3>2, Zenon DEF InOrder
    <3>4. Ascends(t.stack, t.index)
      BY <2>3, <3>1 DEF key
    <3> QED
      BY <3>3, <3>4, Zenon DEF InOrder
  <2>12. Progress(s, t)
    BY <1>5, <2>7, <2>8 DEF Progress
  <2>13. At(E, t)
    BY <2>7, <2>10, <2>11, Zenon DEF At
  <2> QED
    BY <2>12, <2>13 DEF t
<1> QED
  BY <1>7, <1>8

-----------------------------------------------------------------------------
\* The steps of Tarjan's search stay among the searches.

\* Opening a file gives a search.
LEMMA OpenType ==
  ASSUME NEW E \in SUBSET Between, NEW s \in Searches, NEW z \in Files
  PROVE  Open(E, s, z) \in Searches
<1> DEFINE i == [s.index EXCEPT ![z] = Cardinality(Visited(s))]
           l == [s.low EXCEPT ![z] = Cardinality(Visited(s))]
           st == Append(s.stack, z)
           c == s.components
           f == [node |-> z, next |-> Neighbours(E, z)]
           w == Append(s.work, f)
<1>1. /\ s.index \in [Files -> Nat \cup {None}] /\ s.low \in [Files -> Nat] /\ s.stack \in Seq(Files)
      /\ c \in SUBSET SUBSET Files /\ s.work \in Seq(Frames)
  BY SearchesFields
<1>2. Cardinality(Visited(s)) \in Nat
  BY SearchesFacts
<1>3. i \in [Files -> Nat \cup {None}] /\ l \in [Files -> Nat] /\ st \in Seq(Files)
  BY <1>1, <1>2
<1>4. f \in Frames
  BY NeighboursFacts DEF Frames
<1>5. w \in Seq(Frames)
  BY <1>1, <1>4
<1>6. Open(E, s, z) = Made(i, l, st, c, w)
  BY Zenon DEF Open, Made
<1> HIDE DEF i, l, st, w
<1>7. Made(i, l, st, c, w) \in Searches
  <2>1. c \in SUBSET SUBSET Files
    BY <1>1
  <2> HIDE DEF c
  <2> QED
    BY <1>3, <1>5, <2>1 DEF Made, Searches, Frames
<1> QED
  BY <1>6, <1>7, Zenon

\* Lowering one `low` gives a function to numbers.
LEMMA LowerType ==
  ASSUME NEW low \in [Files -> Nat], NEW z \in Files, NEW v \in Nat
  PROVE  Lower(low, z, v) \in [Files -> Nat]
  BY DEF Lower, Least

\* Looking at a neighbour gives a search.
LEMMA LookType ==
  ASSUME NEW E \in SUBSET Between, NEW s \in Searches, s.work # <<>>, Last(s.work).next # <<>>
  PROVE  Look(E, s) \in Searches
<1> DEFINE front == Front(s.work)
           f == Last(s.work)
           z == Head(f.next)
           w == Append(front, [f EXCEPT !.next = Tail(@)])
           L == [s EXCEPT !.work = Append(Front(@), [f EXCEPT !.next = Tail(@)])]
           i == s.index
           st == s.stack
           c == s.components
<1>1. /\ i \in [Files -> Nat \cup {None}] /\ s.low \in [Files -> Nat] /\ st \in Seq(Files)
      /\ c \in SUBSET SUBSET Files /\ s.work \in Seq(Frames)
  BY SearchesFields
<1>2. front \in Seq(Frames) /\ f \in Frames
  BY <1>1, FrontAndLast
<1>3. f.node \in Files /\ f.next \in Seq(Files) /\ z \in Files /\ Tail(f.next) \in Seq(Files)
  <2> HIDE DEF f
  <2>1. f.node \in Files /\ f.next \in Seq(Files)
    BY <1>2 DEF Frames
  <2>2. f.next # <<>>
    BY DEF f
  <2> QED
    BY <2>1, <2>2
<1>4. [f EXCEPT !.next = Tail(@)] \in Frames
  <2> DEFINE rest == Tail(f.next)
             g == [f EXCEPT !.next = Tail(@)]
  <2>1. g = [f EXCEPT !.next = rest]
    BY Zenon
  <2>2. rest \in Seq(Files)
    BY <1>3
  <2> HIDE DEF f, rest, g
  <2>3. g \in Frames
    BY <1>2, <2>1, <2>2 DEF Frames
  <2> QED
    BY <2>3 DEF g
<1>5. w \in Seq(Frames)
  BY <1>2, <1>4
<1>6. L = Made(i, s.low, st, c, w)
  <2>1. L = [s EXCEPT !.work = w]
    BY Zenon
  <2> HIDE DEF w, L
  <2>2. [s EXCEPT !.work = w] = Made(i, s.low, st, c, w)
    BY MadeOf
  <2> QED
    BY <2>1, <2>2, Zenon
<1>7. Look(E, s) = IF s.index[z] = None THEN Open(E, L, z)
                   ELSE IF OnStack(s, z) THEN [L EXCEPT !.low = Lower(@, f.node, s.index[z])] ELSE L
  BY Zenon DEF Look
<1> HIDE DEF front, f, z, w, L, i, st, c
<1>8. L \in Searches /\ L.index = i /\ L.low = s.low /\ L.stack = st /\ L.components = c /\ L.work = w
  <2> DEFINE l == s.low
  <2>1. l \in [Files -> Nat] /\ L = Made(i, l, st, c, w)
    BY <1>1, <1>6
  <2> HIDE DEF l
  <2>2. /\ Made(i, l, st, c, w) \in Searches /\ Made(i, l, st, c, w).index = i /\ Made(i, l, st, c, w).low = l
        /\ Made(i, l, st, c, w).stack = st /\ Made(i, l, st, c, w).components = c /\ Made(i, l, st, c, w).work = w
    <3>1. /\ i \in [Files -> Nat \cup {None}] /\ st \in Seq(Files) /\ c \in SUBSET SUBSET Files
          /\ w \in Seq(Frames)
      BY <1>1, <1>5
    <3> QED
      BY <2>1, <3>1 DEF Made, Searches, Frames
  <2> QED
    BY <2>1, <2>2, Zenon DEF l
<1>9. CASE s.index[z] = None
  BY <1>3, <1>7, <1>8, <1>9, OpenType
<1>10. CASE s.index[z] # None
  <2> DEFINE n == f.node
             low == Lower(L.low, n, s.index[z])
  <2>1. s.index[z] \in Nat /\ L.low \in [Files -> Nat] /\ n \in Files
    BY <1>1, <1>3, <1>8, <1>10 DEF i
  <2>2. low \in [Files -> Nat]
    BY <2>1, LowerType
  <2>3. Look(E, s) = IF OnStack(s, z) THEN [L EXCEPT !.low = low] ELSE L
    BY <1>7, <1>10, Zenon
  <2> HIDE DEF low
  <2>4. [L EXCEPT !.low = low] = Made(i, low, st, c, w)
    <3>1. [L EXCEPT !.low = low] = Made(L.index, low, L.stack, L.components, L.work)
      BY <1>8, MadeOf, Zenon
    <3> QED
      BY <1>8, <3>1, Zenon
  <2>5. Made(i, low, st, c, w) \in Searches
    BY <1>1, <1>5, <2>2 DEF Made, Searches, Frames
  <2> QED
    BY <1>8, <2>3, <2>4, <2>5, Zenon
<1> QED
  BY <1>9, <1>10

\* Leaving a file gives a search.
LEMMA LeaveType ==
  ASSUME NEW s \in Searches, s.work # <<>>
  PROVE  Leave(s) \in Searches
<1> DEFINE front == Front(s.work)
           f == Last(s.work)
           x == f.node
           low == LowsAfter(s)
           u == [s EXCEPT !.work = front, !.low = IF front = <<>> THEN @ ELSE Lower(@, Last(front).node, @[x])]
           i == s.index
           st == s.stack
           c == s.components
<1>1. /\ i \in [Files -> Nat \cup {None}] /\ s.low \in [Files -> Nat] /\ st \in Seq(Files)
      /\ c \in SUBSET SUBSET Files /\ s.work \in Seq(Frames)
  BY SearchesFields
<1>2. front \in Seq(Frames) /\ f \in Frames
  BY <1>1, FrontAndLast
<1>3. \A g \in Frames : g.node \in Files
  BY DEF Frames
<1>4. low = IF front = <<>> THEN s.low ELSE Lower(s.low, Last(front).node, s.low[x])
  BY Zenon DEF LowsAfter
<1>5. u = Made(i, low, st, c, front)
  <2>1. u = [s EXCEPT !.work = front, !.low = low]
    BY Zenon DEF LowsAfter
  <2> HIDE DEF u, front, low
  <2> QED
    BY <2>1, MadeOfBoth
<1>6. Leave(s) = IF s.low[x] = s.index[x] THEN Close(u, x) ELSE u
  BY Zenon DEF Leave
<1> HIDE DEF front, f, low, u, i, st, c
<1>7. low \in [Files -> Nat]
  <2>1. x \in Files /\ s.low[x] \in Nat
    BY <1>1, <1>2, <1>3
  <2>2. CASE front # <<>>
    <3>1. Last(front).node \in Files
      BY <1>2, <1>3, <2>2, FrontAndLast
    <3> QED
      BY <1>1, <1>4, <2>1, <2>2, <3>1, LowerType
  <2> QED
    BY <1>1, <1>4, <2>2
<1>8. u \in Searches /\ u.index = i /\ u.low = low /\ u.stack = st /\ u.components = c /\ u.work = front
  <2>1. /\ Made(i, low, st, c, front) \in Searches /\ Made(i, low, st, c, front).index = i /\ Made(i, low, st, c, front).low = low
        /\ Made(i, low, st, c, front).stack = st /\ Made(i, low, st, c, front).components = c /\ Made(i, low, st, c, front).work = front
    BY <1>1, <1>2, <1>7 DEF Made, Searches, Frames
  <2> QED
    BY <1>5, <2>1, Zenon
<1>9. Close(u, x) \in Searches
  <2> DEFINE below == Under(u.stack, x)
             above == {u.stack[n] : n \in DOMAIN u.stack \ below}
             cut == SubSeq(u.stack, 1, Cardinality(below))
             more == IF Cardinality(above) > 1 THEN u.components \cup {above} ELSE u.components
  <2>1. Close(u, x) = [u EXCEPT !.stack = cut, !.components = more]
    BY Zenon DEF Close, Under
  <2>2. above \in SUBSET Files
    BY <1>1, <1>8
  <2>3. more \in SUBSET SUBSET Files
    <3> HIDE DEF above
    <3> QED
      BY <1>1, <1>8, <2>2
  <2>4. cut \in Seq(Files)
    <3>1. below \in SUBSET (1..Len(u.stack)) /\ IsFiniteSet(1..Len(u.stack)) /\ Len(u.stack) \in Nat
          /\ Cardinality(1..Len(u.stack)) = Len(u.stack)
      <4>1. DOMAIN u.stack = 1..Len(u.stack) /\ Len(u.stack) \in Nat
        BY <1>1, <1>8
      <4>2. below \in SUBSET (1..Len(u.stack))
        BY <4>1 DEF Under
      <4>3. IsFiniteSet(1..Len(u.stack)) /\ Cardinality(1..Len(u.stack)) = Len(u.stack)
        <5>1. 1 \in Int /\ Len(u.stack) \in Int
          BY <4>1
        <5>2. /\ IsFiniteSet(1..Len(u.stack))
              /\ Cardinality(1..Len(u.stack)) = IF 1 > Len(u.stack) THEN 0 ELSE Len(u.stack) - 1 + 1
          BY <5>1, FS_Interval
        <5> QED
          BY <4>1, <5>2
      <4> QED
        BY <4>1, <4>2, <4>3
    <3> HIDE DEF below
    <3>2. Cardinality(below) <= Len(u.stack) /\ Cardinality(below) \in Nat
      BY <3>1, FS_Subset, FS_CardinalityType
    <3>3. \A n \in 1..Cardinality(below) : u.stack[n] \in Files
      BY <1>1, <1>8, <3>1, <3>2
    <3>4. 1 \in Int /\ Cardinality(below) \in Int
      BY <3>2
    <3> QED
      BY <3>3, <3>4, SubSeqProperties
  <2> HIDE DEF cut, more
  <2>5. [u EXCEPT !.stack = cut, !.components = more] = Made(i, low, cut, more, front)
    <3>1. [u EXCEPT !.stack = cut, !.components = more] = Made(u.index, u.low, cut, more, u.work)
      BY <1>8, MadeOf
    <3> QED
      BY <1>8, <3>1, Zenon
  <2>6. Made(i, low, cut, more, front) \in Searches
    BY <1>1, <1>2, <1>7, <2>3, <2>4 DEF Made, Searches, Frames
  <2> QED
    BY <2>1, <2>5, <2>6, Zenon
<1> QED
  BY <1>6, <1>8, <1>9

-----------------------------------------------------------------------------
\* Tarjan's search, from the first visit to the last.

Linked(E) == {e[1] : e \in E} \cup {e[2] : e \in E}
AllFound(E, s) == s.work = <<>> /\ Linked(E) \subseteq Visited(s)
Further(E, s) ==
  IF s.work = <<>> THEN Open(E, s, Head(Sorted(Linked(E) \ Visited(s))))
  ELSE IF Last(s.work).next # <<>> THEN Look(E, s) ELSE Leave(s)

\* Unless all is found there is a next file to start from, and it has not been seen.
LEMMA RootFacts ==
  ASSUME NEW E \in SUBSET Between, NEW s \in Searches, s.work = <<>>, ~AllFound(E, s)
  PROVE  Head(Sorted(Linked(E) \ Visited(s))) \in Files \ Visited(s)
<1> DEFINE new == Linked(E) \ Visited(s)
<1>1. Linked(E) \in SUBSET Files
  <2>1. \A e \in E : e[1] \in Files /\ e[2] \in Files
    BY ReachesFacts
  <2> QED
    BY <2>1 DEF Linked
<1>2. new \in SUBSET Files /\ new # {}
  BY <1>1 DEF AllFound
<1>3. Head(Sorted(new)) \in new
  <2> HIDE DEF new
  <2> QED
    BY <1>2, SortedFacts
<1> QED
  BY <1>2, <1>3

\* One step of the search gives a search.
LEMMA FurtherType ==
  ASSUME NEW E \in SUBSET Between, NEW s \in Searches, ~AllFound(E, s)
  PROVE  Further(E, s) \in Searches
<1>1. CASE s.work = <<>>
  <2>1. Head(Sorted(Linked(E) \ Visited(s))) \in Files
    BY <1>1, RootFacts
  <2>2. Open(E, s, Head(Sorted(Linked(E) \ Visited(s)))) \in Searches
    BY <2>1, OpenType
  <2> QED
    BY <1>1, <2>2, Zenon DEF Further
<1>2. CASE s.work # <<>> /\ Last(s.work).next # <<>>
  <2>1. Look(E, s) \in Searches
    BY <1>2, LookType
  <2> QED
    BY <1>2, <2>1, Zenon DEF Further
<1>3. CASE s.work # <<>> /\ Last(s.work).next = <<>>
  <2>1. Leave(s) \in Searches
    BY <1>3, LeaveType
  <2> QED
    BY <1>3, <2>1, Zenon DEF Further
<1> QED
  BY <1>1, <1>2, <1>3

\* One step of the search keeps what holds of it, and is progress.
LEMMA FurtherKeeps ==
  ASSUME NEW E \in SUBSET Between, NEW s, At(E, s), ~AllFound(E, s)
  PROVE  At(E, Further(E, s)) /\ Progress(s, Further(E, s))
<1>1. s \in Searches
  BY DEF At
<1>2. CASE s.work = <<>>
  <2> DEFINE z == Head(Sorted(Linked(E) \ Visited(s)))
             t == Open(E, s, z)
  <2>1. z \in Files \ Visited(s)
    BY <1>1, <1>2, RootFacts
  <2>2. Further(E, s) = t
    BY <1>2, Zenon DEF Further
  <2> HIDE DEF z
  <2>3. At(E, t) /\ Progress(s, t)
    BY <1>2, <2>1, RootKeeps
  <2> QED
    BY <2>2, <2>3, Zenon
<1>3. CASE s.work # <<>> /\ Last(s.work).next # <<>>
  <2>1. Further(E, s) = Look(E, s)
    BY <1>3, Zenon DEF Further
  <2> QED
    BY <1>3, <2>1, LookKeeps, Zenon
<1>4. CASE s.work # <<>> /\ Last(s.work).next = <<>>
  <2>1. Further(E, s) = Leave(s)
    BY <1>4, Zenon DEF Further
  <2> QED
    BY <1>4, <2>1, LeaveKeeps, Zenon
<1> QED
  BY <1>2, <1>3, <1>4

\* StronglyConnected is the value of a function that calls itself last.
LEMMA StronglyConnectedUnfolds ==
  ASSUME NEW E \in SUBSET Between
  PROVE  \E g : /\ CallsItselfLast(g, Searches, [s \in Searches |-> IF AllFound(E, s) THEN s ELSE Further(E, s)],
                                   {s \in Searches : AllFound(E, s)}, [s \in Searches |-> s.components])
                /\ StronglyConnected(E) = g[NoVisits]
<1> DEFINE D == Searches
           T == [s \in D |-> IF AllFound(E, s) THEN s ELSE Further(E, s)]
           Stop == {s \in D : AllFound(E, s)}
           out == [s \in D |-> s.components]
           nodes == {e[1] : e \in E} \cup {e[2] : e \in E}
           Body(g) == [s \in D |->
                         IF s.work = <<>>
                         THEN IF nodes \subseteq Visited(s) THEN s.components
                              ELSE g[Open(E, s, Head(Sorted(nodes \ Visited(s))))]
                         ELSE IF Last(s.work).next # <<>> THEN g[Look(E, s)] ELSE g[Leave(s)]]
           f == CHOOSE g : g = Body(g)
<1>1. T \in [D -> D]
  <2>1. \A s \in D : ~AllFound(E, s) => Further(E, s) \in D
    BY FurtherType
  <2> HIDE DEF D
  <2> QED
    BY <2>1, Zenon
<1>2. Stop \in SUBSET D
  OBVIOUS
<1>3. \A g : CallsItselfLast(g, D, T, Stop, out) <=> g = Body(g)
  <2>1. ASSUME NEW g, NEW s \in D
        PROVE  (IF s \in Stop THEN out[s] ELSE g[T[s]]) = Body(g)[s]
    <3> HIDE DEF D
    <3>1. CASE s.work = <<>> /\ nodes \subseteq Visited(s)
      BY <3>1, Zenon DEF AllFound, Linked
    <3>2. CASE s.work = <<>> /\ ~(nodes \subseteq Visited(s))
      BY <3>2, Zenon DEF AllFound, Further, Linked
    <3>3. CASE s.work # <<>>
      BY <3>3, Zenon DEF AllFound, Further
    <3> QED
      BY <3>1, <3>2, <3>3, Zenon
  <2>2. \A g : CallsItselfLast(g, D, T, Stop, out) <=> g = [s \in D |-> IF s \in Stop THEN out[s] ELSE g[T[s]]]
    <3> HIDE DEF D, T, Stop, out
    <3> QED
      BY Zenon DEF CallsItselfLast
  <2>3. \A g : [s \in D |-> IF s \in Stop THEN out[s] ELSE g[T[s]]] = Body(g)
    <3>1. ASSUME NEW g PROVE [s \in D |-> IF s \in Stop THEN out[s] ELSE g[T[s]]] = Body(g)
      <4> DEFINE b == Body(g)
      <4>1. b = [s \in D |-> b[s]]
        OBVIOUS
      <4>2. \A s \in D : (IF s \in Stop THEN out[s] ELSE g[T[s]]) = b[s]
        BY <2>1, Zenon
      <4> HIDE DEF b, Stop, out, T, D
      <4>3. [s \in D |-> IF s \in Stop THEN out[s] ELSE g[T[s]]] = b
        BY <4>1, <4>2, Zenon
      <4> QED
        BY <4>3, Zenon DEF b
    <3> QED
      BY <3>1, Zenon
  <2> HIDE DEF D, T, Stop, out, Body
  <2> QED
    BY <2>2, <2>3, Zenon
<1>4. StronglyConnected(E) = f[NoVisits]
  BY Zenon DEF StronglyConnected
<1>5. PICK g : CallsItselfLast(g, D, T, Stop, out)
  <2> HIDE DEF D, T, Stop, out
  <2> QED
    BY <1>1, <1>2, TailCalls
<1>6. f = Body(f)
  <2> HIDE DEF Body, D, T, Stop, out
  <2>1. \E h : h = Body(h)
    BY <1>3, <1>5, Zenon
  <2> QED
    BY <2>1, Zenon DEF f
<1>7. CallsItselfLast(f, D, T, Stop, out)
  <2> HIDE DEF f, Body, D, T, Stop, out
  <2> QED
    BY <1>3, <1>6, Zenon
<1> HIDE DEF f, Body, nodes
<1> QED
  BY <1>4, <1>7, Zenon

\* What holds of a search holds of the one that has seen nothing.
LEMMA AtFirst ==
  ASSUME NEW E \in SUBSET Between
  PROVE  At(E, NoVisits)
<1> DEFINE i == [f \in Files |-> None]
           l == [f \in Files |-> 0]
           st == <<>>
           c == {}
           w == <<>>
<1>1. i \in [Files -> Nat \cup {None}] /\ l \in [Files -> Nat] /\ st \in Seq(Files) /\ c \in SUBSET SUBSET Files
      /\ w \in Seq(Frames)
  OBVIOUS
<1>2. NoVisits = Made(i, l, st, c, w)
  BY Zenon DEF NoVisits, Made
<1>3. /\ NoVisits \in Searches /\ NoVisits.index = i /\ NoVisits.stack = <<>> /\ NoVisits.components = {}
      /\ NoVisits.work = <<>>
  <2> HIDE DEF i, l
  <2>1. /\ Made(i, l, st, c, w) \in Searches
        /\ Made(i, l, st, c, w).index = i /\ Made(i, l, st, c, w).low = l /\ Made(i, l, st, c, w).stack = st
        /\ Made(i, l, st, c, w).components = c /\ Made(i, l, st, c, w).work = w
    BY <1>1 DEF Made, Searches, Frames
  <2> QED
    BY <1>2, <2>1, Zenon
<1>4. Visited(NoVisits) = {}
  <2>1. \A f \in Files : i[f] = None
    OBVIOUS
  <2> HIDE DEF i
  <2> QED
    BY <1>3, <2>1 DEF Visited
<1>5. Gray(NoVisits) = {} /\ Stacked(NoVisits) = {} /\ Left(NoVisits) = {}
  <2>1. \A s \in {<<>>} : ToSet(s) = {}
    BY DEF ToSet
  <2> QED
    BY <1>3, <1>4, <2>1 DEF Gray, NodesOf, Stacked, Left
<1>6. Searching(E, NoVisits)
  <2>1. Numbered(NoVisits)
    BY <1>4, <1>5 DEF Numbered
  <2>2. Ways(E, NoVisits)
    BY <1>5 DEF Ways
  <2>3. Lows(E, NoVisits)
    BY <1>5 DEF Lows
  <2>4. Complete(E, NoVisits)
    BY <1>4, <1>5 DEF Complete
  <2>5. Grouped(E, NoVisits)
    BY <1>3, <1>5 DEF Grouped
  <2> QED
    BY <2>1, <2>2, <2>3, <2>4, <2>5 DEF Searching
<1>7. InOrder(NoVisits)
  <2>1. \A key : Ascends(<<>>, key)
    BY DEF Ascends
  <2> QED
    BY <1>3, <2>1 DEF InOrder
<1> QED
  BY <1>3, <1>6, <1>7 DEF At

\* What the search finds: the sets of more than one file that lead to each
\* other.
LEMMA StronglyConnectedFacts ==
  ASSUME NEW E \in SUBSET Between
  PROVE  StronglyConnected(E) = {m \in {Mutual(E, x) : x \in Files} : Cardinality(m) > 1}
<1> DEFINE D == Searches
           T == [s \in D |-> IF AllFound(E, s) THEN s ELSE Further(E, s)]
           Stop == {s \in D : AllFound(E, s)}
           out == [s \in D |-> s.components]
           Allowed == {s \in D : At(E, s)}
           f == [s \in D |-> Cardinality(Files \ Visited(s))]
           l == [s \in D |-> Len(s.work)]
           k == [s \in D |-> ToLookAt(s)]
<1>1. PICK g : CallsItselfLast(g, D, T, Stop, out) /\ StronglyConnected(E) = g[NoVisits]
  BY StronglyConnectedUnfolds
<1>2. T \in [D -> D]
  <2>1. \A s \in D : ~AllFound(E, s) => Further(E, s) \in D
    BY FurtherType
  <2> HIDE DEF D
  <2> QED
    BY <2>1, Zenon
<1>3. Allowed \in SUBSET D /\ NoVisits \in Allowed
  BY AtFirst DEF At
<1>4. \A s \in D : /\ Visited(s) \in SUBSET Files /\ Cardinality(Files \ Visited(s)) \in Nat
                   /\ Len(s.work) \in Nat /\ ToLookAt(s) \in Nat
  <2>1. ASSUME NEW s \in D
        PROVE  /\ Visited(s) \in SUBSET Files /\ Cardinality(Files \ Visited(s)) \in Nat
               /\ Len(s.work) \in Nat /\ ToLookAt(s) \in Nat
    <3>1. Visited(s) \in SUBSET Files
      BY SearchesFacts
    <3>2. Cardinality(Files \ Visited(s)) \in Nat
      BY ScanConstants, FS_Subset, FS_CardinalityType
    <3>3. s.work \in Seq(Frames)
      BY SearchesFields
    <3>4. Len(s.work) \in Nat
      BY <3>3
    <3>5. ToLookAt(s) \in Nat
      <4>1. ASSUME s.work # <<>> PROVE Len(Last(s.work).next) \in Nat
        <5>1. Last(s.work) \in Frames
          BY <3>3, <4>1, FrontAndLast
        <5> QED
          BY <5>1 DEF Frames
      <4> QED
        BY <4>1 DEF ToLookAt
    <3> QED
      BY <3>1, <3>2, <3>4, <3>5
  <2> QED
    BY <2>1
<1>5. f \in [D -> Nat] /\ l \in [D -> Nat] /\ k \in [D -> Nat]
  <2> HIDE DEF D
  <2> QED
    BY <1>4, Zenon
<1>6. ASSUME NEW s \in Allowed, s \notin Stop
      PROVE  T[s] \in Allowed /\ Less(T[s], s, f, l, k)
  <2>1. s \in D /\ At(E, s) /\ ~AllFound(E, s)
    BY <1>6
  <2> DEFINE t == Further(E, s)
  <2>2. At(E, t) /\ Progress(s, t)
    BY <2>1, FurtherKeeps
  <2>3. T[s] = t
    BY <2>1, Zenon
  <2>4. t \in D
    BY <2>2 DEF At
  <2> HIDE DEF t
  <2>5. /\ f[s] = Cardinality(Files \ Visited(s)) /\ l[s] = Len(s.work) /\ k[s] = ToLookAt(s)
        /\ f[t] = Cardinality(Files \ Visited(t)) /\ l[t] = Len(t.work) /\ k[t] = ToLookAt(t)
    BY <2>1, <2>4, Zenon
  <2>6. Visited(s) \in SUBSET Files /\ Visited(t) \in SUBSET Files
        /\ f[s] \in Nat /\ f[t] \in Nat
    BY <1>4, <2>1, <2>4, <2>5
  <2>7. Less(t, s, f, l, k)
    <3>1. CASE Visited(s) \subseteq Visited(t) /\ Visited(s) # Visited(t)
      <4>1. Files \ Visited(t) \subseteq Files \ Visited(s) /\ Files \ Visited(t) # Files \ Visited(s)
        BY <2>6, <3>1
      <4>2. IsFiniteSet(Files \ Visited(s))
        BY ScanConstants, FS_Subset
      <4>3. /\ Cardinality(Files \ Visited(t)) <= Cardinality(Files \ Visited(s))
            /\ Cardinality(Files \ Visited(s)) = Cardinality(Files \ Visited(t)) =>
                 Files \ Visited(s) = Files \ Visited(t)
        BY <4>1, <4>2, FS_Subset, Zenon
      <4>4. f[t] < f[s]
        BY <2>5, <2>6, <4>1, <4>3
      <4> QED
        BY <4>4 DEF Less
    <3>2. CASE /\ Visited(t) = Visited(s)
               /\ Len(t.work) < Len(s.work) \/ (Len(t.work) = Len(s.work) /\ ToLookAt(t) < ToLookAt(s))
      <4>1. f[t] = f[s]
        BY <2>5, <3>2, Zenon
      <4> QED
        BY <2>5, <3>2, <4>1, Zenon DEF Less
    <3> QED
      BY <2>2, <3>1, <3>2, Zenon DEF Progress
  <2>8. t \in Allowed
    BY <2>2, <2>4
  <2> QED
    BY <2>3, <2>7, <2>8, Zenon
<1>7. PICK e \in Allowed : e \in Stop /\ g[NoVisits] = out[e]
  <2> HIDE DEF D, T, Stop, out, Allowed, f, l, k
  <2>1. Shrinks(Allowed, T, Stop, f, l, k)
    BY <1>6, Zenon DEF Shrinks
  <2>2. EndsInside(Allowed, Stop, out, g)
    BY <1>1, <1>2, <1>3, <1>5, <2>1, CallsEnd
  <2> QED
    BY <1>3, <2>2, Zenon DEF EndsInside
<1>8. e \in Searches /\ Searching(E, e) /\ e.work = <<>> /\ Linked(E) \subseteq Visited(e)
      /\ StronglyConnected(E) = e.components
  BY <1>1, <1>7, Zenon DEF At, AllFound
<1>9. Gray(e) = {}
  <2>1. ToSet(e.work) = {}
    BY <1>8 DEF ToSet
  <2> QED
    BY <2>1 DEF Gray, NodesOf
<1>10. Stacked(e) = {}
  BY <1>8, <1>9 DEF Searching, Ways
<1>11. Left(e) = Visited(e) /\ Visited(e) \in SUBSET Files
  BY <1>8, <1>10, SearchesFacts DEF Left
<1>12. e.components = {m \in {Mutual(E, x) : x \in Visited(e)} : Cardinality(m) > 1}
  BY <1>8, <1>11 DEF Searching, Grouped
<1>13. ASSUME NEW x \in Files, x \notin Visited(e) PROVE ~(Cardinality(Mutual(E, x)) > 1)
  <2>1. \A d \in E : d[1] # x
    BY <1>8, <1>13 DEF Linked
  <2>2. \A y \in Files : Reaches(E, x, y) => y = x
    BY <2>1, FirstEdge DEF LeadsOn
  <2>3. Reaches(E, x, x)
    BY ReachesFacts
  <2>4. Mutual(E, x) = {x}
    BY <2>2, <2>3 DEF Mutual
  <2>5. Cardinality({x}) = 1
    BY FS_Singleton
  <2> QED
    BY <2>4, <2>5
<1> QED
  BY <1>8, <1>11, <1>12, <1>13

-----------------------------------------------------------------------------
\* The breadth-first search for a loop through a start.

\* A queue, and where each node was reached from.
Fronts == Seq(Files) \X [Files -> Files \cup {None}]

Fresh(W, s) == Among(Neighbours(W, Head(s[1])), {f \in Files : s[2][f] = None})
Farther(W, s) ==
  <<Tail(s[1]) \o Fresh(W, s),
    [f \in Files |-> IF f \in ToSet(Fresh(W, s)) THEN Head(s[1]) ELSE s[2][f]]>>

\* The queue is empty, or its head has an edge to the start.
Decided(W, a, s) == s[1] = <<>> \/ <<Head(s[1]), a>> \in W
Loop(a, s) ==
  IF s[1] = <<>> THEN <<>> ELSE <<a>> \o Chain(s[2], a, Head(s[1])) \o <<a>>

\* The edges between members.
Inside(E, M) == E \cap (M \X M)

\* The head of the queue, and its neighbours that no file is recorded before.
LEMMA FreshFacts ==
  ASSUME NEW W \in SUBSET Between, NEW s \in Fronts, s[1] # <<>>
  PROVE  /\ s[1] \in Seq(Files) /\ s[2] \in [Files -> Files \cup {None}]
         /\ Head(s[1]) \in Files /\ Tail(s[1]) \in Seq(Files) /\ Fresh(W, s) \in Seq(Files)
         /\ ToSet(s[1]) = {Head(s[1])} \cup ToSet(Tail(s[1])) /\ Len(Tail(s[1])) = Len(s[1]) - 1
         /\ ToSet(Fresh(W, s)) = {y \in Files : <<Head(s[1]), y>> \in W /\ s[2][y] = None}
<1>1. s[1] \in Seq(Files) /\ s[2] \in [Files -> Files \cup {None}]
  BY DEF Fronts
<1>2. /\ Head(s[1]) \in Files /\ Tail(s[1]) \in Seq(Files) /\ Len(Tail(s[1])) = Len(s[1]) - 1
      /\ ToSet(s[1]) = {Head(s[1])} \cup ToSet(Tail(s[1]))
  BY <1>1, HeadAndTail
<1> DEFINE near == Neighbours(W, Head(s[1]))
           free == {f \in Files : s[2][f] = None}
<1>3. near \in Seq(Files) /\ \A y : y \in ToSet(near) <=> <<Head(s[1]), y>> \in W
  BY NeighboursFacts
<1>4. Fresh(W, s) = Among(near, free)
  BY Zenon DEF Fresh
<1> HIDE DEF near
<1>5. Among(near, free) \in Seq(Files) /\ ToSet(Among(near, free)) = ToSet(near) \cap free
  BY <1>3, AmongSet
<1> QED
  BY <1>1, <1>2, <1>3, <1>4, <1>5

\* One step of the breadth-first search gives a queue and a record of predecessors.
LEMMA FartherType ==
  ASSUME NEW W \in SUBSET Between, NEW s \in Fronts, s[1] # <<>>
  PROVE  Farther(W, s) \in Fronts
<1> DEFINE q == Tail(s[1]) \o Fresh(W, s)
           p == [f \in Files |-> IF f \in ToSet(Fresh(W, s)) THEN Head(s[1]) ELSE s[2][f]]
<1>1. q \in Seq(Files)
  BY FreshFacts, ConcatProperties
<1>2. p \in [Files -> Files \cup {None}]
  BY FreshFacts
<1>3. Farther(W, s) = <<q, p>>
  BY Zenon DEF Farther
<1> HIDE DEF q, p
<1> QED
  BY <1>1, <1>2, <1>3 DEF Fronts

FirstFront(a) == << <<a>>, [f \in Files |-> None] >>
Spreading(g, W, a) ==
  CallsItselfLast(g, Fronts, [s \in Fronts |-> IF Decided(W, a, s) THEN s ELSE Farther(W, s)],
                  {s \in Fronts : Decided(W, a, s)}, [s \in Fronts |-> Loop(a, s)])

\* ShortestCycle is the value of a function that calls itself last.
LEMMA ShortestCycleUnfolds ==
  ASSUME NEW E \in SUBSET Between, NEW a \in Files, NEW M, NEW W \in SUBSET Between, W = Inside(E, M)
  PROVE  \E g : Spreading(g, W, a) /\ ShortestCycle(E, a, M) = g[FirstFront(a)]
<1> DEFINE D == Fronts
           T == [s \in D |-> IF Decided(W, a, s) THEN s ELSE Farther(W, s)]
           Stop == {s \in D : Decided(W, a, s)}
           out == [s \in D |-> Loop(a, s)]
           within == Inside(E, M)
           Fr(s) == Among(Neighbours(within, Head(s[1])), {f \in Files : s[2][f] = None})
           Body(g) == [s \in D |->
                         IF s[1] = <<>> THEN <<>>
                         ELSE IF <<Head(s[1]), a>> \in within
                         THEN <<a>> \o Chain(s[2], a, Head(s[1])) \o <<a>>
                         ELSE g[<<Tail(s[1]) \o Fr(s),
                                  [f \in Files |-> IF f \in ToSet(Fr(s)) THEN Head(s[1]) ELSE s[2][f]]>>]]
           f == CHOOSE g : g = Body(g)
<1>1. T \in [D -> D]
  <2>1. \A s \in D : ~Decided(W, a, s) => Farther(W, s) \in D
    BY FartherType DEF Decided
  <2> HIDE DEF D
  <2> QED
    BY <2>1, Zenon
<1>2. Stop \in SUBSET D
  OBVIOUS
<1>3. \A g : CallsItselfLast(g, D, T, Stop, out) <=> g = Body(g)
  <2>1. ASSUME NEW g, NEW s \in D
        PROVE  (IF s \in Stop THEN out[s] ELSE g[T[s]]) = Body(g)[s]
    <3> HIDE DEF D
    <3>1. CASE s[1] = <<>>
      BY <3>1, Zenon DEF Decided, Loop
    <3>2. CASE s[1] # <<>> /\ <<Head(s[1]), a>> \in W
      BY <3>2, Zenon DEF Decided, Loop
    <3>3. CASE s[1] # <<>> /\ <<Head(s[1]), a>> \notin W
      <4>1. s \notin Stop /\ T[s] = Farther(W, s)
        BY <3>3, Zenon DEF Decided
      <4>2. Farther(W, s) = <<Tail(s[1]) \o Fr(s),
                              [y \in Files |-> IF y \in ToSet(Fr(s)) THEN Head(s[1]) ELSE s[2][y]]>>
        BY Zenon DEF Farther, Fresh
      <4>3. <<Head(s[1]), a>> \notin within
        BY <3>3, Zenon
      <4> HIDE DEF Stop, out, T, Fr, within
      <4> QED
        BY <3>3, <4>1, <4>2, <4>3, Zenon
    <3> QED
      BY <3>1, <3>2, <3>3, Zenon
  <2>2. \A g : CallsItselfLast(g, D, T, Stop, out) <=> g = [s \in D |-> IF s \in Stop THEN out[s] ELSE g[T[s]]]
    <3> HIDE DEF D, T, Stop, out
    <3> QED
      BY Zenon DEF CallsItselfLast
  <2>3. \A g : [s \in D |-> IF s \in Stop THEN out[s] ELSE g[T[s]]] = Body(g)
    <3>1. ASSUME NEW g PROVE [s \in D |-> IF s \in Stop THEN out[s] ELSE g[T[s]]] = Body(g)
      <4> DEFINE b == Body(g)
      <4>1. b = [s \in D |-> b[s]]
        <5> HIDE DEF D, Fr, within
        <5> QED
          BY Zenon
      <4>2. \A s \in D : (IF s \in Stop THEN out[s] ELSE g[T[s]]) = b[s]
        BY <2>1, Zenon
      <4> HIDE DEF b, Stop, out, T, D
      <4>3. [s \in D |-> IF s \in Stop THEN out[s] ELSE g[T[s]]] = b
        BY <4>1, <4>2, Zenon
      <4> QED
        BY <4>3, Zenon DEF b
    <3> QED
      BY <3>1, Zenon
  <2> HIDE DEF D, T, Stop, out, Body
  <2> QED
    BY <2>2, <2>3, Zenon
<1>4. ShortestCycle(E, a, M) = f[FirstFront(a)]
  BY Zenon DEF FirstFront, ShortestCycle, Fronts, Inside
<1>5. PICK g : CallsItselfLast(g, D, T, Stop, out)
  <2> HIDE DEF D, T, Stop, out
  <2> QED
    BY <1>1, <1>2, TailCalls
<1>6. f = Body(f)
  <2> HIDE DEF Body, D, T, Stop, out
  <2>1. \E h : h = Body(h)
    BY <1>3, <1>5, Zenon
  <2> QED
    BY <2>1, Zenon DEF f
<1>7. CallsItselfLast(f, D, T, Stop, out)
  <2> HIDE DEF f, Body, D, T, Stop, out
  <2> QED
    BY <1>3, <1>6, Zenon
<1>8. Spreading(f, W, a)
  <2> HIDE DEF f
  <2> QED
    BY <1>7, Zenon DEF Spreading
<1> HIDE DEF f, Body
<1> QED
  BY <1>4, <1>8, Zenon

\* What is known, and how far from the start it is: the queue ascends by at
\* most one, and all that left it is nearer, has no edge to the start and only
\* neighbours that are known.
Known(a, s) == {a} \cup {f \in Files : s[2][f] # None}

Queued(s, h) ==
  \A i, j \in DOMAIN s[1] : i <= j => h[s[1][i]] <= h[s[1][j]] /\ h[s[1][j]] <= h[s[1][i]] + 1

Finished(W, a, s, h) ==
  \A x \in Known(a, s) \ ToSet(s[1]) :
    /\ <<x, a>> \notin W
    /\ \A y \in Files : <<x, y>> \in W => y \in Known(a, s) /\ h[y] <= h[x] + 1
    /\ \A z \in ToSet(s[1]) : h[x] <= h[z]

Distances(W, a, s, h) ==
  /\ h[a] = 0 /\ s[2][a] = None
  /\ \A x \in Known(a, s) : x # a => s[2][x] \in Known(a, s) /\ <<s[2][x], x>> \in W /\ h[x] = h[s[2][x]] + 1
  /\ \A x \in Known(a, s) : h[x] < Cardinality(Known(a, s))

Spreads(W, a, s, h) ==
  ToSet(s[1]) \subseteq Known(a, s) /\ Queued(s, h) /\ Finished(W, a, s, h) /\ Distances(W, a, s, h)

Spread(W, a, s) == s \in Fronts /\ \E h \in [Files -> Nat] : Spreads(W, a, s, h)

\* One step keeps the layers of the breadth-first search, and it finds a file or shortens the queue.
LEMMA FartherKeeps ==
  ASSUME NEW W \in SUBSET Between, NEW a \in Files, NEW s, Spread(W, a, s), ~Decided(W, a, s),
         NEW t, t = Farther(W, s)
  PROVE  /\ Spread(W, a, t) /\ Known(a, s) \subseteq Known(a, t)
         /\ Known(a, t) # Known(a, s) \/ Len(t[1]) < Len(s[1])
<1>1. PICK h \in [Files -> Nat] : Spreads(W, a, s, h)
  BY DEF Spread
<1>2. s \in Fronts /\ s[1] # <<>> /\ <<Head(s[1]), a>> \notin W
  BY DEF Spread, Decided
<1> DEFINE q == s[1]
           p == s[2]
           K == Known(a, s)
           n == Head(q)
           rest == Tail(q)
           fresh == Fresh(W, s)
           q2 == rest \o fresh
           p2 == [f \in Files |-> IF f \in ToSet(fresh) THEN n ELSE p[f]]
           N == ToSet(fresh)
           h2 == [f \in Files |-> IF f \in N THEN h[n] + 1 ELSE h[f]]
<1>3. /\ q \in Seq(Files) /\ p \in [Files -> Files \cup {None}]
      /\ n \in Files /\ rest \in Seq(Files) /\ fresh \in Seq(Files)
      /\ ToSet(q) = {n} \cup ToSet(rest) /\ Len(rest) = Len(q) - 1
      /\ N = {y \in Files : <<n, y>> \in W /\ p[y] = None}
  BY <1>2, FreshFacts
<1>4. t = <<q2, p2>>
  BY Zenon DEF Farther
<1>5. t[1] = q2 /\ t[2] = p2
  <2> HIDE DEF q2, p2
  <2> QED
    BY <1>4
<1>6. t \in Fronts
  BY <1>2, FartherType
<1>7. /\ ToSet(q) \subseteq K /\ Queued(s, h) /\ Finished(W, a, s, h) /\ Distances(W, a, s, h)
  BY <1>1, Zenon DEF Spreads
<1>8. ToSet(q2) = ToSet(rest) \cup N
  <2> HIDE DEF rest, fresh
  <2> QED
    BY <1>3, ConcatSet
<1> HIDE DEF q2, p2, h2, fresh, rest, n, q, p
<1>9. None \notin Files
  BY ScanConstants
<1>10. K = {a} \cup {f \in Files : p[f] # None}
  BY Zenon DEF Known, p
<1>11. /\ h[a] = 0 /\ p[a] = None
       /\ \A x \in K : x # a => p[x] \in K /\ <<p[x], x>> \in W /\ h[x] = h[p[x]] + 1
       /\ \A x \in K : h[x] < Cardinality(K)
  BY <1>7, Zenon DEF Distances, p
<1>12. N \cap K = {} /\ N \in SUBSET Files /\ n \in K /\ K \in SUBSET Files
  <2>1. a \notin N
    BY <1>2, <1>3 DEF n, q
  <2> QED
    BY <1>3, <1>7, <1>10, <2>1
<1>13. \A f \in Files : p2[f] = IF f \in N THEN n ELSE p[f]
  BY DEF p2
<1>14. \A f \in Files : h2[f] = IF f \in N THEN h[n] + 1 ELSE h[f]
  BY DEF h2
<1>15. Known(a, t) = K \cup N
  <2>1. Known(a, t) = {a} \cup {f \in Files : p2[f] # None}
    BY <1>5, Zenon DEF Known
  <2> HIDE DEF K, N
  <2> QED
    BY <1>3, <1>9, <1>10, <1>12, <1>13, <2>1
<1>16. h2 \in [Files -> Nat]
  BY <1>3 DEF h2
<1>17. /\ \A i, j \in DOMAIN q : i <= j => h[q[i]] <= h[q[j]] /\ h[q[j]] <= h[q[i]] + 1
       /\ \A z \in ToSet(q) : h[n] <= h[z] /\ h[z] <= h[n] + 1
  <2>1. \A i, j \in DOMAIN q : i <= j => h[q[i]] <= h[q[j]] /\ h[q[j]] <= h[q[i]] + 1
    BY <1>7, Zenon DEF Queued, q
  <2>2. DOMAIN q = 1..Len(q) /\ 1 \in DOMAIN q /\ n = q[1]
    BY <1>2, <1>3 DEF n, q
  <2>3. ASSUME NEW z \in ToSet(q) PROVE h[n] <= h[z] /\ h[z] <= h[n] + 1
    <3>1. PICK j \in DOMAIN q : z = q[j]
      BY DEF ToSet
    <3> QED
      BY <2>1, <2>2, <3>1
  <2> QED
    BY <2>1, <2>3
<1>18. \A x \in K \ ToSet(q) :
         /\ <<x, a>> \notin W
         /\ \A y \in Files : <<x, y>> \in W => y \in K /\ h[y] <= h[x] + 1
         /\ \A z \in ToSet(q) : h[x] <= h[z]
  BY <1>7, Zenon DEF Finished, q
<1> HIDE DEF K, N
<1>19. Queued(t, h2)
  <2>1. /\ DOMAIN q2 = 1..(Len(rest) + Len(fresh)) /\ Len(rest) \in Nat /\ Len(fresh) \in Nat
        /\ \A i \in 1..Len(rest) : q2[i] = rest[i]
        /\ \A i \in (Len(rest) + 1)..(Len(rest) + Len(fresh)) : q2[i] = fresh[i - Len(rest)]
    <3>1. rest \in Seq(Files) /\ fresh \in Seq(Files)
      BY <1>3
    <3>2. /\ Len(rest \o fresh) = Len(rest) + Len(fresh) /\ Len(rest) \in Nat /\ Len(fresh) \in Nat
          /\ DOMAIN (rest \o fresh) = 1..(Len(rest) + Len(fresh))
          /\ \A i \in 1..(Len(rest) + Len(fresh)) :
               (rest \o fresh)[i] = IF i <= Len(rest) THEN rest[i] ELSE fresh[i - Len(rest)]
      BY <3>1
    <3>3. \A i \in 1..Len(rest) : i \in 1..(Len(rest) + Len(fresh)) /\ i <= Len(rest)
      BY <3>2
    <3>4. \A i \in (Len(rest) + 1)..(Len(rest) + Len(fresh)) :
             i \in 1..(Len(rest) + Len(fresh)) /\ ~(i <= Len(rest))
      BY <3>2
    <3> QED
      BY <3>2, <3>3, <3>4 DEF q2
  <2>2. \A i \in 1..Len(rest) : rest[i] = q[i + 1] /\ i + 1 \in DOMAIN q
    <3>1. q \in Seq(Files) /\ q # <<>> /\ rest = Tail(q) /\ Len(rest) = Len(q) - 1 /\ Len(q) \in Nat
      BY <1>2, <1>3 DEF rest, q
    <3>2. DOMAIN q = 1..Len(q)
      BY <3>1
    <3>3. \A i \in 1..(Len(q) - 1) : Tail(q)[i] = q[i + 1]
      BY <3>1
    <3> QED
      BY <3>1, <3>2, <3>3
  <2>3. \A i \in 1..Len(rest) : rest[i] \in ToSet(rest) /\ rest[i] \in K /\ rest[i] \in Files
    <3>1. DOMAIN rest = 1..Len(rest) /\ ToSet(rest) \subseteq K
      BY <1>3, <1>7
    <3>2. \A i \in DOMAIN rest : rest[i] \in ToSet(rest)
      BY DEF ToSet
    <3> QED
      BY <1>12, <3>1, <3>2
  <2>4. \A i \in 1..Len(fresh) : fresh[i] \in N
    BY <1>3 DEF ToSet, N
  <2>5. ASSUME NEW i \in DOMAIN q2, NEW j \in DOMAIN q2, i <= j
        PROVE  h2[q2[i]] <= h2[q2[j]] /\ h2[q2[j]] <= h2[q2[i]] + 1
    <3>1. CASE i \in 1..Len(rest) /\ j \in 1..Len(rest)
      <4>1. h2[q2[i]] = h[rest[i]] /\ h2[q2[j]] = h[rest[j]]
        BY <1>12, <1>14, <2>1, <2>3, <3>1
      <4>2. rest[i] = q[i + 1] /\ rest[j] = q[j + 1] /\ i + 1 \in DOMAIN q /\ j + 1 \in DOMAIN q /\ i + 1 <= j + 1
        BY <2>1, <2>2, <2>5, <3>1
      <4> QED
        BY <1>17, <4>1, <4>2
    <3>2. CASE i \in 1..Len(rest) /\ j \notin 1..Len(rest)
      <4>1. j - Len(rest) \in 1..Len(fresh) /\ q2[j] = fresh[j - Len(rest)]
        BY <2>1, <3>2
      <4>2. q2[j] \in N
        BY <2>4, <4>1
      <4>3. h2[q2[j]] = h[n] + 1 /\ h2[q2[i]] = h[rest[i]]
        BY <1>12, <1>14, <2>1, <2>3, <3>2, <4>2
      <4>4. h[n] <= h[rest[i]] /\ h[rest[i]] <= h[n] + 1
        BY <1>3, <1>17, <2>3, <3>2
      <4>5. h[n] \in Nat /\ h[rest[i]] \in Nat
        BY <1>3, <2>3, <3>2
      <4> QED
        BY <4>3, <4>4, <4>5
    <3>3. CASE i \notin 1..Len(rest)
      <4>1. i - Len(rest) \in 1..Len(fresh) /\ q2[i] = fresh[i - Len(rest)]
            /\ j - Len(rest) \in 1..Len(fresh) /\ q2[j] = fresh[j - Len(rest)]
        BY <2>1, <2>5, <3>3
      <4>2. q2[j] \in N /\ q2[i] \in N
        BY <2>4, <4>1
      <4>3. h2[q2[j]] = h[n] + 1 /\ h2[q2[i]] = h[n] + 1
        BY <1>12, <1>14, <4>2
      <4>4. h[n] \in Nat
        BY <1>3
      <4> QED
        BY <4>3, <4>4
    <3> QED
      BY <3>1, <3>2, <3>3
  <2> QED
    BY <1>5, <2>5 DEF Queued
<1>20. \A x \in K : h2[x] = h[x] /\ p2[x] = p[x]
  BY <1>12, <1>13, <1>14
<1>21. \A x \in N : h2[x] = h[n] + 1 /\ p2[x] = n
  BY <1>12, <1>13, <1>14
<1>22. ASSUME NEW x \in Known(a, t) \ ToSet(q2)
       PROVE  /\ <<x, a>> \notin W
              /\ \A y \in Files : <<x, y>> \in W => y \in Known(a, t) /\ h2[y] <= h2[x] + 1
              /\ \A z \in ToSet(q2) : h2[x] <= h2[z]
  <2>1. x \in K /\ x \in Files /\ (x \notin ToSet(q) \/ x = n)
    BY <1>3, <1>8, <1>12, <1>15, <1>22
  <2>2. <<x, a>> \notin W
    BY <1>2, <1>18, <2>1 DEF n, q
  <2>3. h[x] \in Nat /\ h[n] \in Nat /\ h[x] <= h[n]
    <3>1. h[x] \in Nat /\ h[n] \in Nat
      BY <1>3, <2>1
    <3>2. n \in ToSet(q)
      BY <1>3
    <3>3. x = n => h[x] <= h[n]
      BY <3>1
    <3>4. x \notin ToSet(q) => h[x] <= h[n]
      BY <1>18, <2>1, <3>2
    <3> QED
      BY <2>1, <3>1, <3>3, <3>4
  <2>4. ASSUME NEW y \in Files, <<x, y>> \in W PROVE y \in Known(a, t) /\ h2[y] <= h2[x] + 1
    <3>1. CASE x \notin ToSet(q)
      <4>1. y \in K /\ h[y] <= h[x] + 1
        BY <1>18, <2>1, <2>4, <3>1
      <4> QED
        BY <1>15, <1>20, <2>1, <4>1
    <3>2. CASE x = n /\ y \in N
      BY <1>15, <1>20, <1>21, <2>1, <2>3, <3>2
    <3>3. CASE x = n /\ y \notin N
      <4>1. y \in K
        BY <1>3, <1>10, <2>4, <3>3 DEF N
      <4>2. h[y] <= h[n] + 1
        <5>1. CASE y \in ToSet(q)
          BY <1>17, <5>1
        <5>2. CASE y \notin ToSet(q)
          <6>1. h[y] <= h[n]
            BY <1>3, <1>18, <4>1, <5>2
          <6>2. h[y] \in Nat
            OBVIOUS
          <6> QED
            BY <2>3, <6>1, <6>2
        <5> QED
          BY <5>1, <5>2
      <4> QED
        BY <1>15, <1>20, <2>1, <3>3, <4>1, <4>2
    <3> QED
      BY <2>1, <3>1, <3>2, <3>3
  <2>5. ASSUME NEW z \in ToSet(q2) PROVE h2[x] <= h2[z]
    <3>1. CASE z \in N
      BY <1>20, <1>21, <2>1, <2>3, <3>1
    <3>2. CASE z \in ToSet(rest)
      <4>1. z \in ToSet(q) /\ z \in K
        BY <1>3, <1>7, <3>2
      <4>2. h[n] <= h[z] /\ h[z] \in Nat
        BY <1>12, <1>17, <4>1
      <4>3. h[x] <= h[z]
        BY <2>3, <4>2
      <4> QED
        BY <1>20, <2>1, <4>1, <4>3
    <3> QED
      BY <1>8, <2>5, <3>1, <3>2
  <2> QED
    BY <2>2, <2>4, <2>5
<1>23. Finished(W, a, t, h2)
  BY <1>5, <1>22 DEF Finished
<1>24. IsFiniteSet(K \cup N) /\ Cardinality(K \cup N) \in Nat /\ Cardinality(K) \in Nat
       /\ Cardinality(K) <= Cardinality(K \cup N) /\ (N # {} => Cardinality(K) < Cardinality(K \cup N))
  <2>1. K \cup N \in SUBSET Files
    BY <1>12
  <2>2. IsFiniteSet(K \cup N) /\ Cardinality(K \cup N) \in Nat /\ IsFiniteSet(K) /\ Cardinality(K) \in Nat
    BY <1>12, <2>1, ScanConstants, FS_Subset, FS_CardinalityType
  <2> DEFINE B == K \cup N
  <2>3. K \in SUBSET B /\ (N # {} => K # B)
    BY <1>12
  <2> HIDE DEF B
  <2>4. IsFiniteSet(B)
    BY <2>2 DEF B
  <2>5. Cardinality(K) <= Cardinality(B) /\ (Cardinality(B) = Cardinality(K) => B = K)
    BY <2>3, <2>4, FS_Subset
  <2>6. Cardinality(B) \in Nat
    BY <2>2 DEF B
  <2>7. Cardinality(K) <= Cardinality(B) /\ (N # {} => Cardinality(K) < Cardinality(B))
    BY <2>2, <2>3, <2>5, <2>6
  <2> QED
    BY <2>2, <2>7 DEF B
<1>25. Distances(W, a, t, h2)
  <2>1. a \in K
    BY <1>10
  <2>2. h2[a] = 0 /\ t[2][a] = None
    BY <1>5, <1>11, <1>20, <2>1
  <2>3. ASSUME NEW x \in Known(a, t), x # a
        PROVE  p2[x] \in Known(a, t) /\ <<p2[x], x>> \in W /\ h2[x] = h2[p2[x]] + 1
    <3>1. CASE x \in K
      <4>1. p[x] \in K /\ <<p[x], x>> \in W /\ h[x] = h[p[x]] + 1
        BY <1>11, <2>3, <3>1
      <4> QED
        BY <1>15, <1>20, <3>1, <4>1
    <3>2. CASE x \in N
      <4>1. <<n, x>> \in W
        BY <1>3, <3>2 DEF N
      <4> QED
        BY <1>12, <1>15, <1>20, <1>21, <3>2, <4>1
    <3> QED
      BY <1>15, <2>3, <3>1, <3>2
  <2>4. ASSUME NEW x \in Known(a, t) PROVE h2[x] < Cardinality(Known(a, t))
    <3>1. CASE x \in K
      <4>1. h[x] < Cardinality(K) /\ h[x] \in Nat /\ h2[x] = h[x]
        BY <1>11, <1>12, <1>20, <3>1
      <4> QED
        BY <1>15, <1>24, <4>1
    <3>2. CASE x \in N
      <4>1. h[n] < Cardinality(K) /\ h[n] \in Nat /\ h2[x] = h[n] + 1
        BY <1>11, <1>12, <1>21, <3>2
      <4>2. Cardinality(K) < Cardinality(K \cup N)
        BY <1>24, <3>2
      <4> QED
        BY <1>15, <1>24, <4>1, <4>2
    <3> QED
      BY <1>15, <2>4, <3>1, <3>2
  <2> QED
    BY <1>5, <2>2, <2>3, <2>4 DEF Distances
<1>26. ToSet(q2) \subseteq Known(a, t)
  BY <1>3, <1>7, <1>8, <1>15
<1>27. Spread(W, a, t)
  BY <1>5, <1>6, <1>16, <1>19, <1>23, <1>25, <1>26 DEF Spread, Spreads
<1>28. Known(a, t) # K \/ Len(t[1]) < Len(q)
  <2>1. CASE N # {}
    BY <1>12, <1>15, <2>1
  <2>2. CASE N = {}
    <3>1. fresh = <<>>
      BY <1>3, <2>2, FirstOf DEF N
    <3>2. Len(q2) = Len(rest) + Len(fresh) /\ Len(fresh) = 0
      BY <1>3, <3>1 DEF q2
    <3>3. Len(q) \in Nat
      BY <1>3
    <3> QED
      BY <1>3, <1>5, <3>2, <3>3
  <2> QED
    BY <2>1, <2>2
<1> QED
  BY <1>15, <1>27, <1>28 DEF K, q

\* A value followed by what a function says of it, so many times.
Backwards(b, p, x, N) == b = [n \in 0..N |-> IF n = 0 THEN x ELSE p[b[n - 1]]]

\* The list of predecessors of a file, to any length, exists.
LEMMA BackwardsExists ==
  ASSUME NEW p, NEW x, NEW N \in Nat
  PROVE  \E b : Backwards(b, p, x, N)
<1> DEFINE T == {k \in Nat : \E b : Backwards(b, p, x, k)}
<1>1. 0 \in T
  <2> DEFINE b == [n \in 0..0 |-> x]
  <2>1. b = [n \in 0..0 |-> IF n = 0 THEN x ELSE p[b[n - 1]]]
    <3>1. \A n \in 0..0 : n = 0
      OBVIOUS
    <3> QED
      BY <3>1, Zenon
  <2>2. \E c : Backwards(c, p, x, 0)
    <3> HIDE DEF b
    <3> QED
      BY <2>1, Zenon DEF Backwards
  <2> QED
    BY <2>2
<1>2. ASSUME NEW k \in T PROVE k + 1 \in T
  <2>1. PICK b : b = [n \in 0..k |-> IF n = 0 THEN x ELSE p[b[n - 1]]]
    BY <1>2, Zenon DEF Backwards
  <2> DEFINE c == [n \in 0..(k + 1) |-> IF n <= k THEN b[n] ELSE p[b[k]]]
  <2>2. k \in Nat /\ k + 1 \in Nat
    OBVIOUS
  <2>3. ASSUME NEW n \in 0..(k + 1) PROVE c[n] = IF n = 0 THEN x ELSE p[c[n - 1]]
    <3>1. CASE n = 0
      <4>1. n <= k /\ n \in 0..k /\ c[n] = b[n]
        BY <2>2, <3>1
      <4>2. b[n] = x
        BY <2>1, <3>1, <4>1, Zenon
      <4> QED
        BY <3>1, <4>1, <4>2
    <3>2. CASE n \in 1..k
      <4>1. n \in 0..k /\ n # 0 /\ n - 1 \in 0..(k + 1) /\ n - 1 <= k /\ n <= k
        BY <2>2, <3>2
      <4>2. c[n] = b[n] /\ c[n - 1] = b[n - 1]
        BY <2>3, <4>1, Zenon
      <4>3. b[n] = p[b[n - 1]]
        BY <2>1, <4>1, Zenon
      <4> QED
        BY <4>1, <4>2, <4>3, Zenon
    <3>3. CASE n = k + 1
      <4>1. n # 0 /\ n - 1 = k /\ k \in 0..(k + 1) /\ k <= k /\ ~(n <= k)
        BY <2>2, <3>3
      <4>2. c[n] = p[b[k]] /\ c[k] = b[k]
        BY <2>3, <4>1, Zenon
      <4> QED
        BY <4>1, <4>2, Zenon
    <3> QED
      BY <2>2, <3>1, <3>2, <3>3
  <2>4. c = [n \in 0..(k + 1) |-> c[n]]
    BY Zenon
  <2>5. Backwards(c, p, x, k + 1)
    <3> HIDE DEF c
    <3>1. c = [n \in 0..(k + 1) |-> IF n = 0 THEN x ELSE p[c[n - 1]]]
      BY <2>3, <2>4, Zenon
    <3> QED
      BY <3>1, Zenon DEF Backwards
  <2>6. \E d : Backwards(d, p, x, k + 1)
    <3> HIDE DEF c
    <3> QED
      BY <2>5, Zenon
  <2> QED
    BY <2>2, <2>6
<1>3. T = Nat
  <2>1. T \in SUBSET Nat
    OBVIOUS
  <2> HIDE DEF T
  <2> QED
    BY <1>1, <1>2, <2>1, NaturalInduction
<1> QED
  BY <1>3

\* From the head of the queue back to the start: one step for each that the
\* head is away from it.
ChainOf(c, W, a, x, j) ==
  /\ c \in Seq(Files) /\ Len(c) = j
  /\ j = 0 => x = a
  /\ j # 0 => c[j] = x /\ <<a, c[1]>> \in W
  /\ \A n \in 1..(j - 1) : <<c[n], c[n + 1]>> \in W

\* The chain read back from a file that was found is a shortest walk to it.
LEMMA ChainFacts ==
  ASSUME NEW W \in SUBSET Between, NEW a \in Files, NEW s \in Fronts, NEW h \in [Files -> Nat],
         Distances(W, a, s, h), NEW x \in Known(a, s)
  PROVE  ChainOf(Chain(s[2], a, x), W, a, x, h[x])
<1> DEFINE p == s[2]
           K == Known(a, s)
           N == Cardinality(Files)
           Body(b) == [n \in 0..N |-> IF n = 0 THEN x ELSE p[b[n - 1]]]
           b == CHOOSE b : b = Body(b)
           IsLength(n) == b[n] = a /\ \A m \in 0..(n - 1) : b[m] # a
           length == CHOOSE n \in 0..N : IsLength(n)
           j == h[x]
<1>1. /\ h[a] = 0 /\ p[a] = None
      /\ \A y \in K : y # a => p[y] \in K /\ <<p[y], y>> \in W /\ h[y] = h[p[y]] + 1
      /\ \A y \in K : h[y] < Cardinality(K)
  BY Zenon DEF Distances
<1>2. K \in SUBSET Files
  BY DEF Known
<1>3. N \in Nat /\ j \in Nat /\ j \in 0..N
  <2>1. Cardinality(K) <= N /\ N \in Nat /\ Cardinality(K) \in Nat
    <3>1. IsFiniteSet(K) /\ IsFiniteSet(Files)
      BY <1>2, ScanConstants, FS_Subset
    <3>2. Cardinality(K) <= Cardinality(Files)
      BY <1>2, <3>1, FS_Subset
    <3> QED
      BY <3>1, <3>2, FS_CardinalityType
  <2>2. j \in Nat /\ j < Cardinality(K)
    BY <1>1, <1>2
  <2> QED
    BY <2>1, <2>2
<1>4. Chain(p, a, x) = [n \in 1..length |-> b[length - n]]
  BY Zenon DEF Chain
<1>5. b = Body(b)
  <2>1. \E c : c = Body(c)
    <3>1. \E c : Backwards(c, p, x, N)
      <4> HIDE DEF p, N
      <4> QED
        BY <1>3, BackwardsExists
    <3> HIDE DEF p, N
    <3> QED
      BY <3>1, Zenon DEF Backwards
  <2> HIDE DEF Body
  <2> QED
    BY <2>1, Zenon
<1> HIDE DEF b
<1>6. b[0] = x /\ \A n \in 1..N : b[n] = p[b[n - 1]]
  <2>1. 0 \in 0..N /\ \A n \in 1..N : n \in 0..N /\ n # 0
    BY <1>3
  <2> QED
    BY <1>5, <2>1, Zenon
<1> HIDE DEF K, p, N, j
<1>7. \A n \in 0..j : b[n] \in K /\ h[b[n]] = j - n
  <2> DEFINE T == {n \in Nat : n <= j => b[n] \in K /\ h[b[n]] = j - n}
  <2>1. 0 \in T
    BY <1>3, <1>6 DEF j, K
  <2>2. ASSUME NEW n \in T PROVE n + 1 \in T
    <3> SUFFICES ASSUME n + 1 <= j PROVE b[n + 1] \in K /\ h[b[n + 1]] = j - (n + 1)
      OBVIOUS
    <3>1. n \in Nat /\ n <= j /\ n + 1 \in 1..N /\ (n + 1) - 1 = n
      BY <1>3
    <3>2. b[n] \in K /\ h[b[n]] = j - n
      BY <2>2, <3>1
    <3>3. b[n + 1] = p[b[n]]
      BY <1>6, <3>1
    <3>4. b[n] # a
      BY <1>1, <1>3, <3>1, <3>2
    <3>5. p[b[n]] \in K /\ h[b[n]] = h[p[b[n]]] + 1
      BY <1>1, <3>2, <3>4
    <3>6. h[p[b[n]]] \in Nat
      BY <1>2, <3>5
    <3> QED
      BY <1>3, <3>1, <3>2, <3>3, <3>5, <3>6
  <2>3. T = Nat
    <3>1. T \in SUBSET Nat
      OBVIOUS
    <3> HIDE DEF T
    <3> QED
      BY <2>1, <2>2, <3>1, NaturalInduction
  <2> QED
    BY <1>3, <2>3
<1>8. b[j] = a
  <2>1. b[j] \in K /\ h[b[j]] = 0
    BY <1>3, <1>7
  <2>2. b[j] # a => h[b[j]] = h[p[b[j]]] + 1 /\ h[p[b[j]]] \in Nat
    BY <1>1, <1>2, <2>1
  <2> QED
    BY <2>1, <2>2
<1>9. \A n \in 0..(j - 1) : b[n] # a
  BY <1>1, <1>3, <1>7
<1>10. length = j
  <2>1. IsLength(j)
    BY <1>8, <1>9
  <2>2. \A n \in 0..N : IsLength(n) => n = j
    <3>1. ASSUME NEW n \in 0..N, IsLength(n) PROVE n = j
      <4>1. ~(n < j)
        BY <1>3, <1>9, <3>1
      <4>2. ~(j < n)
        BY <1>3, <1>8, <3>1
      <4> QED
        BY <1>3, <4>1, <4>2
    <3> QED
      BY <3>1
  <2> HIDE DEF IsLength
  <2> QED
    BY <1>3, <2>1, <2>2, Zenon DEF length
<1> HIDE DEF length
<1> DEFINE c == [n \in 1..j |-> b[j - n]]
<1>11. Chain(p, a, x) = c
  BY <1>4, <1>10, Zenon
<1>12. \A n \in 1..j : j - n \in 0..j /\ j - n \in 0..(j - 1) /\ b[j - n] \in K /\ b[j - n] \in Files
  BY <1>2, <1>3, <1>7
<1>13. c \in Seq(Files) /\ Len(c) = j /\ \A n \in 1..j : c[n] = b[j - n]
  <2>1. \A n \in 1..j : b[j - n] \in Files
    BY <1>12
  <2>2. c \in [1..j -> Files]
    BY <2>1
  <2>3. \A n \in 1..j : c[n] = b[j - n]
    OBVIOUS
  <2> HIDE DEF c
  <2> QED
    BY <1>3, <2>2, <2>3
<1> HIDE DEF c
<1>14. \A n \in 1..j : <<b[j - n + 1], b[j - n]>> \in W
  <2>1. ASSUME NEW n \in 1..j PROVE <<b[j - n + 1], b[j - n]>> \in W
    <3>1. j - n + 1 \in 1..N /\ (j - n + 1) - 1 = j - n
      BY <1>3
    <3>2. b[j - n + 1] = p[b[j - n]]
      BY <1>6, <3>1
    <3>3. b[j - n] # a /\ b[j - n] \in K
      BY <1>9, <1>12
    <3> QED
      BY <1>1, <3>2, <3>3
  <2> QED
    BY <2>1
<1>15. j = 0 => x = a
  BY <1>6, <1>8
<1>16. ASSUME j # 0 PROVE c[j] = x /\ <<a, c[1]>> \in W
  <2>1. j \in 1..j /\ 1 \in 1..j /\ j - j = 0 /\ j - 1 + 1 = j
    BY <1>3, <1>16
  <2>2. c[j] = x
    BY <1>6, <1>13, <2>1
  <2>3. c[1] = b[j - 1] /\ <<b[j - 1 + 1], b[j - 1]>> \in W
    BY <1>13, <1>14, <2>1
  <2> QED
    BY <1>8, <2>1, <2>2, <2>3
<1>17. ASSUME NEW n \in 1..(j - 1) PROVE <<c[n], c[n + 1]>> \in W
  <2>1. n \in 1..j /\ n + 1 \in 1..j /\ j - (n + 1) + 1 = j - n
    BY <1>3
  <2>2. c[n] = b[j - n] /\ c[n + 1] = b[j - (n + 1)] /\ <<b[j - (n + 1) + 1], b[j - (n + 1)]>> \in W
    BY <1>13, <1>14, <2>1
  <2> QED
    BY <2>1, <2>2
<1>18. ChainOf(c, W, a, x, j)
  BY <1>13, <1>15, <1>16, <1>17 DEF ChainOf
<1> QED
  BY <1>11, <1>18, Zenon DEF p, j

\* A loop through a start that no other is shorter than.
IsShortest(c, W, a) ==
  /\ Len(c) - 1 \in Nat \ {0} /\ c # <<>>
  /\ c[1] = a /\ c[(Len(c) - 1) + 1] = a
  /\ \A n \in 1..(Len(c) - 1) : <<c[n], c[n + 1]>> \in W
  /\ \A n \in Nat \ {0} : a \in After(W, {a}, n) => Len(c) - 1 <= n

Around(a, c) == <<a>> \o c \o <<a>>

GoesRound(list, W, a, j) ==
  /\ Len(list) = j + 2 /\ list[1] = a /\ list[j + 2] = a
  /\ \A n \in 1..(j + 1) : <<list[n], list[n + 1]>> \in W

\* The start, a chain and the start again.
LEMMA LoopFacts ==
  ASSUME NEW W \in SUBSET Between, NEW a \in Files, NEW x \in Files, NEW j \in Nat, NEW c,
         ChainOf(c, W, a, x, j), <<x, a>> \in W
  PROVE  GoesRound(Around(a, c), W, a, j)
<1>1. /\ c \in Seq(Files) /\ Len(c) = j
      /\ j = 0 => x = a
      /\ j # 0 => c[j] = x /\ <<a, c[1]>> \in W
      /\ \A n \in 1..(j - 1) : <<c[n], c[n + 1]>> \in W
  BY Zenon DEF ChainOf
<1> DEFINE l == Around(a, c)
<1>2. Len(l) = j + 2 /\ l[1] = a /\ l[j + 2] = a /\ \A n \in 1..j : l[n + 1] = c[n]
  <2> DEFINE k == <<a>> \o c
  <2>1. k \in Seq(Files) /\ Len(k) = j + 1 /\ k[1] = a /\ \A n \in 1..j : k[n + 1] = c[n]
    BY <1>1
  <2> HIDE DEF k
  <2>2. /\ Len(k \o <<a>>) = j + 2 /\ (k \o <<a>>)[j + 2] = a
        /\ \A n \in 1..(j + 1) : (k \o <<a>>)[n] = k[n]
    BY <2>1
  <2>3. l = k \o <<a>>
    BY Zenon DEF k, Around
  <2> HIDE DEF l
  <2>4. 1 \in 1..(j + 1) /\ \A n \in 1..j : n + 1 \in 1..(j + 1)
    OBVIOUS
  <2> QED
    BY <2>1, <2>2, <2>3, <2>4
<1> HIDE DEF l
<1>3. ASSUME NEW n \in 1..(j + 1) PROVE <<l[n], l[n + 1]>> \in W
  <2>1. CASE n = 1 /\ j = 0
    <3>1. n + 1 = j + 2
      BY <2>1
    <3> QED
      BY <1>1, <1>2, <2>1, <3>1
  <2>2. CASE n = 1 /\ j # 0
    <3>1. 1 \in 1..j
      BY <2>2
    <3> QED
      BY <1>1, <1>2, <2>2, <3>1
  <2>3. CASE n # 1 /\ n # j + 1
    <3>1. n - 1 \in 1..(j - 1) /\ n - 1 \in 1..j /\ n \in 1..j /\ (n - 1) + 1 = n
      BY <2>3
    <3>2. l[n] = c[n - 1] /\ l[n + 1] = c[n]
      BY <1>2, <3>1
    <3>3. <<c[n - 1], c[n]>> \in W
      BY <1>1, <3>1
    <3> QED
      BY <3>2, <3>3
  <2>4. CASE n # 1 /\ n = j + 1
    <3>1. n - 1 = j /\ j \in 1..j /\ n + 1 = j + 2
      BY <2>4
    <3>2. l[n] = c[j] /\ l[n + 1] = a /\ j # 0
      BY <1>2, <2>4, <3>1
    <3> QED
      BY <1>1, <3>2
  <2> QED
    BY <2>1, <2>2, <2>3, <2>4
<1> QED
  BY <1>2, <1>3 DEF l, GoesRound

\* What is nearer than the head of the queue left it, and nothing is reached
\* in fewer steps than it is far.
LEMMA NearerIsFinished ==
  ASSUME NEW W \in SUBSET Between, NEW a \in Files, NEW s \in Fronts, NEW h \in [Files -> Nat],
         Spreads(W, a, s, h), s[1] # <<>>
  PROVE  \A n \in Nat \ {0} : a \in After(W, {a}, n) => h[Head(s[1])] + 1 <= n
<1> DEFINE K == Known(a, s)
           j == h[Head(s[1])]
           q == s[1]
<1>1. ToSet(s[1]) \subseteq K /\ Queued(s, h) /\ Finished(W, a, s, h) /\ Distances(W, a, s, h)
  BY Zenon DEF Spreads
<1>2. K \in SUBSET Files /\ a \in K
  BY DEF Known
<1>3. q \in Seq(Files) /\ Head(q) \in Files
  BY FreshFacts
<1>4. j \in Nat
  BY <1>3
<1>5. \A z \in ToSet(q) : j <= h[z]
  <2>1. \A i, k \in DOMAIN q : i <= k => h[q[i]] <= h[q[k]]
    BY <1>1 DEF Queued
  <2>2. DOMAIN q = 1..Len(q) /\ 1 \in DOMAIN q /\ Head(q) = q[1]
    BY <1>3
  <2>3. ASSUME NEW z \in ToSet(q) PROVE j <= h[z]
    <3>1. PICK i \in DOMAIN q : z = q[i]
      BY DEF ToSet
    <3>2. 1 <= i
      BY <2>2
    <3> QED
      BY <2>1, <2>2, <3>1, <3>2
  <2> QED
    BY <2>3
<1>6. \A x \in K : h[x] < j =>
        <<x, a>> \notin W /\ \A y \in Files : <<x, y>> \in W => y \in K /\ h[y] <= h[x] + 1
  <2>1. ASSUME NEW x \in K, h[x] < j PROVE x \notin ToSet(q)
    <3>1. h[x] \in Nat
      BY <1>2
    <3> QED
      BY <1>4, <1>5, <2>1, <3>1
  <2>2. \A x \in K \ ToSet(q) :
          <<x, a>> \notin W /\ \A y \in Files : <<x, y>> \in W => y \in K /\ h[y] <= h[x] + 1
    BY <1>1, Zenon DEF Finished
  <2> QED
    BY <2>1, <2>2
<1>7. \A n \in Nat : /\ After(W, {a}, 0) = {a} /\ After(W, {a}, n) \in SUBSET Files
                     /\ After(W, {a}, n + 1) = From(W, After(W, {a}, n))
  <2>1. {a} \in SUBSET Files
    OBVIOUS
  <2> QED
    BY <2>1, AfterFacts
<1>8. h[a] = 0
  BY <1>1 DEF Distances
<1>9. \A e \in W : e = <<e[1], e[2]>> /\ e[1] \in Files /\ e[2] \in Files
  BY ReachesFacts
<1> HIDE DEF K, j, q
<1>10. \A n \in Nat : n <= j => \A x \in After(W, {a}, n) : x \in K /\ h[x] <= n
  <2> DEFINE T == {n \in Nat : n <= j => \A x \in After(W, {a}, n) : x \in K /\ h[x] <= n}
  <2>1. 0 \in T
    <3>1. After(W, {a}, 0) = {a} /\ 0 \in Nat
      BY <1>7
    <3>2. \A x \in After(W, {a}, 0) : x \in K /\ h[x] <= 0
      BY <1>2, <1>8, <3>1
    <3> QED
      BY <3>1, <3>2
  <2>2. ASSUME NEW n \in T PROVE n + 1 \in T
    <3> SUFFICES ASSUME n + 1 <= j, NEW y \in After(W, {a}, n + 1) PROVE y \in K /\ h[y] <= n + 1
      <4>1. n + 1 \in Nat
        OBVIOUS
      <4> QED
        BY <4>1, Zenon
    <3>1. n \in Nat /\ n <= j /\ n < j
      BY <1>4
    <3>2. PICK e \in W : e[1] \in After(W, {a}, n) /\ e[2] = y
      BY <1>7, <3>1 DEF From
    <3>3. e[1] \in K /\ h[e[1]] <= n /\ h[e[1]] \in Nat
      BY <1>2, <2>2, <3>1, <3>2
    <3>4. h[e[1]] < j
      BY <1>4, <3>1, <3>3
    <3>5. y \in K /\ h[y] <= h[e[1]] + 1 /\ h[y] \in Nat
      BY <1>6, <1>9, <3>2, <3>3, <3>4
    <3> QED
      BY <3>1, <3>3, <3>5
  <2>3. T = Nat
    <3>1. T \in SUBSET Nat
      OBVIOUS
    <3> HIDE DEF T
    <3> QED
      BY <2>1, <2>2, <3>1, NaturalInduction
  <2> QED
    BY <2>3
<1>11. ASSUME NEW n \in Nat \ {0}, a \in After(W, {a}, n) PROVE j + 1 <= n
  <2>1. SUFFICES ASSUME n <= j PROVE FALSE
    BY <1>4
  <2>2. n - 1 \in Nat /\ (n - 1) + 1 = n /\ n - 1 <= j /\ n - 1 < j
    BY <1>4, <2>1
  <2>3. PICK e \in W : e[1] \in After(W, {a}, n - 1) /\ e[2] = a
    <3>1. After(W, {a}, (n - 1) + 1) = From(W, After(W, {a}, n - 1))
      BY <1>7, <2>2, Zenon
    <3>2. a \in From(W, After(W, {a}, n - 1))
      BY <1>11, <2>2, <3>1
    <3> QED
      BY <3>2 DEF From
  <2>4. e[1] \in K /\ h[e[1]] <= n - 1 /\ h[e[1]] \in Nat
    BY <1>2, <1>10, <2>2, <2>3
  <2>5. h[e[1]] < j
    BY <1>4, <2>2, <2>4
  <2> QED
    BY <1>6, <1>9, <2>3, <2>4, <2>5
<1> QED
  BY <1>11 DEF j, q

\* When the queue is empty, no way leads from the start to itself.
LEMMA NoLoopLeft ==
  ASSUME NEW W \in SUBSET Between, NEW a \in Files, NEW s \in Fronts, NEW h,
         Spreads(W, a, s, h), s[1] = <<>>
  PROVE  ~LeadsOn(W, a, a)
<1> DEFINE K == Known(a, s)
<1>1. ToSet(s[1]) = {}
  BY DEF ToSet
<1>2. \A x \in K : <<x, a>> \notin W /\ \A y \in Files : <<x, y>> \in W => y \in K
  BY <1>1 DEF Spreads, Finished
<1>3. K \in SUBSET Files /\ a \in K
  BY DEF Known
<1>4. \A e \in W : e = <<e[1], e[2]>> /\ e[1] \in Files /\ e[2] \in Files
  BY ReachesFacts
<1> HIDE DEF K
<1>5. ASSUME NEW e \in W, e[1] = a, Reaches(W, e[2], a) PROVE FALSE
  <2>1. e[2] \in K \ {a}
    BY <1>2, <1>3, <1>4, <1>5
  <2>2. ClosedUnder(W, K \ {a})
    BY <1>2, <1>3, <1>4 DEF ClosedUnder
  <2>3. K \ {a} \in SUBSET Files
    BY <1>3
  <2>4. a \in K \ {a}
    BY <1>5, <2>1, <2>2, <2>3 DEF Reaches
  <2> QED
    BY <2>4
<1> QED
  BY <1>5 DEF LeadsOn

\* The layers hold at first, when only the start is known.
LEMMA SpreadFirst ==
  ASSUME NEW W \in SUBSET Between, NEW a \in Files
  PROVE  Spread(W, a, FirstFront(a))
<1> DEFINE q == <<a>>
           p == [f \in Files |-> None]
           h == [f \in Files |-> 0]
           s == <<q, p>>
<1>1. q \in Seq(Files) /\ p \in [Files -> Files \cup {None}] /\ h \in [Files -> Nat]
  OBVIOUS
<1>2. ToSet(q) = {a} /\ DOMAIN q = {1}
  BY DEF ToSet
<1>3. \A f \in Files : p[f] = None /\ h[f] = 0
  OBVIOUS
<1> HIDE DEF p, h, q
<1>4. s[1] = q /\ s[2] = p /\ s \in Fronts
  BY <1>1 DEF Fronts
<1> HIDE DEF s
<1>5. Known(a, s) = {a}
  BY <1>3, <1>4 DEF Known
<1>6. Queued(s, h)
  <2>1. \A i, j \in DOMAIN q : i = j
    BY <1>2
  <2>2. \A i \in DOMAIN q : q[i] \in Files
    BY <1>1
  <2> QED
    BY <1>3, <1>4, <2>1, <2>2 DEF Queued
<1>7. Finished(W, a, s, h)
  BY <1>2, <1>4, <1>5 DEF Finished
<1>8. Distances(W, a, s, h)
  <2>1. Cardinality({a}) = 1
    BY FS_Singleton
  <2> QED
    BY <1>3, <1>4, <1>5, <2>1 DEF Distances
<1>9. Spreads(W, a, s, h)
  BY <1>2, <1>4, <1>5, <1>6, <1>7, <1>8 DEF Spreads
<1>10. Spread(W, a, s)
  BY <1>1, <1>4, <1>9 DEF Spread
<1> QED
  BY <1>10 DEF s, q, p, FirstFront

\* What the breadth-first search finds: a shortest loop among the members, or
\* nothing when there is none.
LEMMA ShortestCycleFacts ==
  ASSUME NEW E \in SUBSET Between, NEW a \in Files, NEW M, NEW W \in SUBSET Between, W = Inside(E, M)
  PROVE  \/ ShortestCycle(E, a, M) = <<>> /\ ~LeadsOn(W, a, a)
         \/ IsShortest(ShortestCycle(E, a, M), W, a)
<1> DEFINE D == Fronts
           T == [s \in D |-> IF Decided(W, a, s) THEN s ELSE Farther(W, s)]
           Stop == {s \in D : Decided(W, a, s)}
           out == [s \in D |-> Loop(a, s)]
           Allowed == {s \in D : Spread(W, a, s)}
           f == [s \in D |-> Cardinality(Files \ Known(a, s))]
           l == [s \in D |-> Len(s[1])]
           s0 == FirstFront(a)
<1>1. PICK g : CallsItselfLast(g, D, T, Stop, out) /\ ShortestCycle(E, a, M) = g[s0]
  <2>1. PICK g : Spreading(g, W, a) /\ ShortestCycle(E, a, M) = g[s0]
    BY ShortestCycleUnfolds
  <2> HIDE DEF s0
  <2> QED
    BY <2>1, Zenon DEF Spreading
<1>2. T \in [D -> D]
  <2>1. \A s \in D : ~Decided(W, a, s) => Farther(W, s) \in D
    BY FartherType DEF Decided
  <2> HIDE DEF D
  <2> QED
    BY <2>1, Zenon
<1>3. Allowed \in SUBSET D /\ s0 \in Allowed
  <2> HIDE DEF s0
  <2>1. Spread(W, a, s0)
    BY SpreadFirst DEF s0
  <2> QED
    BY <2>1 DEF Spread
<1>4. \A s \in D : /\ Known(a, s) \in SUBSET Files /\ Cardinality(Files \ Known(a, s)) \in Nat
                   /\ Len(s[1]) \in Nat
  <2>1. ASSUME NEW s \in D
        PROVE  Known(a, s) \in SUBSET Files /\ Cardinality(Files \ Known(a, s)) \in Nat /\ Len(s[1]) \in Nat
    <3>1. Known(a, s) \in SUBSET Files
      BY DEF Known
    <3>2. Cardinality(Files \ Known(a, s)) \in Nat
      BY ScanConstants, FS_Subset, FS_CardinalityType
    <3>3. s[1] \in Seq(Files)
      BY DEF Fronts
    <3>4. Len(s[1]) \in Nat
      BY <3>3
    <3> QED
      BY <3>1, <3>2, <3>4
  <2> QED
    BY <2>1
<1>5. f \in [D -> Nat] /\ l \in [D -> Nat]
  <2> HIDE DEF D
  <2> QED
    BY <1>4, Zenon
<1>6. ASSUME NEW s \in Allowed, s \notin Stop
      PROVE  T[s] \in Allowed /\ Less(T[s], s, f, l, l)
  <2>1. s \in D /\ Spread(W, a, s) /\ ~Decided(W, a, s)
    BY <1>6
  <2> DEFINE t == Farther(W, s)
  <2>2. /\ Spread(W, a, t) /\ Known(a, s) \subseteq Known(a, t)
        /\ Known(a, t) # Known(a, s) \/ Len(t[1]) < Len(s[1])
    BY <2>1, FartherKeeps
  <2>3. T[s] = t
    BY <2>1, Zenon
  <2>4. t \in D
    BY <2>2 DEF Spread
  <2> HIDE DEF t
  <2>5. /\ f[s] = Cardinality(Files \ Known(a, s)) /\ l[s] = Len(s[1])
        /\ f[t] = Cardinality(Files \ Known(a, t)) /\ l[t] = Len(t[1])
    BY <2>1, <2>4, Zenon
  <2>6. Known(a, s) \in SUBSET Files /\ Known(a, t) \in SUBSET Files
        /\ f[s] \in Nat /\ f[t] \in Nat
    BY <1>4, <2>1, <2>4, <2>5
  <2>7. Less(t, s, f, l, l)
    <3>1. CASE Known(a, s) # Known(a, t)
      <4>1. Files \ Known(a, t) \subseteq Files \ Known(a, s) /\ Files \ Known(a, t) # Files \ Known(a, s)
        BY <2>2, <2>6, <3>1
      <4>2. IsFiniteSet(Files \ Known(a, s))
        BY ScanConstants, FS_Subset
      <4>3. /\ Cardinality(Files \ Known(a, t)) <= Cardinality(Files \ Known(a, s))
            /\ Cardinality(Files \ Known(a, s)) = Cardinality(Files \ Known(a, t)) =>
                 Files \ Known(a, s) = Files \ Known(a, t)
        BY <4>1, <4>2, FS_Subset, Zenon
      <4>4. f[t] < f[s]
        BY <2>5, <2>6, <4>1, <4>3
      <4> QED
        BY <4>4 DEF Less
    <3>2. CASE Known(a, s) = Known(a, t) /\ Len(t[1]) < Len(s[1])
      <4>1. f[t] = f[s]
        BY <2>5, <3>2, Zenon
      <4> QED
        BY <2>5, <3>2, <4>1, Zenon DEF Less
    <3> QED
      BY <2>2, <3>1, <3>2, Zenon
  <2>8. t \in Allowed
    BY <2>2, <2>4
  <2> QED
    BY <2>3, <2>7, <2>8, Zenon
<1>7. PICK e \in Allowed : e \in Stop /\ g[s0] = out[e]
  <2> HIDE DEF D, T, Stop, out, Allowed, f, l, s0
  <2>1. Shrinks(Allowed, T, Stop, f, l, l)
    BY <1>6, Zenon DEF Shrinks
  <2>2. EndsInside(Allowed, Stop, out, g)
    BY <1>1, <1>2, <1>3, <1>5, <2>1, CallsEnd
  <2> QED
    BY <1>3, <2>2, Zenon DEF EndsInside
<1> DEFINE cycle == ShortestCycle(E, a, M)
<1>8. e \in Fronts /\ Spread(W, a, e) /\ Decided(W, a, e) /\ cycle = Loop(a, e)
  BY <1>1, <1>7, Zenon
<1> HIDE DEF cycle, s0, D, T, Stop, out, Allowed, f, l
<1>9. PICK h \in [Files -> Nat] : Spreads(W, a, e, h)
  BY <1>8 DEF Spread
<1>10. CASE e[1] = <<>>
  <2>1. cycle = <<>>
    BY <1>8, <1>10 DEF Loop
  <2>2. ~LeadsOn(W, a, a)
    BY <1>8, <1>9, <1>10, NoLoopLeft
  <2> QED
    BY <2>1, <2>2 DEF cycle
<1>11. CASE e[1] # <<>>
  <2> DEFINE x == Head(e[1])
             j == h[x]
             c == Chain(e[2], a, x)
             list == Around(a, c)
  <2>1. cycle = list
    BY <1>8, <1>11, Zenon DEF Loop, Around
  <2>2. <<x, a>> \in W /\ x \in Files /\ j \in Nat
    <3>1. x \in Files
      BY <1>8, <1>11, FreshFacts
    <3> QED
      BY <1>8, <1>11, <3>1 DEF Decided
  <2>3. x \in Known(a, e)
    <3>1. ToSet(e[1]) \subseteq Known(a, e) /\ x \in ToSet(e[1])
      BY <1>8, <1>9, <1>11, FreshFacts DEF Spreads
    <3> QED
      BY <3>1
  <2>4. ChainOf(c, W, a, x, j)
    <3>1. Distances(W, a, e, h)
      BY <1>9 DEF Spreads
    <3> HIDE DEF x
    <3> QED
      BY <1>8, <2>3, <3>1, ChainFacts
  <2>5. \A n \in Nat \ {0} : a \in After(W, {a}, n) => j + 1 <= n
    BY <1>8, <1>9, <1>11, NearerIsFinished
  <2> HIDE DEF x, j, c
  <2>6. /\ Len(list) = j + 2 /\ list[1] = a /\ list[j + 2] = a
        /\ \A n \in 1..(j + 1) : <<list[n], list[n + 1]>> \in W
    <3>1. GoesRound(list, W, a, j)
      BY <2>2, <2>4, LoopFacts
    <3> HIDE DEF list
    <3> QED
      BY <3>1, Zenon DEF GoesRound
  <2> HIDE DEF list
  <2>7. Len(list) - 1 = j + 1 /\ (Len(list) - 1) + 1 = j + 2 /\ j + 1 \in Nat \ {0}
    BY <2>2, <2>6
  <2>8. list # <<>>
    BY <2>2, <2>6
  <2>9. IsShortest(list, W, a)
    BY <2>5, <2>6, <2>7, <2>8 DEF IsShortest
  <2> QED
    BY <2>1, <2>9, Zenon DEF cycle
<1> QED
  BY <1>10, <1>11

-----------------------------------------------------------------------------
\* The groups of the answer.

\* A way that comes back stays among those that lead to each other.
LEMMA LoopsStayInside ==
  ASSUME NEW E \in SUBSET Between, NEW used \in SUBSET E, NEW a \in Files,
         NEW n \in Nat, a \in After(used, {a}, n)
  PROVE  a \in After(Inside(used, Mutual(E, a)), {a}, n)
<1> DEFINE M == Mutual(E, a)
           W == Inside(used, M)
<1>1. used \in SUBSET Between /\ W \in SUBSET Between
  BY DEF Inside
<1>2. \A b, c : Reaches(used, b, c) => Reaches(E, b, c)
  BY DEF Reaches, ClosedUnder
<1>3. \A V \in SUBSET Between : \A m \in Nat :
        /\ After(V, {a}, 0) = {a} /\ After(V, {a}, m) \in SUBSET Files
        /\ After(V, {a}, m + 1) = From(V, After(V, {a}, m))
  <2>1. {a} \in SUBSET Files
    OBVIOUS
  <2> QED
    BY <2>1, AfterFacts
<1>4. /\ \A x \in Files : Reaches(used, x, x)
      /\ \A x, y, z \in Files : Reaches(used, x, y) /\ Reaches(used, y, z) => Reaches(used, x, z)
      /\ \A e \in used : Reaches(used, e[1], e[2])
      /\ \A e \in used : e[1] \in Files /\ e[2] \in Files /\ e = <<e[1], e[2]>>
  BY <1>1, ReachesFacts
<1>5. ASSUME NEW m \in Nat, NEW x \in After(used, {a}, m), Reaches(used, x, a)
      PROVE  x \in M
  <2>1. Reaches(used, a, x) /\ x \in Files
    BY <1>1, <1>3, <1>5, AfterReaches
  <2> QED
    BY <1>2, <1>5, <2>1 DEF Mutual
<1> DEFINE S == {m \in Nat : \A x \in After(used, {a}, m) : Reaches(used, x, a) => x \in After(W, {a}, m)}
<1>6. 0 \in S
  <2>1. After(used, {a}, 0) = After(W, {a}, 0)
    BY <1>1, <1>3
  <2> HIDE DEF W
  <2> QED
    BY <2>1
<1>7. ASSUME NEW m \in S PROVE m + 1 \in S
  <2>1. m \in Nat /\ m + 1 \in Nat
    OBVIOUS
  <2>2. ASSUME NEW y \in After(used, {a}, m + 1), Reaches(used, y, a) PROVE y \in After(W, {a}, m + 1)
    <3>1. After(used, {a}, m + 1) = From(used, After(used, {a}, m))
      BY <1>1, <1>3, <2>1
    <3>2. PICK e \in used : e[1] \in After(used, {a}, m) /\ e[2] = y
      BY <2>2, <3>1 DEF From
    <3>3. Reaches(used, e[1], a)
      BY <1>4, <2>2, <3>2
    <3>4. e[1] \in After(W, {a}, m)
      BY <1>7, <3>2, <3>3
    <3>5. e[1] \in M /\ y \in M
      BY <1>5, <2>1, <2>2, <3>2, <3>3
    <3>6. e \in W
      BY <1>4, <3>2, <3>5 DEF Inside
    <3>7. After(W, {a}, m + 1) = From(W, After(W, {a}, m))
      BY <1>1, <1>3, <2>1
    <3> QED
      BY <3>2, <3>4, <3>6, <3>7 DEF From
  <2> HIDE DEF W
  <2> QED
    BY <2>1, <2>2
<1>8. S = Nat
  <2>1. S \in SUBSET Nat
    OBVIOUS
  <2> HIDE DEF S
  <2> QED
    BY <1>6, <1>7, <2>1, NaturalInduction
<1>9. Reaches(used, a, a)
  BY <1>4
<1> QED
  BY <1>8, <1>9

\* A graph that has no edge from a file to itself.
IsGraph(graph) ==
  /\ graph.edges \in SUBSET Between /\ graph.runtime \in SUBSET graph.edges
  /\ \A e \in graph.edges : e[1] # e[2]

Together(E, f) == {g \in Files : ReachesIn(E, f, g) /\ ReachesIn(E, g, f)}

\* Files lead to each other by ways that are not empty when they are a group
\* of more than one: then these are the members of the group.
LEMMA TogetherFacts ==
  ASSUME NEW E \in SUBSET Between, \A e \in E : e[1] # e[2], NEW f \in Files
  PROVE  /\ Together(E, f) # {} <=> Cardinality(Mutual(E, f)) > 1
         /\ Together(E, f) # {} => Together(E, f) = Mutual(E, f) /\ LeadsOn(E, f, f)
<1>1. \A g : g \in Together(E, f) <=> g \in Files /\ LeadsOn(E, f, g) /\ LeadsOn(E, g, f)
  BY StepsAreEnough DEF Together
<1>2. /\ \A x \in Files : Reaches(E, x, x)
      /\ \A x, y, z \in Files : Reaches(E, x, y) /\ Reaches(E, y, z) => Reaches(E, x, z)
      /\ \A e \in E : Reaches(E, e[1], e[2])
      /\ \A e \in E : e[1] \in Files /\ e[2] \in Files /\ e = <<e[1], e[2]>>
  BY ReachesFacts
<1>3. \A x, y \in Files : LeadsOn(E, x, y) => Reaches(E, x, y)
  BY <1>2 DEF LeadsOn
<1>4. f \in Mutual(E, f) /\ Mutual(E, f) \in SUBSET Files /\ IsFiniteSet(Mutual(E, f))
  BY MutualFacts, ScanConstants, FS_Subset
<1>5. ASSUME NEW y \in Mutual(E, f), y # f
      PROVE  y \in Together(E, f) /\ LeadsOn(E, f, f)
  <2>1. y \in Files /\ Reaches(E, f, y) /\ Reaches(E, y, f)
    BY DEF Mutual
  <2>2. LeadsOn(E, f, y) /\ LeadsOn(E, y, f)
    BY <1>5, <2>1, FirstEdge
  <2>3. LeadsOn(E, f, f)
    <3>1. PICK e \in E : e[1] = f /\ Reaches(E, e[2], y)
      BY <2>2 DEF LeadsOn
    <3>2. Reaches(E, e[2], f)
      BY <1>2, <2>1, <3>1
    <3> QED
      BY <3>1, <3>2 DEF LeadsOn
  <2> QED
    BY <1>1, <2>1, <2>2, <2>3
<1>6. ASSUME NEW g \in Together(E, f)
      PROVE  \E y \in Mutual(E, f) : y # f
  <2>1. g \in Files /\ LeadsOn(E, f, g) /\ LeadsOn(E, g, f)
    BY <1>1
  <2>2. PICK e \in E : e[1] = f /\ Reaches(E, e[2], g)
    BY <2>1 DEF LeadsOn
  <2>3. e[2] \in Files /\ e[2] # f /\ Reaches(E, f, e[2]) /\ Reaches(E, e[2], f)
    BY <1>2, <1>3, <2>1, <2>2
  <2> QED
    BY <2>3 DEF Mutual
<1>7. ASSUME NEW y \in Mutual(E, f), y # f
      PROVE  Together(E, f) = Mutual(E, f)
  <2>1. ASSUME NEW g \in Together(E, f) PROVE g \in Mutual(E, f)
    BY <1>1, <1>3 DEF Mutual
  <2>2. ASSUME NEW g \in Mutual(E, f) PROVE g \in Together(E, f)
    BY <1>1, <1>4, <1>5, <1>7
  <2> QED
    BY <2>1, <2>2
<1>8. Cardinality(Mutual(E, f)) > 1 <=> \E y \in Mutual(E, f) : y # f
  <2> DEFINE m == Mutual(E, f)
  <2>1. f \in m /\ IsFiniteSet(m)
    BY <1>4
  <2> HIDE DEF m
  <2>2. Cardinality(m) \in Nat /\ Cardinality({f}) = 1 /\ {f} \in SUBSET m
    BY <2>1, FS_CardinalityType, FS_Singleton
  <2>3. Cardinality({f}) <= Cardinality(m) /\ (Cardinality(m) = Cardinality({f}) => m = {f})
    BY <2>1, <2>2, FS_Subset
  <2>4. ASSUME Cardinality(m) > 1 PROVE \E y \in m : y # f
    <3>1. m # {f}
      BY <2>2, <2>4
    <3> QED
      BY <2>1, <3>1
  <2>5. ASSUME NEW y \in m, y # f PROVE Cardinality(m) > 1
    <3>1. m # {f}
      BY <2>5
    <3>2. Cardinality(m) # 1
      BY <2>2, <2>3, <3>1
    <3> QED
      BY <2>2, <2>3, <3>2
  <2> QED
    BY <2>4, <2>5 DEF m
<1> QED
  BY <1>5, <1>6, <1>7, <1>8

\* The first listed member, and the sets of members the answer has.
LEMMA GroupMembers ==
  ASSUME NEW graph, IsGraph(graph), NEW wanted \in SUBSET Files
  PROVE  {g.members : g \in ImportCycles(graph, wanted)} =
           {Together(graph.edges, f) : f \in {f \in Files : Together(graph.edges, f) # {}
                                                            /\ Together(graph.edges, f) \cap wanted # {}}}
<1> DEFINE E == graph.edges
           C == StronglyConnected(E)
           A == {g.members : g \in ImportCycles(graph, wanted)}
           B == {Together(E, f) : f \in {f \in Files : Together(E, f) # {} /\ Together(E, f) \cap wanted # {}}}
<1>1. E \in SUBSET Between /\ \A e \in E : e[1] # e[2]
  BY DEF IsGraph
<1>2. A = {m \in C : m \cap wanted # {}}
  <2>1. \A m : Group(graph, m, wanted).members = m
    BY Zenon DEF Group
  <2>2. ImportCycles(graph, wanted) = {Group(graph, m, wanted) : m \in {m \in C : m \cap wanted # {}}}
    BY Zenon DEF ImportCycles
  <2> HIDE DEF C, E
  <2> QED
    BY <2>1, <2>2, ZenonT(60)
<1> HIDE DEF E
<1>3. C = {m \in {Mutual(E, x) : x \in Files} : Cardinality(m) > 1}
  BY <1>1, StronglyConnectedFacts
<1>4. \A f \in Files : /\ Together(E, f) # {} <=> Cardinality(Mutual(E, f)) > 1
                       /\ Together(E, f) # {} => Together(E, f) = Mutual(E, f)
  BY <1>1, TogetherFacts
<1> HIDE DEF C, A
<1>5. ASSUME NEW m \in A PROVE m \in B
  <2>1. m \in C /\ m \cap wanted # {}
    BY <1>2, <1>5
  <2>2. PICK x \in Files : m = Mutual(E, x) /\ Cardinality(Mutual(E, x)) > 1
    BY <1>3, <2>1
  <2>3. Together(E, x) = m /\ Together(E, x) # {}
    BY <1>4, <2>2
  <2> QED
    BY <2>1, <2>3
<1>6. ASSUME NEW m \in B PROVE m \in A
  <2>1. PICK f \in Files : m = Together(E, f) /\ m # {} /\ m \cap wanted # {}
    BY <1>6
  <2>2. m = Mutual(E, f) /\ Cardinality(Mutual(E, f)) > 1
    BY <1>4, <2>1
  <2>3. m \in C
    BY <1>3, <2>2
  <2> QED
    BY <1>2, <2>1, <2>3
<1>7. A = B
  BY <1>5, <1>6
<1> QED
  BY <1>7 DEF A, E

\* What the answer says of a group.
ShowsALoop(graph, g) ==
  LET used == IF g.typeOnly THEN graph.edges ELSE graph.runtime
      length == Len(g.cycle) - 1
  IN  /\ g.cycle[1] \in g.listed /\ g.cycle[length + 1] = g.cycle[1]
      /\ \A n \in 1..length : <<g.cycle[n], g.cycle[n + 1]>> \in used
      /\ \A n \in Loops(used, g.cycle[1]) : length <= n
      /\ g.typeOnly => Loops(graph.runtime, g.cycle[1]) = {}

NoneIsShorter(c, used, a) ==
  /\ c # <<>> /\ c[1] = a /\ c[(Len(c) - 1) + 1] = a
  /\ \A n \in 1..(Len(c) - 1) : <<c[n], c[n + 1]>> \in used
  /\ \A n \in Loops(used, a) : Len(c) - 1 <= n

\* A shortest loop among those that lead to each other is a shortest one of
\* all the edges.
LEMMA ShortestOfAll ==
  ASSUME NEW E \in SUBSET Between, NEW used \in SUBSET E, NEW a \in Files, NEW c,
         IsShortest(c, Inside(used, Mutual(E, a)), a)
  PROVE  NoneIsShorter(c, used, a)
<1> DEFINE W == Inside(used, Mutual(E, a))
<1>1. /\ c # <<>> /\ c[1] = a /\ c[(Len(c) - 1) + 1] = a
      /\ \A n \in 1..(Len(c) - 1) : <<c[n], c[n + 1]>> \in W
      /\ \A n \in Nat \ {0} : a \in After(W, {a}, n) => Len(c) - 1 <= n
  BY Zenon DEF IsShortest
<1>2. W \in SUBSET used
  BY DEF Inside
<1>3. \A n \in Loops(used, a) : n \in Nat \ {0} /\ a \in After(used, {a}, n)
  BY FS_CardinalityType, ScanConstants DEF Loops, Lengths
<1>4. \A n \in Loops(used, a) : a \in After(W, {a}, n)
  BY <1>3, LoopsStayInside
<1> QED
  BY <1>1, <1>2, <1>3, <1>4 DEF NoneIsShorter

\* Without a way back among them there is no loop at all.
LEMMA NoLoopAtAll ==
  ASSUME NEW E \in SUBSET Between, NEW used \in SUBSET E, NEW a \in Files,
         ~LeadsOn(Inside(used, Mutual(E, a)), a, a)
  PROVE  Loops(used, a) = {}
<1> DEFINE W == Inside(used, Mutual(E, a))
<1>1. W \in SUBSET Between
  BY DEF Inside
<1>2. ASSUME NEW n \in Loops(used, a) PROVE FALSE
  <2>1. n \in Nat /\ n # 0 /\ a \in After(used, {a}, n)
    BY FS_CardinalityType, ScanConstants DEF Loops, Lengths
  <2>2. a \in After(W, {a}, n)
    BY <2>1, LoopsStayInside
  <2> HIDE DEF W
  <2>3. LeadsOn(W, a, a)
    BY <1>1, <2>1, <2>2, AfterReaches
  <2> QED
    BY <2>3 DEF W
<1> QED
  BY <1>2

\* A group that is listed is a strongly connected one, with a shortest loop through its first member.
LEMMA GroupFacts ==
  ASSUME NEW graph, IsGraph(graph), NEW wanted \in SUBSET Files, NEW g \in ImportCycles(graph, wanted)
  PROVE  ShowsALoop(graph, g)
<1> DEFINE E == graph.edges
           R == graph.runtime
<1>1. E \in SUBSET Between /\ R \in SUBSET E /\ R \in SUBSET Between /\ E \in SUBSET E /\ \A e \in E : e[1] # e[2]
  BY DEF IsGraph
<1>2. PICK m \in StronglyConnected(E) : m \cap wanted # {} /\ g = Group(graph, m, wanted)
  BY Zenon DEF ImportCycles
<1> DEFINE a == Head(Sorted(m \cap wanted))
           first == ShortestCycle(R, a, m)
           second == ShortestCycle(E, a, m)
<1>3. /\ g.listed = m \cap wanted /\ g.typeOnly = (first = <<>>)
      /\ g.cycle = IF first # <<>> THEN first ELSE second
  BY <1>2, Zenon DEF Group
<1> HIDE DEF E, R, first, second
<1>4. PICK x \in Files : m = Mutual(E, x) /\ Cardinality(Mutual(E, x)) > 1
  BY <1>1, <1>2, StronglyConnectedFacts
<1>5. a \in m \cap wanted /\ a \in Files
  <2> DEFINE listed == m \cap wanted
  <2>1. listed \in SUBSET Files /\ listed # {}
    BY <1>2
  <2> HIDE DEF listed
  <2>2. Head(Sorted(listed)) \in listed
    BY <2>1, SortedFacts
  <2> QED
    BY <2>1, <2>2 DEF listed
<1> HIDE DEF a
<1>6. m = Mutual(E, a) /\ Cardinality(Mutual(E, a)) > 1
  <2>1. Mutual(E, a) = Mutual(E, x)
    BY <1>1, <1>4, <1>5, MutualFacts
  <2> QED
    BY <1>4, <2>1
<1>7. LeadsOn(E, a, a)
  BY <1>1, <1>5, <1>6, TogetherFacts
<1>8. Loops(E, a) # {}
  <2>1. ReachesIn(E, a, a)
    BY <1>1, <1>5, <1>7, StepsAreEnough
  <2> QED
    BY <2>1 DEF ReachesIn, Loops
<1> DEFINE WR == Inside(R, m)
           WE == Inside(E, m)
<1>9. WR \in SUBSET Between /\ WE \in SUBSET Between
  BY <1>1 DEF Inside
<1>10. \/ first = <<>> /\ ~LeadsOn(WR, a, a)
       \/ IsShortest(first, WR, a)
  <2> HIDE DEF WR
  <2>1. \A W \in SUBSET Between : W = Inside(R, m) =>
           (ShortestCycle(R, a, m) = <<>> /\ ~LeadsOn(W, a, a)) \/ IsShortest(ShortestCycle(R, a, m), W, a)
    BY <1>1, <1>5, ShortestCycleFacts
  <2> QED
    BY <1>9, <2>1, Zenon DEF WR, first, a
<1>11. \/ second = <<>> /\ ~LeadsOn(WE, a, a)
       \/ IsShortest(second, WE, a)
  <2> HIDE DEF WE
  <2>1. \A W \in SUBSET Between : W = Inside(E, m) =>
           (ShortestCycle(E, a, m) = <<>> /\ ~LeadsOn(W, a, a)) \/ IsShortest(ShortestCycle(E, a, m), W, a)
    BY <1>1, <1>5, ShortestCycleFacts
  <2> QED
    BY <1>9, <2>1, Zenon DEF WE, second, a
<1>12. CASE first # <<>>
  <2>1. g.typeOnly = FALSE /\ g.cycle = first
    BY <1>3, <1>12
  <2>2. IsShortest(first, Inside(R, Mutual(E, a)), a)
    BY <1>6, <1>10, <1>12
  <2>3. /\ first[1] = a /\ first[(Len(first) - 1) + 1] = a
        /\ \A n \in 1..(Len(first) - 1) : <<first[n], first[n + 1]>> \in R
        /\ \A n \in Loops(R, a) : Len(first) - 1 <= n
    <3>1. NoneIsShorter(first, R, a)
      BY <1>1, <1>5, <2>2, ShortestOfAll
    <3> QED
      BY <3>1, Zenon DEF NoneIsShorter
  <2> QED
    BY <1>3, <1>5, <2>1, <2>3, Zenon DEF ShowsALoop, R
<1>13. CASE first = <<>>
  <2>1. g.typeOnly = TRUE /\ g.cycle = second
    BY <1>3, <1>13
  <2>2. Loops(R, a) = {}
    <3>1. ~IsShortest(first, WR, a)
      BY <1>13 DEF IsShortest
    <3>2. ~LeadsOn(Inside(R, Mutual(E, a)), a, a)
      BY <1>6, <1>10, <3>1
    <3> QED
      BY <1>1, <1>5, <3>2, NoLoopAtAll
  <2>3. IsShortest(second, Inside(E, Mutual(E, a)), a)
    <3>1. LeadsOn(WE, a, a)
      BY <1>1, <1>5, <1>6, <1>8, NoLoopAtAll
    <3> QED
      BY <1>6, <1>11, <3>1
  <2>4. /\ second[1] = a /\ second[(Len(second) - 1) + 1] = a
        /\ \A n \in 1..(Len(second) - 1) : <<second[n], second[n + 1]>> \in E
        /\ \A n \in Loops(E, a) : Len(second) - 1 <= n
    <3>1. NoneIsShorter(second, E, a)
      BY <1>1, <1>5, <2>3, ShortestOfAll
    <3> QED
      BY <3>1, Zenon DEF NoneIsShorter
  <2> QED
    BY <1>3, <1>5, <2>1, <2>2, <2>4, Zenon DEF ShowsALoop, E, R
<1> QED
  BY <1>12, <1>13

-----------------------------------------------------------------------------
\* CyclesAreTheGroups: the answer is about a graph of the project.

\* The graphs of files and of packages that are built from a project are graphs.
LEMMA GraphsOfProjects ==
  ASSUME NEW p, Scanned(p)
  PROVE  IsGraph(FileGraph(p)) /\ IsGraph(PackageGraph(p))
<1> DEFINE between == {i \in ToSet(p.imports) : i.target \notin {None, i.file}}
           edges == {<<i.file, i.target>> : i \in between}
           runtime == {<<i.file, i.target>> : i \in {i \in between : ~i.typeOnly}}
<1>1. \A i \in between : i.file \in Files /\ i.target \in Files /\ i.target # i.file
  BY DEF Scanned
<1>2. FileGraph(p) = [edges |-> edges, runtime |-> runtime]
  BY Zenon DEF FileGraph
<1>3. edges \in SUBSET Between /\ runtime \in SUBSET edges /\ \A e \in edges : e[1] # e[2]
  <2> HIDE DEF between
  <2> QED
    BY <1>1 DEF Between
<1>4. IsGraph(FileGraph(p))
  <2> HIDE DEF edges, runtime
  <2> QED
    BY <1>2, <1>3 DEF IsGraph
<1> DEFINE deps == {e \in p.dependencies : e[1] # e[2]}
<1>5. PackageGraph(p) = [edges |-> deps, runtime |-> deps]
  BY Zenon DEF PackageGraph
<1>6. deps \in SUBSET Between /\ \A e \in deps : e[1] # e[2]
  BY DEF Scanned, Between
<1>7. IsGraph(PackageGraph(p))
  <2> HIDE DEF deps
  <2> QED
    BY <1>5, <1>6 DEF IsGraph
<1> QED
  BY <1>4, <1>7

CyclesInv ==
  /\ Scanned(project)
  /\ answer.tool = "cycles" =>
       /\ IsGraph(answer.graph) /\ answer.wanted \in SUBSET Files
       /\ answer.groups = ImportCycles(answer.graph, answer.wanted)

\* Nothing is answered when the scan begins.
LEMMA CyclesInvInit == Init => CyclesInv
<1> SUFFICES ASSUME Init PROVE CyclesInv
  OBVIOUS
<1>1. Scanned(project)
  BY ScannedProjects DEF Init, ResolutionInit
<1>2. answer.tool # "cycles"
  BY ScanConstants DEF Init
<1> QED
  BY <1>1, <1>2 DEF CyclesInv

\* Only find_import_cycles answers so, and the project stays as it is.
LEMMA CyclesInvNext == CyclesInv /\ [Next]_analysisVars => CyclesInv'
<1> SUFFICES ASSUME CyclesInv, [Next]_analysisVars PROVE CyclesInv'
  OBVIOUS
<1> USE DEF CyclesInv
<1>1. CASE UNCHANGED analysisVars
  BY <1>1 DEF analysisVars, resolutionVars
<1>2. CASE Resolve
  <2>1. project' = project /\ answer' = answer
    BY <1>2 DEF Resolve, ResolutionNext, Inherit, ResolveNextCall, Inject, ResolveInstances
  <2> QED
    BY <2>1
<1>3. ASSUME NEW scope \in {"file", "package"}, NEW wanted \in {Files} \cup {{f} : f \in Files},
             FindImportCycles(scope, wanted)
      PROVE  CyclesInv'
  <2> DEFINE graph == IF scope = "file" THEN FileGraph(project) ELSE PackageGraph(project)
             groups == ImportCycles(graph, wanted)
  <2>1. /\ answer' = [tool |-> "cycles", graph |-> graph, wanted |-> wanted, groups |-> groups]
        /\ project' = project
    BY <1>3, Zenon DEF FindImportCycles, resolutionVars
  <2>2. IsGraph(graph)
    BY GraphsOfProjects
  <2>3. wanted \in SUBSET Files
    BY <1>3
  <2> HIDE DEF graph
  <2>4. answer'.graph = graph /\ answer'.wanted = wanted /\ answer'.groups = groups
    <3> HIDE DEF groups
    <3> QED
      BY <2>1
  <2> QED
    BY <2>1, <2>2, <2>3, <2>4
<1>4. CASE FindUnusedExports
  <2>1. answer'.tool = "unused" /\ project' = project
    BY <1>4 DEF FindUnusedExports, resolutionVars
  <2> QED
    BY <2>1
<1>5. ASSUME NEW name \in Names \cup project.stores, NEW maxDepth \in 1..MaxDepth, FindImpact(name, maxDepth)
      PROVE  CyclesInv'
  <2>1. answer'.tool = "impact" /\ project' = project
    BY <1>5 DEF FindImpact, resolutionVars
  <2> QED
    BY <2>1
<1> QED
  BY <1>1, <1>2, <1>3, <1>4, <1>5 DEF Next

\* What the search finds in a graph is what the property says of the answer.
LEMMA CyclesInvCovers == CyclesInv => CyclesAreTheGroups
<1> SUFFICES ASSUME CyclesInv, answer.tool = "cycles" PROVE CyclesAreTheGroups
  BY DEF CyclesAreTheGroups
<1>1. /\ IsGraph(answer.graph) /\ answer.wanted \in SUBSET Files
      /\ answer.groups = ImportCycles(answer.graph, answer.wanted)
  BY DEF CyclesInv
<1> DEFINE E == answer.graph.edges
<1>2. {g.members : g \in answer.groups} =
        {Together(E, f) : f \in {f \in Files : Together(E, f) # {} /\ Together(E, f) \cap answer.wanted # {}}}
  <2> DEFINE graph == answer.graph
             wanted == answer.wanted
  <2>1. IsGraph(graph) /\ wanted \in SUBSET Files
    BY <1>1
  <2> HIDE DEF graph, wanted
  <2>2. {g.members : g \in ImportCycles(graph, wanted)} =
          {Together(graph.edges, f) : f \in {f \in Files : Together(graph.edges, f) # {}
                                                           /\ Together(graph.edges, f) \cap wanted # {}}}
    BY <2>1, GroupMembers, Zenon
  <2> QED
    BY <1>1, <2>2, Zenon DEF graph, wanted
<1>3. \A g \in answer.groups : ShowsALoop(answer.graph, g)
  BY <1>1, GroupFacts
<1> QED
  BY <1>2, <1>3, Zenon DEF CyclesAreTheGroups, Together, ShowsALoop

\* The groups find_import_cycles answers with are the sets of files that lead
\* to each other and have a listed member, whatever the imports are; and the
\* loop it shows of each is one through its first listed member, at run time
\* if that has one, and a shortest of those.
THEOREM CyclesTheorem == Spec => []CyclesAreTheGroups
<1>1. Spec => []CyclesInv
  BY CyclesInvInit, CyclesInvNext, PTL DEF Spec
<1> QED
  BY <1>1, CyclesInvCovers, PTL

=============================================================================
