------------------------- MODULE ScanAnalysesProofs -------------------------
(* Proofs about what a scan resolves and what the tools find in it: for any  *)
(* files and names, and any projects the parsers may leave (Scanned).        *)
EXTENDS ScanAnalyses, SequenceTheorems, FiniteSetTheorems, WellFoundedInduction, TLAPS

-----------------------------------------------------------------------------
\* Numbers, and functions made by steps.

\* Every set of numbers that is not empty has a least one.
LEMMA LeastNatural ==
  ASSUME NEW T \in SUBSET Nat, T # {}
  PROVE \E x \in T : \A y \in T : x <= y
<1> DEFINE R == OpToRel(<, Nat)
<1>1. IsWellFoundedOn(R, Nat)
  BY NatLessThanWellFounded
<1>2. \A x, y \in Nat : y < x => <<y, x>> \in R
  BY DEF OpToRel
<1> HIDE DEF R
<1>3. PICK x \in T : \A y \in T : ~(<<y, x>> \in R)
  BY <1>1, WFMin
<1>4. \A y \in T : ~(y < x)
  BY <1>2, <1>3, Zenon
<1>5. \A y \in Nat : ~(y < x) => x <= y
  OBVIOUS
<1> QED
  BY <1>4, <1>5

\* Induction, for a set: 0 is in it, and with a number the next one.
LEMMA NaturalInduction ==
  ASSUME NEW T \in SUBSET Nat, 0 \in T, \A n \in T : n + 1 \in T
  PROVE  T = Nat
<1> SUFFICES ASSUME Nat \ T # {} PROVE FALSE
  OBVIOUS
<1>1. PICK x \in Nat \ T : \A y \in Nat \ T : x <= y
  BY LeastNatural
<1>2. x - 1 \in Nat /\ x - 1 \notin Nat \ T
  BY <1>1
<1> QED
  BY <1>1, <1>2

\* A function on 0..N made by steps: D[i] makes value i from the one before.
Steps(N, S) == [1..N -> [S -> S]]

Iterates(g, N, S, c, D) ==
  g \in [0..N -> S] /\ g[0] = c /\ \A i \in 1..N : g[i] = D[i][g[i - 1]]

\* Such a function exists, for any first value and any steps.
LEMMA Iteration ==
  ASSUME NEW N, NEW S, NEW c, NEW D, N \in Nat, c \in S, D \in Steps(N, S)
  PROVE  \E g : Iterates(g, N, S, c, D)
<1> USE DEF Steps
<1> DEFINE Upto(k) == \E g \in [0..k -> S] : g[0] = c /\ \A i \in 1..k : g[i] = D[i][g[i - 1]]
           T == {k \in Nat : k <= N => Upto(k)}
<1>1. 0 \in T
  <2> DEFINE g == [i \in 0..0 |-> c]
  <2>1. g \in [0..0 -> S] /\ g[0] = c /\ 1..0 = {}
    OBVIOUS
  <2> HIDE DEF g
  <2> QED
    BY <2>1
<1>2. ASSUME NEW k \in T PROVE k + 1 \in T
  <2> SUFFICES ASSUME k + 1 <= N PROVE Upto(k + 1)
    OBVIOUS
  <2>1. k \in Nat /\ k <= N /\ k + 1 \in 1..N
    OBVIOUS
  <2>2. PICK g \in [0..k -> S] : g[0] = c /\ \A i \in 1..k : g[i] = D[i][g[i - 1]]
    BY <1>2, <2>1
  <2> DEFINE h == [i \in 0..(k + 1) |-> IF i <= k THEN g[i] ELSE D[k + 1][g[k]]]
  <2>3. D[k + 1][g[k]] \in S
    BY <2>1, <2>2
  <2>4. h \in [0..(k + 1) -> S]
    BY <2>1, <2>2, <2>3
  <2>5. h[0] = c
    BY <2>1, <2>2
  <2>6. ASSUME NEW i \in 1..(k + 1) PROVE h[i] = D[i][h[i - 1]]
    <3>1. CASE i <= k
      BY <2>1, <2>2, <3>1
    <3>2. CASE i = k + 1
      BY <2>1, <2>2, <3>2
    <3> QED
      BY <2>1, <3>1, <3>2
  <2> QED
    BY <2>4, <2>5, <2>6
<1>3. T = Nat
  BY <1>1, <1>2, NaturalInduction
<1> QED
  BY <1>3 DEF Iterates

\* The numbers from 1 to N, and the one before each.
LEMMA OneToN ==
  ASSUME NEW N \in Nat
  PROVE  /\ 0 \in 0..N /\ N \in 0..N
         /\ \A n \in 1..N : n \in 0..N /\ n # 0 /\ n - 1 \in 0..N
         /\ \A n \in 0..N : n = 0 \/ n \in 1..N
OBVIOUS

\* What iterates is a function of its steps.
LEMMA IteratesFacts ==
  ASSUME NEW N \in Nat, NEW S, NEW c, NEW D, NEW g, Iterates(g, N, S, c, D)
  PROVE  /\ g \in [0..N -> S] /\ g[0] = c
         /\ \A n \in 1..N : g[n - 1] \in S /\ g[n] = D[n][g[n - 1]]
<1> USE DEF Iterates
<1>1. \A n \in 1..N : g[n - 1] \in S
  BY OneToN
<1> QED
  BY <1>1, Zenon

\* Two functions that take the same steps end alike.
LEMMA OnlyIterate ==
  ASSUME NEW N \in Nat, NEW S, NEW c, NEW D, NEW g, Iterates(g, N, S, c, D),
         NEW f, f[0] = c, \A n \in 1..N : f[n - 1] \in S => f[n] = D[n][f[n - 1]]
  PROVE  f[N] = g[N]
<1> DEFINE T == {k \in Nat : k <= N => f[k] = g[k]}
<1>1. 0 \in T
  BY DEF Iterates
<1>2. ASSUME NEW k \in T PROVE k + 1 \in T
  <2> SUFFICES ASSUME k + 1 <= N PROVE f[k + 1] = g[k + 1]
    OBVIOUS
  <2>1. k \in Nat /\ k <= N /\ k + 1 \in 1..N /\ (k + 1) - 1 = k
    OBVIOUS
  <2>2. f[k] = g[k]
    BY <2>1
  <2>3. g[k] \in S /\ g[k + 1] = D[k + 1][g[k]]
    BY <2>1, IteratesFacts
  <2> QED
    BY <2>1, <2>2, <2>3, Zenon
<1>3. T = Nat
  BY <1>1, <1>2, NaturalInduction
<1> QED
  BY <1>3
-----------------------------------------------------------------------------
\* Functions that call themselves last.

\* From x, before it stops, T leads to y in n steps.
Leads(D, T, Stop, x, y, n, h) ==
  /\ n \in Nat /\ h \in [0..n -> D]
  /\ h[0] = x /\ h[n] = y
  /\ \A i \in 1..n : h[i - 1] \notin Stop /\ h[i] = T[h[i - 1]]

Ends(D, T, Stop, x, y) == y \in Stop /\ \E n, h : Leads(D, T, Stop, x, y, n, h)

\* The end is the same one step later.
LEMMA EndsLater ==
  ASSUME NEW D, NEW T \in [D -> D], NEW Stop \in SUBSET D, NEW x \in D \ Stop, NEW y
  PROVE  Ends(D, T, Stop, x, y) <=> Ends(D, T, Stop, T[x], y)
<1>1. ASSUME NEW n, NEW h, Leads(D, T, Stop, x, y, n, h), y \in Stop
      PROVE  \E m, k : Leads(D, T, Stop, T[x], y, m, k)
  <2> USE DEF Leads
  <2>1. n # 0
    BY <1>1
  <2>2. n - 1 \in Nat /\ 1 \in 1..n
    BY <1>1, <2>1
  <2> DEFINE k == [i \in 0..(n - 1) |-> h[i + 1]]
  <2>3. k \in [0..(n - 1) -> D]
    BY <1>1, <2>2
  <2>4. k[0] = T[x] /\ k[n - 1] = y
    BY <1>1, <2>2
  <2>5. \A i \in 1..(n - 1) : k[i - 1] \notin Stop /\ k[i] = T[k[i - 1]]
    <3> SUFFICES ASSUME NEW i \in 1..(n - 1) PROVE k[i - 1] \notin Stop /\ k[i] = T[k[i - 1]]
      OBVIOUS
    <3>1. i + 1 \in 1..n /\ (i + 1) - 1 = i /\ i \in 0..(n - 1) /\ i - 1 \in 0..(n - 1) /\ (i - 1) + 1 = i
      BY <2>2, <1>1
    <3>2. k[i - 1] = h[i] /\ k[i] = h[i + 1]
      BY <3>1
    <3> QED
      BY <1>1, <3>1, <3>2
  <2> HIDE DEF k
  <2> QED
    BY <2>2, <2>3, <2>4, <2>5
<1>2. ASSUME NEW n, NEW h, Leads(D, T, Stop, T[x], y, n, h)
      PROVE  \E m, k : Leads(D, T, Stop, x, y, m, k)
  <2> USE DEF Leads
  <2> DEFINE k == [i \in 0..(n + 1) |-> IF i = 0 THEN x ELSE h[i - 1]]
  <2>1. n + 1 \in Nat /\ k \in [0..(n + 1) -> D]
    BY <1>2
  <2>2. k[0] = x /\ k[n + 1] = y
    BY <1>2
  <2>3. ASSUME NEW i \in 1..(n + 1) PROVE k[i - 1] \notin Stop /\ k[i] = T[k[i - 1]]
    <3>1. CASE i = 1
      BY <1>2, <3>1
    <3>2. CASE i # 1
      <4>1. i - 1 \in 1..n /\ i - 1 \in 0..(n + 1) /\ i \in 0..(n + 1) /\ i # 0 /\ i - 1 # 0
        BY <1>2, <3>2
      <4>2. k[i] = h[i - 1] /\ k[i - 1] = h[(i - 1) - 1]
        BY <4>1
      <4> QED
        BY <1>2, <4>1, <4>2
    <3> QED
      BY <3>1, <3>2
  <2> HIDE DEF k
  <2>4. Leads(D, T, Stop, x, y, n + 1, k)
    BY <2>1, <2>2, <2>3
  <2> HIDE DEF Leads
  <2> QED
    BY <2>4
<1> QED
  BY <1>1, <1>2, Zenon DEF Ends

\* At a stop the end is there.
LEMMA EndsHere ==
  ASSUME NEW D, NEW T \in [D -> D], NEW Stop \in SUBSET D, NEW x \in Stop, NEW y
  PROVE  Ends(D, T, Stop, x, y) <=> y = x
<1>1. ASSUME NEW n, NEW h, Leads(D, T, Stop, x, y, n, h) PROVE y = x
  <2> USE DEF Leads
  <2>1. CASE n = 0
    BY <1>1, <2>1
  <2>2. CASE n # 0
    <3>1. 1 \in 1..n
      BY <1>1, <2>2
    <3>2. h[1 - 1] = x
      BY <1>1
    <3> QED
      BY <1>1, <3>1, <3>2, Zenon
  <2> QED
    BY <2>1, <2>2
<1>2. Leads(D, T, Stop, x, x, 0, [i \in 0..0 |-> x])
  BY DEF Leads
<1> QED
  BY <1>1, <1>2, Zenon DEF Ends

CallsItselfLast(g, D, T, Stop, out) == g = [x \in D |-> IF x \in Stop THEN out[x] ELSE g[T[x]]]

\* Such a function exists, whether the calls end or not.
LEMMA TailCalls ==
  ASSUME NEW D, NEW T \in [D -> D], NEW Stop \in SUBSET D, NEW out
  PROVE  \E g : CallsItselfLast(g, D, T, Stop, out)
<1> DEFINE End(x) == CHOOSE y : Ends(D, T, Stop, x, y)
           g == [x \in D |-> out[End(x)]]
<1>1. ASSUME NEW x \in Stop PROVE g[x] = out[x]
  <2>1. End(x) = x
    BY <1>1, EndsHere, Zenon
  <2> QED
    BY <2>1, Zenon
<1>2. ASSUME NEW x \in D \ Stop PROVE g[x] = g[T[x]]
  <2>1. \A y : Ends(D, T, Stop, x, y) <=> Ends(D, T, Stop, T[x], y)
    BY EndsLater
  <2>2. End(x) = End(T[x])
    BY <2>1, Zenon
  <2>3. x \in D /\ T[x] \in D
    OBVIOUS
  <2>4. \A z \in D : g[z] = out[End(z)]
    OBVIOUS
  <2> HIDE DEF g, End
  <2> QED
    BY <2>2, <2>3, <2>4
<1>3. g = [x \in D |-> IF x \in Stop THEN out[x] ELSE g[T[x]]]
  <2> HIDE DEF g
  <2>1. g = [x \in D |-> g[x]]
    BY DEF g
  <2> QED
    BY <1>1, <1>2, <2>1, Zenon
<1> QED
  BY <1>3, Zenon DEF CallsItselfLast

\* Of two measures, the second counts when the first are equal.
IsLeast(s, T, f, l) == s \in T /\ \A r \in T : f[s] < f[r] \/ (f[s] = f[r] /\ l[s] <= l[r])

\* A set of places that is not empty has one of least rank, and of least length
\* among those of that rank.
LEMMA LeastOfTwo ==
  ASSUME NEW D, NEW f \in [D -> Nat], NEW l \in [D -> Nat], NEW T \in SUBSET D, T # {}
  PROVE  \E s : IsLeast(s, T, f, l)
<1>1. PICK m \in {f[s] : s \in T} : \A k \in {f[s] : s \in T} : m <= k
  <2>1. {f[s] : s \in T} \in SUBSET Nat /\ {f[s] : s \in T} # {}
    OBVIOUS
  <2> QED
    BY <2>1, LeastNatural
<1> DEFINE U == {s \in T : f[s] = m}
<1>2. PICK n \in {l[s] : s \in U} : \A k \in {l[s] : s \in U} : n <= k
  <2>1. {l[s] : s \in U} \in SUBSET Nat /\ {l[s] : s \in U} # {}
    OBVIOUS
  <2> QED
    BY <2>1, LeastNatural
<1>3. PICK s \in U : l[s] = n
  OBVIOUS
<1>4. ASSUME NEW r \in T PROVE f[s] < f[r] \/ (f[s] = f[r] /\ l[s] <= l[r])
  <2>1. m <= f[r] /\ f[r] \in Nat /\ f[s] = m
    BY <1>1, <1>3
  <2>2. CASE f[r] = m
    BY <1>2, <1>3, <2>1, <2>2
  <2>3. CASE f[r] # m
    BY <2>1, <2>3
  <2> QED
    BY <2>2, <2>3
<1> QED
  BY <1>3, <1>4 DEF IsLeast

-----------------------------------------------------------------------------
\* Depth first search.

Places(links) == Seq(DOMAIN links) \X SUBSET DOMAIN links

SearchBy(g, has, links) ==
  \A s \in Places(links) :
    /\ s[1] = <<>> => g[s] = None
    /\ s[1] # <<>> /\ Head(s[1]) \in s[2] => g[s] = g[<<Tail(s[1]), s[2]>>]
    /\ s[1] # <<>> /\ Head(s[1]) \notin s[2] /\ has[Head(s[1])] # None => g[s] = has[Head(s[1])]
    /\ s[1] # <<>> /\ Head(s[1]) \notin s[2] /\ has[Head(s[1])] = None =>
         g[s] = g[<<links[Head(s[1])] \o Tail(s[1]), s[2] \cup {Head(s[1])}>>]

\* A list is its head and its tail.
LEMMA HeadAndTail ==
  ASSUME NEW P, NEW list \in Seq(P), list # <<>>
  PROVE  /\ Head(list) \in P /\ Tail(list) \in Seq(P) /\ Len(Tail(list)) = Len(list) - 1
         /\ ToSet(list) = {Head(list)} \cup ToSet(Tail(list))
<1>1. Head(list) \in P /\ Tail(list) \in Seq(P) /\ Len(Tail(list)) = Len(list) - 1
  BY HeadTailProperties
<1>2. ToSet(list) = {Head(list)} \cup ToSet(Tail(list))
  <2>1. \A i \in 1..Len(list) : i = 1 \/ (i - 1 \in 1..(Len(list) - 1) /\ list[i] = Tail(list)[i - 1])
    BY HeadTailProperties
  <2>2. \A i \in 1..(Len(list) - 1) : i + 1 \in 1..Len(list) /\ Tail(list)[i] = list[i + 1]
    BY HeadTailProperties
  <2>3. Head(list) = list[1] /\ 1 \in 1..Len(list)
    OBVIOUS
  <2> DEFINE rest == Tail(list)
  <2>4. ToSet(list) = {list[i] : i \in 1..Len(list)} /\ ToSet(rest) = {rest[i] : i \in 1..(Len(list) - 1)}
    <3>1. DOMAIN list = 1..Len(list) /\ DOMAIN rest = 1..(Len(list) - 1)
      BY <1>1
    <3> HIDE DEF rest
    <3> QED
      BY <3>1, Zenon DEF ToSet
  <2> HIDE DEF rest
  <2>5. ASSUME NEW x \in ToSet(list) PROVE x = list[1] \/ x \in ToSet(rest)
    BY <2>1, <2>4, <2>5 DEF rest
  <2>6. ASSUME NEW x \in ToSet(rest) PROVE x \in ToSet(list)
    BY <2>2, <2>4, <2>6 DEF rest
  <2>7. list[1] \in ToSet(list)
    BY <2>3, <2>4
  <2> QED
    BY <2>3, <2>5, <2>6, <2>7 DEF rest
<1> QED
  BY <1>1, <1>2

\* DepthFirst is the value at <<start>> of a search that goes by one step.
LEMMA SearchUnfolds ==
  ASSUME NEW has, NEW links, NEW start \in DOMAIN links, links \in [DOMAIN links -> Seq(DOMAIN links)]
  PROVE  \E g : SearchBy(g, has, links) /\ DepthFirst(has, links, start) = g[<< <<start>>, {} >>]
<1> DEFINE P == DOMAIN links
           D == Seq(P) \X SUBSET P
           On(s) == <<Tail(s[1]), s[2]>>
           Into1(s) == <<links[Head(s[1])] \o Tail(s[1]), s[2] \cup {Head(s[1])}>>
           Body(g) == [s \in D |->
                         IF s[1] = <<>> THEN None
                         ELSE IF Head(s[1]) \in s[2] THEN g[On(s)]
                         ELSE IF has[Head(s[1])] # None THEN has[Head(s[1])]
                         ELSE g[Into1(s)]]
           f == CHOOSE g : g = Body(g)
           T == [s \in D |-> IF s[1] = <<>> THEN s ELSE IF Head(s[1]) \in s[2] THEN On(s) ELSE Into1(s)]
           Stop == {s \in D : s[1] = <<>> \/ (Head(s[1]) \notin s[2] /\ has[Head(s[1])] # None)}
           out == [s \in D |-> IF s[1] = <<>> THEN None ELSE has[Head(s[1])]]
<1>1. T \in [D -> D]
  <2>1. ASSUME NEW s \in D, s[1] # <<>> PROVE On(s) \in D /\ Into1(s) \in D
    <3>1. s[1] \in Seq(P) /\ s[2] \in SUBSET P
      OBVIOUS
    <3>2. Head(s[1]) \in P /\ Tail(s[1]) \in Seq(P)
      BY <2>1, <3>1, HeadAndTail
    <3>3. links[Head(s[1])] \o Tail(s[1]) \in Seq(P)
      BY <3>2, ConcatProperties
    <3> HIDE DEF P
    <3> QED
      BY <3>1, <3>2, <3>3
  <2> HIDE DEF D, On, Into1
  <2> QED
    BY <2>1, Zenon
<1>2. Stop \in SUBSET D
  OBVIOUS
<1>3. PICK g : g = [s \in D |-> IF s \in Stop THEN out[s] ELSE g[T[s]]]
  <2> HIDE DEF T, Stop, out, D
  <2>1. \E g : CallsItselfLast(g, D, T, Stop, out)
    BY <1>1, <1>2, TailCalls
  <2> QED
    BY <2>1, Zenon DEF CallsItselfLast
<1>4. g = Body(g)
  <2>1. ASSUME NEW s \in D PROVE g[s] = Body(g)[s]
    <3> HIDE DEF D, On, Into1
    <3>1. CASE s[1] = <<>>
      BY <1>3, <3>1, Zenon
    <3>2. CASE s[1] # <<>> /\ Head(s[1]) \in s[2]
      <4>1. s \notin Stop /\ T[s] = On(s)
        BY <3>2, Zenon
      <4> QED
        BY <1>3, <3>2, <4>1, Zenon
    <3>3. CASE s[1] # <<>> /\ Head(s[1]) \notin s[2] /\ has[Head(s[1])] # None
      BY <1>3, <3>3, Zenon
    <3>4. CASE s[1] # <<>> /\ Head(s[1]) \notin s[2] /\ has[Head(s[1])] = None
      <4>1. s \notin Stop /\ T[s] = Into1(s)
        BY <3>4, Zenon
      <4> QED
        BY <1>3, <3>4, <4>1, Zenon
    <3> QED
      BY <3>1, <3>2, <3>3, <3>4, Zenon
  <2>2. g = [s \in D |-> g[s]]
    <3> HIDE DEF D, Stop, out, T
    <3> QED
      BY <1>3, Zenon
  <2> HIDE DEF D, On, Into1
  <2> QED
    BY <2>1, <2>2, Zenon
<1>5. f = Body(f)
  <2> HIDE DEF Body
  <2> QED
    BY <1>4, Zenon
<1>6. SearchBy(f, has, links)
  <2> HIDE DEF f
  <2> QED
    BY <1>5, Zenon DEF SearchBy, Places
<1>7. DepthFirst(has, links, start) = f[<< <<start>>, {} >>]
  BY Zenon DEF DepthFirst
<1> QED
  BY <1>6, <1>7, Zenon

\* A list made of two has the members of both.
LEMMA ConcatSet ==
  ASSUME NEW P, NEW a \in Seq(P), NEW b \in Seq(P)
  PROVE  ToSet(a \o b) = ToSet(a) \cup ToSet(b) /\ ToSet(a) \subseteq P
<1> DEFINE c == a \o b
<1>1. /\ Len(c) = Len(a) + Len(b) /\ Len(a) \in Nat /\ Len(b) \in Nat
      /\ DOMAIN a = 1..Len(a) /\ DOMAIN b = 1..Len(b) /\ DOMAIN c = 1..Len(c)
      /\ \A i \in 1..Len(a) : c[i] = a[i]
      /\ \A i \in 1..Len(b) : c[Len(a) + i] = b[i]
  BY ConcatProperties
<1> HIDE DEF c
<1>2. ToSet(a) = {a[i] : i \in 1..Len(a)} /\ ToSet(b) = {b[i] : i \in 1..Len(b)} /\ ToSet(c) = {c[i] : i \in 1..Len(c)}
  BY <1>1, Zenon DEF ToSet
<1>3. ASSUME NEW x \in ToSet(c) PROVE x \in ToSet(a) \cup ToSet(b)
  <2>1. PICK i \in 1..Len(c) : x = c[i]
    BY <1>2
  <2>2. CASE i <= Len(a)
    BY <1>1, <1>2, <2>1, <2>2
  <2>3. CASE ~(i <= Len(a))
    <3>1. i - Len(a) \in 1..Len(b) /\ Len(a) + (i - Len(a)) = i
      BY <1>1, <2>3
    <3> QED
      BY <1>1, <1>2, <2>1, <3>1
  <2> QED
    BY <2>2, <2>3
<1>4. ASSUME NEW x \in ToSet(a) PROVE x \in ToSet(c)
  <2>1. PICK i \in 1..Len(a) : x = a[i]
    BY <1>2
  <2>2. i \in 1..Len(c) /\ x = c[i]
    BY <1>1, <2>1
  <2> QED
    BY <1>2, <2>2
<1>5. ASSUME NEW x \in ToSet(b) PROVE x \in ToSet(c)
  <2>1. PICK i \in 1..Len(b) : x = b[i]
    BY <1>2
  <2>2. Len(a) + i \in 1..Len(c) /\ x = c[Len(a) + i]
    BY <1>1, <2>1
  <2> QED
    BY <1>2, <2>2
<1>6. ToSet(a) \subseteq P
  BY <1>2
<1> QED
  BY <1>3, <1>4, <1>5, <1>6 DEF c

\* The search with one place less to visit, and with the next ones of a place.
Skip(s) == <<Tail(s[1]), s[2]>>
Enter(links, s) == <<links[Head(s[1])] \o Tail(s[1]), s[2] \cup {Head(s[1])}>>

\* What holds of a search that ends, and of one whose next step it holds of,
\* holds of every search in finitely many places.
LEMMA SearchInduction ==
  ASSUME NEW links, links \in [DOMAIN links -> Seq(DOMAIN links)], IsFiniteSet(DOMAIN links),
         NEW G \in SUBSET Places(links),
         \A s \in Places(links) : s[1] = <<>> => s \in G,
         \A s \in Places(links) : s[1] # <<>> /\ Head(s[1]) \in s[2] /\ Skip(s) \in G => s \in G,
         \A s \in Places(links) : s[1] # <<>> /\ Head(s[1]) \notin s[2] /\ Enter(links, s) \in G => s \in G
  PROVE  G = Places(links)
<1> DEFINE P == DOMAIN links
           D == Places(links)
           f == [s \in D |-> Cardinality(P \ s[2])]
           l == [s \in D |-> Len(s[1])]
<1>1. \A s \in D : s[1] \in Seq(P) /\ s[2] \in SUBSET P
  BY DEF Places
<1>2. f \in [D -> Nat] /\ l \in [D -> Nat]
  <2>1. \A V \in SUBSET P : Cardinality(P \ V) \in Nat
    BY FS_Difference, FS_CardinalityType
  <2>2. \A s \in D : Len(s[1]) \in Nat
    BY <1>1, LenProperties
  <2>3. \A s \in D : Cardinality(P \ s[2]) \in Nat
    BY <1>1, <2>1
  <2> HIDE DEF P, D
  <2> QED
    BY <2>2, <2>3
<1> SUFFICES ASSUME D \ G # {} PROVE FALSE
  OBVIOUS
<1>3. PICK s \in D \ G : \A r \in D \ G : f[s] < f[r] \/ (f[s] = f[r] /\ l[s] <= l[r])
  <2> DEFINE B == D \ G
  <2>1. B \in SUBSET D /\ B # {}
    OBVIOUS
  <2> HIDE DEF f, l, D, B
  <2>2. \E s : IsLeast(s, B, f, l)
    BY <1>2, <2>1, LeastOfTwo
  <2> QED
    BY <2>2, Zenon DEF B, IsLeast
<1>4. s[1] \in Seq(P) /\ s[2] \in SUBSET P /\ s[1] # <<>>
  BY <1>1
<1>5. Head(s[1]) \in P /\ Tail(s[1]) \in Seq(P) /\ Len(Tail(s[1])) = Len(s[1]) - 1
  BY <1>4, HeadAndTail
<1>6. CASE Head(s[1]) \in s[2]
  <2>1. Skip(s) \in D
    BY <1>4, <1>5 DEF Skip, Places
  <2>2. Skip(s) \in D \ G
    BY <1>4, <1>6, <2>1
  <2>3. f[Skip(s)] = f[s] /\ l[Skip(s)] = l[s] - 1
    BY <1>4, <1>5, <2>1 DEF Skip
  <2>4. l[s] \in Nat /\ f[s] \in Nat
    BY <1>2
  <2> HIDE DEF f, l, D, P
  <2> QED
    BY <1>3, <2>2, <2>3, <2>4
<1>7. CASE Head(s[1]) \notin s[2]
  <2>1. Enter(links, s) \in D
    <3>1. links[Head(s[1])] \o Tail(s[1]) \in Seq(P)
      BY <1>5, ConcatProperties
    <3> QED
      BY <1>4, <1>5, <3>1 DEF Enter, Places
  <2>2. Enter(links, s) \in D \ G
    BY <1>4, <1>7, <2>1
  <2>3. f[Enter(links, s)] = Cardinality((P \ s[2]) \ {Head(s[1])})
    <3>1. P \ (s[2] \cup {Head(s[1])}) = (P \ s[2]) \ {Head(s[1])}
      OBVIOUS
    <3>2. Enter(links, s)[2] = s[2] \cup {Head(s[1])}
      BY DEF Enter
    <3> QED
      BY <2>1, <3>1, <3>2
  <2>4. f[Enter(links, s)] = f[s] - 1
    <3>1. IsFiniteSet(P \ s[2])
      BY FS_Difference
    <3>2. Head(s[1]) \in P \ s[2]
      BY <1>5, <1>7
    <3> DEFINE W == P \ s[2]
               h == Head(s[1])
    <3>3. Cardinality((P \ s[2]) \ {Head(s[1])}) = Cardinality(P \ s[2]) - 1
      <4>1. IsFiniteSet(W) /\ h \in W
        BY <3>1, <3>2
      <4> HIDE DEF W, h
      <4>2. Cardinality(W \ {h}) = Cardinality(W) - 1
        BY <4>1, FS_RemoveElement
      <4> QED
        BY <4>2 DEF W, h
    <3>4. f[s] = Cardinality(P \ s[2])
      OBVIOUS
    <3> QED
      BY <2>3, <3>3, <3>4, Zenon
  <2>5. f[s] \in Nat
    BY <1>2
  <2> HIDE DEF f, l, D, P
  <2> QED
    BY <1>3, <2>2, <2>4, <2>5
<1> QED
  BY <1>6, <1>7

\* Links from finitely many places.
Finite(links) == links \in [DOMAIN links -> Seq(DOMAIN links)] /\ IsFiniteSet(DOMAIN links)

\* A set of places that a search does not leave.
Closed(C, has, links) ==
  /\ C \subseteq DOMAIN links
  /\ \A x \in C : has[x] = None => ToSet(links[x]) \subseteq C

\* What a search finds is in every set it does not leave.
LEMMA SearchStaysInside ==
  ASSUME NEW g, NEW has, NEW links, Finite(links),
         SearchBy(g, has, links), NEW C, Closed(C, has, links),
         NEW s \in Places(links), ToSet(s[1]) \subseteq C, g[s] # None
  PROVE  \E x \in C : has[x] = g[s]
<1> DEFINE Found(r) == ToSet(r[1]) \subseteq C /\ g[r] # None => \E x \in C : has[x] = g[r]
           G == {r \in Places(links) : Found(r)}
<1>1. \A r \in Places(links) : r[1] \in Seq(DOMAIN links) /\ r[2] \in SUBSET DOMAIN links
  BY DEF Places
<1>2. ASSUME NEW r \in Places(links), r[1] = <<>> PROVE r \in G
  BY <1>2 DEF SearchBy
<1>3. ASSUME NEW r \in Places(links), r[1] # <<>>, Head(r[1]) \in r[2], Skip(r) \in G PROVE r \in G
  <2>1. g[r] = g[Skip(r)]
    BY <1>3 DEF SearchBy, Skip
  <2>2. ToSet(r[1]) = {Head(r[1])} \cup ToSet(Tail(r[1])) /\ Skip(r)[1] = Tail(r[1])
    BY <1>1, <1>3, HeadAndTail DEF Skip
  <2> QED
    BY <1>3, <2>1, <2>2
<1>4. ASSUME NEW r \in Places(links), r[1] # <<>>, Head(r[1]) \notin r[2], Enter(links, r) \in G PROVE r \in G
  <2> SUFFICES ASSUME ToSet(r[1]) \subseteq C, g[r] # None PROVE \E x \in C : has[x] = g[r]
    OBVIOUS
  <2>1. /\ ToSet(r[1]) = {Head(r[1])} \cup ToSet(Tail(r[1]))
        /\ Head(r[1]) \in DOMAIN links /\ Tail(r[1]) \in Seq(DOMAIN links)
    BY <1>1, <1>4, HeadAndTail
  <2>2. Head(r[1]) \in C
    BY <2>1
  <2>3. CASE has[Head(r[1])] # None
    BY <1>4, <2>2, <2>3 DEF SearchBy
  <2>4. CASE has[Head(r[1])] = None
    <3>1. g[r] = g[Enter(links, r)]
      BY <1>4, <2>4 DEF SearchBy, Enter
    <3>2. ToSet(links[Head(r[1])]) \subseteq C
      BY <2>2, <2>4 DEF Closed
    <3>3. links[Head(r[1])] \in Seq(DOMAIN links)
      BY <2>1 DEF Finite
    <3>4. ToSet(links[Head(r[1])] \o Tail(r[1])) \subseteq C
      BY <2>1, <3>2, <3>3, ConcatSet
    <3>5. Enter(links, r)[1] = links[Head(r[1])] \o Tail(r[1])
      BY DEF Enter
    <3> QED
      BY <1>4, <3>1, <3>4, <3>5
  <2> QED
    BY <2>3, <2>4
<1>5. G = Places(links)
  <2>1. G \in SUBSET Places(links)
    OBVIOUS
  <2> HIDE DEF G
  <2> QED
    BY <1>2, <1>3, <1>4, <2>1, SearchInduction DEF Finite
<1> QED
  BY <1>5

\* The places it visited have nothing, and lead to places it visited or visits.
Empty(has, links, s) ==
  \A x \in s[2] : has[x] = None /\ ToSet(links[x]) \subseteq s[2] \cup ToSet(s[1])

\* A search that finds nothing has been everywhere it leads.
LEMMA SearchGoesEverywhere ==
  ASSUME NEW g, NEW has, NEW links, Finite(links),
         SearchBy(g, has, links), NEW s \in Places(links), Empty(has, links, s), g[s] = None
  PROVE  \E C : Closed(C, has, links) /\ ToSet(s[1]) \subseteq C /\ \A x \in C : has[x] = None
<1> DEFINE All(C, r) == Closed(C, has, links) /\ ToSet(r[1]) \cup r[2] \subseteq C /\ \A x \in C : has[x] = None
           Ok(r) == Empty(has, links, r) /\ g[r] = None => \E C : All(C, r)
           G == {r \in Places(links) : Ok(r)}
<1>1. \A r \in Places(links) : r[1] \in Seq(DOMAIN links) /\ r[2] \in SUBSET DOMAIN links
  BY DEF Places
<1>2. ASSUME NEW r \in Places(links), r[1] = <<>> PROVE r \in G
  <2> SUFFICES ASSUME Empty(has, links, r) PROVE All(r[2], r)
    BY Zenon
  <2>1. ToSet(r[1]) = {}
    BY <1>2 DEF ToSet
  <2> QED
    BY <1>1, <2>1 DEF Empty, Closed
<1>3. ASSUME NEW r \in Places(links), r[1] # <<>>, Head(r[1]) \in r[2], Skip(r) \in G PROVE r \in G
  <2> SUFFICES ASSUME Empty(has, links, r), g[r] = None PROVE \E C : All(C, r)
    OBVIOUS
  <2>1. g[r] = g[Skip(r)]
    BY <1>3 DEF SearchBy, Skip
  <2>2. ToSet(r[1]) = {Head(r[1])} \cup ToSet(Tail(r[1])) /\ Skip(r)[1] = Tail(r[1]) /\ Skip(r)[2] = r[2]
    BY <1>1, <1>3, HeadAndTail DEF Skip
  <2>3. Empty(has, links, Skip(r))
    BY <1>3, <2>2 DEF Empty
  <2>4. PICK C : All(C, Skip(r))
    BY <1>3, <2>1, <2>3
  <2>5. All(C, r)
    BY <1>3, <2>2, <2>4
  <2> QED
    BY <2>5
<1>4. ASSUME NEW r \in Places(links), r[1] # <<>>, Head(r[1]) \notin r[2], Enter(links, r) \in G PROVE r \in G
  <2> SUFFICES ASSUME Empty(has, links, r), g[r] = None PROVE \E C : All(C, r)
    OBVIOUS
  <2>1. /\ ToSet(r[1]) = {Head(r[1])} \cup ToSet(Tail(r[1]))
        /\ Head(r[1]) \in DOMAIN links /\ Tail(r[1]) \in Seq(DOMAIN links)
    BY <1>1, <1>4, HeadAndTail
  <2>2. has[Head(r[1])] = None
    BY <1>4 DEF SearchBy
  <2>3. g[r] = g[Enter(links, r)]
    BY <1>4, <2>2 DEF SearchBy, Enter
  <2>4. /\ ToSet(Enter(links, r)[1]) = ToSet(links[Head(r[1])]) \cup ToSet(Tail(r[1]))
        /\ Enter(links, r)[2] = r[2] \cup {Head(r[1])}
    <3>1. links[Head(r[1])] \in Seq(DOMAIN links)
      BY <2>1 DEF Finite
    <3> QED
      BY <2>1, <3>1, ConcatSet DEF Enter
  <2>5. Empty(has, links, Enter(links, r))
    <3> DEFINE e == Enter(links, r)
    <3> SUFFICES ASSUME NEW x \in e[2] PROVE has[x] = None /\ ToSet(links[x]) \subseteq e[2] \cup ToSet(e[1])
      BY DEF Empty
    <3> HIDE DEF e
    <3>1. e[2] = r[2] \cup {Head(r[1])} /\ ToSet(e[1]) = ToSet(links[Head(r[1])]) \cup ToSet(Tail(r[1]))
      BY <2>4 DEF e
    <3>2. CASE x \in r[2]
      <4>1. has[x] = None /\ ToSet(links[x]) \subseteq r[2] \cup ToSet(r[1])
        BY <3>2 DEF Empty
      <4> QED
        BY <2>1, <3>1, <4>1
    <3>3. CASE x = Head(r[1])
      BY <2>2, <3>1, <3>3
    <3> QED
      BY <3>1, <3>2, <3>3
  <2>6. PICK C : All(C, Enter(links, r))
    BY <1>4, <2>3, <2>5
  <2>7. All(C, r)
    BY <2>1, <2>4, <2>6
  <2> QED
    BY <2>7
<1>5. G = Places(links)
  <2>1. G \in SUBSET Places(links)
    OBVIOUS
  <2> HIDE DEF G
  <2> QED
    BY <1>2, <1>3, <1>4, <2>1, SearchInduction DEF Finite
<1> QED
  BY <1>5

\* What DepthFirst finds: something of a place its start leads to, whenever
\* there is such a place, through whatever circles.
LEMMA DepthFirstFinds ==
  ASSUME NEW has, NEW links, NEW start \in DOMAIN links, Finite(links)
  PROVE  /\ DepthFirst(has, links, start) # None =>
              \A C : Closed(C, has, links) /\ start \in C => \E x \in C : has[x] = DepthFirst(has, links, start)
         /\ DepthFirst(has, links, start) = None =>
              \E C : Closed(C, has, links) /\ start \in C /\ \A x \in C : has[x] = None
<1>1. PICK g : SearchBy(g, has, links) /\ DepthFirst(has, links, start) = g[<< <<start>>, {} >>]
  BY SearchUnfolds DEF Finite
<1>0. PICK s : s = << <<start>>, {} >>
  OBVIOUS
<1>2. s \in Places(links) /\ ToSet(s[1]) = {start} /\ s[2] = {}
  <2> DEFINE list == <<start>>
  <2>1. list \in Seq(DOMAIN links) /\ DOMAIN list = {1} /\ list[1] = start
    OBVIOUS
  <2>2. s = <<list, {}>>
    BY <1>0
  <2> HIDE DEF list
  <2>3. ToSet(list) = {start}
    BY <2>1 DEF ToSet
  <2> QED
    BY <2>1, <2>2, <2>3 DEF Places
<1>3. DepthFirst(has, links, start) = g[s]
  BY <1>0, <1>1, Zenon
<1>4. Empty(has, links, s)
  <2>1. \A x : x \notin s[2]
    BY <1>2
  <2> QED
    BY <2>1, Zenon DEF Empty
<1>5. ASSUME g[s] # None, NEW C, Closed(C, has, links), start \in C PROVE \E x \in C : has[x] = g[s]
  <2>1. ToSet(s[1]) \subseteq C
    BY <1>2, <1>5
  <2>2. s \in Places(links)
    BY <1>2
  <2> QED
    BY <1>1, <1>5, <2>1, <2>2, SearchStaysInside
<1>6. ASSUME g[s] = None PROVE \E C : Closed(C, has, links) /\ start \in C /\ \A x \in C : has[x] = None
  <2>1. PICK C : Closed(C, has, links) /\ ToSet(s[1]) \subseteq C /\ \A x \in C : has[x] = None
    BY <1>1, <1>2, <1>4, <1>6, SearchGoesEverywhere
  <2> QED
    BY <1>2, <2>1
<1> QED
  BY <1>3, <1>5, <1>6

-----------------------------------------------------------------------------
\* Walks along calls.

\* One level of a walk.
Level(edges, before, level) ==
  LET frontier == {n \in DOMAIN before : before[n] = level - 1}
      reached == From(edges, frontier) \ DOMAIN before
  IN  [n \in DOMAIN before \cup reached |-> IF n \in reached THEN level ELSE before[n]]

\* d is the distance of what is reached from the seeds within n steps.
Walked(d, edges, seeds, n) ==
  /\ d \in [DOMAIN d -> 0..n]
  /\ \A s \in seeds : s \in DOMAIN d /\ d[s] = 0
  /\ \A e \in edges : e[1] \in DOMAIN d /\ d[e[1]] < n => e[2] \in DOMAIN d /\ d[e[2]] <= d[e[1]] + 1
  /\ \A x \in DOMAIN d : d[x] = 0 => x \in seeds
  /\ \A x \in DOMAIN d : d[x] # 0 =>
       \E e \in edges : e[2] = x /\ e[1] \in DOMAIN d /\ d[e[1]] = d[x] - 1

\* A level takes a walk one step further.
LEMMA LevelWalks ==
  ASSUME NEW edges, NEW seeds, NEW d, NEW n \in Nat, n # 0, Walked(d, edges, seeds, n - 1)
  PROVE  Walked(Level(edges, d, n), edges, seeds, n)
<1> DEFINE frontier == {x \in DOMAIN d : d[x] = n - 1}
           reached == From(edges, frontier) \ DOMAIN d
           h == Level(edges, d, n)
<1>1. /\ d \in [DOMAIN d -> 0..(n - 1)]
      /\ \A s \in seeds : s \in DOMAIN d /\ d[s] = 0
      /\ \A e \in edges : e[1] \in DOMAIN d /\ d[e[1]] < n - 1 =>
           e[2] \in DOMAIN d /\ d[e[2]] <= d[e[1]] + 1
      /\ \A x \in DOMAIN d : d[x] = 0 => x \in seeds
      /\ \A x \in DOMAIN d : d[x] # 0 =>
           \E e \in edges : e[2] = x /\ e[1] \in DOMAIN d /\ d[e[1]] = d[x] - 1
  BY DEF Walked
<1>2. h = [x \in DOMAIN d \cup reached |-> IF x \in reached THEN n ELSE d[x]]
  BY Zenon DEF Level
<1>3. \A x \in reached : x \notin DOMAIN d /\ \E e \in edges : e[1] \in frontier /\ e[2] = x
  BY DEF From
<1>4. \A e \in edges : e[1] \in frontier => e[2] \in DOMAIN d \/ e[2] \in reached
  BY DEF From
<1>5. DOMAIN h = DOMAIN d \cup reached
  BY <1>2
<1>6. \A x \in DOMAIN d : h[x] = d[x]
  BY <1>2, <1>3
<1>7. \A x \in reached : h[x] = n
  BY <1>2
<1>8. \A x \in DOMAIN d : d[x] \in 0..(n - 1)
  BY <1>1
<1>9. h = [x \in DOMAIN h |-> h[x]]
  BY <1>2, <1>5, Zenon
<1>10. \A x \in frontier : x \in DOMAIN d /\ d[x] = n - 1
  OBVIOUS
<1>11. \A x \in DOMAIN d : d[x] = n - 1 => x \in frontier
  OBVIOUS
<1> HIDE DEF h, frontier, reached
<1>12. h \in [DOMAIN h -> 0..n]
  <2>1. \A x \in DOMAIN h : h[x] \in 0..n
    BY <1>5, <1>6, <1>7, <1>8
  <2> QED
    BY <1>9, <2>1, Zenon
<1>13. ASSUME NEW s \in seeds PROVE s \in DOMAIN h /\ h[s] = 0
  BY <1>1, <1>5, <1>6
<1>14. ASSUME NEW e \in edges, e[1] \in DOMAIN h, h[e[1]] < n
       PROVE  e[2] \in DOMAIN h /\ h[e[2]] <= h[e[1]] + 1
  <2>1. e[1] \in DOMAIN d /\ h[e[1]] = d[e[1]] /\ d[e[1]] \in 0..(n - 1)
    BY <1>5, <1>6, <1>7, <1>8, <1>14
  <2>2. CASE d[e[1]] < n - 1
    BY <1>1, <1>5, <1>6, <2>1, <2>2
  <2>3. CASE d[e[1]] = n - 1
    <3>1. e[1] \in frontier
      BY <1>11, <2>1, <2>3
    <3>2. CASE e[2] \in DOMAIN d
      <4>1. h[e[2]] = d[e[2]] /\ d[e[2]] \in 0..(n - 1)
        BY <1>6, <1>8, <3>2
      <4> QED
        BY <1>5, <2>1, <2>3, <3>2, <4>1
    <3>3. CASE e[2] \in reached
      BY <1>5, <1>7, <2>1, <2>3, <3>3
    <3> QED
      BY <1>4, <3>1, <3>2, <3>3
  <2> QED
    BY <2>1, <2>2, <2>3
<1>15. ASSUME NEW x \in DOMAIN h, h[x] = 0 PROVE x \in seeds
  BY <1>1, <1>5, <1>6, <1>7, <1>15
<1>16. ASSUME NEW x \in DOMAIN h, h[x] # 0
       PROVE  \E e \in edges : e[2] = x /\ e[1] \in DOMAIN h /\ h[e[1]] = h[x] - 1
  <2>1. CASE x \in DOMAIN d
    BY <1>1, <1>5, <1>6, <1>16, <2>1
  <2>2. CASE x \in reached
    <3>1. PICK e \in edges : e[1] \in frontier /\ e[2] = x
      BY <1>3, <2>2
    <3>2. e[1] \in DOMAIN h /\ h[e[1]] = n - 1 /\ h[x] = n
      BY <1>5, <1>6, <1>7, <1>10, <2>2, <3>1
    <3> QED
      BY <3>1, <3>2
  <2> QED
    BY <1>5, <2>1, <2>2
<1>17. Walked(h, edges, seeds, n)
  BY <1>12, <1>13, <1>14, <1>15, <1>16, Zenon DEF Walked
<1> QED
  BY <1>17 DEF h

\* WalkCalls finds what is reached within its depth, at its least distance.
LEMMA WalkCallsWalks ==
  ASSUME NEW edges, NEW seeds, NEW N \in Nat
  PROVE  Walked(WalkCalls(edges, seeds, N), edges, seeds, N)
<1> DEFINE U == seeds \cup {e[2] : e \in edges}
           S == UNION {[A -> Nat] : A \in SUBSET U}
           c == [s \in seeds |-> 0]
           Step(n, v) == Level(edges, v, n)
           Body(u) == [n \in 0..N |-> IF n = 0 THEN c ELSE Step(n, u[n - 1])]
           f == CHOOSE u : u = Body(u)
           D == [n \in 1..N |-> [v \in S |-> Step(n, v)]]
<1>1. WalkCalls(edges, seeds, N) = f[N]
  BY Zenon DEF WalkCalls, Level
<1>2. c \in S
  OBVIOUS
<1>3. D \in Steps(N, S)
  <2>1. ASSUME NEW n \in 1..N, NEW v \in S
        PROVE  Step(n, v) \in S
    <3>1. PICK A \in SUBSET U : v \in [A -> Nat]
      BY <2>1
    <3> DEFINE reached == From(edges, {x \in DOMAIN v : v[x] = n - 1}) \ DOMAIN v
    <3>2. reached \in SUBSET U
      BY DEF From
    <3>3. Level(edges, v, n) = [x \in A \cup reached |-> IF x \in reached THEN n ELSE v[x]]
      <4>1. DOMAIN v = A
        BY <3>1
      <4> QED
        BY <4>1, Zenon DEF Level
    <3> HIDE DEF reached, U
    <3>4. Level(edges, v, n) \in [A \cup reached -> Nat]
      BY <3>1, <3>3
    <3> QED
      BY <3>2, <3>4
  <2> HIDE DEF Step, S
  <2> QED
    BY <2>1, Zenon DEF Steps
<1>4. \A n \in 1..N, v \in S : D[n][v] = Step(n, v)
  BY Zenon
<1>5. PICK g : Iterates(g, N, S, c, D)
  <2> HIDE DEF D, S, c
  <2> QED
    BY <1>2, <1>3, Iteration
<1>6. /\ g[0] = c
      /\ \A n \in 1..N : g[n] = Step(n, g[n - 1])
  <2> HIDE DEF D, S, Step, c
  <2>1. /\ g \in [0..N -> S] /\ g[0] = c
        /\ \A n \in 1..N : g[n - 1] \in S /\ g[n] = D[n][g[n - 1]]
    BY <1>5, IteratesFacts
  <2> QED
    BY <1>4, <2>1, Zenon
<1>7. \E u : u = Body(u)
  <2> HIDE DEF S, Step, D, c
  <2>1. ASSUME NEW n \in 0..N PROVE g[n] = Body(g)[n]
    <3>1. CASE n = 0
      BY <1>6, <3>1, Zenon
    <3>2. CASE n # 0
      <4>1. n \in 1..N
        BY <3>2
      <4>2. g[n] = Step(n, g[n - 1])
        BY <1>6, <4>1, Zenon
      <4> QED
        BY <3>2, <4>2, Zenon
    <3> QED
      BY <3>1, <3>2
  <2>2. g \in [0..N -> S]
    BY <1>2, <1>5, IteratesFacts
  <2> QED
    BY <2>1, <2>2, Zenon
<1>8. f = Body(f)
  <2> HIDE DEF Body
  <2> QED
    BY <1>7, Zenon
<1>9. f[0] = c /\ \A n \in 1..N : f[n] = Step(n, f[n - 1])
  <2> HIDE DEF f, Step, c
  <2> QED
    BY <1>8, OneToN, Zenon
<1> DEFINE T == {k \in Nat : k <= N => Walked(f[k], edges, seeds, k)}
<1>10. 0 \in T
  <2>1. Walked(c, edges, seeds, 0)
    BY DEF Walked
  <2> HIDE DEF c, f
  <2> QED
    BY <1>9, <2>1
<1>11. ASSUME NEW k \in T PROVE k + 1 \in T
  <2> HIDE DEF f
  <2> SUFFICES ASSUME k + 1 <= N PROVE Walked(f[k + 1], edges, seeds, k + 1)
    OBVIOUS
  <2>1. k + 1 \in 1..N /\ (k + 1) - 1 = k /\ k + 1 \in Nat /\ k + 1 # 0 /\ k <= N
    OBVIOUS
  <2>2. f[k + 1] = Level(edges, f[k], k + 1)
    BY <1>9, <2>1, Zenon
  <2>3. Walked(f[k], edges, seeds, (k + 1) - 1)
    BY <2>1
  <2> QED
    BY <2>1, <2>2, <2>3, LevelWalks
<1> HIDE DEF f
<1>12. T = Nat
  <2>1. T \in SUBSET Nat
    OBVIOUS
  <2> HIDE DEF T
  <2> QED
    BY <1>10, <1>11, <2>1, NaturalInduction
<1>13. Walked(f[N], edges, seeds, N)
  BY <1>12
<1> QED
  BY <1>1, <1>13

\* A walk that starts within j steps of another, and ends j steps earlier,
\* stays within it.
LEMMA WalksGrow ==
  ASSUME NEW edges, NEW seeds, NEW starts, NEW d, NEW b, NEW N \in Nat, NEW M \in Nat, NEW j \in Nat,
         Walked(d, edges, seeds, N), Walked(b, edges, starts, M), M + j <= N,
         \A s \in starts : s \in DOMAIN d /\ d[s] <= j
  PROVE  \A x \in DOMAIN b : x \in DOMAIN d /\ d[x] <= b[x] + j
<1> DEFINE T == {k \in Nat : \A x \in DOMAIN b : b[x] = k => x \in DOMAIN d /\ d[x] <= k + j}
<1>1. /\ \A x \in DOMAIN d : d[x] \in 0..N
      /\ \A x \in DOMAIN b : b[x] \in 0..M
      /\ \A e \in edges : e[1] \in DOMAIN d /\ d[e[1]] < N => e[2] \in DOMAIN d /\ d[e[2]] <= d[e[1]] + 1
      /\ \A x \in DOMAIN b : b[x] = 0 => x \in starts
      /\ \A x \in DOMAIN b : b[x] # 0 =>
           \E e \in edges : e[2] = x /\ e[1] \in DOMAIN b /\ b[e[1]] = b[x] - 1
  BY DEF Walked
<1>2. 0 \in T
  BY <1>1
<1>3. ASSUME NEW k \in T PROVE k + 1 \in T
  <2> SUFFICES ASSUME NEW x \in DOMAIN b, b[x] = k + 1 PROVE x \in DOMAIN d /\ d[x] <= (k + 1) + j
    OBVIOUS
  <2>1. k \in Nat /\ b[x] # 0 /\ b[x] - 1 = k /\ b[x] \in 0..M
    BY <1>1
  <2>2. PICK e \in edges : e[2] = x /\ e[1] \in DOMAIN b /\ b[e[1]] = k
    BY <1>1, <2>1
  <2>3. e[1] \in DOMAIN d /\ d[e[1]] <= k + j /\ d[e[1]] \in 0..N
    BY <1>1, <1>3, <2>2
  <2>4. d[e[1]] < N
    BY <2>1, <2>3
  <2>5. x \in DOMAIN d /\ d[x] <= d[e[1]] + 1 /\ d[x] \in 0..N
    BY <1>1, <2>2, <2>3, <2>4
  <2> QED
    BY <2>1, <2>3, <2>5
<1>4. T = Nat
  <2>1. T \in SUBSET Nat
    OBVIOUS
  <2> HIDE DEF T
  <2> QED
    BY <1>2, <1>3, <2>1, NaturalInduction
<1> QED
  BY <1>1, <1>4
-----------------------------------------------------------------------------
\* Stores that change in turn.

Row(p, n, seen) ==
  IF p.reads[n][2] \in seen THEN seen \cup Into(p.definitions, {p.reads[n][1]}) ELSE seen

\* f[n] are the stores known to change after n rows.
RowByRow(f, p, changed) ==
  /\ f[0] = changed
  /\ \A n \in 1..Len(p.reads) : f[n] = Row(p, n, f[n - 1])
  /\ DeriveOnce(p, changed) = f[Len(p.reads)]

\* DeriveOnce goes row by row.
LEMMA DeriveOnceSteps ==
  ASSUME NEW p, p.reads \in Seq(ToSet(p.reads)), NEW changed
  PROVE  \E f : RowByRow(f, p, changed)
<1> DEFINE N == Len(p.reads)
           S == SUBSET (changed \cup {e[1] : e \in p.definitions})
           Step(n, v) == Row(p, n, v)
           Body(u) == [n \in 0..N |-> IF n = 0 THEN changed ELSE Step(n, u[n - 1])]
           f == CHOOSE u : u = Body(u)
           D == [n \in 1..N |-> [v \in S |-> Step(n, v)]]
<1>1. DeriveOnce(p, changed) = f[N]
  BY Zenon DEF DeriveOnce, Row
<1>2. N \in Nat
  BY LenProperties
<1>3. changed \in S
  OBVIOUS
<1>4. D \in Steps(N, S)
  <2>1. ASSUME NEW n \in 1..N, NEW v \in S
        PROVE  Step(n, v) \in S
    <3>1. Into(p.definitions, {p.reads[n][1]}) \subseteq {e[1] : e \in p.definitions}
      BY DEF Into
    <3> QED
      BY <3>1 DEF Row
  <2> HIDE DEF Step, S, N
  <2> QED
    BY <2>1, Zenon DEF Steps
<1>5. \A n \in 1..N, v \in S : D[n][v] = Step(n, v)
  BY Zenon
<1>6. PICK g : Iterates(g, N, S, changed, D)
  <2> HIDE DEF D, S, N
  <2> QED
    BY <1>2, <1>3, <1>4, Iteration
<1>7. /\ g \in [0..N -> S]
      /\ g[0] = changed
      /\ \A n \in 1..N : g[n] = Step(n, g[n - 1])
  <2> HIDE DEF D, S, Step, N
  <2>1. /\ g \in [0..N -> S] /\ g[0] = changed
        /\ \A n \in 1..N : g[n - 1] \in S /\ g[n] = D[n][g[n - 1]]
    BY <1>2, <1>6, IteratesFacts
  <2> QED
    BY <1>5, <2>1, Zenon
<1>8. \E u : u = Body(u)
  <2> HIDE DEF S, Step, D, N
  <2>1. ASSUME NEW n \in 0..N PROVE g[n] = Body(g)[n]
    <3>1. CASE n = 0
      BY <1>7, <3>1, Zenon
    <3>2. CASE n # 0
      <4>1. n \in 1..N
        BY <1>2, <3>2
      <4>2. g[n] = Step(n, g[n - 1])
        BY <1>7, <4>1, Zenon
      <4> QED
        BY <3>2, <4>2, Zenon
    <3> QED
      BY <3>1, <3>2
  <2> QED
    BY <1>7, <2>1, Zenon
<1>9. f = Body(f)
  <2> HIDE DEF Body
  <2> QED
    BY <1>8, Zenon
<1>10. f[0] = changed /\ \A n \in 1..N : f[n] = Step(n, f[n - 1])
  <2> HIDE DEF f, Step, N
  <2> QED
    BY <1>2, <1>9, OneToN, Zenon
<1>11. RowByRow(f, p, changed)
  <2> HIDE DEF f
  <2> QED
    BY <1>1, <1>10, Zenon DEF RowByRow
<1> QED
  BY <1>11, Zenon

\* A round only adds stores that have a definition, and more for more stores.
LEMMA RoundsGrow ==
  ASSUME NEW p, p.reads \in Seq(ToSet(p.reads)), NEW less, NEW more, less \subseteq more
  PROVE  /\ less \subseteq DeriveOnce(p, less)
         /\ DeriveOnce(p, less) \subseteq less \cup {e[1] : e \in p.definitions}
         /\ DeriveOnce(p, less) \subseteq DeriveOnce(p, more)
<1> DEFINE N == Len(p.reads)
           Defined == {e[1] : e \in p.definitions}
<1>1. PICK f : RowByRow(f, p, less)
  BY DeriveOnceSteps
<1>2. PICK g : RowByRow(g, p, more)
  BY DeriveOnceSteps
<1>3. N \in Nat
  BY LenProperties
<1> DEFINE Holds(k) == less \subseteq f[k] /\ f[k] \subseteq less \cup Defined /\ f[k] \subseteq g[k]
           T == {k \in Nat : k <= N => Holds(k)}
<1>4. 0 \in T
  BY <1>1, <1>2 DEF RowByRow
<1>5. ASSUME NEW k \in T PROVE k + 1 \in T
  <2> SUFFICES ASSUME k + 1 <= N PROVE Holds(k + 1)
    OBVIOUS
  <2>1. k + 1 \in 1..N /\ (k + 1) - 1 = k /\ Holds(k)
    BY <1>3
  <2>2. f[k + 1] = Row(p, k + 1, f[k]) /\ g[k + 1] = Row(p, k + 1, g[k])
    BY <1>1, <1>2, <2>1, Zenon DEF RowByRow
  <2>3. Into(p.definitions, {p.reads[k + 1][1]}) \subseteq Defined
    BY DEF Into
  <2> HIDE DEF N, Defined
  <2> QED
    BY <2>1, <2>2, <2>3 DEF Row
<1>6. T = Nat
  <2>1. T \in SUBSET Nat
    OBVIOUS
  <2> HIDE DEF T
  <2> QED
    BY <1>4, <1>5, <2>1, NaturalInduction
<1>7. Holds(N)
  BY <1>3, <1>6
<1> QED
  BY <1>1, <1>2, <1>7 DEF RowByRow

\* f[n] are the stores known to change after n rounds.
RoundByRound(f, p, changed, rounds) ==
  /\ f[0] = changed
  /\ \A n \in 1..rounds : f[n] = DeriveOnce(p, f[n - 1])
  /\ Derive(p, changed, rounds) = f[rounds]

\* Derive goes round by round.
LEMMA DeriveSteps ==
  ASSUME NEW p, p.reads \in Seq(ToSet(p.reads)), NEW changed, NEW N \in Nat
  PROVE  \E f : RoundByRound(f, p, changed, N)
<1> DEFINE S == SUBSET (changed \cup {e[1] : e \in p.definitions})
           Body(u) == [n \in 0..N |-> IF n = 0 THEN changed ELSE DeriveOnce(p, u[n - 1])]
           f == CHOOSE u : u = Body(u)
           D == [n \in 1..N |-> [v \in S |-> DeriveOnce(p, v)]]
<1>1. Derive(p, changed, N) = f[N]
  BY Zenon DEF Derive
<1>2. changed \in S
  OBVIOUS
<1>3. D \in Steps(N, S)
  <2>1. ASSUME NEW v \in S PROVE DeriveOnce(p, v) \in S
    <3>1. DeriveOnce(p, v) \subseteq v \cup {e[1] : e \in p.definitions}
      BY RoundsGrow
    <3> QED
      BY <3>1
  <2> HIDE DEF S
  <2> QED
    BY <2>1, Zenon DEF Steps
<1>4. \A n \in 1..N, v \in S : D[n][v] = DeriveOnce(p, v)
  BY Zenon
<1>5. PICK g : Iterates(g, N, S, changed, D)
  <2> HIDE DEF D, S
  <2> QED
    BY <1>2, <1>3, Iteration
<1>6. /\ g \in [0..N -> S]
      /\ g[0] = changed
      /\ \A n \in 1..N : g[n] = DeriveOnce(p, g[n - 1])
  <2> HIDE DEF D, S
  <2>1. /\ g \in [0..N -> S] /\ g[0] = changed
        /\ \A n \in 1..N : g[n - 1] \in S /\ g[n] = D[n][g[n - 1]]
    BY <1>5, IteratesFacts
  <2> QED
    BY <1>4, <2>1, Zenon
<1>7. \E u : u = Body(u)
  <2> HIDE DEF S, D
  <2>1. ASSUME NEW n \in 0..N PROVE g[n] = Body(g)[n]
    <3>1. CASE n = 0
      BY <1>6, <3>1, Zenon
    <3>2. CASE n # 0
      <4>1. n \in 1..N
        BY <3>2
      <4>2. g[n] = DeriveOnce(p, g[n - 1])
        BY <1>6, <4>1, Zenon
      <4> QED
        BY <3>2, <4>2, Zenon
    <3> QED
      BY <3>1, <3>2
  <2> QED
    BY <1>6, <2>1, Zenon
<1>8. f = Body(f)
  <2> HIDE DEF Body
  <2> QED
    BY <1>7, Zenon
<1>9. f[0] = changed /\ \A n \in 1..N : f[n] = DeriveOnce(p, f[n - 1])
  <2> HIDE DEF f
  <2> QED
    BY <1>8, OneToN, Zenon
<1>10. RoundByRound(f, p, changed, N)
  <2> HIDE DEF f
  <2> QED
    BY <1>1, <1>9, Zenon DEF RoundByRound
<1> QED
  BY <1>10, Zenon

\* More stores and more rounds make more stores change.
LEMMA DeriveGrows ==
  ASSUME NEW p, p.reads \in Seq(ToSet(p.reads)), NEW less, NEW more, less \subseteq more,
         NEW M \in Nat, NEW N \in Nat, M <= N
  PROVE  Derive(p, less, M) \subseteq Derive(p, more, N)
<1>1. PICK f : RoundByRound(f, p, less, M)
  BY DeriveSteps
<1>2. PICK g : RoundByRound(g, p, more, N)
  BY DeriveSteps
<1> DEFINE T == {k \in Nat : k <= N => (k <= M => f[k] \subseteq g[k]) /\ (k >= M => f[M] \subseteq g[k])}
<1>3. 0 \in T
  BY <1>1, <1>2 DEF RoundByRound
<1>4. ASSUME NEW k \in T PROVE k + 1 \in T
  <2> SUFFICES ASSUME k + 1 <= N
               PROVE  /\ k + 1 <= M => f[k + 1] \subseteq g[k + 1]
                      /\ k + 1 >= M => f[M] \subseteq g[k + 1]
    OBVIOUS
  <2>1. k + 1 \in 1..N /\ (k + 1) - 1 = k /\ k <= N /\ k \in Nat
    OBVIOUS
  <2>2. g[k + 1] = DeriveOnce(p, g[k])
    BY <1>2, <2>1, Zenon DEF RoundByRound
  <2>3. g[k] \subseteq g[k + 1]
    <3>1. g[k] \subseteq DeriveOnce(p, g[k])
      BY RoundsGrow
    <3> QED
      BY <2>2, <3>1
  <2>4. CASE k + 1 <= M
    <3>1. k + 1 \in 1..M /\ f[k] \subseteq g[k]
      BY <2>1, <2>4
    <3>2. f[k + 1] = DeriveOnce(p, f[k])
      BY <1>1, <2>1, <3>1, Zenon DEF RoundByRound
    <3>3. DeriveOnce(p, f[k]) \subseteq DeriveOnce(p, g[k])
      BY <3>1, RoundsGrow
    <3>4. f[k + 1] \subseteq g[k + 1]
      BY <2>2, <3>2, <3>3
    <3> QED
      BY <2>1, <2>4, <3>4
  <2>5. CASE ~(k + 1 <= M)
    <3>1. f[M] \subseteq g[k]
      BY <2>1, <2>5
    <3> QED
      BY <2>3, <2>5, <3>1
  <2> QED
    BY <2>4, <2>5
<1>5. T = Nat
  <2>1. T \in SUBSET Nat
    OBVIOUS
  <2> HIDE DEF T
  <2> QED
    BY <1>3, <1>4, <2>1, NaturalInduction
<1>6. f[M] \subseteq g[N]
  BY <1>5
<1> QED
  BY <1>1, <1>2, <1>6 DEF RoundByRound

-----------------------------------------------------------------------------
\* What a change affects.

\* A walk from fewer seeds, of fewer steps, reaches less.
LEMMA WalkOfLess ==
  ASSUME NEW edges, NEW less, NEW more, less \subseteq more, NEW M \in Nat, NEW N \in Nat, M <= N
  PROVE  DOMAIN WalkCalls(edges, less, M) \subseteq DOMAIN WalkCalls(edges, more, N)
<1> DEFINE d == WalkCalls(edges, more, N)
           b == WalkCalls(edges, less, M)
<1>1. Walked(d, edges, more, N) /\ Walked(b, edges, less, M)
  BY WalkCallsWalks
<1> HIDE DEF d, b
<1>2. \A s \in less : s \in DOMAIN d /\ d[s] <= 0
  BY <1>1 DEF Walked
<1>3. \A x \in DOMAIN b : x \in DOMAIN d
  <2>1. 0 \in Nat /\ M + 0 <= N
    OBVIOUS
  <2> QED
    BY <1>1, <1>2, <2>1, WalksGrow
<1> QED
  BY <1>3 DEF d, b

\* The interface over fewer functions is part of that over more.
ContainsInterface(more, less) ==
  /\ DOMAIN less.components \subseteq DOMAIN more.components
  /\ less.pages \subseteq more.pages

\* More changed components reach more components that render them.
LEMMA ComponentImpactGrows ==
  ASSUME NEW p, NEW less, NEW more, less \subseteq more, NEW M \in Nat, NEW N \in Nat, M <= N
  PROVE  ContainsInterface(ComponentImpact(p, more, N), ComponentImpact(p, less, M))
<1> DEFINE d == WalkCalls(Upwards(p.renders), Into(p.implements, more), N)
           b == WalkCalls(Upwards(p.renders), Into(p.implements, less), M)
<1>1. Into(p.implements, less) \subseteq Into(p.implements, more)
  BY DEF Into
<1>2. DOMAIN b \subseteq DOMAIN d
  BY <1>1, WalkOfLess
<1>3. /\ ComponentImpact(p, more, N) =
           [components |-> d, pages |-> Into(p.pages, DOMAIN d) \cup Into(p.loads, more)]
      /\ ComponentImpact(p, less, M) =
           [components |-> b, pages |-> Into(p.pages, DOMAIN b) \cup Into(p.loads, less)]
  BY Zenon DEF ComponentImpact
<1> HIDE DEF d, b
<1>4. Into(p.pages, DOMAIN b) \subseteq Into(p.pages, DOMAIN d)
  BY <1>2 DEF Into
<1>5. Into(p.loads, less) \subseteq Into(p.loads, more)
  BY DEF Into
<1> QED
  BY <1>2, <1>3, <1>4, <1>5 DEF ContainsInterface

\* The interface over what functions call, if there are any.
Over(p, edges, functions, maxDepth) ==
  IF functions = {} THEN NoInterface
  ELSE ComponentImpact(p, DOMAIN WalkCalls(edges, functions, maxDepth), maxDepth)

\* More to start from, walked further, reaches more interfaces.
LEMMA OverGrows ==
  ASSUME NEW p, NEW edges, NEW less, NEW more, less \subseteq more, NEW M \in Nat, NEW N \in Nat, M <= N
  PROVE  ContainsInterface(Over(p, edges, more, N), Over(p, edges, less, M))
<1>1. CASE less = {}
  BY <1>1 DEF Over, NoInterface, ContainsInterface
<1>2. CASE less # {}
  <2>1. more # {}
    BY <1>2
  <2>2. DOMAIN WalkCalls(edges, less, M) \subseteq DOMAIN WalkCalls(edges, more, N)
    BY WalkOfLess
  <2>3. ContainsInterface(ComponentImpact(p, DOMAIN WalkCalls(edges, more, N), N),
                          ComponentImpact(p, DOMAIN WalkCalls(edges, less, M), M))
    BY <2>2, ComponentImpactGrows
  <2> QED
    BY <1>2, <2>1, <2>3, Zenon DEF Over
<1> QED
  BY <1>1, <1>2

NoConsumers == [consumers |-> {}, components |-> <<>>, pages |-> {}]

\* The consumers of fewer routes are part of those of more.
LEMMA ApiConsumersGrow ==
  ASSUME NEW p, NEW edges, NEW less, NEW more, less \subseteq more, NEW M \in Nat, NEW N \in Nat, M <= N
  PROVE  LET c(routes, n) == IF routes = {} THEN NoConsumers ELSE ApiConsumers(p, edges, routes, n)
         IN  /\ c(less, M).consumers \subseteq c(more, N).consumers
             /\ ContainsInterface(c(more, N), c(less, M))
<1> DEFINE Calling(routes) == {c \in ToSet(p.calls) : From(p.requests, {c.id}) \cap routes # {}}
           Ids(routes) == {c.id : c \in Calling(routes)}
           Callers(routes) == {c.caller : c \in Calling(routes)} \ {None}
           c(routes, n) == IF routes = {} THEN NoConsumers ELSE ApiConsumers(p, edges, routes, n)
<1>1. CASE less = {}
  <2>1. c(less, M) = NoConsumers
    BY <1>1
  <2> HIDE DEF c
  <2>2. /\ c(less, M).consumers \subseteq c(more, N).consumers
        /\ ContainsInterface(c(more, N), c(less, M))
    BY <2>1 DEF NoConsumers, ContainsInterface
  <2> QED
    BY <2>2 DEF c
<1>2. CASE less # {}
  <2>1. more # {}
    BY <1>2
  <2>2. \A routes, n : ApiConsumers(p, edges, routes, n) =
                         [consumers |-> Ids(routes),
                          components |-> Over(p, edges, Callers(routes), n).components,
                          pages |-> Over(p, edges, Callers(routes), n).pages]
    BY Zenon DEF ApiConsumers, Over
  <2>3. Ids(less) \subseteq Ids(more) /\ Callers(less) \subseteq Callers(more)
    OBVIOUS
  <2> HIDE DEF Ids, Callers
  <2>4. ContainsInterface(Over(p, edges, Callers(more), N), Over(p, edges, Callers(less), M))
    BY <2>3, OverGrows
  <2>5. c(less, M) = ApiConsumers(p, edges, less, M) /\ c(more, N) = ApiConsumers(p, edges, more, N)
    BY <1>2, <2>1
  <2> HIDE DEF c
  <2>6. /\ c(less, M).consumers \subseteq c(more, N).consumers
        /\ ContainsInterface(c(more, N), c(less, M))
    BY <2>2, <2>3, <2>4, <2>5 DEF ContainsInterface
  <2> QED
    BY <2>6 DEF c
<1> QED
  BY <1>1, <1>2

\* The stores that fewer functions change are part of those of more.
LEMMA StoreImpactGrows ==
  ASSUME NEW p, p.reads \in Seq(ToSet(p.reads)), NEW edges, NEW less, NEW more, less \subseteq more,
         NEW few, NEW many, few \subseteq many, NEW M \in Nat, NEW N \in Nat, M <= N
  PROVE  /\ StoreImpact(p, edges, less, few, M).stores \subseteq StoreImpact(p, edges, more, many, N).stores
         /\ ContainsInterface(StoreImpact(p, edges, more, many, N), StoreImpact(p, edges, less, few, M))
<1> DEFINE Changed(affected, seedStores) ==
             seedStores \cup From(p.writes, affected)
               \cup Into(p.actions, affected) \cup Into(p.definitions, affected)
           All(affected, seedStores, n) == Derive(p, Changed(affected, seedStores), n)
           Readers(affected, seedStores, n) == Into(ToSet(p.reads), All(affected, seedStores, n))
<1>1. \A affected, seedStores, n :
        StoreImpact(p, edges, affected, seedStores, n) =
          [stores |-> All(affected, seedStores, n),
           components |-> Over(p, edges, Readers(affected, seedStores, n), n).components,
           pages |-> Over(p, edges, Readers(affected, seedStores, n), n).pages]
  BY Zenon DEF StoreImpact, Over
<1>2. Changed(less, few) \subseteq Changed(more, many)
  BY DEF From, Into
<1>3. All(less, few, M) \subseteq All(more, many, N)
  <2> HIDE DEF Changed
  <2> QED
    BY <1>2, DeriveGrows
<1>4. Readers(less, few, M) \subseteq Readers(more, many, N)
  <2> HIDE DEF All
  <2> QED
    BY <1>3 DEF Into
<1> HIDE DEF All, Readers
<1>5. ContainsInterface(Over(p, edges, Readers(more, many, N), N), Over(p, edges, Readers(less, few, M), M))
  BY <1>4, OverGrows
<1> QED
  BY <1>1, <1>3, <1>5 DEF ContainsInterface

\* What a change of a caller affects, a change of what it calls affects with
\* one step more.
LEMMA ImpactGrows ==
  ASSUME NEW p, p.reads \in Seq(ToSet(p.reads)), NEW calls, NEW seeds, NEW stores,
         NEW edge \in CallersOf(p, calls), edge[1] \in seeds, NEW N \in Nat, N # 0
  PROVE  Covers(Impact(p, calls, seeds, stores, N), Impact(p, calls, {edge[2]}, {}, N - 1))
<1> DEFINE edges == CallersOf(p, calls)
           d == WalkCalls(edges, seeds, N)
           b == WalkCalls(edges, {edge[2]}, N - 1)
           ModuleCallers(affected) ==
             {c.id : c \in {c \in ToSet(p.calls) : c.caller = None /\ calls[c.id] \cap affected # {}}}
           Consumers(routes, n) == IF routes = {} THEN NoConsumers ELSE ApiConsumers(p, edges, routes, n)
           Whole(walk, seedStores, n) ==
             [callers |-> walk,
              moduleCallers |-> ModuleCallers(DOMAIN walk),
              routes |-> Into(p.routes, DOMAIN walk),
              interface |-> ComponentImpact(p, DOMAIN walk, n),
              consumers |-> Consumers(Into(p.routes, DOMAIN walk), n),
              stores |-> StoreImpact(p, edges, DOMAIN walk, seedStores, n)]
           more == Whole(d, stores, N)
           less == Whole(b, {}, N - 1)
<1>1. /\ Impact(p, calls, seeds, stores, N) = more
      /\ Impact(p, calls, {edge[2]}, {}, N - 1) = less
  BY Zenon DEF Impact, NoConsumers
<1>2. N - 1 \in Nat /\ N - 1 <= N /\ (N - 1) + 1 <= N /\ 1 \in Nat
  OBVIOUS
<1>3. Walked(d, edges, seeds, N) /\ Walked(b, edges, {edge[2]}, N - 1)
  BY <1>2, WalkCallsWalks
<1> HIDE DEF d, b
<1>4. \A x \in DOMAIN b : x \in DOMAIN d /\ d[x] <= b[x] + 1
  <2>1. \A s \in {edge[2]} : s \in DOMAIN d /\ d[s] <= 1
    <3>1. edge[1] \in DOMAIN d /\ d[edge[1]] = 0
      BY <1>3 DEF Walked
    <3>2. \A e \in edges : e[1] \in DOMAIN d /\ d[e[1]] < N => e[2] \in DOMAIN d /\ d[e[2]] <= d[e[1]] + 1
      BY <1>3 DEF Walked
    <3> HIDE DEF edges
    <3>3. edge \in edges
      BY DEF edges
    <3> QED
      BY <3>1, <3>2, <3>3
  <2> HIDE DEF edges
  <2> QED
    BY <1>2, <1>3, <2>1, WalksGrow
<1> HIDE DEF edges
<1>5. DOMAIN b \subseteq DOMAIN d
  BY <1>4
<1>6. ModuleCallers(DOMAIN b) \subseteq ModuleCallers(DOMAIN d)
  BY <1>5
<1>7. Into(p.routes, DOMAIN b) \subseteq Into(p.routes, DOMAIN d)
  BY <1>5 DEF Into
<1>8. ContainsInterface(ComponentImpact(p, DOMAIN d, N), ComponentImpact(p, DOMAIN b, N - 1))
  BY <1>2, <1>5, ComponentImpactGrows
<1>9. /\ Consumers(Into(p.routes, DOMAIN b), N - 1).consumers \subseteq Consumers(Into(p.routes, DOMAIN d), N).consumers
      /\ ContainsInterface(Consumers(Into(p.routes, DOMAIN d), N), Consumers(Into(p.routes, DOMAIN b), N - 1))
  BY <1>2, <1>7, ApiConsumersGrow
<1>10. /\ StoreImpact(p, edges, DOMAIN b, {}, N - 1).stores \subseteq StoreImpact(p, edges, DOMAIN d, stores, N).stores
       /\ ContainsInterface(StoreImpact(p, edges, DOMAIN d, stores, N), StoreImpact(p, edges, DOMAIN b, {}, N - 1))
  BY <1>2, <1>5, StoreImpactGrows
<1> HIDE DEF ModuleCallers, Consumers
<1>11. /\ more.callers = d /\ less.callers = b
       /\ more.moduleCallers = ModuleCallers(DOMAIN d) /\ less.moduleCallers = ModuleCallers(DOMAIN b)
       /\ more.routes = Into(p.routes, DOMAIN d) /\ less.routes = Into(p.routes, DOMAIN b)
       /\ more.interface = ComponentImpact(p, DOMAIN d, N)
       /\ less.interface = ComponentImpact(p, DOMAIN b, N - 1)
       /\ more.consumers = Consumers(Into(p.routes, DOMAIN d), N)
       /\ less.consumers = Consumers(Into(p.routes, DOMAIN b), N - 1)
       /\ more.stores = StoreImpact(p, edges, DOMAIN d, stores, N)
       /\ less.stores = StoreImpact(p, edges, DOMAIN b, {}, N - 1)
  OBVIOUS
<1> HIDE DEF more, less
<1>12. Covers(more, less)
  <2>1. \A part \in {<<less.interface, more.interface>>, <<less.consumers, more.consumers>>,
                     <<less.stores, more.stores>>} :
          /\ DOMAIN part[1].components \subseteq DOMAIN part[2].components
          /\ part[1].pages \subseteq part[2].pages
    BY <1>8, <1>9, <1>10, <1>11 DEF ContainsInterface
  <2>2. \A f \in DOMAIN less.callers : f \in DOMAIN more.callers /\ more.callers[f] <= less.callers[f] + 1
    BY <1>4, <1>11
  <2>3. /\ less.moduleCallers \subseteq more.moduleCallers
        /\ less.routes \subseteq more.routes
        /\ less.consumers.consumers \subseteq more.consumers.consumers
        /\ less.stores.stores \subseteq more.stores.stores
    BY <1>6, <1>7, <1>9, <1>10, <1>11, Zenon
  <2> QED
    BY <2>1, <2>2, <2>3, Zenon DEF Covers
<1> QED
  BY <1>1, <1>12

\* The answer of impact_of is computed once the calls are resolved.
ImpactInv ==
  /\ Scanned(project)
  /\ answer.tool = "impact" =>
       /\ phase = "done"
       /\ answer.maxDepth \in 1..MaxDepth
       /\ answer.impact = ImpactOf(project, targets, answer.name, answer.maxDepth)

\* Nothing is answered when the scan begins.
LEMMA ImpactInvInit == Init => ImpactInv
<1> SUFFICES ASSUME Init PROVE ImpactInv
  OBVIOUS
<1>1. Scanned(project)
  BY ScannedProjects DEF Init, ResolutionInit
<1>2. answer.tool # "impact"
  BY ScanConstants DEF Init
<1> QED
  BY <1>1, <1>2 DEF ImpactInv

\* Only impact_of answers, and by then the calls stay as they are.
LEMMA ImpactInvNext == ImpactInv /\ [Next]_analysisVars => ImpactInv'
<1> SUFFICES ASSUME ImpactInv, [Next]_analysisVars PROVE ImpactInv'
  OBVIOUS
<1> USE DEF ImpactInv
<1>1. CASE UNCHANGED analysisVars
  BY <1>1 DEF analysisVars, resolutionVars
<1>2. CASE Resolve
  <2>1. phase # "done" /\ project' = project /\ answer' = answer
    BY <1>2 DEF Resolve, ResolutionNext, Inherit, ResolveNextCall, Inject, ResolveInstances
  <2>2. answer.tool # "impact"
    BY <2>1
  <2> QED
    BY <2>1, <2>2
<1>3. CASE \E scope \in {"file", "package"}, wanted \in {Files} \cup {{f} : f \in Files} :
             FindImportCycles(scope, wanted)
  <2>1. answer'.tool = "cycles" /\ project' = project
    BY <1>3 DEF FindImportCycles, resolutionVars
  <2> QED
    BY <2>1
<1>4. CASE FindUnusedExports
  <2>1. answer'.tool = "unused" /\ project' = project
    BY <1>4 DEF FindUnusedExports, resolutionVars
  <2> QED
    BY <2>1
<1>5. ASSUME NEW name \in Names \cup project.stores, NEW maxDepth \in 1..MaxDepth, FindImpact(name, maxDepth)
      PROVE  ImpactInv'
  <2>1. /\ phase = "done" /\ phase' = phase /\ project' = project /\ targets' = targets
        /\ answer' = [tool |-> "impact", name |-> name, maxDepth |-> maxDepth,
                      impact |-> ImpactOf(project, targets, name, maxDepth)]
    BY <1>5 DEF FindImpact, resolutionVars, Ready
  <2>2. /\ answer'.maxDepth = maxDepth /\ answer'.name = name
        /\ answer'.impact = ImpactOf(project, targets, name, maxDepth)
    BY <2>1
  <2> QED
    BY <2>1, <2>2
<1> QED
  BY <1>1, <1>2, <1>3, <1>4, <1>5 DEF Next

\* What the invariant says of the answer is what the property says.
LEMMA ImpactInvCovers == ImpactInv => ImpactGrowsDownwards
<1> SUFFICES ASSUME ImpactInv, answer.tool = "impact",
                    NEW edge \in CallersOf(project, targets), edge[1] \in Seeds(project, answer.name)
             PROVE  Covers(answer.impact, Impact(project, targets, {edge[2]}, {}, answer.maxDepth - 1))
  BY DEF ImpactGrowsDownwards
<1>1. project.reads \in Seq(ToSet(project.reads))
  BY DEF ImpactInv, Scanned
<1>2. answer.maxDepth \in Nat /\ answer.maxDepth # 0
  BY ScanBound DEF ImpactInv
<1>3. answer.impact = Impact(project, targets, Seeds(project, answer.name),
                             {s \in project.stores : s = answer.name}, answer.maxDepth)
  BY DEF ImpactInv, ImpactOf
<1> QED
  BY <1>1, <1>2, <1>3, ImpactGrows

\* What a change of a caller affects, a change of what it calls affects one
\* step further, whatever the project and the depth asked for.
THEOREM ImpactTheorem == Spec => []ImpactGrowsDownwards
<1>1. Spec => []ImpactInv
  BY ImpactInvInit, ImpactInvNext, PTL DEF Spec
<1> QED
  BY <1>1, ImpactInvCovers, PTL

-----------------------------------------------------------------------------
\* Lists and least sets.

Picked(set, list, n, v) == IF list[n] \in set THEN Append(v, list[n]) ELSE v

\* f[n] are the members of the set among the first n of the list.
OneByOne(f, list, set, P) ==
  /\ f \in [0..Len(list) -> Seq(P)]
  /\ f[0] = <<>>
  /\ \A n \in 1..Len(list) : f[n] = Picked(set, list, n, f[n - 1])
  /\ Among(list, set) = f[Len(list)]

\* Among goes through its list one by one.
LEMMA AmongSteps ==
  ASSUME NEW P, NEW list \in Seq(P), NEW set
  PROVE  \E f : OneByOne(f, list, set, P)
<1> DEFINE N == Len(list)
           S == Seq(P)
           Step(n, v) == Picked(set, list, n, v)
           Body(u) == [n \in 0..N |-> IF n = 0 THEN <<>> ELSE Step(n, u[n - 1])]
           f == CHOOSE u : u = Body(u)
           D == [n \in 1..N |-> [v \in S |-> Step(n, v)]]
<1>1. Among(list, set) = f[N]
  BY Zenon DEF Among, Picked
<1>2. N \in Nat /\ <<>> \in S
  OBVIOUS
<1>3. D \in Steps(N, S)
  <2>1. ASSUME NEW n \in 1..N, NEW v \in S
        PROVE  Step(n, v) \in S
    <3>1. list[n] \in P
      OBVIOUS
    <3> QED
      BY <3>1 DEF Picked
  <2> HIDE DEF Step, S, N
  <2> QED
    BY <2>1, Zenon DEF Steps
<1>4. \A n \in 1..N, v \in S : D[n][v] = Step(n, v)
  BY Zenon
<1>5. PICK g : Iterates(g, N, S, <<>>, D)
  <2> HIDE DEF D, N, S
  <2> QED
    BY <1>2, <1>3, Iteration
<1>6. /\ g \in [0..N -> S]
      /\ g[0] = <<>>
      /\ \A n \in 1..N : g[n] = Step(n, g[n - 1])
  <2> HIDE DEF D, N, S, Step
  <2>1. /\ g \in [0..N -> S] /\ g[0] = <<>>
        /\ \A n \in 1..N : g[n - 1] \in S /\ g[n] = D[n][g[n - 1]]
    BY <1>2, <1>5, IteratesFacts
  <2> QED
    BY <1>4, <2>1, Zenon
<1>7. g = Body(g)
  <2> HIDE DEF N, S, Step, D
  <2>1. ASSUME NEW n \in 0..N PROVE g[n] = Body(g)[n]
    <3>1. CASE n = 0
      BY <1>6, <3>1, Zenon
    <3>2. CASE n # 0
      <4>1. n \in 1..N
        BY <1>2, <3>2
      <4>2. g[n] = Step(n, g[n - 1])
        BY <1>6, <4>1, Zenon
      <4> QED
        BY <3>2, <4>2, Zenon
    <3> QED
      BY <3>1, <3>2
  <2> QED
    BY <1>6, <2>1, Zenon
<1>8. f = Body(f)
  BY <1>7, Zenon
<1>9. f[0] = <<>> /\ \A n \in 1..N : f[n] = Step(n, f[n - 1])
  <2> HIDE DEF f, N, Step
  <2> QED
    BY <1>2, <1>8, OneToN, Zenon
<1>10. f[N] = g[N]
  <2> HIDE DEF f, D, N, S, Step
  <2>1. \A n \in 1..N : f[n - 1] \in S => f[n] = D[n][f[n - 1]]
    BY <1>4, <1>9, Zenon
  <2> QED
    BY <1>2, <1>5, <1>9, <2>1, OnlyIterate
<1>11. OneByOne(g, list, set, P)
  <2> HIDE DEF f
  <2> QED
    BY <1>1, <1>6, <1>10, Zenon DEF OneByOne
<1> QED
  BY <1>11, Zenon

\* The set of a list with one more.
LEMMA AppendSet ==
  ASSUME NEW P, NEW list \in Seq(P), NEW x \in P
  PROVE  ToSet(Append(list, x)) = ToSet(list) \cup {x}
<1> DEFINE c == Append(list, x)
<1>1. /\ Len(c) = Len(list) + 1 /\ Len(list) \in Nat
      /\ DOMAIN list = 1..Len(list) /\ DOMAIN c = 1..Len(c)
      /\ \A i \in 1..Len(list) : c[i] = list[i]
      /\ c[Len(list) + 1] = x
  OBVIOUS
<1> HIDE DEF c
<1>2. ToSet(list) = {list[i] : i \in 1..Len(list)} /\ ToSet(c) = {c[i] : i \in 1..Len(c)}
  BY <1>1, Zenon DEF ToSet
<1>3. ASSUME NEW y \in ToSet(c) PROVE y \in ToSet(list) \cup {x}
  <2>1. PICK i \in 1..Len(c) : y = c[i]
    BY <1>2
  <2>2. i \in 1..Len(list) \/ i = Len(list) + 1
    BY <1>1
  <2> QED
    BY <1>1, <1>2, <2>1, <2>2
<1>4. ASSUME NEW y \in ToSet(list) PROVE y \in ToSet(c)
  <2>1. PICK i \in 1..Len(list) : y = list[i]
    BY <1>2
  <2>2. i \in 1..Len(c) /\ y = c[i]
    BY <1>1, <2>1
  <2> QED
    BY <1>2, <2>2
<1>5. x \in ToSet(c)
  <2>1. Len(list) + 1 \in 1..Len(c)
    BY <1>1
  <2> QED
    BY <1>1, <1>2, <2>1
<1> QED
  BY <1>3, <1>4, <1>5 DEF c

\* Among keeps what is in both.
LEMMA AmongSet ==
  ASSUME NEW P, NEW list \in Seq(P), NEW set
  PROVE  /\ Among(list, set) \in Seq(P)
         /\ ToSet(Among(list, set)) = ToSet(list) \cap set
<1>1. PICK f : OneByOne(f, list, set, P)
  BY AmongSteps
<1> DEFINE N == Len(list)
<1>2. N \in Nat /\ DOMAIN list = 1..N /\ \A n \in 1..N : list[n] \in P
  OBVIOUS
<1>3. /\ f[0] = <<>> /\ \A n \in 0..N : f[n] \in Seq(P)
      /\ \A n \in 1..N : f[n] = Picked(set, list, n, f[n - 1])
      /\ Among(list, set) = f[N]
  BY <1>1 DEF OneByOne
<1> HIDE DEF N
<1> DEFINE Upto(k) == {list[i] : i \in 1..k} \cap set
           T == {k \in Nat : k <= N => ToSet(f[k]) = Upto(k)}
<1>4. 0 \in T
  <2>1. ToSet(f[0]) = {} /\ 1..0 = {}
    BY <1>3 DEF ToSet
  <2> QED
    BY <2>1
<1>5. ASSUME NEW k \in T PROVE k + 1 \in T
  <2> SUFFICES ASSUME k + 1 <= N PROVE ToSet(f[k + 1]) = Upto(k + 1)
    OBVIOUS
  <2>1. k \in Nat /\ k + 1 \in 1..N /\ (k + 1) - 1 = k /\ k \in 0..N /\ k <= N
    BY <1>2
  <2>2. f[k] \in Seq(P) /\ list[k + 1] \in P /\ f[k + 1] = Picked(set, list, k + 1, f[k])
    BY <1>2, <1>3, <2>1
  <2>3. 1..(k + 1) = 1..k \cup {k + 1}
    BY <2>1
  <2>4. {list[i] : i \in 1..(k + 1)} = {list[i] : i \in 1..k} \cup {list[k + 1]}
    BY <2>3
  <2>5. ToSet(f[k]) = Upto(k)
    BY <2>1
  <2>6. CASE list[k + 1] \in set
    <3>1. ToSet(f[k + 1]) = ToSet(f[k]) \cup {list[k + 1]}
      BY <2>2, <2>6, AppendSet DEF Picked
    <3> QED
      BY <2>4, <2>5, <2>6, <3>1
  <2>7. CASE list[k + 1] \notin set
    <3>1. f[k + 1] = f[k]
      BY <2>2, <2>7 DEF Picked
    <3> QED
      BY <2>4, <2>5, <2>7, <3>1
  <2> QED
    BY <2>6, <2>7
<1>6. T = Nat
  <2>1. T \in SUBSET Nat
    OBVIOUS
  <2> HIDE DEF T
  <2> QED
    BY <1>4, <1>5, <2>1, NaturalInduction
<1>7. ToSet(f[N]) = Upto(N)
  BY <1>2, <1>6
<1>8. ToSet(list) = {list[i] : i \in 1..N}
  BY <1>2, Zenon DEF ToSet
<1> QED
  BY <1>2, <1>3, <1>7, <1>8

\* A function on the subsets of a finite set that only adds to them.
Adds(T, P) ==
  /\ IsFiniteSet(P)
  /\ T \in [SUBSET P -> SUBSET P]
  /\ \A s \in SUBSET P : s \subseteq T[s]
  /\ \A s, t \in SUBSET P : s \subseteq t => T[s] \subseteq T[t]

Repeats(f, T, P) == \A s \in SUBSET P : f[s] = IF T[s] = s THEN s ELSE f[T[s]]

\* r is the least set with s to which nothing is added.
LeastWith(r, s, T, P) ==
  /\ r \in SUBSET P /\ s \subseteq r /\ T[r] = r
  /\ \A C \in SUBSET P : s \subseteq C /\ T[C] \subseteq C => r \subseteq C

\* Adding until nothing is added gives that set.
LEMMA RepeatingFindsTheLeast ==
  ASSUME NEW P, NEW T, NEW f, Adds(T, P), Repeats(f, T, P), NEW s \in SUBSET P
  PROVE  LeastWith(f[s], s, T, P)
<1> DEFINE B == {r \in SUBSET P : ~LeastWith(f[r], r, T, P)}
           Left == {Cardinality(P \ r) : r \in B}
<1>1. /\ IsFiniteSet(P) /\ T \in [SUBSET P -> SUBSET P]
      /\ \A r \in SUBSET P : r \subseteq T[r]
      /\ \A r, t \in SUBSET P : r \subseteq t => T[r] \subseteq T[t]
  BY DEF Adds
<1>2. \A r \in SUBSET P : IsFiniteSet(P \ r) /\ Cardinality(P \ r) \in Nat
  BY <1>1, FS_Difference, FS_CardinalityType
<1> SUFFICES ASSUME B # {} PROVE FALSE
  OBVIOUS
<1>3. PICK m \in Left : \A k \in Left : m <= k
  <2>1. Left \in SUBSET Nat /\ Left # {}
    BY <1>2
  <2> HIDE DEF Left
  <2> QED
    BY <2>1, LeastNatural
<1>4. PICK r \in B : m = Cardinality(P \ r)
  OBVIOUS
<1>5. r \in SUBSET P /\ T[r] \in SUBSET P /\ r \subseteq T[r]
  BY <1>1
<1>6. CASE T[r] = r
  <2>1. f[r] = r
    BY <1>5, <1>6 DEF Repeats
  <2>2. LeastWith(f[r], r, T, P)
    BY <1>5, <1>6, <2>1 DEF LeastWith
  <2> QED
    BY <1>4, <2>2
<1>7. CASE T[r] # r
  <2>1. f[r] = f[T[r]]
    BY <1>5, <1>7 DEF Repeats
  <2>2. Cardinality(P \ T[r]) < Cardinality(P \ r)
    <3>1. P \ T[r] \subseteq P \ r /\ P \ T[r] # P \ r
      BY <1>5, <1>7
    <3> DEFINE a == P \ T[r]
               b == P \ r
    <3>2. IsFiniteSet(b) /\ a \subseteq b /\ a # b
      BY <1>2, <1>5, <3>1
    <3>3. Cardinality(a) \in Nat /\ Cardinality(b) \in Nat
      BY <1>2, <1>5
    <3> HIDE DEF a, b
    <3>4. Cardinality(a) < Cardinality(b)
      BY <3>2, <3>3, FS_Subset
    <3> QED
      BY <3>4 DEF a, b
  <2>3. LeastWith(f[T[r]], T[r], T, P)
    <3> SUFFICES ASSUME T[r] \in B PROVE FALSE
      BY <1>5
    <3>1. Cardinality(P \ T[r]) \in Left
      OBVIOUS
    <3>2. Cardinality(P \ T[r]) \in Nat /\ Cardinality(P \ r) \in Nat
      BY <1>2, <1>5
    <3> HIDE DEF Left, B
    <3> QED
      BY <1>3, <1>4, <2>2, <3>1, <3>2
  <2>4. LeastWith(f[r], r, T, P)
    <3>1. /\ f[r] \in SUBSET P /\ T[r] \subseteq f[r] /\ T[f[r]] = f[r]
          /\ \A C \in SUBSET P : T[r] \subseteq C /\ T[C] \subseteq C => f[r] \subseteq C
      BY <2>1, <2>3, Zenon DEF LeastWith
    <3>2. ASSUME NEW C \in SUBSET P, r \subseteq C, T[C] \subseteq C PROVE f[r] \subseteq C
      <4>1. T[r] \subseteq T[C]
        BY <1>1, <1>5, <3>2
      <4> QED
        BY <3>1, <3>2, <4>1
    <3>3. r \subseteq f[r]
      BY <1>5, <3>1
    <3> QED
      BY <3>1, <3>2, <3>3, Zenon DEF LeastWith
  <2> QED
    BY <1>4, <2>4
<1> QED
  BY <1>6, <1>7

\* A function that repeats T until it changes nothing.
IsRepetition(g, T, P) == g = [s \in SUBSET P |-> IF T[s] = s THEN s ELSE g[T[s]]]

\* The recursion of such a function has a solution.
LEMMA RepeatingExists ==
  ASSUME NEW P, NEW T \in [SUBSET P -> SUBSET P]
  PROVE  \E g : IsRepetition(g, T, P)
<1> DEFINE D == SUBSET P
           Stop == {s \in D : T[s] = s}
           out == [s \in D |-> s]
<1>1. T \in [D -> D] /\ Stop \in SUBSET D
  OBVIOUS
<1>2. \A s \in D : out[s] = s /\ (s \in Stop <=> T[s] = s)
  OBVIOUS
<1> HIDE DEF D, Stop, out
<1>3. PICK g : CallsItselfLast(g, D, T, Stop, out)
  BY <1>1, TailCalls
<1>4. g = [s \in D |-> g[s]] /\ \A s \in D : g[s] = IF s \in Stop THEN out[s] ELSE g[T[s]]
  BY <1>3, Zenon DEF CallsItselfLast
<1>5. \A s \in D : g[s] = IF T[s] = s THEN s ELSE g[T[s]]
  BY <1>2, <1>4, Zenon
<1>6. g = [s \in D |-> IF T[s] = s THEN s ELSE g[T[s]]]
  BY <1>4, <1>5, Zenon
<1> QED
  BY <1>6, Zenon DEF D, IsRepetition

-----------------------------------------------------------------------------
\* Where a name leads.

Spots == Files \X Names

\* There are finitely many names in finitely many files.
LEMMA SpotsAreFinite == IsFiniteSet(Spots)
  BY ScanConstants, FS_Product DEF Spots

\* The first of a list is in it, unless it is empty.
LEMMA FirstOf ==
  ASSUME NEW P, NEW list \in Seq(P)
  PROVE  /\ list = <<>> => First(list) = None
         /\ list # <<>> => First(list) \in ToSet(list)
         /\ list = <<>> <=> ToSet(list) = {}
<1>1. CASE list = <<>>
  BY <1>1 DEF First, ToSet
<1>2. CASE list # <<>>
  <2>1. Head(list) \in ToSet(list)
    BY <1>2, HeadAndTail
  <2> QED
    BY <1>2, <2>1 DEF First
<1> QED
  BY <1>1, <1>2

\* The first of a list among a set is in both.
LEMMA FirstAmong ==
  ASSUME NEW P, NEW list \in Seq(P), NEW set, First(Among(list, set)) # None
  PROVE  First(Among(list, set)) \in ToSet(list) \cap set
<1>1. Among(list, set) \in Seq(P) /\ ToSet(Among(list, set)) = ToSet(list) \cap set
  BY AmongSet
<1> QED
  BY <1>1, FirstOf

\* A list made of another, element by element.
Mapped(list, F) == [n \in DOMAIN list |-> F[list[n]]]

\* A mapped list has the images of the members.
LEMMA MappedSet ==
  ASSUME NEW P, NEW Q, NEW list \in Seq(P), NEW F, \A x \in ToSet(list) : F[x] \in Q
  PROVE  Mapped(list, F) \in Seq(Q) /\ ToSet(Mapped(list, F)) = {F[x] : x \in ToSet(list)}
<1> DEFINE m == [n \in DOMAIN list |-> F[list[n]]]
<1>1. DOMAIN list = 1..Len(list) /\ Len(list) \in Nat
  OBVIOUS
<1>2. ToSet(list) = {list[n] : n \in DOMAIN list} /\ ToSet(m) = {m[n] : n \in DOMAIN m}
  BY Zenon DEF ToSet
<1>3. m \in [1..Len(list) -> Q]
  BY <1>1, <1>2
<1>4. m \in Seq(Q)
  BY <1>1, <1>3 DEF Seq
<1>5. \A x : x \in ToSet(m) <=> x \in {F[y] : y \in ToSet(list)}
  BY <1>2
<1> QED
  BY <1>4, <1>5 DEF Mapped

\* The imports of a file, and the files they lead to.
LEMMA ImportsOfSet ==
  ASSUME NEW p, Scanned(p), NEW file
  PROVE  /\ ImportsOf(p, file) \in Seq(ToSet(p.imports))
         /\ ToSet(ImportsOf(p, file)) = {i \in ToSet(p.imports) : i.file = file /\ i.target # None}
         /\ \A i \in ToSet(ImportsOf(p, file)) : i \in ToSet(p.imports) /\ i.target \in Files
<1> DEFINE S == {i \in ToSet(p.imports) : i.file = file /\ i.target # None}
<1>1. p.imports \in Seq(ToSet(p.imports)) /\ \A i \in ToSet(p.imports) : i.target \in Files \cup {None}
  BY DEF Scanned
<1>2. ImportsOf(p, file) = Among(p.imports, S)
  BY DEF ImportsOf
<1>3. Among(p.imports, S) \in Seq(ToSet(p.imports)) /\ ToSet(Among(p.imports, S)) = ToSet(p.imports) \cap S
  <2> HIDE DEF S
  <2> QED
    BY <1>1, AmongSet
<1> QED
  BY <1>1, <1>2, <1>3

\* A re-export forwards a name to a name.
LEMMA ForwardedIsName ==
  ASSUME NEW p, Scanned(p), NEW i \in ToSet(p.imports), NEW name \in Names, Forwarded(i, name) # None
  PROVE  Forwarded(i, name) \in Names
<1> DEFINE S == {e \in ToSet(i.entries) : e.exported = name}
           renamed == First(Among(i.entries, S))
<1>1. i.entries \in Seq(ToSet(i.entries)) /\ \A e \in ToSet(i.entries) : e.imported \in Names
  BY DEF Scanned
<1>2. renamed # None => renamed \in ToSet(i.entries)
  <2> HIDE DEF S
  <2> QED
    BY <1>1, FirstAmong
<1>3. Forwarded(i, name) = CASE ~i.reExport -> None
        [] i.reExport /\ i.wildcard ->
             IF i.namespace = None /\ name # "default" THEN name ELSE None
        [] OTHER -> IF renamed = None THEN None ELSE renamed.imported
  BY Zenon DEF Forwarded
<1> HIDE DEF renamed
<1>4. CASE ~i.reExport
  BY <1>3, <1>4
<1>5. CASE i.reExport /\ i.wildcard
  BY <1>3, <1>5
<1>6. CASE i.reExport /\ ~i.wildcard
  <2>1. Forwarded(i, name) = IF renamed = None THEN None ELSE renamed.imported
    BY <1>3, <1>6
  <2> QED
    BY <1>1, <1>2, <2>1
<1> QED
  BY <1>4, <1>5, <1>6

\* ForwardsFrom lists what Onward collects.
LEMMA ForwardsFromSet ==
  ASSUME NEW p, Scanned(p), NEW at \in Spots
  PROVE  ForwardsFrom(p, at) \in Seq(Spots) /\ ToSet(ForwardsFrom(p, at)) = Onward(p, at)
                /\ Onward(p, at) \subseteq Spots
<1> DEFINE S == {i \in ToSet(p.imports) : Forwarded(i, at[2]) # None}
           all == ImportsOf(p, at[1])
           through == Among(all, S)
           I == ToSet(p.imports)
           F == [i \in I |-> <<i.target, Forwarded(i, at[2])>>]
           m == Mapped(through, F)
<1>1. all \in Seq(I) /\ ToSet(all) \subseteq I /\ \A i \in ToSet(all) : i.target \in Files
  BY ImportsOfSet
<1>2. at[2] \in Names /\ at[1] \in Files
  BY DEF Spots
<1>3. through \in Seq(I) /\ ToSet(through) = ToSet(all) \cap S
  <2> HIDE DEF S, all, I
  <2> QED
    BY <1>1, AmongSet
<1>4. \A i \in ToSet(through) : F[i] \in Spots /\ F[i] = <<i.target, Forwarded(i, at[2])>>
  <2> SUFFICES ASSUME NEW i \in ToSet(through) PROVE F[i] \in Spots /\ F[i] = <<i.target, Forwarded(i, at[2])>>
    OBVIOUS
  <2>1. i \in I /\ i.target \in Files /\ Forwarded(i, at[2]) # None
    BY <1>1, <1>3
  <2>2. Forwarded(i, at[2]) \in Names
    BY <1>2, <2>1, ForwardedIsName
  <2>3. F[i] = <<i.target, Forwarded(i, at[2])>>
    BY <2>1
  <2> HIDE DEF F
  <2> QED
    BY <2>1, <2>2, <2>3 DEF Spots
<1>5. ForwardsFrom(p, at) = [n \in DOMAIN through |-> <<through[n].target, Forwarded(through[n], at[2])>>]
  BY Zenon DEF ForwardsFrom
<1> HIDE DEF S, all, through, F, I
<1>6. m = [n \in DOMAIN through |-> <<through[n].target, Forwarded(through[n], at[2])>>]
  <2>1. \A n \in DOMAIN through : through[n] \in ToSet(through)
    BY DEF ToSet
  <2> QED
    BY <1>4, <2>1 DEF Mapped
<1>7. m \in Seq(Spots) /\ ToSet(m) = {F[i] : i \in ToSet(through)}
  BY <1>3, <1>4, MappedSet
<1>8. {F[i] : i \in ToSet(through)} = Onward(p, at)
  <2>1. \A i : i \in ToSet(through) <=> i \in ToSet(all) /\ Forwarded(i, at[2]) # None
    BY <1>1, <1>3 DEF S, I
  <2>2. {F[i] : i \in ToSet(through)} = {<<i.target, Forwarded(i, at[2])>> : i \in ToSet(through)}
    BY <1>4
  <2>3. ToSet(through) = {i \in ToSet(all) : Forwarded(i, at[2]) # None}
    BY <2>1
  <2> QED
    BY <2>2, <2>3, Zenon DEF Onward, all
<1>9. Onward(p, at) \subseteq Spots
  BY <1>4, <1>8
<1>10. ForwardsFrom(p, at) = m
  BY <1>5, <1>6, Zenon
<1> QED
  BY <1>7, <1>8, <1>9, <1>10, Zenon

\* What a lookup has at a spot, and where it goes from there.
HasAt(index) == [x \in Files \X Names |-> LookupInFile(index, x[1], x[2])]
LinksOf(p) == [x \in Files \X Names |-> ForwardsFrom(p, x)]

\* The re-exports link finitely many places to finitely many others.
LEMMA LinksAreFinite ==
  ASSUME NEW p, Scanned(p)
  PROVE  /\ Finite(LinksOf(p)) /\ DOMAIN LinksOf(p) = Spots
         /\ \A x \in Spots : ToSet(LinksOf(p)[x]) = Onward(p, x) /\ Onward(p, x) \subseteq Spots
<1>1. \A x \in Spots : /\ ForwardsFrom(p, x) \in Seq(Spots) /\ ToSet(ForwardsFrom(p, x)) = Onward(p, x)
                       /\ Onward(p, x) \subseteq Spots
  BY ForwardsFromSet
<1>2. LinksOf(p) = [x \in Spots |-> ForwardsFrom(p, x)]
  BY Zenon DEF LinksOf, Spots
<1>3. DOMAIN LinksOf(p) = Spots /\ LinksOf(p) \in [Spots -> Seq(Spots)]
  BY <1>1, <1>2
<1> QED
  BY <1>1, <1>2, <1>3, SpotsAreFinite DEF Finite

\* FollowReExports is a depth-first search of the re-exports.
LEMMA FollowIsDepthFirst ==
  ASSUME NEW p, NEW index, NEW at
  PROVE  FollowReExports(p, index, at) = DepthFirst(HasAt(index), LinksOf(p), at)
BY Zenon DEF FollowReExports, HasAt, LinksOf

\* Declarations by spot.
LEMMA IndexType ==
  ASSUME NEW list, list \in Seq(ToSet(list))
  PROVE  /\ Index(list) \in [Spots -> Seq(ToSet(list))]
         /\ \A at \in Spots : ToSet(Index(list)[at]) = {d \in ToSet(list) : d.file = at[1] /\ d.name = at[2]}
<1> DEFINE D(at) == {d \in ToSet(list) : d.file = at[1] /\ d.name = at[2]}
<1>1. Index(list) = [at \in Spots |-> Among(list, D(at))]
  BY Zenon DEF Index, Spots
<1>2. ASSUME NEW at \in Spots
      PROVE  Among(list, D(at)) \in Seq(ToSet(list)) /\ ToSet(Among(list, D(at))) = ToSet(list) \cap D(at)
  <2> HIDE DEF D
  <2> QED
    BY AmongSet
<1>3. \A at \in Spots : ToSet(list) \cap D(at) = D(at)
  OBVIOUS
<1> HIDE DEF D
<1>4. \A at \in Spots : Index(list)[at] \in Seq(ToSet(list)) /\ ToSet(Index(list)[at]) = D(at)
  BY <1>1, <1>2, <1>3
<1>5. Index(list) \in [Spots -> Seq(ToSet(list))]
  BY <1>1, <1>2
<1> QED
  BY <1>4, <1>5 DEF D

\* An index with the declarations that files export as their default.
LEMMA DefaultOfType ==
  ASSUME NEW p, Scanned(p), NEW P, NEW index \in [Spots -> Seq(P)], NEW file \in Files
  PROVE  DefaultOf(p, index, file) \in Seq(P)
<1> DEFINE own == [f \in Files |-> IF index[f, "default"] # <<>> THEN index[f, "default"]
                                   ELSE OwnDefault(p, index, f)]
           has == [f \in Files |-> IF own[f] = <<>> THEN None ELSE own[f]]
           links == [f \in Files |-> IF p.forwards[f] = None THEN <<>> ELSE <<p.forwards[f]>>]
           found == DepthFirst(has, links, file)
<1>1. DefaultOf(p, index, file) = IF found = None THEN <<>> ELSE found
  BY Zenon DEF DefaultOf
<1>2. p.defaults \in [Files -> Names \cup {None}] /\ p.forwards \in [Files -> Files \cup {None}]
  BY DEF Scanned
<1>3. ASSUME NEW f \in Files PROVE own[f] \in Seq(P)
  <2>1. index[f, "default"] \in Seq(P)
    BY ScanConstants DEF Spots
  <2>2. OwnDefault(p, index, f) \in Seq(P)
    <3> DEFINE name == p.defaults[f]
               variables == Variables(p, f, name)
               S == {d \in ToSet(index[f, name]) : variables = <<>> \/ d.id \in Declared(variables)}
    <3>1. OwnDefault(p, index, f) = IF name = None THEN <<>> ELSE Among(index[f, name], S)
      BY Zenon DEF OwnDefault
    <3>2. CASE name = None
      BY <3>1, <3>2
    <3>3. CASE name # None
      <4>1. index[f, name] \in Seq(P)
        BY <1>2, <3>3 DEF Spots
      <4> HIDE DEF S, name
      <4>2. Among(index[f, name], S) \in Seq(P)
        BY <4>1, AmongSet
      <4> QED
        BY <3>1, <3>3, <4>2
    <3> QED
      BY <3>2, <3>3
  <2> QED
    BY <2>1, <2>2
<1> HIDE DEF own
<1>4. links \in [Files -> Seq(Files)] /\ DOMAIN links = Files
  <2>1. \A f \in Files : p.forwards[f] # None => <<p.forwards[f]>> \in Seq(Files)
    BY <1>2
  <2> QED
    BY <2>1
<1>5. \A f \in Files : has[f] = IF own[f] = <<>> THEN None ELSE own[f]
  OBVIOUS
<1> HIDE DEF links, has
<1>6. Finite(links) /\ Closed(Files, has, links)
  <2>1. \A f \in Files : ToSet(links[f]) \subseteq Files
    <3> SUFFICES ASSUME NEW f \in Files PROVE ToSet(links[f]) \subseteq Files
      OBVIOUS
    <3>1. links[f] \in Seq(Files) /\ <<>> \in Seq(Files)
      BY <1>4
    <3> QED
      BY <3>1, ConcatSet
  <2> QED
    BY <1>4, <2>1, ScanConstants DEF Finite, Closed
<1>7. found # None => \E x \in Files : has[x] = found
  BY <1>4, <1>6, DepthFirstFinds
<1> HIDE DEF found
<1>8. found # None => found \in Seq(P)
  BY <1>3, <1>5, <1>7
<1> QED
  BY <1>1, <1>8

\* The index of the functions keeps, at a place, functions of that file and name.
LEMMA FunctionIndexType ==
  ASSUME NEW p, Scanned(p)
  PROVE  FunctionIndex(p) \in [Spots -> Seq(ToSet(p.functions))]
<1> DEFINE index == Index(p.functions)
<1>1. index \in [Spots -> Seq(ToSet(p.functions))]
  <2>1. p.functions \in Seq(ToSet(p.functions))
    BY DEF Scanned
  <2> QED
    BY <2>1, IndexType
<1> HIDE DEF index
<1>2. DOMAIN index = Spots
  BY <1>1
<1>3. FunctionIndex(p) = [at \in Spots |-> IF at[2] = "default" THEN DefaultOf(p, index, at[1]) ELSE index[at]]
  BY <1>2, Zenon DEF FunctionIndex, WithDefaults, index
<1>4. \A at \in Spots : at[1] \in Files
  BY DEF Spots
<1>5. \A at \in Spots : DefaultOf(p, index, at[1]) \in Seq(ToSet(p.functions))
  BY <1>1, <1>4, DefaultOfType
<1> QED
  BY <1>1, <1>3, <1>5

\* What is found in a file.
LEMMA LookupFacts ==
  ASSUME NEW P, NEW index \in [Spots -> Seq(P)], \A d \in P : d.id # None, NEW at \in Spots
  PROVE  /\ LookupInFile(index, at[1], at[2]) = None <=> index[at] = <<>>
         /\ index[at] # <<>> => /\ LookupInFile(index, at[1], at[2]) = index[at][1].id
                                /\ index[at][1] \in ToSet(index[at])
         /\ HasAt(index)[at] = LookupInFile(index, at[1], at[2])
<1>1. at = <<at[1], at[2]>> /\ index[at] \in Seq(P)
  BY DEF Spots
<1>2. LookupInFile(index, at[1], at[2]) = IF index[at] = <<>> THEN None ELSE Head(index[at]).id
  BY <1>1, Zenon DEF LookupInFile
<1>3. index[at] # <<>> => Head(index[at]) \in P /\ Head(index[at]) \in ToSet(index[at]) /\ Head(index[at]) = index[at][1]
  BY <1>1, HeadAndTail
<1>4. HasAt(index)[at] = LookupInFile(index, at[1], at[2])
  BY DEF HasAt, Spots
<1> QED
  BY <1>2, <1>3, <1>4, Zenon

\* Beyond, as a function on sets of spots.
BeyondBy(p, own) == [s \in SUBSET Spots |-> Beyond(p, own, s)]

\* Going one step beyond a set of places only adds to it.
LEMMA BeyondAdds ==
  ASSUME NEW p, Scanned(p), NEW own
  PROVE  /\ Adds(BeyondBy(p, own), Spots)
         /\ \A s \in SUBSET Spots : BeyondBy(p, own)[s] = s \cup UNION {Onward(p, at) : at \in s \ own}
<1> DEFINE T == BeyondBy(p, own)
           G(s) == s \cup UNION {Onward(p, at) : at \in s \ own}
<1>1. \A s : Beyond(p, own, s) = G(s)
  BY Zenon DEF Beyond, Onward
<1>2. T = [s \in SUBSET Spots |-> G(s)]
  <2> HIDE DEF G
  <2> QED
    BY <1>1, Zenon DEF BeyondBy
<1>3. \A at \in Spots : Onward(p, at) \subseteq Spots
  BY ForwardsFromSet
<1>4. \A s \in SUBSET Spots : G(s) \in SUBSET Spots
  BY <1>3
<1>5. \A s \in SUBSET Spots : T[s] = G(s)
  <2> HIDE DEF G
  <2> QED
    BY <1>2
<1>6. T \in [SUBSET Spots -> SUBSET Spots]
  <2> HIDE DEF G, T
  <2> QED
    BY <1>2, <1>4
<1> HIDE DEF T
<1>7. \A s \in SUBSET Spots : s \subseteq T[s]
  BY <1>5
<1>8. \A s, t \in SUBSET Spots : s \subseteq t => T[s] \subseteq T[t]
  <2>1. \A s, t \in SUBSET Spots : s \subseteq t => G(s) \subseteq G(t)
    OBVIOUS
  <2> HIDE DEF G
  <2> QED
    BY <1>5, <2>1
<1>9. Adds(T, Spots)
  BY <1>6, <1>7, <1>8, SpotsAreFinite DEF Adds
<1> QED
  BY <1>5, <1>9 DEF T

\* Reached is the least set of spots with the pairs that nothing leads beyond.
LEMMA ReachedIsLeast ==
  ASSUME NEW p, Scanned(p), NEW own, NEW pairs \in SUBSET Spots
  PROVE  LeastWith(Reached(p, own, pairs), pairs, BeyondBy(p, own), Spots)
<1> DEFINE T == BeyondBy(p, own)
           Body(u) == [s \in SUBSET Spots |-> IF Beyond(p, own, s) = s THEN s ELSE u[Beyond(p, own, s)]]
           f == CHOOSE u : u = Body(u)
<1>1. Reached(p, own, pairs) = f[pairs]
  BY Zenon DEF Reached, Spots
<1>2. Adds(T, Spots) /\ T \in [SUBSET Spots -> SUBSET Spots]
  BY BeyondAdds DEF Adds
<1>3. \A s \in SUBSET Spots : T[s] = Beyond(p, own, s)
  BY DEF BeyondBy
<1> HIDE DEF T
<1>4. PICK g : IsRepetition(g, T, Spots)
  BY <1>2, RepeatingExists
<1>5. g = Body(g)
  BY <1>3, <1>4, Zenon DEF IsRepetition
<1>6. f = Body(f)
  <2> HIDE DEF Body
  <2> QED
    BY <1>5, Zenon
<1> HIDE DEF f
<1>7. \A s \in SUBSET Spots : f[s] = IF T[s] = s THEN s ELSE f[T[s]]
  BY <1>3, <1>6, Zenon
<1>8. LeastWith(f[pairs], pairs, T, Spots)
  BY <1>2, <1>7, RepeatingFindsTheLeast DEF Repeats
<1> QED
  BY <1>1, <1>8 DEF T

\* A lookup of a function finds one of those that the spots lead to, whenever
\* they lead to any.
LEMMA FunctionsAreFound ==
  ASSUME NEW p, Scanned(p), NEW pairs \in SUBSET Spots
  PROVE  /\ \A at \in pairs : LET found == FollowReExports(p, FunctionIndex(p), at)
                              IN  found # None => found \in Functions(p, pairs)
         /\ (\A at \in pairs : FollowReExports(p, FunctionIndex(p), at) = None) => Functions(p, pairs) = {}
<1> DEFINE index == FunctionIndex(p)
           F == ToSet(p.functions)
           has == HasAt(index)
           links == LinksOf(p)
           own == {at \in DOMAIN index : index[at] # <<>>}
           R == Reached(p, own, pairs)
           Found(at) == FollowReExports(p, index, at)
<1>1. index \in [Spots -> Seq(F)] /\ DOMAIN index = Spots
  BY FunctionIndexType
<1>2. \A d \in F : d.id # None
  BY DEF Scanned
<1>3. Functions(p, pairs) = {index[at][1].id : at \in R \cap own}
  BY Zenon DEF Functions
<1>4. /\ Finite(links) /\ DOMAIN links = Spots
      /\ \A x \in Spots : ToSet(links[x]) = Onward(p, x)
  BY LinksAreFinite
<1>5. \A at : Found(at) = DepthFirst(has, links, at)
  BY FollowIsDepthFirst
<1>6. \A at \in Spots : /\ has[at] = None <=> at \notin own
                        /\ at \in own => has[at] = index[at][1].id
  <2> SUFFICES ASSUME NEW at \in Spots
               PROVE  /\ has[at] = None <=> at \notin own
                      /\ at \in own => has[at] = index[at][1].id
    OBVIOUS
  <2> HIDE DEF index, has, F
  <2>1. /\ LookupInFile(index, at[1], at[2]) = None <=> index[at] = <<>>
        /\ index[at] # <<>> => LookupInFile(index, at[1], at[2]) = index[at][1].id
        /\ HasAt(index)[at] = LookupInFile(index, at[1], at[2])
    BY <1>1, <1>2, LookupFacts
  <2> QED
    BY <1>1, <2>1 DEF has
<1>7. LeastWith(R, pairs, BeyondBy(p, own), Spots)
  <2> HIDE DEF own
  <2> QED
    BY ReachedIsLeast
<1>8. \A s \in SUBSET Spots : BeyondBy(p, own)[s] = s \cup UNION {Onward(p, at) : at \in s \ own}
  <2> HIDE DEF own
  <2> QED
    BY BeyondAdds
<1> HIDE DEF index, F, has, links, own, R
<1>9. R \in SUBSET Spots /\ pairs \subseteq R /\ \A at \in R \ own : Onward(p, at) \subseteq R
  <2>1. R \in SUBSET Spots /\ pairs \subseteq R /\ BeyondBy(p, own)[R] = R
    BY <1>7 DEF LeastWith
  <2>2. R = R \cup UNION {Onward(p, at) : at \in R \ own}
    BY <1>8, <2>1
  <2> QED
    BY <2>1, <2>2
<1>10. Closed(R, has, links)
  <2>1. \A x \in R : has[x] = None => ToSet(links[x]) \subseteq R
    BY <1>4, <1>6, <1>9
  <2> QED
    BY <1>4, <1>9, <2>1 DEF Closed
<1>11. ASSUME NEW at \in pairs, Found(at) # None PROVE Found(at) \in Functions(p, pairs)
  <2>1. at \in DOMAIN links /\ at \in R
    BY <1>4, <1>9
  <2>2. PICK x \in R : has[x] = Found(at)
    BY <1>4, <1>5, <1>10, <1>11, <2>1, DepthFirstFinds
  <2>3. x \in own /\ Found(at) = index[x][1].id
    BY <1>6, <1>9, <1>11, <2>2
  <2> HIDE DEF Found
  <2> QED
    BY <1>3, <2>2, <2>3
<1>12. ASSUME \A at \in pairs : Found(at) = None PROVE Functions(p, pairs) = {}
  <2> DEFINE Bare == {C \in SUBSET Spots : Closed(C, has, links) /\ \A x \in C : has[x] = None}
             U == UNION Bare
  <2>1. ASSUME NEW at \in pairs PROVE at \in U
    <3>1. at \in DOMAIN links
      BY <1>4
    <3>2. PICK C : Closed(C, has, links) /\ at \in C /\ \A x \in C : has[x] = None
      BY <1>4, <1>5, <1>12, <3>1, DepthFirstFinds
    <3>3. C \in Bare
      BY <1>4, <3>2 DEF Closed
    <3> QED
      BY <3>2, <3>3
  <2>2. \A x \in U : x \in Spots /\ has[x] = None /\ Onward(p, x) \subseteq U
    <3> SUFFICES ASSUME NEW C \in Bare, NEW x \in C PROVE x \in Spots /\ has[x] = None /\ Onward(p, x) \subseteq U
      OBVIOUS
    <3>1. ToSet(links[x]) \subseteq C /\ x \in Spots /\ has[x] = None
      BY DEF Closed
    <3> QED
      BY <1>4, <3>1
  <2> HIDE DEF U
  <2>3. U \in SUBSET Spots /\ BeyondBy(p, own)[U] \subseteq U
    <3>1. U \in SUBSET Spots
      BY <2>2
    <3>2. BeyondBy(p, own)[U] = U \cup UNION {Onward(p, at) : at \in U \ own}
      BY <1>8, <3>1
    <3> QED
      BY <2>2, <3>1, <3>2
  <2>4. R \subseteq U
    BY <1>7, <2>1, <2>3 DEF LeastWith
  <2>5. R \cap own = {}
    BY <1>6, <2>2, <2>4
  <2> QED
    BY <1>3, <2>5
<1> QED
  BY <1>11, <1>12 DEF index

-----------------------------------------------------------------------------
\* What lookupExportedFunction keeps.

\* A cache holds what a lookup without it would find.
Honest(p, index, kept) ==
  /\ DOMAIN kept \subseteq Spots
  /\ kept = [at \in DOMAIN kept |-> FollowReExports(p, index, at)]

\* lookupExportedFunction returns what it would find without its cache, and
\* keeps only that.
LEMMA LookupIsHonest ==
  ASSUME NEW p, NEW index, NEW kept, Honest(p, index, kept), NEW at \in Spots
  PROVE  LET a == LookupExported(p, index, at, kept)
         IN  /\ a = Answer(FollowReExports(p, index, at), a.cache)
             /\ Honest(p, index, a.cache)
<1> DEFINE a == LookupExported(p, index, at, kept)
           found == FollowReExports(p, index, at)
           more == [x \in DOMAIN kept \cup {at} |-> IF x = at THEN found ELSE kept[x]]
<1>1. a = IF at \in DOMAIN kept THEN Answer(kept[at], kept) ELSE Answer(found, more)
  BY Zenon DEF LookupExported
<1>2. DOMAIN kept \subseteq Spots /\ kept = [x \in DOMAIN kept |-> FollowReExports(p, index, x)]
  BY DEF Honest
<1>3. \A x \in DOMAIN kept : kept[x] = FollowReExports(p, index, x)
  BY <1>2, Zenon
<1>4. more = [x \in DOMAIN kept \cup {at} |-> FollowReExports(p, index, x)]
  BY <1>3
<1>5. DOMAIN more = DOMAIN kept \cup {at} /\ Honest(p, index, more)
  BY <1>2, <1>4 DEF Honest
<1>6. \A v, c : Answer(v, c).found = v /\ Answer(v, c).cache = c
  BY DEF Answer
<1> HIDE DEF a, found, more
<1>7. CASE at \in DOMAIN kept
  <2>1. a = Answer(found, kept)
    BY <1>1, <1>3, <1>7 DEF found
  <2>2. a.cache = kept
    BY <1>6, <2>1
  <2> QED
    BY <2>1, <2>2 DEF a, found
<1>8. CASE at \notin DOMAIN kept
  <2>1. a = Answer(found, more)
    BY <1>1, <1>8
  <2>2. a.cache = more
    BY <1>6, <2>1
  <2> QED
    BY <1>5, <2>1, <2>2 DEF a, found
<1> QED
  BY <1>7, <1>8

\* One more place is asked, unless there is an answer.
AskedFor(p, index, places, n, v) ==
  IF v.found # None THEN v ELSE LookupExported(p, index, places[n], v.cache)

\* An answer from places, with an honest cache.
AnswerFrom(p, index, places, a) ==
  /\ Honest(p, index, a.cache)
  /\ a.found # None => \E at \in places : a.found = FollowReExports(p, index, at)
  /\ a.found = None => \A at \in places : FollowReExports(p, index, at) = None

\* FirstThrough asks place by place.
LEMMA FirstThroughAnswers ==
  ASSUME NEW p, NEW index, NEW places \in Seq(Spots), NEW kept, Honest(p, index, kept)
  PROVE  AnswerFrom(p, index, ToSet(places), FirstThrough(p, index, places, kept))
<1> DEFINE N == Len(places)
           c == Answer(None, kept)
           Follow(at) == FollowReExports(p, index, at)
           V == {Follow(at) : at \in Spots} \cup {None}
           H == {[at \in A |-> Follow(at)] : A \in SUBSET Spots}
           S == {Answer(v, h) : v \in V, h \in H}
           Step(n, v) == AskedFor(p, index, places, n, v)
           Body(u) == [n \in 0..N |-> IF n = 0 THEN c ELSE Step(n, u[n - 1])]
           f == CHOOSE u : u = Body(u)
           D == [n \in 1..N |-> [v \in S |-> Step(n, v)]]
<1>1. FirstThrough(p, index, places, kept) = f[N]
  BY Zenon DEF FirstThrough, AskedFor
<1>2. N \in Nat /\ \A n \in 1..N : places[n] \in Spots
  OBVIOUS
<1>3. \A v, h : Answer(v, h).found = v /\ Answer(v, h).cache = h
  BY DEF Answer
<1>4. \A h : Honest(p, index, h) <=> h \in H
  <2>1. ASSUME NEW h \in H PROVE Honest(p, index, h)
    <3>1. PICK A \in SUBSET Spots : h = [at \in A |-> Follow(at)]
      OBVIOUS
    <3>2. DOMAIN h = A
      BY <3>1
    <3> QED
      BY <3>1, <3>2, Zenon DEF Honest
  <2>2. ASSUME NEW h, Honest(p, index, h) PROVE h \in H
    <3>1. DOMAIN h \in SUBSET Spots /\ h = [at \in DOMAIN h |-> Follow(at)]
      BY <2>2 DEF Honest
    <3> QED
      BY <3>1, Zenon
  <2> HIDE DEF H
  <2> QED
    BY <2>1, <2>2
<1>5. \A v \in S : Honest(p, index, v.cache)
  <2> HIDE DEF H, V
  <2> QED
    BY <1>3, <1>4
<1>6. \A v \in V : \A h : Honest(p, index, h) => Answer(v, h) \in S
  <2> HIDE DEF H, V
  <2> QED
    BY <1>4
<1>7. None \in V /\ \A at \in Spots : Follow(at) \in V
  OBVIOUS
<1>8. c \in S
  <2> HIDE DEF S, V
  <2> QED
    BY <1>6, <1>7
<1>9. D \in Steps(N, S)
  <2>1. ASSUME NEW n \in 1..N, NEW v \in S
        PROVE  Step(n, v) \in S
    <3>1. CASE v.found # None
      BY <3>1 DEF AskedFor
    <3>2. CASE v.found = None
      <4> DEFINE a == LookupExported(p, index, places[n], v.cache)
      <4>1. Step(n, v) = a
        BY <3>2 DEF AskedFor
      <4>2. a = Answer(Follow(places[n]), a.cache) /\ Honest(p, index, a.cache)
        <5>1. places[n] \in Spots /\ Honest(p, index, v.cache)
          BY <1>2, <1>5
        <5> HIDE DEF S
        <5> QED
          BY <5>1, LookupIsHonest
      <4>3. Follow(places[n]) \in V
        BY <1>2
      <4> HIDE DEF a, S, Step, Follow, V
      <4>4. Answer(Follow(places[n]), a.cache) \in S
        BY <1>6, <4>2, <4>3
      <4> QED
        BY <4>1, <4>2, <4>4
    <3> QED
      BY <3>1, <3>2
  <2> HIDE DEF Step, S, N
  <2> QED
    BY <2>1, Zenon DEF Steps
<1>10. \A n \in 1..N, v \in S : D[n][v] = Step(n, v)
  <2> HIDE DEF Step, S, N
  <2> QED
    BY Zenon
<1>11. PICK g : Iterates(g, N, S, c, D)
  <2> HIDE DEF D, N, S, c
  <2> QED
    BY <1>2, <1>8, <1>9, Iteration
<1>12. /\ g \in [0..N -> S]
       /\ g[0] = c
       /\ \A n \in 1..N : g[n] = Step(n, g[n - 1])
  <2> HIDE DEF D, N, S, Step, c
  <2>1. /\ g \in [0..N -> S] /\ g[0] = c
        /\ \A n \in 1..N : g[n - 1] \in S /\ g[n] = D[n][g[n - 1]]
    BY <1>2, <1>11, IteratesFacts
  <2> QED
    BY <1>10, <2>1, Zenon
<1>13. g = Body(g)
  <2> HIDE DEF N, S, Step, D, c
  <2>1. ASSUME NEW n \in 0..N PROVE g[n] = Body(g)[n]
    <3>1. CASE n = 0
      BY <1>12, <3>1, Zenon
    <3>2. CASE n # 0
      <4>1. n \in 1..N
        BY <1>2, <3>2
      <4>2. g[n] = Step(n, g[n - 1])
        BY <1>12, <4>1, Zenon
      <4> QED
        BY <3>2, <4>2, Zenon
    <3> QED
      BY <3>1, <3>2
  <2> QED
    BY <1>12, <2>1, Zenon
<1>14. f = Body(f)
  BY <1>13, Zenon
<1>15. f[0] = c /\ \A n \in 1..N : f[n] = Step(n, f[n - 1])
  <2> HIDE DEF f, N, Step, c
  <2> QED
    BY <1>2, <1>14, OneToN, Zenon
<1>16. f[N] = g[N]
  <2> HIDE DEF f, D, N, S, Step, c
  <2>1. \A n \in 1..N : f[n - 1] \in S => f[n] = D[n][f[n - 1]]
    BY <1>10, <1>15, Zenon
  <2> QED
    BY <1>2, <1>11, <1>15, <2>1, OnlyIterate
<1> HIDE DEF f
<1> DEFINE Ok(k) == /\ g[k].found # None => \E i \in 1..k : g[k].found = Follow(places[i])
                    /\ g[k].found = None => \A i \in 1..k : Follow(places[i]) = None
           T == {k \in Nat : k <= N => Ok(k)}
<1>17. 0 \in T
  <2>1. g[0].found = None
    BY <1>3, <1>12
  <2> QED
    BY <2>1
<1>18. ASSUME NEW k \in T PROVE k + 1 \in T
  <2> SUFFICES ASSUME k + 1 <= N PROVE Ok(k + 1)
    OBVIOUS
  <2>1. k \in Nat /\ k + 1 \in 1..N /\ (k + 1) - 1 = k /\ k \in 0..N /\ Ok(k)
    BY <1>2
  <2>2. g[k] \in S /\ g[k + 1] = AskedFor(p, index, places, k + 1, g[k])
    BY <1>12, <2>1
  <2> HIDE DEF S, N, c, Step
  <2>3. CASE g[k].found # None
    <3>1. g[k + 1] = g[k]
      BY <2>2, <2>3 DEF AskedFor
    <3>2. PICK i \in 1..k : g[k].found = Follow(places[i])
      BY <2>1, <2>3
    <3>3. i \in 1..(k + 1)
      BY <2>1
    <3> HIDE DEF Follow
    <3> QED
      BY <2>3, <3>1, <3>2, <3>3
  <2>4. CASE g[k].found = None
    <3> DEFINE a == LookupExported(p, index, places[k + 1], g[k].cache)
    <3>1. g[k + 1] = a
      BY <2>2, <2>4 DEF AskedFor
    <3>2. a = Answer(Follow(places[k + 1]), a.cache)
      BY <1>2, <1>5, <2>1, <2>2, LookupIsHonest
    <3> HIDE DEF a, Follow
    <3>3. a.found = Follow(places[k + 1])
      BY <1>3, <3>2
    <3>4. \A i \in 1..k : Follow(places[i]) = None
      BY <2>1, <2>4
    <3>5. k + 1 \in 1..(k + 1) /\ \A i \in 1..(k + 1) : i \in 1..k \/ i = k + 1
      BY <2>1
    <3> QED
      BY <3>1, <3>3, <3>4, <3>5
  <2> QED
    BY <2>3, <2>4
<1>19. T = Nat
  <2>1. T \in SUBSET Nat
    OBVIOUS
  <2> HIDE DEF T
  <2> QED
    BY <1>17, <1>18, <2>1, NaturalInduction
<1>20. Ok(N)
  BY <1>2, <1>19
<1>21. Honest(p, index, g[N].cache)
  <2>1. g[N] \in S
    BY <1>2, <1>12
  <2> HIDE DEF S
  <2> QED
    BY <1>5, <2>1
<1>22. \A at : at \in ToSet(places) <=> \E i \in 1..N : at = places[i]
  BY DEF ToSet
<1> HIDE DEF Follow, N
<1>23. AnswerFrom(p, index, ToSet(places), g[N])
  BY <1>20, <1>21, <1>22 DEF AnswerFrom, Follow
<1> QED
  BY <1>1, <1>16, <1>23

\* Imports lead to spots; those without bindings to the name itself.
LEMMA LeadingToSet ==
  ASSUME NEW p, Scanned(p), NEW file, NEW name \in Names
  PROVE  LET bound == {<<i.target, BindingOf(i, name).imported>> :
                         i \in {i \in ToSet(ImportsOf(p, file)) : BindingOf(i, name) # None}}
             unbound == {<<i.target, name>> : i \in {i \in ToSet(ImportsOf(p, file)) : Unbound(i)}}
         IN  /\ LeadingTo(p, file, name) \in Seq(Spots)
             /\ ToSet(LeadingTo(p, file, name)) = bound \cup unbound
             /\ bound \in SUBSET Spots /\ unbound \in SUBSET Spots
<1> DEFINE I == ToSet(p.imports)
           all == ImportsOf(p, file)
           S == {i \in I : Unbound(i) \/ BindingOf(i, name) # None}
           through == Among(all, S)
           B(i) == BindingOf(i, name)
           F == [i \in I |-> <<i.target, IF Unbound(i) THEN name ELSE B(i).imported>>]
           bound == {<<i.target, B(i).imported>> : i \in {i \in ToSet(all) : B(i) # None}}
           unbound == {<<i.target, name>> : i \in {i \in ToSet(all) : Unbound(i)}}
<1>1. all \in Seq(I) /\ ToSet(all) \subseteq I /\ \A i \in ToSet(all) : i.target \in Files
  BY ImportsOfSet
<1>2. ASSUME NEW i \in I, B(i) # None PROVE B(i).imported \in Names /\ ~Unbound(i)
  <2> DEFINE C == {b \in ToSet(i.bindings) : b.kind \in {"named", "default"} /\ b.local = name}
  <2>1. i.bindings \in Seq(ToSet(i.bindings)) /\ \A b \in ToSet(i.bindings) : b.imported \in Names
    BY DEF Scanned
  <2>2. B(i) = First(Among(i.bindings, C))
    BY Zenon DEF BindingOf
  <2> HIDE DEF C
  <2>3. First(Among(i.bindings, C)) \in ToSet(i.bindings)
    BY <1>2, <2>1, <2>2, FirstAmong
  <2>4. ToSet(i.bindings) # {}
    BY <2>3
  <2>5. i.bindings # <<>>
    BY <2>1, <2>4, FirstOf
  <2> QED
    BY <2>1, <2>2, <2>3, <2>5 DEF Unbound
<1>3. through \in Seq(I) /\ ToSet(through) = ToSet(all) \cap S
  <2> HIDE DEF S, all, I
  <2> QED
    BY <1>1, AmongSet
<1>4. LeadingTo(p, file, name) =
        [n \in DOMAIN through |->
           <<through[n].target, IF Unbound(through[n]) THEN name ELSE B(through[n]).imported>>]
  BY Zenon DEF LeadingTo
<1> HIDE DEF B
<1>5. \A i \in ToSet(through) :
         /\ i \in ToSet(all) /\ i \in I /\ i.target \in Files
         /\ Unbound(i) \/ B(i) # None
  BY <1>1, <1>3 DEF B
<1>6. \A i \in ToSet(through) : F[i] \in Spots
  <2> SUFFICES ASSUME NEW i \in ToSet(through) PROVE F[i] \in Spots
    OBVIOUS
  <2>1. F[i] = <<i.target, IF Unbound(i) THEN name ELSE B(i).imported>>
    BY <1>5
  <2>2. (IF Unbound(i) THEN name ELSE B(i).imported) \in Names
    BY <1>2, <1>5
  <2> HIDE DEF F
  <2> QED
    BY <1>5, <2>1, <2>2 DEF Spots
<1>7. \A i \in I : F[i] = <<i.target, IF Unbound(i) THEN name ELSE B(i).imported>>
  OBVIOUS
<1> HIDE DEF F, through
<1>8. \A n \in DOMAIN through : through[n] \in ToSet(through) /\ through[n] \in I
  BY <1>5 DEF ToSet
<1>9. LeadingTo(p, file, name) = Mapped(through, F)
  BY <1>4, <1>7, <1>8 DEF Mapped
<1>10. Mapped(through, F) \in Seq(Spots) /\ ToSet(Mapped(through, F)) = {F[i] : i \in ToSet(through)}
  BY <1>3, <1>6, MappedSet
<1>11. {F[i] : i \in ToSet(through)} = bound \cup unbound
  <2>1. ASSUME NEW i \in ToSet(through) PROVE F[i] \in bound \cup unbound
    <3>1. CASE Unbound(i)
      <4>1. F[i] = <<i.target, name>> /\ i \in ToSet(all)
        BY <1>5, <1>7, <3>1
      <4> QED
        BY <3>1, <4>1
    <3>2. CASE ~Unbound(i)
      <4>1. F[i] = <<i.target, B(i).imported>> /\ i \in ToSet(all) /\ B(i) # None
        BY <1>5, <1>7, <3>2
      <4> QED
        BY <4>1
    <3> QED
      BY <3>1, <3>2
  <2>2. ASSUME NEW i \in ToSet(all), B(i) # None PROVE <<i.target, B(i).imported>> \in {F[j] : j \in ToSet(through)}
    <3>1. i \in ToSet(through) /\ i \in I
      BY <1>1, <1>3, <2>2 DEF B
    <3>2. F[i] = <<i.target, B(i).imported>>
      BY <1>2, <1>7, <2>2, <3>1
    <3> QED
      BY <3>1, <3>2
  <2>3. ASSUME NEW i \in ToSet(all), Unbound(i) PROVE <<i.target, name>> \in {F[j] : j \in ToSet(through)}
    <3>1. i \in ToSet(through) /\ i \in I
      BY <1>1, <1>3, <2>3
    <3>2. F[i] = <<i.target, name>>
      BY <1>7, <2>3, <3>1
    <3> QED
      BY <3>1, <3>2
  <2> QED
    BY <2>1, <2>2, <2>3
<1>12. bound \in SUBSET Spots /\ unbound \in SUBSET Spots
  <2>1. \A i \in ToSet(all) : B(i) # None => <<i.target, B(i).imported>> \in Spots
    BY <1>1, <1>2 DEF Spots
  <2>2. \A i \in ToSet(all) : <<i.target, name>> \in Spots
    BY <1>1 DEF Spots
  <2> QED
    BY <2>1, <2>2
<1> QED
  BY <1>9, <1>10, <1>11, <1>12, Zenon DEF B

-----------------------------------------------------------------------------
\* Calls without a class.

\* resolveImportedName answers from the places the imports lead to.
LEMMA ImportedAnswers ==
  ASSUME NEW p, Scanned(p), NEW index, NEW file, NEW name \in Names, NEW kept, Honest(p, index, kept)
  PROVE  AnswerFrom(p, index, ToSet(LeadingTo(p, file, name)), ResolveImported(p, index, file, name, kept))
<1>1. LeadingTo(p, file, name) \in Seq(Spots)
  BY LeadingToSet
<1> QED
  BY <1>1, FirstThroughAnswers DEF ResolveImported

\* Where a receiver of a file's imports leads.
LEMMA ReceiverAnswers ==
  ASSUME NEW p, Scanned(p), NEW index, NEW file, NEW receiver, NEW callee \in Names, NEW kept, Honest(p, index, kept)
  PROVE  LET places == {<<i.target, callee>> :
                          i \in {i \in ToSet(ImportsOf(p, file)) : MatchesReceiver(i, receiver)}}
         IN  AnswerFrom(p, index, places, ResolveReceiver(p, index, file, receiver, callee, kept))
<1> DEFINE I == ToSet(p.imports)
           all == ImportsOf(p, file)
           S == {i \in I : MatchesReceiver(i, receiver)}
           through == Among(all, S)
           F == [i \in I |-> <<i.target, callee>>]
           places == {<<i.target, callee>> : i \in {i \in ToSet(all) : MatchesReceiver(i, receiver)}}
<1>1. all \in Seq(I) /\ ToSet(all) \subseteq I /\ \A i \in ToSet(all) : i.target \in Files
  BY ImportsOfSet
<1>2. through \in Seq(I) /\ ToSet(through) = ToSet(all) \cap S
  <2> HIDE DEF S, all, I
  <2> QED
    BY <1>1, AmongSet
<1>3. \A i \in ToSet(through) : F[i] = <<i.target, callee>> /\ F[i] \in Spots
  BY <1>1, <1>2 DEF Spots
<1>4. ResolveReceiver(p, index, file, receiver, callee, kept) =
        FirstThrough(p, index, [n \in DOMAIN through |-> <<through[n].target, callee>>], kept)
  BY Zenon DEF ResolveReceiver
<1>5. ToSet(through) = {i \in ToSet(all) : MatchesReceiver(i, receiver)}
  BY <1>1, <1>2
<1> HIDE DEF F, through
<1>6. [n \in DOMAIN through |-> <<through[n].target, callee>>] = Mapped(through, F)
  <2>1. \A n \in DOMAIN through : through[n] \in ToSet(through)
    BY DEF ToSet
  <2> QED
    BY <1>3, <2>1 DEF Mapped
<1>7. Mapped(through, F) \in Seq(Spots) /\ ToSet(Mapped(through, F)) = {F[i] : i \in ToSet(through)}
  BY <1>2, <1>3, MappedSet
<1>8. {F[i] : i \in ToSet(through)} = places
  BY <1>3, <1>5
<1>9. AnswerFrom(p, index, places, FirstThrough(p, index, Mapped(through, F), kept))
  <2> HIDE DEF places
  <2> QED
    BY <1>7, <1>8, FirstThroughAnswers
<1> QED
  BY <1>4, <1>6, <1>9, Zenon

\* resolveDeclaration keeps only what a lookup finds.
LEMMA DeclarationIsHonest ==
  ASSUME NEW p, Scanned(p), NEW index, NEW file, NEW name \in Names, NEW kept, Honest(p, index, kept)
  PROVE  Honest(p, index, ResolveDeclaration(p, index, file, name, kept).cache)
<1>1. CASE LookupInFile(index, file, name) # None
  BY <1>1 DEF ResolveDeclaration, Answer
<1>2. CASE LookupInFile(index, file, name) = None
  <2>1. ResolveDeclaration(p, index, file, name, kept) = ResolveImported(p, index, file, name, kept)
    BY <1>2 DEF ResolveDeclaration
  <2> QED
    BY <2>1, ImportedAnswers DEF AnswerFrom
<1> QED
  BY <1>1, <1>2

\* The cache stays honest whatever is called.
LEMMA DirectIsHonest ==
  ASSUME NEW p, Scanned(p), NEW call \in ToSet(p.calls), NEW kept, Honest(p, FunctionIndex(p), kept)
  PROVE  Honest(p, FunctionIndex(p), DirectTarget(p, call, kept).cache)
<1> DEFINE index == FunctionIndex(p)
           d == DirectTarget(p, call, kept)
<1>1. call.callee \in Names \cup {None}
  BY DEF Scanned
<1>2. \A found : Answer(found, kept).cache = kept
  BY DEF Answer
<1>3. CASE call.require # None
  <2>1. d = ResolveRequired(p, call, kept)
    BY <1>3, Zenon DEF DirectTarget
  <2>2. CASE \E i \in ToSet(ImportsOf(p, call.file)) : i.cjs /\ i.target = call.require
    <3>1. d = ResolveDeclaration(p, index, call.require, "default", kept)
      BY <2>1, <2>2, Zenon DEF ResolveRequired
    <3>2. "default" \in Names
      BY ScanConstants
    <3> HIDE DEF index
    <3>3. Honest(p, index, ResolveDeclaration(p, index, call.require, "default", kept).cache)
      BY <3>2, DeclarationIsHonest DEF index
    <3> QED
      BY <3>1, <3>3, Zenon DEF index
  <2>3. CASE ~\E i \in ToSet(ImportsOf(p, call.file)) : i.cjs /\ i.target = call.require
    <3>1. d = Answer(None, kept)
      BY <2>1, <2>3, Zenon DEF ResolveRequired
    <3> QED
      BY <1>2, <3>1
  <2> QED
    BY <2>2, <2>3
<1>4. CASE call.require = None /\ (call.callee = None \/ (call.receiver = None /\ Shadowed(p, call)))
  <2>1. d = Answer(None, kept)
    BY <1>4, Zenon DEF DirectTarget
  <2> QED
    BY <1>2, <2>1
<1>5. CASE call.require = None /\ ~(call.callee = None \/ (call.receiver = None /\ Shadowed(p, call)))
  <2>1. call.callee \in Names
    BY <1>1, <1>5
  <2>2. d = IF call.receiver = None /\ call.callee \in ImportedNames(p, call.file)
            THEN ResolveImported(p, index, call.file, call.callee, kept)
            ELSE ResolveCall(p, index, call.file, call.receiver, call.callee, kept)
    BY <1>5, Zenon DEF DirectTarget
  <2> HIDE DEF index
  <2>3. Honest(p, index, kept)
    BY DEF index
  <2>4. CASE call.receiver = None /\ call.callee \in ImportedNames(p, call.file)
    BY <2>1, <2>2, <2>3, <2>4, ImportedAnswers DEF AnswerFrom, index
  <2>5. CASE ~(call.receiver = None /\ call.callee \in ImportedNames(p, call.file))
    <3>1. d = ResolveCall(p, index, call.file, call.receiver, call.callee, kept)
      BY <2>2, <2>5, Zenon
    <3>2. CASE call.receiver = None
      <4>1. d = ResolveDeclaration(p, index, call.file, call.callee, kept)
        <5>1. call.receiver # "this"
          BY <3>2, ScanConstants
        <5> QED
          BY <3>1, <3>2, <5>1, Zenon DEF ResolveCall
      <4> HIDE DEF d
      <4> QED
        BY <2>1, <2>3, <4>1, DeclarationIsHonest DEF index, d
    <3>3. CASE call.receiver # None /\ call.receiver = "this"
      <4>1. d = Answer(LookupInFile(index, call.file, call.callee), kept)
        BY <3>1, <3>3, Zenon DEF ResolveCall
      <4> QED
        BY <1>2, <2>3, <4>1 DEF index
    <3>4. CASE call.receiver # None /\ call.receiver # "this"
      <4>1. d = ResolveReceiver(p, index, call.file, call.receiver, call.callee, kept)
        BY <3>1, <3>4, Zenon DEF ResolveCall
      <4> HIDE DEF d
      <4>2. Honest(p, index, ResolveReceiver(p, index, call.file, call.receiver, call.callee, kept).cache)
        BY <2>1, <2>3, ReceiverAnswers DEF AnswerFrom
      <4> QED
        BY <4>1, <4>2 DEF index, d
    <3> QED
      BY <3>2, <3>3, <3>4
  <2> QED
    BY <2>4, <2>5
<1> QED
  BY <1>3, <1>4, <1>5

\* What a bare call resolves to.
IsPlain(call) ==
  call.require = None /\ call.receiver = None /\ call.callee # None /\ ~call.new

FollowsBinding(p, call, reached) ==
  Behind(p, call.file, call.callee) = {} =>
    LET meant == Meant(p, call.file, call.callee)
        own == {f.id : f \in ToSet(FunctionIndex(p)[call.file, call.callee])}
    IN  IF call.caller # None /\ call.callee \in Caller(p, call).params THEN reached = {}
        ELSE IF call.callee \in ImportedNames(p, call.file)
        THEN reached \subseteq meant /\ (reached = {} <=> meant = {})
        ELSE reached \subseteq own

\* An imported name is resolved to a function it is bound to, and to none only
\* if it is bound to none.
LEMMA ImportedFollowsBinding ==
  ASSUME NEW p, Scanned(p), NEW file, NEW name \in Names, NEW kept, Honest(p, FunctionIndex(p), kept),
         Behind(p, file, name) = {}
  PROVE  LET found == ResolveImported(p, FunctionIndex(p), file, name, kept).found
         IN  /\ found # None => found \in Meant(p, file, name)
             /\ found = None => Meant(p, file, name) = {}
<1> DEFINE index == FunctionIndex(p)
           Follow(at) == FollowReExports(p, index, at)
           found == ResolveImported(p, index, file, name, kept).found
           bound == {<<i.target, BindingOf(i, name).imported>> :
                       i \in {i \in ToSet(ImportsOf(p, file)) : BindingOf(i, name) # None}}
           unbound == {<<i.target, name>> : i \in {i \in ToSet(ImportsOf(p, file)) : Unbound(i)}}
<1>1. /\ ToSet(LeadingTo(p, file, name)) = bound \cup unbound
      /\ bound \in SUBSET Spots /\ unbound \in SUBSET Spots
  BY LeadingToSet
<1>2. Meant(p, file, name) = Functions(p, bound) /\ Functions(p, unbound) = {}
  BY Zenon DEF Meant, Behind
<1>3. AnswerFrom(p, index, ToSet(LeadingTo(p, file, name)), ResolveImported(p, index, file, name, kept))
  BY ImportedAnswers
<1> HIDE DEF bound, unbound
<1>4. /\ \A at \in bound : Follow(at) # None => Follow(at) \in Functions(p, bound)
      /\ (\A at \in bound : Follow(at) = None) => Functions(p, bound) = {}
      /\ \A at \in unbound : Follow(at) # None => Follow(at) \in Functions(p, unbound)
  BY <1>1, FunctionsAreFound
<1>5. /\ found # None => \E at \in bound \cup unbound : found = Follow(at)
      /\ found = None => \A at \in bound \cup unbound : Follow(at) = None
  BY <1>1, <1>3 DEF AnswerFrom
<1> HIDE DEF Follow, found, index
<1>6. /\ found # None => found \in Meant(p, file, name)
      /\ found = None => Meant(p, file, name) = {}
  BY <1>2, <1>4, <1>5
<1> QED
  BY <1>6 DEF found, index

\* resolveDirectCall follows the binding of the name it calls.
LEMMA DirectFollowsBinding ==
  ASSUME NEW p, Scanned(p), NEW call \in ToSet(p.calls), NEW kept, Honest(p, FunctionIndex(p), kept),
         IsPlain(call)
  PROVE  FollowsBinding(p, call, {DirectTarget(p, call, kept).found} \ {None})
<1> DEFINE index == FunctionIndex(p)
           d == DirectTarget(p, call, kept)
           hidden == call.caller # None /\ call.callee \in Caller(p, call).params
           imported == call.callee \in ImportedNames(p, call.file)
           meant == Meant(p, call.file, call.callee)
           own == {f.id : f \in ToSet(index[call.file, call.callee])}
           reached == {d.found} \ {None}
<1>1. call.callee \in Names /\ call.file \in Files
  BY DEF Scanned, IsPlain
<1>2. call.require = None /\ call.receiver = None /\ call.callee # None
  BY DEF IsPlain
<1> SUFFICES ASSUME Behind(p, call.file, call.callee) = {}
             PROVE  /\ hidden => reached = {}
                    /\ ~hidden /\ imported => reached \subseteq meant /\ (reached = {} <=> meant = {})
                    /\ ~hidden /\ ~imported => reached \subseteq own
  BY Zenon DEF FollowsBinding
<1>3. /\ hidden => Shadowed(p, call)
      /\ imported /\ ~hidden => ~Shadowed(p, call)
  BY Zenon DEF Shadowed
<1>4. Shadowed(p, call) => d = Answer(None, kept)
  BY <1>2, Zenon DEF DirectTarget
<1>5. d = Answer(None, kept) => reached = {}
  BY DEF Answer
<1>6. LET found == ResolveImported(p, index, call.file, call.callee, kept).found
      IN  /\ found # None => found \in meant
          /\ found = None => meant = {}
  BY <1>1, ImportedFollowsBinding
<1>7. ~Shadowed(p, call) /\ imported => d = ResolveImported(p, index, call.file, call.callee, kept)
  BY <1>2, Zenon DEF DirectTarget
<1>8. ~Shadowed(p, call) /\ ~imported => d = ResolveDeclaration(p, index, call.file, call.callee, kept)
  <2>1. call.receiver # "this"
    BY <1>2, ScanConstants
  <2> QED
    BY <1>2, <2>1, Zenon DEF DirectTarget, ResolveCall
<1>9. ~imported => meant = {}
  <2> SUFFICES ASSUME ~imported PROVE meant = {}
    OBVIOUS
  <2> DEFINE bound == {<<i.target, BindingOf(i, call.callee).imported>> :
                         i \in {i \in ToSet(ImportsOf(p, call.file)) : BindingOf(i, call.callee) # None}}
  <2>1. ASSUME NEW i \in ToSet(ImportsOf(p, call.file)) PROVE BindingOf(i, call.callee) = None
    <3> SUFFICES ASSUME BindingOf(i, call.callee) # None PROVE FALSE
      OBVIOUS
    <3> DEFINE C == {b \in ToSet(i.bindings) : b.kind \in {"named", "default"} /\ b.local = call.callee}
               b == First(Among(i.bindings, C))
    <3>1. i \in ToSet(p.imports) /\ i.file = call.file
      BY ImportsOfSet
    <3>2. i.bindings \in Seq(ToSet(i.bindings))
      BY <3>1 DEF Scanned
    <3>3. b # None
      BY Zenon DEF BindingOf
    <3>4. b \in ToSet(i.bindings) \cap C
      <4> HIDE DEF C
      <4> QED
        BY <3>2, <3>3, FirstAmong
    <3>5. b \in ToSet(i.bindings) /\ b.local = call.callee
      BY <3>4
    <3> HIDE DEF b
    <3>6. call.callee \in ImportedNames(p, call.file)
      BY <3>1, <3>5 DEF ImportedNames
    <3> QED
      BY <3>6
  <2>2. bound = {}
    BY <2>1
  <2>3. Functions(p, {}) = {}
    BY FunctionsAreFound
  <2>4. meant = Functions(p, bound)
    BY Zenon DEF Meant
  <2> QED
    BY <2>2, <2>3, <2>4
<1>10. LookupInFile(index, call.file, call.callee) # None => LookupInFile(index, call.file, call.callee) \in own
  <2> DEFINE at == <<call.file, call.callee>>
  <2>1. at \in Spots /\ at[1] = call.file /\ at[2] = call.callee
    BY <1>1 DEF Spots
  <2>2. index \in [Spots -> Seq(ToSet(p.functions))] /\ \A f \in ToSet(p.functions) : f.id # None
    BY FunctionIndexType DEF Scanned
  <2>3. own = {f.id : f \in ToSet(index[at])}
    BY Zenon
  <2> HIDE DEF at, index, own
  <2>4. /\ LookupInFile(index, at[1], at[2]) = None <=> index[at] = <<>>
        /\ index[at] # <<>> => /\ LookupInFile(index, at[1], at[2]) = index[at][1].id
                               /\ index[at][1] \in ToSet(index[at])
    BY <2>1, <2>2, LookupFacts
  <2> QED
    BY <2>1, <2>3, <2>4
<1>11. ResolveDeclaration(p, index, call.file, call.callee, kept) =
         IF LookupInFile(index, call.file, call.callee) # None
         THEN Answer(LookupInFile(index, call.file, call.callee), kept)
         ELSE ResolveImported(p, index, call.file, call.callee, kept)
  BY Zenon DEF ResolveDeclaration
<1> HIDE DEF index, d, hidden, imported, meant, own
<1>12. \A found : Answer(found, kept).found = found
  BY DEF Answer
<1>13. CASE Shadowed(p, call)
  BY <1>3, <1>4, <1>5, <1>13
<1>14. CASE ~Shadowed(p, call) /\ imported
  BY <1>3, <1>6, <1>7, <1>14
<1>15. CASE ~Shadowed(p, call) /\ ~imported
  <2>1. ~hidden /\ d = ResolveDeclaration(p, index, call.file, call.callee, kept)
    BY <1>3, <1>8, <1>15
  <2>2. CASE LookupInFile(index, call.file, call.callee) # None
    BY <1>10, <1>11, <1>12, <1>15, <2>1, <2>2
  <2>3. CASE LookupInFile(index, call.file, call.callee) = None
    <3>1. d = ResolveImported(p, index, call.file, call.callee, kept)
      BY <1>11, <2>1, <2>3
    <3>2. d.found = None
      BY <1>6, <1>9, <1>15, <3>1
    <3> QED
      BY <1>15, <2>1, <3>2
  <2> QED
    BY <2>2, <2>3
<1> QED
  BY <1>13, <1>14, <1>15

-----------------------------------------------------------------------------
\* Calls on instances.

\* resolveInstanceCall keeps only what a lookup finds.
LEMMA InstanceIsHonest ==
  ASSUME NEW p, Scanned(p), NEW bases, NEW call, NEW kept, Honest(p, InstanceIndex(p), kept)
  PROVE  Honest(p, InstanceIndex(p), InstanceTarget(p, bases, call, kept).cache)
<1> DEFINE index == InstanceIndex(p)
           hidden == \/ call.receiver \in {None, "dotted"} \/ call.caller = None \/ call.callee = None
                     \/ call.receiver \in Caller(p, call).params
           class == ResolveDeclaration(p, index, call.file, call.receiver, kept)
           a == InstanceTarget(p, bases, call, kept)
<1>1. a = IF hidden \/ call.receiver \notin Names THEN Answer(None, kept)
          ELSE Answer(IF class.found = None THEN None ELSE Method(p, bases, class.found, call.callee), class.cache)
  BY Zenon DEF InstanceTarget
<1>2. \A v, c : Answer(v, c).cache = c
  BY DEF Answer
<1> HIDE DEF hidden
<1>3. CASE hidden \/ call.receiver \notin Names
  BY <1>1, <1>2, <1>3
<1>4. CASE ~(hidden \/ call.receiver \notin Names)
  <2>1. a.cache = class.cache
    BY <1>1, <1>2, <1>4
  <2>2. Honest(p, index, class.cache)
    <3> HIDE DEF index
    <3> QED
      BY <1>4, DeclarationIsHonest DEF index
  <2> QED
    BY <2>1, <2>2
<1> QED
  BY <1>3, <1>4

\* What a call resolves to, and what it does on an instance.
AddsInstance(p, bases, call, before, after) ==
  \E kept : /\ Honest(p, InstanceIndex(p), kept)
            /\ after = before \cup ({InstanceTarget(p, bases, call, kept).found} \ {None})

OneInstance(p, bases, call, v) ==
  LET a == InstanceTarget(p, bases, call, v.cache)
  IN  [cache |-> a.cache, targets |-> [v.targets EXCEPT ![call.id] = @ \cup ({a.found} \ {None})]]

Pair(kept, resolved) == [cache |-> kept, targets |-> resolved]

CallIds(p) == {c.id : c \in ToSet(p.calls)}
HonestCaches(p) == {[at \in A |-> FollowReExports(p, InstanceIndex(p), at)] : A \in SUBSET Spots}
Resolutions(p, X) == {Pair(h, t) : h \in HonestCaches(p), t \in [CallIds(p) -> SUBSET X]}
Instances(p, bases) == {InstanceTarget(p, bases, call, h).found : call \in ToSet(p.calls), h \in HonestCaches(p)}

\* What a pair is made of.
LEMMA PairFacts == \A h, t : Pair(h, t).cache = h /\ Pair(h, t).targets = t
BY DEF Pair

\* The honest caches are the lookups kept for any set of places.
LEMMA CachesAreHonest ==
  ASSUME NEW p
  PROVE  (\A h : Honest(p, InstanceIndex(p), h) <=> h \in HonestCaches(p)) /\ <<>> \in HonestCaches(p)
<1> DEFINE Follow(at) == FollowReExports(p, InstanceIndex(p), at)
<1>0. HonestCaches(p) = {[at \in A |-> Follow(at)] : A \in SUBSET Spots}
  BY DEF HonestCaches
<1>1. ASSUME NEW h \in HonestCaches(p) PROVE Honest(p, InstanceIndex(p), h)
  <2>1. PICK A \in SUBSET Spots : h = [at \in A |-> Follow(at)]
    BY <1>0
  <2>2. DOMAIN h = A
    BY <2>1
  <2> QED
    BY <2>1, <2>2, Zenon DEF Honest
<1>2. ASSUME NEW h, Honest(p, InstanceIndex(p), h) PROVE h \in HonestCaches(p)
  <2>1. DOMAIN h \in SUBSET Spots /\ h = [at \in DOMAIN h |-> Follow(at)]
    BY <1>2 DEF Honest
  <2> QED
    BY <1>0, <2>1, Zenon
<1>3. <<>> \in HonestCaches(p)
  <2>1. <<>> = [at \in {} |-> Follow(at)]
    OBVIOUS
  <2>2. {} \in SUBSET Spots
    OBVIOUS
  <2> QED
    BY <1>0, <2>1, <2>2, Zenon
<1> QED
  BY <1>1, <1>2, <1>3

\* A resolution is an honest cache and the targets of the calls.
LEMMA ResolutionFacts ==
  ASSUME NEW p, NEW X
  PROVE  /\ \A h \in HonestCaches(p), t \in [CallIds(p) -> SUBSET X] : Pair(h, t) \in Resolutions(p, X)
         /\ \A v \in Resolutions(p, X) : v.cache \in HonestCaches(p) /\ v.targets \in [CallIds(p) -> SUBSET X]
<1>1. \A h \in HonestCaches(p), t \in [CallIds(p) -> SUBSET X] : Pair(h, t) \in Resolutions(p, X)
  BY DEF Resolutions
<1>2. ASSUME NEW v \in Resolutions(p, X) PROVE v.cache \in HonestCaches(p) /\ v.targets \in [CallIds(p) -> SUBSET X]
  <2>1. PICK h \in HonestCaches(p), t \in [CallIds(p) -> SUBSET X] : v = Pair(h, t)
    BY DEF Resolutions
  <2> QED
    BY <2>1, PairFacts, Zenon
<1> QED
  BY <1>1, <1>2

\* A call adds what it does on an instance, and leaves the others alone.
LEMMA OneInstanceAdds ==
  ASSUME NEW p, Scanned(p), NEW bases, NEW X, Instances(p, bases) \subseteq X,
         NEW v \in Resolutions(p, X), NEW call \in ToSet(p.calls)
  PROVE  /\ OneInstance(p, bases, call, v) \in Resolutions(p, X)
         /\ AddsInstance(p, bases, call, v.targets[call.id], OneInstance(p, bases, call, v).targets[call.id])
         /\ \A id \in CallIds(p) : id # call.id => OneInstance(p, bases, call, v).targets[id] = v.targets[id]
<1> PICK a : a = InstanceTarget(p, bases, call, v.cache)
  OBVIOUS
<1> PICK new : new = [v.targets EXCEPT ![call.id] = @ \cup ({a.found} \ {None})]
  OBVIOUS
<1>1. v.cache \in HonestCaches(p) /\ v.targets \in [CallIds(p) -> SUBSET X]
  BY ResolutionFacts
<1>2. Honest(p, InstanceIndex(p), v.cache)
  BY <1>1, CachesAreHonest
<1>3. Honest(p, InstanceIndex(p), a.cache)
  BY <1>2, InstanceIsHonest
<1>4. a.cache \in HonestCaches(p)
  BY <1>3, CachesAreHonest
<1>5. a.found \in X
  BY <1>1 DEF Instances
<1>6. call.id \in CallIds(p)
  BY DEF CallIds
<1>7. /\ new \in [CallIds(p) -> SUBSET X]
      /\ new[call.id] = v.targets[call.id] \cup ({a.found} \ {None})
      /\ \A id \in CallIds(p) : id # call.id => new[id] = v.targets[id]
  BY <1>1, <1>5, <1>6
<1>8. OneInstance(p, bases, call, v) = Pair(a.cache, new)
  BY Zenon DEF OneInstance, Pair
<1>9. AddsInstance(p, bases, call, v.targets[call.id], new[call.id])
  BY <1>2, <1>7, Zenon DEF AddsInstance
<1>10. Pair(a.cache, new) \in Resolutions(p, X) /\ Pair(a.cache, new).targets = new
  BY <1>4, <1>7, ResolutionFacts, PairFacts
<1> QED
  BY <1>7, <1>8, <1>9, <1>10

\* The calls are taken one by one, and each of them only once.
LEMMA InstancesAreAdded ==
  ASSUME NEW p, Scanned(p), NEW bases, NEW resolved, NEW Y, resolved \in [CallIds(p) -> SUBSET Y]
  PROVE  /\ \E X : WithInstances(p, bases, resolved) \in [CallIds(p) -> SUBSET X]
         /\ \A c \in ToSet(p.calls) :
              AddsInstance(p, bases, c, resolved[c.id], WithInstances(p, bases, resolved)[c.id])
<1> DEFINE N == Len(p.calls)
           X == Y \cup Instances(p, bases)
           S == Resolutions(p, X)
           c == Pair(<<>>, resolved)
           Step(n, v) == OneInstance(p, bases, p.calls[n], v)
           Body(u) == [n \in 0..N |-> IF n = 0 THEN c ELSE Step(n, u[n - 1])]
           f == CHOOSE u : u = Body(u)
           D == [n \in 1..N |-> [v \in S |-> Step(n, v)]]
<1>1. WithInstances(p, bases, resolved) = f[N].targets
  BY Zenon DEF WithInstances, OneInstance, Pair
<1>2. /\ N \in Nat /\ ToSet(p.calls) = {p.calls[n] : n \in 1..N}
      /\ \A m, n \in 1..N : p.calls[m].id = p.calls[n].id => m = n
  <2>1. p.calls \in Seq(ToSet(p.calls)) /\ \A m, n \in DOMAIN p.calls : p.calls[m].id = p.calls[n].id => m = n
    BY DEF Scanned
  <2>2. N \in Nat /\ DOMAIN p.calls = 1..N
    BY <2>1
  <2> QED
    BY <2>1, <2>2, Zenon DEF ToSet
<1>3. Instances(p, bases) \subseteq X /\ resolved \in [CallIds(p) -> SUBSET X]
  OBVIOUS
<1> HIDE DEF X
<1>7. c \in S
  BY <1>3, CachesAreHonest, ResolutionFacts
<1>10. ASSUME NEW v \in S, NEW call \in ToSet(p.calls)
       PROVE  /\ OneInstance(p, bases, call, v) \in S
              /\ AddsInstance(p, bases, call, v.targets[call.id], OneInstance(p, bases, call, v).targets[call.id])
              /\ \A id \in CallIds(p) : id # call.id => OneInstance(p, bases, call, v).targets[id] = v.targets[id]
  BY <1>3, OneInstanceAdds
<1> HIDE DEF S
<1>11. D \in Steps(N, S)
  <2>1. \A n \in 1..N, v \in S : Step(n, v) \in S
    BY <1>2, <1>10
  <2> HIDE DEF Step, N
  <2> QED
    BY <2>1, Zenon DEF Steps
<1>12. \A n \in 1..N, v \in S : D[n][v] = Step(n, v)
  <2> HIDE DEF Step, N
  <2> QED
    BY Zenon
<1>13. PICK g : Iterates(g, N, S, c, D)
  <2> HIDE DEF D, N, c
  <2> QED
    BY <1>2, <1>7, <1>11, Iteration
<1>14. /\ g \in [0..N -> S]
       /\ g[0] = c
       /\ \A n \in 1..N : g[n] = Step(n, g[n - 1])
  <2> HIDE DEF D, N, Step, c
  <2>1. /\ g \in [0..N -> S] /\ g[0] = c
        /\ \A n \in 1..N : g[n - 1] \in S /\ g[n] = D[n][g[n - 1]]
    BY <1>2, <1>13, IteratesFacts
  <2> QED
    BY <1>12, <2>1, Zenon
<1>15. g = Body(g)
  <2> HIDE DEF N, Step, D, c
  <2>1. ASSUME NEW n \in 0..N PROVE g[n] = Body(g)[n]
    <3>1. CASE n = 0
      BY <1>14, <3>1, Zenon
    <3>2. CASE n # 0
      <4>1. n \in 1..N
        BY <1>2, <3>2
      <4>2. g[n] = Step(n, g[n - 1])
        BY <1>14, <4>1, Zenon
      <4> QED
        BY <3>2, <4>2, Zenon
    <3> QED
      BY <3>1, <3>2
  <2> QED
    BY <1>14, <2>1, Zenon
<1>16. f = Body(f)
  BY <1>15, Zenon
<1>17. f[0] = c /\ \A n \in 1..N : f[n] = Step(n, f[n - 1])
  <2> HIDE DEF f, N, Step, c
  <2> QED
    BY <1>2, <1>16, OneToN, Zenon
<1>18. f[N] = g[N]
  <2> HIDE DEF f, D, N, Step, c
  <2>1. \A n \in 1..N : f[n - 1] \in S => f[n] = D[n][f[n - 1]]
    BY <1>12, <1>17, Zenon
  <2> QED
    BY <1>2, <1>13, <1>17, <2>1, OnlyIterate
<1> HIDE DEF f
<1> DEFINE Ok(k) == /\ \A n \in 1..k : AddsInstance(p, bases, p.calls[n], resolved[p.calls[n].id], g[k].targets[p.calls[n].id])
                    /\ \A n \in 1..N : n > k => g[k].targets[p.calls[n].id] = resolved[p.calls[n].id]
           T == {k \in Nat : k <= N => Ok(k)}
<1>19. 0 \in T
  <2>1. g[0].targets = resolved
    BY <1>14, PairFacts
  <2> HIDE DEF N, D, c, S, Step
  <2>2. Ok(0)
    BY <1>2, <2>1
  <2> QED
    BY <2>2
<1>20. ASSUME NEW k \in T PROVE k + 1 \in T
  <2>0. k \in Nat /\ (k <= N => Ok(k))
    OBVIOUS
  <2>12. ASSUME k + 1 <= N PROVE Ok(k + 1)
    <3> HIDE DEF T, Ok
    <3> PICK call : call = p.calls[k + 1]
      OBVIOUS
    <3>1. k \in Nat /\ k + 1 \in 1..N /\ (k + 1) - 1 = k /\ k \in 0..N /\ Ok(k)
      <4> HIDE DEF N
      <4> QED
        BY <1>2, <2>0, <2>12
    <3>2. g[k] \in S /\ g[k + 1] = OneInstance(p, bases, call, g[k]) /\ call \in ToSet(p.calls)
      <4>1. g[k] \in S
        BY <1>14, <3>1
      <4>2. g[k + 1] = Step(k + 1, g[k])
        <5> HIDE DEF Step, N
        <5> QED
          BY <1>14, <3>1, Zenon
      <4>3. call \in ToSet(p.calls)
        <5> HIDE DEF N
        <5> QED
          BY <1>2, <3>1
      <4> QED
        BY <4>1, <4>2, <4>3
    <3> HIDE DEF N, c, Step, D
    <3>3. /\ AddsInstance(p, bases, call, g[k].targets[call.id], g[k + 1].targets[call.id])
          /\ \A id \in CallIds(p) : id # call.id => g[k + 1].targets[id] = g[k].targets[id]
      BY <1>10, <3>2
    <3>4. \A n \in 1..N : p.calls[n].id \in CallIds(p) /\ (n # k + 1 => p.calls[n].id # call.id)
      BY <1>2, <3>1 DEF CallIds
    <3>5. \A n \in 1..N : n # k + 1 => g[k + 1].targets[p.calls[n].id] = g[k].targets[p.calls[n].id]
      BY <3>3, <3>4
    <3>6. /\ \A n \in 1..k : AddsInstance(p, bases, p.calls[n], resolved[p.calls[n].id], g[k].targets[p.calls[n].id])
          /\ \A n \in 1..N : n > k => g[k].targets[p.calls[n].id] = resolved[p.calls[n].id]
      BY <3>1 DEF Ok
    <3>7. g[k].targets[call.id] = resolved[call.id]
      BY <3>1, <3>6
    <3>8. ASSUME NEW n \in 1..(k + 1)
          PROVE  AddsInstance(p, bases, p.calls[n], resolved[p.calls[n].id], g[k + 1].targets[p.calls[n].id])
      <4>1. CASE n = k + 1
        BY <3>3, <3>7, <4>1
      <4>2. CASE n # k + 1
        <5>1. n \in 1..k /\ n \in 1..N
          BY <1>2, <3>1, <4>2
        <5>2. g[k + 1].targets[p.calls[n].id] = g[k].targets[p.calls[n].id]
          BY <3>5, <4>2, <5>1
        <5> QED
          BY <3>6, <5>1, <5>2
      <4> QED
        BY <4>1, <4>2
    <3>9. ASSUME NEW n \in 1..N, n > k + 1 PROVE g[k + 1].targets[p.calls[n].id] = resolved[p.calls[n].id]
      <4>1. n > k /\ n # k + 1
        BY <1>2, <3>1, <3>9
      <4> QED
        BY <3>5, <3>6, <4>1
    <3> QED
      BY <3>8, <3>9 DEF Ok
  <2> HIDE DEF Ok, N
  <2> QED
    BY <1>2, <2>0, <2>12
<1>21. T = Nat
  <2>1. T \in SUBSET Nat
    OBVIOUS
  <2> HIDE DEF T
  <2> QED
    BY <1>19, <1>20, <2>1, NaturalInduction
<1>22. Ok(N)
  <2> HIDE DEF Ok, N
  <2> QED
    BY <1>2, <1>21
<1>23. WithInstances(p, bases, resolved) = g[N].targets
  BY <1>1, <1>18, Zenon
<1>24. g[N].targets \in [CallIds(p) -> SUBSET X]
  <2>1. g[N] \in S
    BY <1>2, <1>14
  <2> QED
    BY <2>1, ResolutionFacts DEF S
<1>25. ASSUME NEW call \in ToSet(p.calls)
       PROVE  AddsInstance(p, bases, call, resolved[call.id], g[N].targets[call.id])
  <2> HIDE DEF c, S, D, Step
  <2>1. PICK n \in 1..N : call = p.calls[n]
    BY <1>2
  <2> QED
    BY <1>22, <2>1
<1> QED
  BY <1>23, <1>24, <1>25, Zenon

-----------------------------------------------------------------------------
\* Bare calls.

\* The calls resolved so far follow their bindings, and the cache of lookups is
\* honest, so the calls to come will.
CallsInv ==
  /\ Scanned(project)
  /\ next \in 1..(Len(project.calls) + 1)
  /\ Honest(project, FunctionIndex(project), cache.functions)
  /\ \E X : targets \in [CallIds(project) -> SUBSET X]
  /\ \A n \in 1..(next - 1) :
       LET call == project.calls[n]
       IN  IsPlain(call) => FollowsBinding(project, call, targets[call.id])

\* The calls are listed once each.
LEMMA CallsFacts ==
  ASSUME NEW p, Scanned(p)
  PROVE  /\ Len(p.calls) \in Nat
         /\ ToSet(p.calls) = {p.calls[n] : n \in 1..Len(p.calls)}
         /\ \A n \in 1..Len(p.calls) : p.calls[n] \in ToSet(p.calls) /\ p.calls[n].id \in CallIds(p)
         /\ \A m, n \in 1..Len(p.calls) : p.calls[m].id = p.calls[n].id => m = n
<1>1. p.calls \in Seq(ToSet(p.calls)) /\ \A m, n \in DOMAIN p.calls : p.calls[m].id = p.calls[n].id => m = n
  BY DEF Scanned
<1>2. Len(p.calls) \in Nat /\ DOMAIN p.calls = 1..Len(p.calls)
  BY <1>1
<1>3. ToSet(p.calls) = {p.calls[n] : n \in 1..Len(p.calls)}
  BY <1>2, Zenon DEF ToSet
<1>4. \A n \in 1..Len(p.calls) : p.calls[n] \in ToSet(p.calls)
  BY <1>3
<1> QED
  BY <1>1, <1>2, <1>3, <1>4 DEF CallIds

\* A cache that keeps nothing is honest.
LEMMA EmptyIsHonest ==
  ASSUME NEW p, NEW index
  PROVE  Honest(p, index, <<>>)
<1>1. <<>> = [at \in {} |-> FollowReExports(p, index, at)] /\ DOMAIN <<>> = {}
  OBVIOUS
<1> QED
  BY <1>1, Zenon DEF Honest

\* No other pass adds to a bare call.
LEMMA PlainCallsAreDirect ==
  ASSUME NEW p, NEW call, IsPlain(call)
  PROVE  /\ ~GoesThroughClass(p, call)
         /\ FieldTarget(p, call) = None
         /\ \A bases, kept : InstanceTarget(p, bases, call, kept).found = None
<1>1. call.receiver = None /\ ~call.new /\ None # "dotted"
  BY ScanConstants DEF IsPlain
<1>2. ~GoesThroughClass(p, call)
  BY <1>1, Zenon DEF GoesThroughClass
<1>3. FieldTarget(p, call) = None
  BY <1>1, Zenon DEF FieldTarget
<1>4. \A bases, kept : InstanceTarget(p, bases, call, kept) = Answer(None, kept)
  BY <1>1, Zenon DEF InstanceTarget
<1>5. \A kept : Answer(None, kept).found = None
  BY DEF Answer
<1> QED
  BY <1>2, <1>3, <1>4, <1>5

\* Nothing is resolved when the scan begins.
LEMMA CallsInvInit == Init => CallsInv
<1> SUFFICES ASSUME Init PROVE CallsInv
  OBVIOUS
<1>1. /\ \E n \in DOMAIN Families : project \in Families[n]
      /\ next = 1 /\ cache = [functions |-> <<>>, classes |-> <<>>]
      /\ targets = [c \in {c.id : c \in ToSet(project.calls)} |-> {}]
  BY DEF Init, ResolutionInit
<1>2. Scanned(project)
  BY <1>1, ScannedProjects
<1>3. next \in 1..(Len(project.calls) + 1)
  BY <1>1, <1>2, CallsFacts
<1>4. Honest(project, FunctionIndex(project), cache.functions)
  <2>1. cache.functions = <<>>
    BY <1>1
  <2> QED
    BY <2>1, EmptyIsHonest
<1>5. targets \in [CallIds(project) -> SUBSET {}]
  BY <1>1 DEF CallIds
<1>6. 1..(next - 1) = {}
  BY <1>1
<1> QED
  BY <1>2, <1>3, <1>4, <1>5, <1>6 DEF CallsInv

\* Resolving the next call keeps the cache honest and follows the binding of
\* what it calls; the pass over the instances leaves plain calls alone.
LEMMA CallsInvNext == CallsInv /\ [Next]_analysisVars => CallsInv'
<1> SUFFICES ASSUME CallsInv, [Next]_analysisVars PROVE CallsInv'
  OBVIOUS
<1>0. /\ Scanned(project)
      /\ next \in 1..(Len(project.calls) + 1)
      /\ Honest(project, FunctionIndex(project), cache.functions)
      /\ Len(project.calls) \in Nat
      /\ \A n \in 1..Len(project.calls) :
           project.calls[n] \in ToSet(project.calls) /\ project.calls[n].id \in CallIds(project)
      /\ \A m, n \in 1..Len(project.calls) : project.calls[m].id = project.calls[n].id => m = n
      /\ \A n \in 1..(next - 1) : n \in 1..Len(project.calls)
  <2>1. Scanned(project) /\ next \in 1..(Len(project.calls) + 1)
          /\ Honest(project, FunctionIndex(project), cache.functions)
    BY DEF CallsInv
  <2> QED
    BY <2>1, CallsFacts
<1>00. PICK X : targets \in [CallIds(project) -> SUBSET X]
  BY DEF CallsInv
<1>01. \A n \in 1..(next - 1) :
         IsPlain(project.calls[n]) => FollowsBinding(project, project.calls[n], targets[project.calls[n].id])
  BY DEF CallsInv
<1>1. CASE UNCHANGED resolutionVars
  BY <1>1 DEF CallsInv, resolutionVars
<1>2. CASE Inherit
  <2>1. project' = project /\ next' = next /\ cache' = cache /\ targets' = targets
    BY <1>2 DEF Inherit
  <2> QED
    BY <2>1 DEF CallsInv
<1>3. CASE ResolveNextCall
  <2> PICK call : call = project.calls[next]
    OBVIOUS
  <2> PICK direct : direct = DirectTarget(project, call, cache.functions)
    OBVIOUS
  <2> PICK found : found = IF direct.found = None /\ GoesThroughClass(project, call)
                           THEN ClassTarget(project, extends, call, cache.classes)
                           ELSE Answer(direct.found, cache.classes)
    OBVIOUS
  <2>1. /\ next <= Len(project.calls) /\ next' = next + 1 /\ project' = project
        /\ targets' = [targets EXCEPT ![call.id] = {found.found} \ {None}]
        /\ cache' = [functions |-> direct.cache, classes |-> found.cache]
    BY <1>3, Zenon DEF ResolveNextCall
  <2>2. next \in 1..Len(project.calls) /\ call \in ToSet(project.calls) /\ call.id \in CallIds(project)
    BY <1>0, <2>1
  <2>3. next' \in 1..(Len(project'.calls) + 1)
    BY <1>0, <2>1
  <2>4. Honest(project', FunctionIndex(project'), cache'.functions)
    <3>1. cache'.functions = direct.cache
      BY <2>1
    <3>2. Honest(project, FunctionIndex(project), direct.cache)
      BY <1>0, <2>2, DirectIsHonest
    <3> QED
      BY <2>1, <3>1, <3>2
  <2>5. /\ targets' \in [CallIds(project) -> SUBSET (X \cup {found.found})]
        /\ targets'[call.id] = {found.found} \ {None}
        /\ \A id \in CallIds(project) : id # call.id => targets'[id] = targets[id]
    BY <1>00, <2>1, <2>2
  <2>6. IsPlain(call) => FollowsBinding(project, call, targets'[call.id])
    <3> SUFFICES ASSUME IsPlain(call) PROVE FollowsBinding(project, call, targets'[call.id])
      OBVIOUS
    <3>1. found = Answer(direct.found, cache.classes)
      BY PlainCallsAreDirect
    <3>2. found.found = direct.found
      BY <3>1 DEF Answer
    <3>3. FollowsBinding(project, call, {direct.found} \ {None})
      BY <1>0, <2>2, DirectFollowsBinding
    <3> QED
      BY <2>5, <3>2, <3>3
  <2>7. ASSUME NEW n \in 1..(next' - 1), IsPlain(project.calls[n])
        PROVE  FollowsBinding(project, project.calls[n], targets'[project.calls[n].id])
    <3>1. CASE n = next
      BY <2>6, <2>7, <3>1
    <3>2. CASE n # next
      <4>1. n \in 1..(next - 1) /\ n \in 1..Len(project.calls)
        BY <1>0, <2>1, <3>2
      <4>2. project.calls[n].id # call.id /\ project.calls[n].id \in CallIds(project)
        BY <1>0, <2>2, <3>2, <4>1
      <4>3. targets'[project.calls[n].id] = targets[project.calls[n].id]
        BY <2>5, <4>2
      <4> QED
        BY <1>01, <2>7, <4>1, <4>3
    <3> QED
      BY <3>1, <3>2
  <2>8. Scanned(project') /\ \E Y : targets' \in [CallIds(project') -> SUBSET Y]
    <3>1. PICK Y : Y = X \cup {found.found}
      OBVIOUS
    <3>2. targets' \in [CallIds(project) -> SUBSET Y]
      BY <2>5, <3>1
    <3> QED
      BY <1>0, <2>1, <3>2
  <2>9. \A n \in 1..(next' - 1) : IsPlain(project'.calls[n]) =>
          FollowsBinding(project', project'.calls[n], targets'[project'.calls[n].id])
    BY <2>1, <2>7
  <2> QED
    BY <2>3, <2>4, <2>8, <2>9 DEF CallsInv
<1>4. CASE Inject
  <2>1. /\ project' = project /\ next' = next /\ cache' = cache
        /\ targets' = [id \in DOMAIN targets |->
                         targets[id] \cup ({FieldTarget(project, ById(project.calls, id))} \ {None})]
    BY <1>4, Zenon DEF Inject
  <2> DEFINE F == {FieldTarget(project, ById(project.calls, id)) : id \in CallIds(project)}
  <2>2. DOMAIN targets = CallIds(project)
    BY <1>00
  <2>3. targets' \in [CallIds(project) -> SUBSET (X \cup F)]
    <3>1. \A id \in CallIds(project) : FieldTarget(project, ById(project.calls, id)) \in F
      OBVIOUS
    <3> HIDE DEF F
    <3> QED
      BY <1>00, <2>1, <2>2, <3>1
  <2>4. ASSUME NEW n \in 1..(next - 1), IsPlain(project.calls[n])
        PROVE  targets'[project.calls[n].id] = targets[project.calls[n].id]
    <3> PICK call : call = project.calls[n]
      OBVIOUS
    <3>1. n \in 1..Len(project.calls) /\ call \in ToSet(project.calls) /\ call.id \in CallIds(project)
      BY <1>0
    <3>2. ASSUME NEW c \in ToSet(project.calls), c.id = call.id PROVE c = call
      <4>0. ToSet(project.calls) = {project.calls[m] : m \in 1..Len(project.calls)}
        BY <1>0, CallsFacts
      <4>1. PICK m \in 1..Len(project.calls) : c = project.calls[m]
        BY <4>0
      <4> QED
        BY <1>0, <3>1, <3>2, <4>1
    <3>3. ById(project.calls, call.id) = call
      BY <3>1, <3>2 DEF ById
    <3>4. targets'[call.id] = targets[call.id] \cup ({FieldTarget(project, call)} \ {None})
      BY <2>1, <2>2, <3>1, <3>3
    <3>5. FieldTarget(project, call) = None
      BY <2>4, PlainCallsAreDirect
    <3> QED
      BY <3>4, <3>5
  <2> HIDE DEF F
  <2> QED
    BY <1>0, <1>01, <2>1, <2>3, <2>4 DEF CallsInv
<1>5. CASE ResolveInstances
  <2>1. /\ project' = project /\ next' = next /\ cache' = cache
        /\ targets' = WithInstances(project, extends, targets)
    BY <1>5, Zenon DEF ResolveInstances
  <2>2. /\ \E Y : targets' \in [CallIds(project) -> SUBSET Y]
        /\ \A c \in ToSet(project.calls) : AddsInstance(project, extends, c, targets[c.id], targets'[c.id])
    BY <1>0, <1>00, <2>1, InstancesAreAdded
  <2>3. ASSUME NEW n \in 1..(next - 1), IsPlain(project.calls[n])
        PROVE  targets'[project.calls[n].id] = targets[project.calls[n].id]
    <3> PICK call : call = project.calls[n]
      OBVIOUS
    <3>1. AddsInstance(project, extends, call, targets[call.id], targets'[call.id])
      BY <1>0, <2>2
    <3>2. PICK kept : targets'[call.id] = targets[call.id] \cup ({InstanceTarget(project, extends, call, kept).found} \ {None})
      BY <3>1 DEF AddsInstance
    <3>3. InstanceTarget(project, extends, call, kept).found = None
      BY <2>3, PlainCallsAreDirect
    <3> QED
      BY <3>2, <3>3
  <2> QED
    BY <1>0, <1>01, <2>1, <2>2, <2>3 DEF CallsInv
<1> QED
  BY <1>1, <1>2, <1>3, <1>4, <1>5
     DEF Next, analysisVars, Resolve, ResolutionNext, FindImportCycles, FindUnusedExports, FindImpact

\* The calls resolved so far are the plain calls of the property.
LEMMA CallsInvFollows == CallsInv => CallsFollowBindings
<1> SUFFICES ASSUME CallsInv, NEW call \in PlainCalls PROVE FollowsBinding(project, call, targets[call.id])
  BY Zenon DEF CallsFollowBindings, FollowsBinding
<1>1. IsPlain(call) /\ \E n \in 1..(next - 1) : project.calls[n] = call
  BY DEF PlainCalls, Resolved, IsPlain
<1> QED
  BY <1>1 DEF CallsInv

\* A call of a plain name is an edge to a function that the name is bound to in
\* the file of the call (its parameter, its import followed through the barrels,
\* its own function), and has none only if the name is bound to none:
\* addCallResolutionRelationships with its cache, whatever the calls resolved
\* before, for every project the parsers may leave.
THEOREM CallsTheorem == Spec => []CallsFollowBindings
<1>1. Spec => []CallsInv
  BY CallsInvInit, CallsInvNext, PTL DEF Spec
<1> QED
  BY <1>1, CallsInvFollows, PTL

-----------------------------------------------------------------------------
\* Classes.

ClassIds(p) == {c.id : c \in ToSet(p.classes)}

\* A name of a file that has classes of that name stands for one of them.
LEMMA ClassNameFacts ==
  ASSUME NEW p, Scanned(p), NEW file \in Files, NEW name \in Names
  PROVE  /\ ResolveClassName(p, Index(p.classes), file, name) \in ClassIds(p) \cup {None}
         /\ ClassNamed(p, file, name) # {} =>
              /\ LookupInFile(Index(p.classes), file, name) \in ClassNamed(p, file, name)
              /\ ResolveClassName(p, Index(p.classes), file, name) \in ClassNamed(p, file, name)
         /\ ClassNamed(p, file, name) = {} => LookupInFile(Index(p.classes), file, name) = None
         /\ None \notin ClassIds(p)
<1> PICK index : index = Index(p.classes)
  OBVIOUS
<1> DEFINE C == ToSet(p.classes)
           Found(i) == i.target # None /\ LookupInFile(index, i.target, name) # None
           found == Among(ImportsOf(p, file), {i \in ToSet(p.imports) : Found(i)})
<1>1. p.classes \in Seq(C) /\ \A d \in C : d.id # None
  BY DEF Scanned
<1>2. /\ index \in [Spots -> Seq(C)]
      /\ \A at \in Spots : ToSet(index[at]) = {d \in C : d.file = at[1] /\ d.name = at[2]}
  BY <1>1, IndexType
<1>3. None \notin ClassIds(p)
  BY <1>1 DEF ClassIds
<1>4. ASSUME NEW f \in Files
      PROVE  /\ LookupInFile(index, f, name) = None <=> ClassNamed(p, f, name) = {}
             /\ LookupInFile(index, f, name) # None => LookupInFile(index, f, name) \in ClassNamed(p, f, name)
             /\ LookupInFile(index, f, name) \in ClassIds(p) \cup {None}
  <2> PICK at : at = <<f, name>>
    OBVIOUS
  <2>1. at \in Spots /\ at[1] = f /\ at[2] = name
    BY DEF Spots
  <2> HIDE DEF C
  <2>2. /\ LookupInFile(index, at[1], at[2]) = None <=> index[at] = <<>>
        /\ index[at] # <<>> => /\ LookupInFile(index, at[1], at[2]) = index[at][1].id
                               /\ index[at][1] \in ToSet(index[at])
    BY <1>1, <1>2, <2>1, LookupFacts
  <2>3. index[at] = <<>> <=> ToSet(index[at]) = {}
    BY <1>2, <2>1, FirstOf
  <2>4. ToSet(index[at]) = {d \in C : d.file = f /\ d.name = name}
    BY <1>2, <2>1
  <2>5. ClassNamed(p, f, name) = {d.id : d \in ToSet(index[at])}
    BY <2>4 DEF ClassNamed, C
  <2>6. ClassNamed(p, f, name) \subseteq ClassIds(p)
    BY <2>4, <2>5 DEF ClassIds, C
  <2> QED
    BY <2>1, <2>2, <2>3, <2>5, <2>6
<1>5. ResolveClassName(p, index, file, name) =
        IF LookupInFile(index, file, name) # None THEN LookupInFile(index, file, name)
        ELSE IF found = <<>> THEN None ELSE LookupInFile(index, Head(found).target, name)
  BY Zenon DEF ResolveClassName
<1>6. found # <<>> => Head(found).target \in Files
  <2>1. /\ ImportsOf(p, file) \in Seq(ToSet(p.imports))
        /\ \A i \in ToSet(ImportsOf(p, file)) : i.target \in Files
    BY ImportsOfSet
  <2> HIDE DEF Found
  <2>2. found \in Seq(ToSet(p.imports)) /\ ToSet(found) \subseteq ToSet(ImportsOf(p, file))
    BY <2>1, AmongSet
  <2> HIDE DEF found
  <2>3. found # <<>> => Head(found) \in ToSet(found)
    BY <2>2, HeadAndTail
  <2> QED
    BY <2>1, <2>2, <2>3
<1> HIDE DEF found
<1> QED
  BY <1>3, <1>4, <1>5, <1>6

OneBase(p, class, n, bases) ==
  LET base == ResolveClassName(p, Index(p.classes), class.file, class.bases[n])
  IN  IF base \in {None, class.id} \cup ToSet(bases) THEN bases ELSE Append(bases, base)

\* resolveClassBase finds classes.
LEMMA BasesAreClasses ==
  ASSUME NEW p, Scanned(p), NEW class \in ToSet(p.classes)
  PROVE  Bases(p, class) \in Seq(ClassIds(p))
<1> DEFINE N == Len(class.bases)
           S == Seq(ClassIds(p))
           Step(n, v) == OneBase(p, class, n, v)
           Body(u) == [n \in 0..N |-> IF n = 0 THEN <<>> ELSE Step(n, u[n - 1])]
           f == CHOOSE u : u = Body(u)
           D == [n \in 1..N |-> [v \in S |-> Step(n, v)]]
<1>1. Bases(p, class) = f[N]
  BY Zenon DEF Bases, OneBase
<1>2. N \in Nat /\ class.file \in Files /\ \A n \in 1..N : class.bases[n] \in Names
  BY DEF Scanned
<1>3. <<>> \in S
  OBVIOUS
<1>4. D \in Steps(N, S)
  <2>1. ASSUME NEW n \in 1..N, NEW v \in S PROVE Step(n, v) \in S
    <3> PICK base : base = ResolveClassName(p, Index(p.classes), class.file, class.bases[n])
      OBVIOUS
    <3>1. base \in ClassIds(p) \cup {None}
      BY <1>2, ClassNameFacts
    <3>2. Step(n, v) = IF base \in {None, class.id} \cup ToSet(v) THEN v ELSE Append(v, base)
      BY Zenon DEF OneBase
    <3> HIDE DEF Step
    <3> QED
      BY <3>1, <3>2
  <2> HIDE DEF Step, S, N
  <2> QED
    BY <2>1, Zenon DEF Steps
<1>5. \A n \in 1..N, v \in S : D[n][v] = Step(n, v)
  <2> HIDE DEF Step, S, N
  <2> QED
    BY Zenon
<1>6. PICK g : Iterates(g, N, S, <<>>, D)
  <2> HIDE DEF D, N, S
  <2> QED
    BY <1>2, <1>3, <1>4, Iteration
<1>7. /\ g \in [0..N -> S]
      /\ g[0] = <<>>
      /\ \A n \in 1..N : g[n] = Step(n, g[n - 1])
  <2> HIDE DEF D, N, S, Step
  <2>1. /\ g \in [0..N -> S] /\ g[0] = <<>>
        /\ \A n \in 1..N : g[n - 1] \in S /\ g[n] = D[n][g[n - 1]]
    BY <1>2, <1>6, IteratesFacts
  <2> QED
    BY <1>5, <2>1, Zenon
<1>8. g = Body(g)
  <2> HIDE DEF N, S, Step, D
  <2>1. ASSUME NEW n \in 0..N PROVE g[n] = Body(g)[n]
    <3>1. CASE n = 0
      BY <1>7, <3>1, Zenon
    <3>2. CASE n # 0
      <4>1. n \in 1..N
        BY <1>2, <3>2
      <4>2. g[n] = Step(n, g[n - 1])
        BY <1>7, <4>1, Zenon
      <4> QED
        BY <3>2, <4>2, Zenon
    <3> QED
      BY <3>1, <3>2
  <2> QED
    BY <1>7, <2>1, Zenon
<1>9. f = Body(f)
  BY <1>8, Zenon
<1>10. f[0] = <<>> /\ \A n \in 1..N : f[n] = Step(n, f[n - 1])
  <2> HIDE DEF f, N, Step
  <2> QED
    BY <1>2, <1>9, OneToN, Zenon
<1>11. f[N] = g[N]
  <2> HIDE DEF f, D, N, S, Step
  <2>1. \A n \in 1..N : f[n - 1] \in S => f[n] = D[n][f[n - 1]]
    BY <1>5, <1>10, Zenon
  <2> QED
    BY <1>2, <1>6, <1>10, <2>1, OnlyIterate
<1> HIDE DEF f
<1>12. g[N] \in S
  BY <1>2, <1>7
<1> QED
  BY <1>1, <1>11, <1>12

\* A name that a file gives a class is looked up like that in the index of
\* classes, which adds what the defaults stand for.
LEMMA ClassIndexFacts ==
  ASSUME NEW p, Scanned(p), NEW file \in Files, NEW name \in Names \ {"default"}
  PROVE  LookupInFile(ClassIndex(p), file, name) = LookupInFile(Index(p.classes), file, name)
<1> PICK at : at = <<file, name>>
  OBVIOUS
<1> PICK index : index = Index(p.classes)
  OBVIOUS
<1>1. at \in Spots /\ at[2] = name /\ at[2] # "default"
  BY DEF Spots
<1>2. DOMAIN index = Spots
  <2>1. p.classes \in Seq(ToSet(p.classes))
    BY DEF Scanned
  <2> QED
    BY <2>1, IndexType
<1>3. ClassIndex(p) = [x \in Spots |-> IF x[2] = "default" THEN DefaultOf(p, index, x[1]) ELSE index[x]]
  BY <1>2, Zenon DEF ClassIndex, WithDefaults
<1>4. ClassIndex(p)[at] = index[at]
  BY <1>1, <1>3
<1> QED
  BY <1>4, Zenon DEF LookupInFile

\* No place to look in, no answer.
LEMMA NoPlaces ==
  ASSUME NEW p, NEW index, NEW kept
  PROVE  FirstThrough(p, index, <<>>, kept) = Answer(None, kept)
<1> DEFINE places == <<>>
           N == Len(places)
           c == Answer(None, kept)
           Body(u) == [n \in 0..N |-> IF n = 0 THEN c ELSE AskedFor(p, index, places, n, u[n - 1])]
           f == CHOOSE u : u = Body(u)
           g == [n \in {0} |-> c]
<1>1. FirstThrough(p, index, <<>>, kept) = f[N]
  BY Zenon DEF FirstThrough, AskedFor
<1>2. N = 0 /\ 0..N = {0}
  OBVIOUS
<1>3. g = Body(g)
  <2> HIDE DEF N, c
  <2> QED
    BY <1>2
<1>4. f = Body(f)
  <2> HIDE DEF Body
  <2> QED
    BY <1>3, Zenon
<1>5. f[0] = c
  <2> HIDE DEF f, N, c
  <2> QED
    BY <1>2, <1>4
<1> QED
  BY <1>1, <1>2, <1>5

\* A function of finitely many arguments has finitely many values.
LEMMA ImageIsFinite ==
  ASSUME NEW f, IsFiniteSet(DOMAIN f)
  PROVE  IsFiniteSet({f[x] : x \in DOMAIN f})
<1> DEFINE T == {f[x] : x \in DOMAIN f}
           g == [x \in DOMAIN f |-> f[x]]
<1>1. g \in Surjection(DOMAIN f, T)
  BY DEF Surjection
<1> HIDE DEF g, T
<1>2. IsFiniteSet(T)
  BY <1>1, FS_Surjection
<1> QED
  BY <1>2 DEF T

\* A list has finitely many members.
LEMMA ListsAreFinite ==
  ASSUME NEW list, list \in Seq(ToSet(list))
  PROVE  IsFiniteSet(ToSet(list))
<1> DEFINE D == 1..Len(list)
<1>1. Len(list) \in Nat /\ DOMAIN list = D
  OBVIOUS
<1>2. IsFiniteSet(D)
  BY <1>1, FS_Interval
<1>3. ToSet(list) = {list[n] : n \in DOMAIN list}
  BY Zenon DEF ToSet
<1>4. IsFiniteSet(DOMAIN list)
  BY <1>1, <1>2
<1> QED
  BY <1>3, <1>4, ImageIsFinite

\* A class extends finitely many classes, all of the project.
LEMMA ClassIdsAreFinite ==
  ASSUME NEW p, Scanned(p)
  PROVE  IsFiniteSet(ClassIds(p))
<1>1. p.classes \in Seq(ToSet(p.classes))
  BY DEF Scanned
<1>2. IsFiniteSet(ToSet(p.classes))
  BY <1>1, ListsAreFinite
<1> DEFINE f == [c \in ToSet(p.classes) |-> c.id]
<1>3. DOMAIN f = ToSet(p.classes) /\ ClassIds(p) = {f[c] : c \in DOMAIN f}
  BY DEF ClassIds
<1> HIDE DEF f
<1>4. IsFiniteSet({f[c] : c \in DOMAIN f})
  BY <1>2, <1>3, ImageIsFinite
<1> QED
  BY <1>3, <1>4

\* The classes that the classes of a set without a method of a name extend.
UpBy(p, bases, name) ==
  [s \in SUBSET DOMAIN bases |->
     s \cup UNION {ToSet(bases[c]) : c \in {c \in s : OwnMethod(p, c, name) = None}}]

\* Going up from a set of classes only adds to it.
LEMMA UpAdds ==
  ASSUME NEW p, NEW bases, Finite(bases), NEW name
  PROVE  Adds(UpBy(p, bases, name), DOMAIN bases)
<1> PICK P : P = DOMAIN bases
  OBVIOUS
<1> DEFINE T == UpBy(p, bases, name)
           Bare(s) == {c \in s : OwnMethod(p, c, name) = None}
           G(s) == s \cup UNION {ToSet(bases[c]) : c \in Bare(s)}
<1>1. bases \in [P -> Seq(P)] /\ IsFiniteSet(P)
  BY DEF Finite
<1>2. \A c \in P : ToSet(bases[c]) \subseteq P
  <2> SUFFICES ASSUME NEW c \in P PROVE ToSet(bases[c]) \subseteq P
    OBVIOUS
  <2>1. bases[c] \in Seq(P) /\ <<>> \in Seq(P)
    BY <1>1
  <2> QED
    BY <2>1, ConcatSet
<1>3. T = [s \in SUBSET P |-> G(s)]
  BY Zenon DEF UpBy
<1>4. \A s \in SUBSET P : G(s) \in SUBSET P /\ s \subseteq G(s)
  BY <1>2
<1>5. \A s, t \in SUBSET P : s \subseteq t => G(s) \subseteq G(t)
  OBVIOUS
<1> HIDE DEF G, T
<1>6. /\ T \in [SUBSET P -> SUBSET P]
      /\ \A s \in SUBSET P : T[s] = G(s)
  BY <1>3, <1>4
<1>8. \A s, t \in SUBSET P : s \subseteq t => T[s] \subseteq T[t]
  BY <1>5, <1>6
<1>9. \A s \in SUBSET P : s \subseteq T[s]
  BY <1>4, <1>6
<1>7. Adds(T, P)
  BY <1>1, <1>6, <1>8, <1>9 DEF Adds
<1> QED
  BY <1>7 DEF T

\* findMethod finds a method the class has or inherits, whenever there is one.
LEMMA MethodIsInherited ==
  ASSUME Finite(extends), NEW x \in DOMAIN extends, NEW name
  PROVE  /\ Method(project, extends, x, name) # None => Method(project, extends, x, name) \in Inherited(x, name)
         /\ Method(project, extends, x, name) = None => Inherited(x, name) = {}
<1>0. PICK P : P = DOMAIN extends
  OBVIOUS
<1> DEFINE T == UpBy(project, extends, name)
           has == [c \in P |-> OwnMethod(project, c, name)]
           Up(s) == s \cup UNION {ToSet(extends[c]) : c \in {c \in s : OwnMethod(project, c, name) = None}}
           Body(u) == [s \in SUBSET P |-> IF Up(s) = s THEN s ELSE u[Up(s)]]
           f == CHOOSE u : u = Body(u)
           m == Method(project, extends, x, name)
<1>1. Inherited(x, name) = {OwnMethod(project, c, name) : c \in f[{x}]} \ {None}
  BY <1>0, Zenon DEF Inherited
<1>2. Adds(T, P) /\ T \in [SUBSET P -> SUBSET P]
  BY <1>0, UpAdds DEF Adds
<1>3. \A s \in SUBSET P : T[s] = Up(s)
  BY <1>0 DEF UpBy
<1>4. m = DepthFirst(has, extends, x)
  BY <1>0, Zenon DEF Method
<1>5. \A c \in P : has[c] = OwnMethod(project, c, name)
  OBVIOUS
<1> HIDE DEF T, Up, has, m
<1>6. PICK g : IsRepetition(g, T, P)
  BY <1>2, RepeatingExists
<1>7. g = Body(g)
  BY <1>3, <1>6, Zenon DEF IsRepetition
<1>8. f = Body(f)
  <2> HIDE DEF Body
  <2> QED
    BY <1>7, Zenon
<1> HIDE DEF f
<1>9. \A s \in SUBSET P : f[s] = IF T[s] = s THEN s ELSE f[T[s]]
  BY <1>3, <1>8, Zenon
<1> PICK R : R = f[{x}]
  OBVIOUS
<1>10. LeastWith(R, {x}, T, P)
  <2>1. {x} \in SUBSET P
    BY <1>0
  <2> QED
    BY <1>2, <1>9, <2>1, RepeatingFindsTheLeast DEF Repeats
<1>11. /\ R \in SUBSET P /\ x \in R
       /\ \A c \in R : has[c] = None => ToSet(extends[c]) \subseteq R
       /\ \A C \in SUBSET P : x \in C /\ T[C] \subseteq C => R \subseteq C
  <2>1. R \in SUBSET P /\ x \in R /\ Up(R) = R
    BY <1>3, <1>10 DEF LeastWith
  <2>3. \A c \in R : OwnMethod(project, c, name) = None => ToSet(extends[c]) \subseteq R
    BY <2>1 DEF Up
  <2>2. \A C \in SUBSET P : x \in C /\ T[C] \subseteq C => R \subseteq C
    BY <1>10 DEF LeastWith
  <2> QED
    BY <1>5, <2>1, <2>2, <2>3
<1>12. Inherited(x, name) = {has[c] : c \in R} \ {None}
  <2>1. \A c \in R : has[c] = OwnMethod(project, c, name)
    BY <1>5, <1>11
  <2>2. Inherited(x, name) = {OwnMethod(project, c, name) : c \in R} \ {None}
    BY <1>1, Zenon
  <2> QED
    BY <2>1, <2>2
<1>13. CASE m # None
  <2>1. Closed(R, has, extends)
    BY <1>0, <1>11 DEF Closed
  <2>2. PICK c \in R : has[c] = m
    BY <1>4, <1>11, <1>13, <2>1, DepthFirstFinds, ZenonT(60)
  <2> QED
    BY <1>12, <1>13, <2>2 DEF m
<1>14. CASE m = None
  <2>1. PICK C : Closed(C, has, extends) /\ x \in C /\ \A c \in C : has[c] = None
    <3>1. DepthFirst(has, extends, x) = None
      BY <1>4, <1>14
    <3> HIDE DEF m
    <3> QED
      BY <3>1, DepthFirstFinds
  <2>2. C \in SUBSET P /\ \A c \in C : ToSet(extends[c]) \subseteq C
    BY <1>0, <2>1 DEF Closed
  <2>3. T[C] \subseteq C
    BY <1>3, <2>2 DEF Up
  <2>4. R \subseteq C
    BY <1>11, <2>1, <2>2, <2>3
  <2> QED
    BY <1>12, <1>14, <2>1, <2>4 DEF m
<1> QED
  BY <1>13, <1>14

-----------------------------------------------------------------------------
\* What a call reaches through classes of its file.

\* A binding of an import in a file takes a name.
LEMMA NoImportLeads ==
  ASSUME NEW p, Scanned(p), NEW file, NEW name \in Names, name \notin ImportedNames(p, file),
         \A i \in ToSet(ImportsOf(p, file)) : ~Unbound(i)
  PROVE  LeadingTo(p, file, name) = <<>>
<1>1. /\ LeadingTo(p, file, name) \in Seq(Spots)
      /\ ToSet(LeadingTo(p, file, name)) =
           {<<i.target, BindingOf(i, name).imported>> :
              i \in {i \in ToSet(ImportsOf(p, file)) : BindingOf(i, name) # None}}
           \cup {<<i.target, name>> : i \in {i \in ToSet(ImportsOf(p, file)) : Unbound(i)}}
  BY LeadingToSet
<1>2. ASSUME NEW i \in ToSet(ImportsOf(p, file)) PROVE BindingOf(i, name) = None
  <2> DEFINE C == {b \in ToSet(i.bindings) : b.kind \in {"named", "default"} /\ b.local = name}
  <2>1. i \in ToSet(p.imports) /\ i.file = file
    BY ImportsOfSet
  <2>2. i.bindings \in Seq(ToSet(i.bindings))
    BY <2>1 DEF Scanned
  <2>3. BindingOf(i, name) = First(Among(i.bindings, C))
    BY Zenon DEF BindingOf
  <2>4. \A b \in ToSet(i.bindings) : b.local # name
    BY <2>1 DEF ImportedNames
  <2>5. \A b \in ToSet(i.bindings) : b \notin C
    BY <2>4
  <2> HIDE DEF C
  <2> QED
    BY <2>2, <2>3, <2>5, FirstAmong
<1>3. ToSet(LeadingTo(p, file, name)) = {}
  BY <1>1, <1>2
<1> QED
  BY <1>1, <1>3, FirstOf

\* A receiver that no import binds leads nowhere.
LEMMA NoReceiverLeads ==
  ASSUME NEW p, Scanned(p), NEW index, NEW file, NEW receiver, receiver \notin ImportedNames(p, file),
         NEW callee, NEW kept
  PROVE  ResolveReceiver(p, index, file, receiver, callee, kept) = Answer(None, kept)
<1> DEFINE S == {i \in ToSet(p.imports) : MatchesReceiver(i, receiver)}
           through == Among(ImportsOf(p, file), S)
           places == [n \in DOMAIN through |-> <<through[n].target, callee>>]
<1>1. ResolveReceiver(p, index, file, receiver, callee, kept) = FirstThrough(p, index, places, kept)
  BY Zenon DEF ResolveReceiver
<1>2. /\ ImportsOf(p, file) \in Seq(ToSet(p.imports))
      /\ \A i \in ToSet(ImportsOf(p, file)) : i \in ToSet(p.imports) /\ i.file = file
  BY ImportsOfSet
<1>3. \A i \in ToSet(ImportsOf(p, file)) : i \notin S
  BY <1>2 DEF ImportedNames, MatchesReceiver
<1> HIDE DEF S
<1>4. through \in Seq(ToSet(p.imports)) /\ ToSet(through) = {}
  BY <1>2, <1>3, AmongSet
<1> HIDE DEF through
<1>5. through = <<>>
  BY <1>4, FirstOf
<1>6. places = <<>>
  BY <1>5
<1> HIDE DEF places
<1> QED
  BY <1>1, <1>6, NoPlaces

AnswerFacts == \A v, c : Answer(v, c).found = v /\ Answer(v, c).cache = c

\* What an answer is made of.
LEMMA Answers == AnswerFacts
BY DEF Answer, AnswerFacts

\* A name that nothing in a file declares, and no import, leads nowhere.
LEMMA NothingDeclared ==
  ASSUME NEW p, Scanned(p), NEW file, NEW name \in Names, name \notin ImportedNames(p, file),
         \A i \in ToSet(ImportsOf(p, file)) : ~Unbound(i),
         NEW index, LookupInFile(index, file, name) = None, NEW kept
  PROVE  ResolveDeclaration(p, index, file, name, kept) = Answer(None, kept)
<1>1. LeadingTo(p, file, name) = <<>>
  BY NoImportLeads
<1>2. ResolveImported(p, index, file, name, kept) = Answer(None, kept)
  BY <1>1, NoPlaces DEF ResolveImported
<1> QED
  BY <1>2, Zenon DEF ResolveDeclaration

\* What is known of a call that goes through what its file declares.
LEMMA ThroughFacts ==
  ASSUME NEW p, Scanned(p), NEW call \in ToSet(p.calls), ThroughItsFile(p, call)
  PROVE  /\ call.require = None /\ call.callee # None /\ call.file \in Files
         /\ Through(call) \in Names \ {"default"} /\ Through(call) \notin {None, "this", "dotted"}
         /\ Through(call) \notin ImportedNames(p, call.file)
         /\ call.caller # None => Through(call) \notin Caller(p, call).params
         /\ \A i \in ToSet(ImportsOf(p, call.file)) : ~Unbound(i)
         /\ call.new => /\ call.receiver = None /\ Through(call) = call.callee
                        /\ \A d \in ToSet(p.functions) \cup ToSet(p.variables) :
                             d.file = call.file => d.name # call.callee
         /\ ~call.new => /\ Through(call) = call.receiver
                         /\ \A v \in ToSet(Variables(p, call.file, call.receiver)) :
                              v.init = None \/ ClassNamed(p, call.file, v.init) # {}
<1>1. call.file \in Files
  BY DEF Scanned
<1>2. /\ call.require = None /\ call.callee # None
      /\ Through(call) \in Names \ ({"default"} \cup ImportedNames(p, call.file))
      /\ call.caller # None => Through(call) \notin Caller(p, call).params
      /\ \A i \in ToSet(ImportsOf(p, call.file)) : ~Unbound(i)
  BY Zenon DEF ThroughItsFile
<1>3. CASE call.new
  <2>1. /\ call.receiver = None
        /\ \A d \in ToSet(p.functions) \cup ToSet(p.variables) : d.file = call.file => d.name # call.callee
    BY <1>3, Zenon DEF ThroughItsFile
  <2>2. Through(call) = call.callee
    BY <1>3 DEF Through
  <2> QED
    BY <1>1, <1>2, <1>3, <2>1, <2>2, ScanConstants
<1>4. CASE ~call.new
  <2>1. \A v \in ToSet(Variables(p, call.file, call.receiver)) :
          v.init = None \/ ClassNamed(p, call.file, v.init) # {}
    BY <1>4, Zenon DEF ThroughItsFile
  <2>2. Through(call) = call.receiver
    BY <1>4 DEF Through
  <2> QED
    BY <1>1, <1>2, <1>4, <2>1, <2>2, ScanConstants
<1> QED
  BY <1>3, <1>4

\* The variables of a name of a file.
LEMMA VariablesOfSet ==
  ASSUME NEW p, Scanned(p), NEW file, NEW name
  PROVE  /\ Variables(p, file, name) \in Seq(ToSet(p.variables))
         /\ ToSet(Variables(p, file, name)) = {v \in ToSet(p.variables) : v.file = file /\ v.name = name}
<1> DEFINE S == {v \in ToSet(p.variables) : v.file = file /\ v.name = name}
<1>1. Variables(p, file, name) = Among(p.variables, S)
  BY Zenon DEF Variables
<1>2. p.variables \in Seq(ToSet(p.variables))
  BY DEF Scanned
<1>3. ToSet(p.variables) \cap S = S
  OBVIOUS
<1> HIDE DEF S
<1>4. Among(p.variables, S) \in Seq(ToSet(p.variables)) /\ ToSet(Among(p.variables, S)) = S
  BY <1>2, <1>3, AmongSet
<1> QED
  BY <1>1, <1>4 DEF S

\* It reaches no function without going through a class.
LEMMA NothingDirect ==
  ASSUME NEW p, Scanned(p), NEW call \in ToSet(p.calls), ThroughItsFile(p, call), NEW kept
  PROVE  DirectTarget(p, call, kept).found = None /\ GoesThroughClass(p, call)
<1> DEFINE index == FunctionIndex(p)
           d == DirectTarget(p, call, kept)
<1>1. /\ call.require = None /\ call.callee # None /\ call.file \in Files
      /\ Through(call) \in Names \ {"default"} /\ Through(call) \notin {None, "this", "dotted"}
      /\ Through(call) \notin ImportedNames(p, call.file)
      /\ call.caller # None => Through(call) \notin Caller(p, call).params
      /\ \A i \in ToSet(ImportsOf(p, call.file)) : ~Unbound(i)
  BY ThroughFacts
<1>2. CASE call.new
  <2>1. /\ call.receiver = None /\ Through(call) = call.callee
        /\ \A e \in ToSet(p.functions) \cup ToSet(p.variables) : e.file = call.file => e.name # call.callee
    BY <1>2, ThroughFacts
  <2>2. ToSet(Variables(p, call.file, call.callee)) = {}
    BY <2>1, VariablesOfSet
  <2>3. ~Shadowed(p, call)
    BY <1>1, <2>1, <2>2 DEF Shadowed
  <2>4. GoesThroughClass(p, call)
    BY <1>1, <1>2, <2>1, <2>3, Zenon DEF GoesThroughClass
  <2>5. LookupInFile(index, call.file, call.callee) = None
    <3> PICK at : at = <<call.file, call.callee>>
      OBVIOUS
    <3>1. at \in Spots /\ at[1] = call.file /\ at[2] = call.callee /\ at[2] # "default"
      BY <1>1, <2>1 DEF Spots
    <3> PICK own : own = Index(p.functions)
      OBVIOUS
    <3>2. /\ own \in [Spots -> Seq(ToSet(p.functions))]
          /\ ToSet(own[at]) = {f \in ToSet(p.functions) : f.file = at[1] /\ f.name = at[2]}
      <4>1. p.functions \in Seq(ToSet(p.functions))
        BY DEF Scanned
      <4> QED
        BY <3>1, <4>1, IndexType
    <3>3. ToSet(own[at]) = {}
      BY <2>1, <3>1, <3>2
    <3>4. own[at] = <<>>
      BY <3>1, <3>2, <3>3, FirstOf
    <3>5. index = [x \in Spots |-> IF x[2] = "default" THEN DefaultOf(p, own, x[1]) ELSE own[x]]
      <4>1. DOMAIN own = Spots
        BY <3>2
      <4> QED
        BY <4>1, Zenon DEF FunctionIndex, WithDefaults
    <3>6. index[at] = <<>>
      BY <3>1, <3>4, <3>5
    <3> HIDE DEF index
    <3> QED
      BY <3>6, Zenon DEF LookupInFile
  <2> HIDE DEF index
  <2>6. ResolveDeclaration(p, index, call.file, call.callee, kept) = Answer(None, kept)
    BY <1>1, <2>1, <2>5, NothingDeclared
  <2>7. d = Answer(None, kept)
    <3>1. ResolveCall(p, index, call.file, None, call.callee, kept) = Answer(None, kept)
      <4>1. None # "this"
        BY ScanConstants
      <4> QED
        BY <2>6, <4>1, Zenon DEF ResolveCall
    <3> QED
      BY <1>1, <2>1, <2>3, <3>1, Zenon DEF DirectTarget, index
  <2> QED
    BY <2>4, <2>7, Answers DEF AnswerFacts
<1>3. CASE ~call.new
  <2>1. call.receiver = Through(call) /\ call.receiver \notin {None, "this", "dotted"}
    BY <1>1, <1>3, ThroughFacts
  <2>2. GoesThroughClass(p, call)
    BY <1>1, <1>3, <2>1, Zenon DEF GoesThroughClass
  <2>3. ResolveReceiver(p, index, call.file, call.receiver, call.callee, kept) = Answer(None, kept)
    BY <1>1, <2>1, NoReceiverLeads
  <2> HIDE DEF index
  <2>4. ResolveCall(p, index, call.file, call.receiver, call.callee, kept) = Answer(None, kept)
    BY <2>1, <2>3, Zenon DEF ResolveCall
  <2>5. d = Answer(None, kept)
    BY <1>1, <2>1, <2>4, Zenon DEF DirectTarget, index
  <2> QED
    BY <2>2, <2>5, Answers DEF AnswerFacts
<1> QED
  BY <1>2, <1>3

\* What is found is the method of one of the classes, if there are any.
FoundOn(p, bases, call, classes, found) ==
  IF classes = {} THEN found = None ELSE \E x \in classes : found = Method(p, bases, x, MethodCalled(call))

\* The pass over the calls finds it on the class of that name.
LEMMA OnNamedClass ==
  ASSUME NEW p, Scanned(p), NEW call \in ToSet(p.calls), ThroughItsFile(p, call), NEW bases, NEW kept
  PROVE  FoundOn(p, bases, call, ClassNamed(p, call.file, Through(call)), ClassTarget(p, bases, call, kept).found)
<1> DEFINE index == ClassIndex(p)
           name == Through(call)
           named == ClassNamed(p, call.file, name)
           class == ResolveDeclaration(p, index, call.file, name, kept)
           found == ClassTarget(p, bases, call, kept).found
<1>1. /\ call.file \in Files /\ name \in Names \ {"default"}
      /\ name \notin ImportedNames(p, call.file)
      /\ \A i \in ToSet(ImportsOf(p, call.file)) : ~Unbound(i)
  BY ThroughFacts
<1>2. found = IF class.found = None THEN None ELSE Method(p, bases, class.found, MethodCalled(call))
  <2>1. ClassTarget(p, bases, call, kept) =
          Answer(IF class.found = None THEN None ELSE Method(p, bases, class.found, MethodCalled(call)), class.cache)
    BY Zenon DEF ClassTarget, MethodCalled, Through
  <2> HIDE DEF class
  <2> QED
    BY <2>1, Answers DEF AnswerFacts
<1>3. /\ named # {} => LookupInFile(index, call.file, name) \in named
      /\ named = {} => LookupInFile(index, call.file, name) = None
      /\ None \notin ClassIds(p)
  BY <1>1, ClassNameFacts, ClassIndexFacts
<1>4. named \subseteq ClassIds(p)
  BY DEF ClassNamed, ClassIds
<1> HIDE DEF index, name, named
<1>5. CASE named = {}
  <2>1. class = Answer(None, kept)
    BY <1>1, <1>3, <1>5, NothingDeclared
  <2>2. class.found = None
    BY <2>1, Answers DEF AnswerFacts
  <2> QED
    BY <1>2, <1>5, <2>2 DEF FoundOn, named, name
<1>6. CASE named # {}
  <2> PICK x : x = LookupInFile(index, call.file, name)
    OBVIOUS
  <2>1. x \in named /\ x # None
    BY <1>3, <1>4, <1>6
  <2>2. class = Answer(x, kept)
    BY <2>1, Zenon DEF ResolveDeclaration
  <2>3. class.found = x
    BY <2>2, Answers DEF AnswerFacts
  <2>4. found = Method(p, bases, x, MethodCalled(call))
    BY <1>2, <2>1, <2>3
  <2> QED
    BY <1>6, <2>1, <2>4 DEF FoundOn, named, name
<1> QED
  BY <1>5, <1>6

\* The class a variable of a file is an instance of.
InstanceOf(p, v) == IF v.init = None THEN None ELSE ResolveClassName(p, Index(p.classes), v.file, v.init)

\* The index of the instances keeps, for a name of a file, the class of one of
\* its variables.
LEMMA InstanceIndexFacts ==
  ASSUME NEW p, Scanned(p), NEW file \in Files, NEW name \in Names
  PROVE  LET some == {v \in ToSet(Variables(p, file, name)) : InstanceOf(p, v) # None}
             found == LookupInFile(InstanceIndex(p), file, name)
         IN  IF some = {} THEN found = None ELSE \E v \in some : found = InstanceOf(p, v)
<1> PICK at : at = <<file, name>>
  OBVIOUS
<1> DEFINE T == {v \in ToSet(p.variables) : InstanceOf(p, v) # None}
           list == Among(Variables(p, at[1], at[2]), T)
           some == {v \in ToSet(Variables(p, file, name)) : InstanceOf(p, v) # None}
           found == LookupInFile(InstanceIndex(p), file, name)
<1>1. at \in Files \X Names /\ at[1] = file /\ at[2] = name
  OBVIOUS
<1>2. InstanceIndex(p) =
        [x \in Files \X Names |->
           LET instances == Among(Variables(p, x[1], x[2]), T)
           IN  IF instances = <<>> THEN <<>> ELSE << [id |-> InstanceOf(p, instances[Len(instances)])] >>]
  BY Zenon DEF InstanceIndex, InstanceOf
<1>3. InstanceIndex(p)[at] = IF list = <<>> THEN <<>> ELSE << [id |-> InstanceOf(p, list[Len(list)])] >>
  <2> HIDE DEF T
  <2> QED
    BY <1>1, <1>2, Zenon
<1>4. /\ Variables(p, at[1], at[2]) \in Seq(ToSet(p.variables))
      /\ ToSet(Variables(p, at[1], at[2])) \subseteq ToSet(p.variables)
  BY VariablesOfSet
<1>5. list \in Seq(ToSet(p.variables)) /\ ToSet(list) = some
  <2>1. ToSet(Variables(p, at[1], at[2])) \cap T = some
    BY <1>1, <1>4
  <2> HIDE DEF T, some
  <2> QED
    BY <1>4, <2>1, AmongSet
<1> HIDE DEF list, some
<1>6. found = IF InstanceIndex(p)[at] = <<>> THEN None ELSE Head(InstanceIndex(p)[at]).id
  BY Zenon DEF LookupInFile
<1> HIDE DEF found
<1>7. CASE some = {}
  <2>1. list = <<>>
    BY <1>5, <1>7, FirstOf
  <2> QED
    BY <1>3, <1>6, <1>7, <2>1 DEF found, some
<1>8. CASE some # {}
  <2>1. list # <<>>
    BY <1>5, <1>8, FirstOf
  <2>2. list[Len(list)] \in some
    <3>1. Len(list) \in DOMAIN list
      BY <1>5, <2>1
    <3> QED
      BY <1>5, <3>1 DEF ToSet
  <2>3. found = InstanceOf(p, list[Len(list)])
    BY <1>3, <1>6, <2>1
  <2> QED
    BY <1>8, <2>2, <2>3 DEF found, some
<1> QED
  BY <1>7, <1>8

\* The classes of the file a call's receiver is an instance of.
ByInstance(p, call) ==
  IF call.new \/ call.caller = None THEN {}
  ELSE UNION {ClassNamed(p, call.file, v.init) : v \in ToSet(Variables(p, call.file, call.receiver))}

\* The pass over the instances finds it on the class of one of its variables.
LEMMA OnInstance ==
  ASSUME NEW p, Scanned(p), NEW call \in ToSet(p.calls), ThroughItsFile(p, call), NEW bases, NEW kept
  PROVE  FoundOn(p, bases, call, ByInstance(p, call), InstanceTarget(p, bases, call, kept).found)
<1> DEFINE index == InstanceIndex(p)
           byInstance == ByInstance(p, call)
           hidden == \/ call.receiver \in {None, "dotted"} \/ call.caller = None \/ call.callee = None
                     \/ call.receiver \in Caller(p, call).params
           class == ResolveDeclaration(p, index, call.file, call.receiver, kept)
           a == InstanceTarget(p, bases, call, kept)
<1>1. a = IF hidden \/ call.receiver \notin Names THEN Answer(None, kept)
          ELSE Answer(IF class.found = None THEN None ELSE Method(p, bases, class.found, call.callee), class.cache)
  BY Zenon DEF InstanceTarget
<1>2. /\ call.file \in Files /\ call.callee # None
      /\ Through(call) \in Names \ {"default"} /\ Through(call) \notin {None, "this", "dotted"}
      /\ Through(call) \notin ImportedNames(p, call.file)
      /\ call.caller # None => Through(call) \notin Caller(p, call).params
      /\ \A i \in ToSet(ImportsOf(p, call.file)) : ~Unbound(i)
  BY ThroughFacts
<1>3. CASE call.new \/ call.caller = None
  <2>1. hidden
    BY <1>3, ThroughFacts
  <2>2. byInstance = {}
    BY <1>3 DEF ByInstance
  <2> HIDE DEF hidden, class
  <2>3. a.found = None
    BY <1>1, <2>1, Answers DEF AnswerFacts
  <2> QED
    BY <2>2, <2>3 DEF FoundOn
<1>4. CASE ~call.new /\ call.caller # None
  <2> DEFINE variables == ToSet(Variables(p, call.file, call.receiver))
             some == {v \in variables : InstanceOf(p, v) # None}
  <2>1. /\ call.receiver = Through(call) /\ call.receiver \in Names
        /\ \A v \in variables : v.init = None \/ ClassNamed(p, call.file, v.init) # {}
    BY <1>2, <1>4, ThroughFacts
  <2>2. ~hidden /\ MethodCalled(call) = call.callee
    BY <1>2, <1>4, <2>1 DEF MethodCalled
  <2>3. byInstance = UNION {ClassNamed(p, call.file, v.init) : v \in variables}
    BY <1>4 DEF ByInstance
  <2>4. ASSUME NEW v \in variables
        PROVE  /\ InstanceOf(p, v) = None => ClassNamed(p, call.file, v.init) = {}
               /\ InstanceOf(p, v) # None => InstanceOf(p, v) \in ClassNamed(p, call.file, v.init)
    <3>1. v \in ToSet(p.variables) /\ v.file = call.file
      BY VariablesOfSet
    <3>2. v.init \in Names \cup {None} /\ \A d \in ToSet(p.classes) : d.name \in Names
      BY <3>1 DEF Scanned
    <3>3. CASE v.init = None
      <4>1. InstanceOf(p, v) = None
        BY <3>3 DEF InstanceOf
      <4>2. ClassNamed(p, call.file, v.init) = {}
        BY <3>2, <3>3, ScanConstants DEF ClassNamed
      <4> QED
        BY <4>1, <4>2
    <3>4. CASE v.init # None
      <4>1. v.init \in Names /\ ClassNamed(p, call.file, v.init) # {}
        BY <2>1, <3>2, <3>4
      <4>2. InstanceOf(p, v) = ResolveClassName(p, Index(p.classes), call.file, v.init)
        BY <3>1, <3>4 DEF InstanceOf
      <4>3. InstanceOf(p, v) \in ClassNamed(p, call.file, v.init)
        BY <1>2, <4>1, <4>2, ClassNameFacts
      <4>4. ClassNamed(p, call.file, v.init) \subseteq ClassIds(p) /\ None \notin ClassIds(p)
        BY <1>2, <4>1, ClassNameFacts DEF ClassNamed, ClassIds
      <4> QED
        BY <4>3, <4>4
    <3> QED
      BY <3>3, <3>4
  <2>5. LET found == LookupInFile(index, call.file, call.receiver)
        IN  IF some = {} THEN found = None ELSE \E v \in some : found = InstanceOf(p, v)
    BY <1>2, <2>1, InstanceIndexFacts
  <2> HIDE DEF index, variables, hidden, byInstance
  <2>6. a.found = IF class.found = None THEN None ELSE Method(p, bases, class.found, MethodCalled(call))
    <3> HIDE DEF class
    <3> QED
      BY <1>1, <2>1, <2>2, Answers DEF AnswerFacts
  <2>7. CASE some = {}
    <3>1. byInstance = {}
      BY <2>3, <2>4, <2>7
    <3>2. class = Answer(None, kept)
      BY <1>2, <2>1, <2>5, <2>7, NothingDeclared
    <3>3. class.found = None
      BY <3>2, Answers DEF AnswerFacts
    <3> QED
      BY <2>6, <3>1, <3>3 DEF FoundOn, byInstance
  <2>8. CASE some # {}
    <3>1. PICK v \in some : LookupInFile(index, call.file, call.receiver) = InstanceOf(p, v)
      BY <2>5, <2>8
    <3> PICK x : x = InstanceOf(p, v)
      OBVIOUS
    <3>2. x # None /\ x \in byInstance
      BY <2>3, <2>4, <3>1
    <3>3. class = Answer(x, kept)
      BY <3>1, <3>2, Zenon DEF ResolveDeclaration
    <3>4. class.found = x
      BY <3>3, Answers DEF AnswerFacts
    <3>5. a.found = Method(p, bases, x, MethodCalled(call))
      BY <2>6, <3>2, <3>4
    <3> QED
      BY <3>2, <3>5 DEF FoundOn, byInstance
  <2> QED
    BY <2>7, <2>8
<1> QED
  BY <1>3, <1>4

\* The method a call reaches, as long as the pass over the instances is still
\* to come for a class that only they name.
ReachesOf(p, bases, call, x, all) ==
  IF ClassNamed(p, call.file, Through(call)) # {} \/ all
  THEN {Method(p, bases, x, MethodCalled(call))} \ {None} ELSE {}

\* What each phase of the scan leaves of a call through one class: nothing before
\* its turn, the inherited method after it.
MethodsInv ==
  /\ Scanned(project)
  /\ phase \in {"inherit", "calls", "instances", "done"}
  /\ next \in 1..(Len(project.calls) + 1)
  /\ phase = "inherit" => next = 1
  /\ phase \in {"instances", "done"} => next = Len(project.calls) + 1
  /\ extends \in [ClassIds(project) -> Seq(ClassIds(project))]
  /\ \E X : targets \in [CallIds(project) -> SUBSET X]
  /\ \A n \in 1..(next - 1), x \in ClassIds(project) :
       LET call == project.calls[n]
       IN  ThroughItsFile(project, call) /\ ClassesThrough(project, call) = {x} =>
             targets[call.id] = ReachesOf(project, extends, call, x, phase = "done")

\* A call whose classes are one class names it, or a variable of it, or both.
LEMMA ClassesThroughFacts ==
  ASSUME NEW p, NEW call, NEW x, ClassesThrough(p, call) = {x}
  PROVE  /\ ClassNamed(p, call.file, Through(call)) \in {{}, {x}}
         /\ ByInstance(p, call) \in {{}, {x}}
         /\ ClassNamed(p, call.file, Through(call)) = {} => ByInstance(p, call) = {x}
<1>1. ClassesThrough(p, call) = ClassNamed(p, call.file, Through(call)) \cup ByInstance(p, call)
  BY Zenon DEF ClassesThrough, ByInstance
<1> QED
  BY <1>1

\* Nothing is inherited and nothing resolved when the scan begins.
LEMMA MethodsInvInit == Init => MethodsInv
<1> SUFFICES ASSUME Init PROVE MethodsInv
  OBVIOUS
<1>1. /\ \E n \in DOMAIN Families : project \in Families[n]
      /\ phase = "inherit" /\ next = 1
      /\ extends = [c \in {c.id : c \in ToSet(project.classes)} |-> <<>>]
      /\ targets = [c \in {c.id : c \in ToSet(project.calls)} |-> {}]
  BY DEF Init, ResolutionInit
<1>2. Scanned(project)
  BY <1>1, ScannedProjects
<1>3. next \in 1..(Len(project.calls) + 1)
  BY <1>1, <1>2, CallsFacts
<1>4. extends \in [ClassIds(project) -> Seq(ClassIds(project))]
  BY <1>1 DEF ClassIds
<1>5. targets \in [CallIds(project) -> SUBSET {}]
  BY <1>1 DEF CallIds
<1>6. 1..(next - 1) = {}
  BY <1>1
<1> QED
  BY <1>1, <1>2, <1>3, <1>4, <1>5, <1>6 DEF MethodsInv

\* The classes are linked to what they extend, then each call through its class
\* is resolved to the nearest method, by the pass over the calls or by the one
\* over the instances.
LEMMA MethodsInvNext == MethodsInv /\ [Next]_analysisVars => MethodsInv'
<1> SUFFICES ASSUME MethodsInv, [Next]_analysisVars PROVE MethodsInv'
  OBVIOUS
<1>0. /\ Scanned(project)
      /\ phase \in {"inherit", "calls", "instances", "done"}
      /\ next \in 1..(Len(project.calls) + 1)
      /\ phase = "inherit" => next = 1
      /\ phase \in {"instances", "done"} => next = Len(project.calls) + 1
      /\ extends \in [ClassIds(project) -> Seq(ClassIds(project))]
  BY DEF MethodsInv
<1>00. PICK X : targets \in [CallIds(project) -> SUBSET X]
  BY DEF MethodsInv
<1>01. \A n \in 1..(next - 1), x \in ClassIds(project) :
         ThroughItsFile(project, project.calls[n]) /\ ClassesThrough(project, project.calls[n]) = {x} =>
           targets[project.calls[n].id] = ReachesOf(project, extends, project.calls[n], x, phase = "done")
  BY DEF MethodsInv
<1>02. /\ Len(project.calls) \in Nat
       /\ \A n \in 1..Len(project.calls) :
            project.calls[n] \in ToSet(project.calls) /\ project.calls[n].id \in CallIds(project)
       /\ \A m, n \in 1..Len(project.calls) : project.calls[m].id = project.calls[n].id => m = n
       /\ ToSet(project.calls) = {project.calls[n] : n \in 1..Len(project.calls)}
       /\ \A n \in 1..(next - 1) : n \in 1..Len(project.calls)
  <2>1. Len(project.calls) \in Nat
    BY <1>0, CallsFacts
  <2>2. \A n \in 1..(next - 1) : n \in 1..Len(project.calls)
    BY <1>0, <2>1
  <2> QED
    BY <1>0, <2>1, <2>2, CallsFacts
<1>1. CASE UNCHANGED resolutionVars
  BY <1>1 DEF MethodsInv, resolutionVars
<1>2. CASE Inherit
  <2>1. /\ project' = project /\ next' = next /\ targets' = targets /\ phase = "inherit" /\ phase' = "calls"
        /\ extends' = [c \in DOMAIN extends |-> Bases(project, ById(project.classes, c))]
    BY <1>2 DEF Inherit
  <2>2. extends' \in [ClassIds(project) -> Seq(ClassIds(project))]
    <3>1. ASSUME NEW c \in ClassIds(project) PROVE Bases(project, ById(project.classes, c)) \in Seq(ClassIds(project))
      <4>1. ById(project.classes, c) \in ToSet(project.classes)
        BY DEF ById, ClassIds
      <4> QED
        BY <1>0, <4>1, BasesAreClasses
    <3> QED
      BY <1>0, <2>1, <3>1
  <2>3. 1..(next' - 1) = {}
    BY <1>0, <2>1
  <2>4. Scanned(project') /\ \E Y : targets' \in [CallIds(project') -> SUBSET Y]
    BY <1>0, <1>00, <2>1
  <2> QED
    BY <1>0, <2>1, <2>2, <2>3, <2>4 DEF MethodsInv
<1>3. CASE ResolveNextCall
  <2> PICK call : call = project.calls[next]
    OBVIOUS
  <2> PICK direct : direct = DirectTarget(project, call, cache.functions)
    OBVIOUS
  <2> PICK found : found = IF direct.found = None /\ GoesThroughClass(project, call)
                           THEN ClassTarget(project, extends, call, cache.classes)
                           ELSE Answer(direct.found, cache.classes)
    OBVIOUS
  <2>1. /\ next <= Len(project.calls) /\ next' = next + 1 /\ project' = project
        /\ phase = "calls" /\ phase' = phase /\ extends' = extends
        /\ targets' = [targets EXCEPT ![call.id] = {found.found} \ {None}]
    BY <1>3, Zenon DEF ResolveNextCall
  <2>2. next \in 1..Len(project.calls) /\ call \in ToSet(project.calls) /\ call.id \in CallIds(project)
    BY <1>0, <1>02, <2>1
  <2>3. next' \in 1..(Len(project'.calls) + 1)
    BY <1>0, <1>02, <2>1
  <2>4. PICK Y : Y = X \cup {found.found}
    OBVIOUS
  <2>5. /\ targets' \in [CallIds(project) -> SUBSET Y]
        /\ targets'[call.id] = {found.found} \ {None}
        /\ \A id \in CallIds(project) : id # call.id => targets'[id] = targets[id]
    BY <1>00, <2>1, <2>2, <2>4
  <2>6. ASSUME NEW x \in ClassIds(project), ThroughItsFile(project, call), ClassesThrough(project, call) = {x}
        PROVE  targets'[call.id] = ReachesOf(project, extends, call, x, FALSE)
    <3> PICK named : named = ClassNamed(project, call.file, Through(call))
      OBVIOUS
    <3>1. found = ClassTarget(project, extends, call, cache.classes)
      BY <1>0, <2>2, <2>6, NothingDirect
    <3>2. FoundOn(project, extends, call, named, found.found)
      BY <1>0, <2>2, <2>6, <3>1, OnNamedClass
    <3>3. named \in {{}, {x}}
      BY <2>6, ClassesThroughFacts
    <3> QED
      BY <2>5, <3>2, <3>3 DEF ReachesOf, FoundOn
  <2>7. ASSUME NEW n \in 1..(next' - 1), NEW x \in ClassIds(project),
               ThroughItsFile(project, project.calls[n]), ClassesThrough(project, project.calls[n]) = {x}
        PROVE  targets'[project.calls[n].id] = ReachesOf(project, extends, project.calls[n], x, FALSE)
    <3>1. CASE n = next
      BY <2>6, <2>7, <3>1
    <3>2. CASE n # next
      <4>1. n \in 1..(next - 1) /\ n \in 1..Len(project.calls)
        BY <1>0, <1>02, <2>1, <3>2
      <4>2. project.calls[n].id # call.id /\ project.calls[n].id \in CallIds(project)
        BY <1>02, <2>2, <3>2, <4>1
      <4>3. targets'[project.calls[n].id] = targets[project.calls[n].id]
        BY <2>5, <4>2
      <4>4. (phase = "done") = FALSE
        BY <2>1
      <4> QED
        BY <1>01, <2>7, <4>1, <4>3, <4>4
    <3> QED
      BY <3>1, <3>2
  <2>8. Scanned(project') /\ \E Z : targets' \in [CallIds(project') -> SUBSET Z]
    BY <1>0, <2>1, <2>5
  <2>9. \A n \in 1..(next' - 1), x \in ClassIds(project') :
          ThroughItsFile(project', project'.calls[n]) /\ ClassesThrough(project', project'.calls[n]) = {x} =>
            targets'[project'.calls[n].id] = ReachesOf(project', extends', project'.calls[n], x, phase' = "done")
    <3>1. (phase' = "done") = FALSE
      BY <2>1
    <3> QED
      BY <2>1, <2>7, <3>1
  <2>10. phase' = "calls" /\ extends' \in [ClassIds(project') -> Seq(ClassIds(project'))]
    BY <1>0, <2>1
  <2> QED
    BY <2>3, <2>8, <2>9, <2>10 DEF MethodsInv
<1>4. CASE Inject
  <2>1. /\ project' = project /\ next' = next /\ extends' = extends
        /\ phase = "calls" /\ next > Len(project.calls) /\ phase' = "instances"
        /\ targets' = [id \in DOMAIN targets |->
                         targets[id] \cup ({FieldTarget(project, ById(project.calls, id))} \ {None})]
    BY <1>4, Zenon DEF Inject
  <2> DEFINE F == {FieldTarget(project, ById(project.calls, id)) : id \in CallIds(project)}
  <2>2. DOMAIN targets = CallIds(project)
    BY <1>00
  <2>3. targets' \in [CallIds(project) -> SUBSET (X \cup F)]
    <3>1. \A id \in CallIds(project) : FieldTarget(project, ById(project.calls, id)) \in F
      OBVIOUS
    <3> HIDE DEF F
    <3> QED
      BY <1>00, <2>1, <2>2, <3>1
  <2>4. ASSUME NEW n \in 1..(next - 1), ThroughItsFile(project, project.calls[n])
        PROVE  targets'[project.calls[n].id] = targets[project.calls[n].id]
    <3> PICK call : call = project.calls[n]
      OBVIOUS
    <3>1. n \in 1..Len(project.calls) /\ call \in ToSet(project.calls) /\ call.id \in CallIds(project)
      BY <1>02
    <3>2. ASSUME NEW c \in ToSet(project.calls), c.id = call.id PROVE c = call
      <4>1. PICK m \in 1..Len(project.calls) : c = project.calls[m]
        BY <1>02
      <4> QED
        BY <1>02, <3>1, <3>2, <4>1
    <3>3. ById(project.calls, call.id) = call
      BY <3>1, <3>2 DEF ById
    <3>4. targets'[call.id] = targets[call.id] \cup ({FieldTarget(project, call)} \ {None})
      BY <2>1, <2>2, <3>1, <3>3
    <3>5. call.receiver # "dotted"
      BY <1>0, <2>4, <3>1, ThroughFacts, ScanConstants
    <3>6. FieldTarget(project, call) = None
      BY <3>5, Zenon DEF FieldTarget
    <3> QED
      BY <3>4, <3>6
  <2> HIDE DEF F
  <2>5. Scanned(project') /\ \E Z : targets' \in [CallIds(project') -> SUBSET Z]
    BY <1>0, <2>1, <2>3
  <2>6. \A n \in 1..(next' - 1), x \in ClassIds(project') :
          ThroughItsFile(project', project'.calls[n]) /\ ClassesThrough(project', project'.calls[n]) = {x} =>
            targets'[project'.calls[n].id] = ReachesOf(project', extends', project'.calls[n], x, phase' = "done")
    <3>1. (phase' = "done") = FALSE /\ (phase = "done") = FALSE
      BY <2>1
    <3> QED
      BY <1>01, <2>1, <2>4, <3>1
  <2>7. next' = Len(project'.calls) + 1
    BY <1>0, <1>02, <2>1
  <2> QED
    BY <1>0, <2>1, <2>5, <2>6, <2>7 DEF MethodsInv
<1>5. CASE ResolveInstances
  <2>1. /\ project' = project /\ next' = next /\ extends' = extends
        /\ phase = "instances" /\ phase' = "done"
        /\ targets' = WithInstances(project, extends, targets)
    BY <1>5, Zenon DEF ResolveInstances
  <2>2. /\ \E Y : targets' \in [CallIds(project) -> SUBSET Y]
        /\ \A c \in ToSet(project.calls) : AddsInstance(project, extends, c, targets[c.id], targets'[c.id])
    BY <1>0, <1>00, <2>1, InstancesAreAdded
  <2>3. ASSUME NEW n \in 1..(next - 1), NEW x \in ClassIds(project),
               ThroughItsFile(project, project.calls[n]), ClassesThrough(project, project.calls[n]) = {x}
        PROVE  targets'[project.calls[n].id] = ReachesOf(project, extends, project.calls[n], x, TRUE)
    <3> PICK call : call = project.calls[n]
      OBVIOUS
    <3> PICK named : named = ClassNamed(project, call.file, Through(call))
      OBVIOUS
    <3> PICK m : m = Method(project, extends, x, MethodCalled(call))
      OBVIOUS
    <3>1. call \in ToSet(project.calls)
      BY <1>02
    <3>2. PICK kept : targets'[call.id] = targets[call.id] \cup ({InstanceTarget(project, extends, call, kept).found} \ {None})
      BY <2>2, <3>1 DEF AddsInstance
    <3> PICK found : found = InstanceTarget(project, extends, call, kept).found
      OBVIOUS
    <3>3. FoundOn(project, extends, call, ByInstance(project, call), found)
      BY <1>0, <2>3, <3>1, OnInstance
    <3>4. /\ named \in {{}, {x}} /\ ByInstance(project, call) \in {{}, {x}}
          /\ named = {} => ByInstance(project, call) = {x}
      BY <2>3, ClassesThroughFacts
    <3>5. found \in {None, m} /\ (named = {} => found = m)
      BY <3>3, <3>4 DEF FoundOn
    <3>6. targets[call.id] = ReachesOf(project, extends, call, x, FALSE)
      <4>1. (phase = "done") = FALSE
        BY <2>1
      <4> QED
        BY <1>01, <2>3, <4>1
    <3>7. targets[call.id] = IF named # {} THEN {m} \ {None} ELSE {}
      BY <3>6 DEF ReachesOf
    <3>8. targets'[call.id] = {m} \ {None}
      BY <3>2, <3>5, <3>7
    <3> QED
      BY <3>8 DEF ReachesOf
  <2>4. Scanned(project') /\ \E Z : targets' \in [CallIds(project') -> SUBSET Z]
    BY <1>0, <2>1, <2>2
  <2>5. \A n \in 1..(next' - 1), x \in ClassIds(project') :
          ThroughItsFile(project', project'.calls[n]) /\ ClassesThrough(project', project'.calls[n]) = {x} =>
            targets'[project'.calls[n].id] = ReachesOf(project', extends', project'.calls[n], x, phase' = "done")
    <3>1. (phase' = "done") = TRUE
      BY <2>1
    <3> QED
      BY <2>1, <2>3, <3>1
  <2> QED
    BY <1>0, <2>1, <2>4, <2>5 DEF MethodsInv
<1> QED
  BY <1>1, <1>2, <1>3, <1>4, <1>5
     DEF Next, analysisVars, Resolve, ResolutionNext, FindImportCycles, FindUnusedExports, FindImpact

\* Once the scan is done every such call reaches the method it inherits.
LEMMA MethodsInvInherits == MethodsInv => MethodsAreInherited
<1> SUFFICES ASSUME MethodsInv, phase = "done", NEW call \in ToSet(project.calls), NEW x \in DOMAIN extends,
                    ThroughItsFile(project, call), ClassesThrough(project, call) = {x}
             PROVE  /\ targets[call.id] \subseteq Inherited(x, MethodCalled(call))
                    /\ targets[call.id] = {} <=> Inherited(x, MethodCalled(call)) = {}
  BY Zenon DEF MethodsAreInherited
<1>1. /\ Scanned(project) /\ next = Len(project.calls) + 1
      /\ extends \in [ClassIds(project) -> Seq(ClassIds(project))]
      /\ \A n \in 1..(next - 1), y \in ClassIds(project) :
           ThroughItsFile(project, project.calls[n]) /\ ClassesThrough(project, project.calls[n]) = {y} =>
             targets[project.calls[n].id] = ReachesOf(project, extends, project.calls[n], y, phase = "done")
  BY DEF MethodsInv
<1>2. PICK n \in 1..(next - 1) : call = project.calls[n]
  <2>1. Len(project.calls) \in Nat /\ ToSet(project.calls) = {project.calls[n] : n \in 1..Len(project.calls)}
    BY <1>1, CallsFacts
  <2> QED
    BY <1>1, <2>1
<1> PICK m : m = Method(project, extends, x, MethodCalled(call))
  OBVIOUS
<1>3. targets[call.id] = {m} \ {None}
  <2>1. targets[call.id] = ReachesOf(project, extends, call, x, phase = "done")
    BY <1>1, <1>2
  <2> QED
    BY <2>1 DEF ReachesOf
<1>4. Finite(extends)
  BY <1>1, ClassIdsAreFinite DEF Finite
<1>5. /\ m # None => m \in Inherited(x, MethodCalled(call))
      /\ m = None => Inherited(x, MethodCalled(call)) = {}
  BY <1>4, MethodIsInherited
<1> QED
  BY <1>3, <1>5

\* A call through a class or an instance that its file declares is an edge to a
\* method of that name on the nearest class above that has one, and has none only
\* if no class above has it: resolveClassCall and findMethod, walking `extends`
\* once per class even where it goes round, for every project the parsers may
\* leave.
THEOREM MethodsTheorem == Spec => []MethodsAreInherited
<1>1. Spec => []MethodsInv
  BY MethodsInvInit, MethodsInvNext, PTL DEF Spec
<1> QED
  BY <1>1, MethodsInvInherits, PTL

-----------------------------------------------------------------------------
\* There is one that takes the steps, for any first value.
\* Steps that stay in a set lead to nothing else.
LEMMA RunStays ==
  ASSUME NEW N \in Nat, NEW S, NEW f, f[0] \in S, \A n \in 1..N : f[n - 1] \in S => f[n] \in S
  PROVE  \A n \in 0..N : f[n] \in S
<1> DEFINE T == {k \in Nat : k <= N => f[k] \in S}
<1>1. 0 \in T
  OBVIOUS
<1>2. ASSUME NEW k \in T PROVE k + 1 \in T
  <2> SUFFICES ASSUME k + 1 <= N PROVE f[k + 1] \in S
    OBVIOUS
  <2>1. k \in Nat /\ k <= N /\ k + 1 \in 1..N /\ (k + 1) - 1 = k
    OBVIOUS
  <2> QED
    BY <2>1
<1>3. T = Nat
  BY <1>1, <1>2, NaturalInduction
<1> QED
  BY <1>3

-----------------------------------------------------------------------------
\* Where exported names lead.

\* The places a place leads to, itself included.
ReachedFrom(p, at) == Reached(p, {}, {at})

\* Reached is the least set of places that has the first ones and every place
\* those lead to.
LEMMA ReachedFacts ==
  ASSUME NEW p, Scanned(p), NEW s \in SUBSET Spots
  PROVE  /\ Reached(p, {}, s) \in SUBSET Spots /\ s \subseteq Reached(p, {}, s)
         /\ \A x \in Reached(p, {}, s) : Onward(p, x) \subseteq Reached(p, {}, s)
         /\ \A C \in SUBSET Spots : s \subseteq C /\ (\A x \in C : Onward(p, x) \subseteq C)
                                      => Reached(p, {}, s) \subseteq C
<1> DEFINE R == Reached(p, {}, s)
           T == BeyondBy(p, {})
<1>1. LeastWith(R, s, T, Spots)
  BY ReachedIsLeast
<1>2. \A t \in SUBSET Spots : T[t] = t \cup UNION {Onward(p, at) : at \in t \ {}}
  BY BeyondAdds
<1> HIDE DEF R, T
<1>3. R \in SUBSET Spots /\ s \subseteq R /\ T[R] = R
  BY <1>1 DEF LeastWith
<1>4. \A x \in R : Onward(p, x) \subseteq R
  BY <1>2, <1>3
<1>5. ASSUME NEW C \in SUBSET Spots, s \subseteq C, \A x \in C : Onward(p, x) \subseteq C PROVE R \subseteq C
  <2>1. T[C] \subseteq C
    BY <1>2, <1>5
  <2> QED
    BY <1>1, <1>5, <2>1 DEF LeastWith
<1> QED
  BY <1>3, <1>4, <1>5 DEF R

\* What a place reaches is reached from where it is reached.
LEMMA ReachedAgain ==
  ASSUME NEW p, Scanned(p), NEW s \in SUBSET Spots, NEW t \in SUBSET Spots, t \subseteq Reached(p, {}, s)
  PROVE  Reached(p, {}, t) \subseteq Reached(p, {}, s)
  BY ReachedFacts

\* What a place leads to is itself and what the next places lead to.
LEMMA ReachedUnfolds ==
  ASSUME NEW p, Scanned(p), NEW at \in Spots
  PROVE  /\ Onward(p, at) \subseteq Spots
         /\ \A x \in ReachedFrom(p, at) : x = at \/ \E z \in Onward(p, at) : x \in ReachedFrom(p, z)
         /\ at \in ReachedFrom(p, at) /\ ReachedFrom(p, at) \subseteq Spots
         /\ \A z \in Onward(p, at) : z \in ReachedFrom(p, at)
         /\ \A z \in ReachedFrom(p, at) : ReachedFrom(p, z) \subseteq ReachedFrom(p, at)
<1>1. Onward(p, at) \subseteq Spots
  BY ForwardsFromSet
<1> DEFINE C == {at} \cup UNION {ReachedFrom(p, z) : z \in Onward(p, at)}
<1>2. \A z \in Spots : /\ ReachedFrom(p, z) \in SUBSET Spots /\ z \in ReachedFrom(p, z)
                       /\ \A x \in ReachedFrom(p, z) : Onward(p, x) \subseteq ReachedFrom(p, z)
  BY ReachedFacts DEF ReachedFrom
<1>3. C \in SUBSET Spots
  BY <1>1, <1>2
<1>4. \A x \in C : Onward(p, x) \subseteq C
  BY <1>1, <1>2
<1>5. ReachedFrom(p, at) \subseteq C
  <2> HIDE DEF C
  <2>1. {at} \subseteq C
    BY DEF C
  <2> QED
    BY <1>3, <1>4, <2>1, ReachedFacts DEF ReachedFrom
<1>6. \A x \in ReachedFrom(p, at) : x = at \/ \E z \in Onward(p, at) : x \in ReachedFrom(p, z)
  BY <1>5
<1>7. ASSUME NEW z \in ReachedFrom(p, at) PROVE ReachedFrom(p, z) \subseteq ReachedFrom(p, at)
  <2>1. z \in Spots /\ {z} \in SUBSET Spots /\ {at} \in SUBSET Spots /\ {z} \subseteq Reached(p, {}, {at})
    BY <1>2 DEF ReachedFrom
  <2> QED
    BY <2>1, ReachedAgain DEF ReachedFrom
<1> QED
  BY <1>1, <1>2, <1>6, <1>7

\* What a place offers is what it and the next places offer.
LEMMA OfferedUnfolds ==
  ASSUME NEW p, Scanned(p), NEW at \in Spots
  PROVE  /\ \A d \in Offered(p, at) : d \in OwnExports(p, at[1], at[2]) \/ \E z \in Onward(p, at) : d \in Offered(p, z)
         /\ \A d : d \in Offered(p, at) <=> \E x \in ReachedFrom(p, at) : d \in OwnExports(p, x[1], x[2])
<1>1. \A x, d : d \in Offered(p, x) <=> \E to \in ReachedFrom(p, x) : d \in OwnExports(p, to[1], to[2])
  BY DEF Offered, ReachedFrom
<1> QED
  BY <1>1, ReachedUnfolds

\* A place on no circle leads to no other place on one, and not back to it.
LEMMA StraightFacts ==
  ASSUME NEW p, Scanned(p), NEW at \in Spots, ~Circular(p, at)
  PROVE  /\ \A z \in ReachedFrom(p, at) : ~Circular(p, z)
         /\ \A z \in Onward(p, at) : at \notin ReachedFrom(p, z)
<1>1. /\ at \in ReachedFrom(p, at) /\ ReachedFrom(p, at) \subseteq Spots /\ Onward(p, at) \subseteq Spots
      /\ \A z \in ReachedFrom(p, at) : ReachedFrom(p, z) \subseteq ReachedFrom(p, at)
  BY ReachedUnfolds
<1>2. \A x : Circular(p, x) <=> \E to \in ReachedFrom(p, x) : to \in Reached(p, {}, Onward(p, to))
  BY Zenon DEF Circular, ReachedFrom
<1>3. ASSUME NEW z \in ReachedFrom(p, at) PROVE ~Circular(p, z)
  BY <1>1, <1>2
<1>4. ASSUME NEW z \in Onward(p, at), at \in ReachedFrom(p, z) PROVE FALSE
  <2>1. Onward(p, at) \in SUBSET Spots /\ {z} \in SUBSET Spots
    BY <1>1
  <2>2. {z} \subseteq Reached(p, {}, Onward(p, at))
    BY <2>1, ReachedFacts
  <2>3. Reached(p, {}, {z}) \subseteq Reached(p, {}, Onward(p, at))
    BY <2>1, <2>2, ReachedAgain
  <2>4. at \in Reached(p, {}, Onward(p, at))
    BY <1>4, <2>3 DEF ReachedFrom
  <2> QED
    BY <1>1, <1>2, <2>4
<1> QED
  BY <1>3, <1>4

-----------------------------------------------------------------------------
\* The index of exported names.

\* A cache d is another, c, with declarations added at one place.
GrownAt(p, c, at, ds, d) ==
  /\ d \in Caches(p) /\ d.known = c.known \cup {at}
  /\ d.declarations[at] = c.declarations[at] \cup ds
  /\ \A x \in Spots : x # at => d.declarations[x] = c.declarations[x]

\* What adding to the entry of a place changes, and what it leaves alone.
LEMMA AddFoundFacts ==
  ASSUME NEW p, NEW c \in Caches(p), NEW at \in Spots, NEW ds \in SUBSET Exported(p), NEW ns \in Seq(Files)
  PROVE  GrownAt(p, c, at, ds, AddFound(c, at, ds, ns))
<1> DEFINE X == Exported(p)
           d == AddFound(c, at, ds, ns)
<1>1. /\ c.known \in SUBSET Spots /\ c.declarations \in [Spots -> SUBSET X]
      /\ c.namespaces \in [Spots -> Seq(Files)]
  BY Zenon DEF Caches, Spots
<1>2. /\ d.known = c.known \cup {at}
      /\ d.declarations = [c.declarations EXCEPT ![at] = c.declarations[at] \cup ds]
      /\ d.namespaces = [c.namespaces EXCEPT ![at] = c.namespaces[at] \o ns]
      /\ d = [known |-> d.known, declarations |-> d.declarations, namespaces |-> d.namespaces]
  BY DEF AddFound
<1> HIDE DEF X, d
<1>3. d.known \in SUBSET Spots
  BY <1>1, <1>2
<1>4. d.declarations \in [Spots -> SUBSET X]
  <2>1. c.declarations[at] \cup ds \in SUBSET X
    BY <1>1 DEF X
  <2> QED
    BY <1>1, <1>2, <2>1
<1>5. d.namespaces \in [Spots -> Seq(Files)]
  <2>1. c.namespaces[at] \o ns \in Seq(Files)
    BY <1>1
  <2> QED
    BY <1>1, <1>2, <2>1
<1>6. d \in Caches(p)
  BY <1>2, <1>3, <1>4, <1>5, Zenon DEF Caches, X, Spots
<1> QED
  BY <1>1, <1>2, <1>6 DEF d, GrownAt

CacheFacts(p, c) ==
  /\ c.known \in SUBSET Spots /\ c.declarations \in [Spots -> SUBSET Exported(p)]
  /\ c.namespaces \in [Spots -> Seq(Files)]

\* What a cache is made of.
LEMMA CachesFacts == \A p : \A c \in Caches(p) : CacheFacts(p, c)
  BY Zenon DEF Caches, Spots, CacheFacts

EdgesOf(p, at) == ReExports(p, at[1])
EdgePlace(edge, at) == <<edge.target, Forwarded(edge, at[2])>>

\* The re-exports of a file, and where they lead to.
LEMMA EdgesFacts ==
  ASSUME NEW p, Scanned(p), NEW at \in Spots
  PROVE  /\ EdgesOf(p, at) \in Seq(ToSet(p.imports))
         /\ Len(EdgesOf(p, at)) \in Nat
         /\ \A n \in 1..Len(EdgesOf(p, at)) :
              LET edge == EdgesOf(p, at)[n]
              IN  /\ edge.target \in Files
                  /\ Forwarded(edge, at[2]) # None =>
                       EdgePlace(edge, at) \in Onward(p, at) /\ edge.namespace # at[2]
         /\ \A z \in Onward(p, at) : \E n \in 1..Len(EdgesOf(p, at)) :
              Forwarded(EdgesOf(p, at)[n], at[2]) # None /\ z = EdgePlace(EdgesOf(p, at)[n], at)
<1> DEFINE all == ImportsOf(p, at[1])
           S == {i \in ToSet(p.imports) : i.reExport}
           edges == EdgesOf(p, at)
<1>1. /\ all \in Seq(ToSet(p.imports))
      /\ \A i \in ToSet(all) : i \in ToSet(p.imports) /\ i.target \in Files
  BY ImportsOfSet
<1>2. edges \in Seq(ToSet(p.imports)) /\ ToSet(edges) = ToSet(all) \cap S
  <2>1. edges = Among(all, S)
    BY Zenon DEF EdgesOf, ReExports
  <2> HIDE DEF all, S, edges
  <2> QED
    BY <1>1, <2>1, AmongSet
<1>3. Len(edges) \in Nat /\ DOMAIN edges = 1..Len(edges)
  <2> HIDE DEF edges
  <2> QED
    BY <1>2
<1>4. at[2] \in Names
  BY DEF Spots
<1>5. ASSUME NEW i \in ToSet(p.imports), Forwarded(i, at[2]) # None
      PROVE  i.reExport /\ i.namespace # at[2]
  <2>1. i.namespace # None => i.wildcard
    BY DEF Scanned
  <2>2. i.reExport
    BY <1>5, Zenon DEF Forwarded
  <2>3. i.wildcard => i.namespace = None
    BY <1>5, <2>2, Zenon DEF Forwarded
  <2>4. None \notin Names
    BY ScanConstants
  <2> QED
    BY <1>4, <2>1, <2>2, <2>3, <2>4
<1>6. Onward(p, at) = {EdgePlace(i, at) : i \in {i \in ToSet(all) : Forwarded(i, at[2]) # None}}
  BY Zenon DEF Onward, EdgePlace
<1>7. ToSet(edges) = {edges[n] : n \in 1..Len(edges)}
  BY <1>3, Zenon DEF ToSet
<1> HIDE DEF edges, all
<1>8. ASSUME NEW n \in 1..Len(edges)
      PROVE  /\ edges[n].target \in Files
             /\ Forwarded(edges[n], at[2]) # None =>
                  EdgePlace(edges[n], at) \in Onward(p, at) /\ edges[n].namespace # at[2]
  <2>1. edges[n] \in ToSet(all) /\ edges[n] \in ToSet(p.imports)
    BY <1>1, <1>2, <1>7, <1>8
  <2> QED
    BY <1>1, <1>5, <1>6, <2>1, Zenon
<1>9. ASSUME NEW z \in Onward(p, at)
      PROVE  \E n \in 1..Len(edges) : Forwarded(edges[n], at[2]) # None /\ z = EdgePlace(edges[n], at)
  <2>1. PICK i \in ToSet(all) : Forwarded(i, at[2]) # None /\ z = EdgePlace(i, at)
    BY <1>6, <1>9, Zenon
  <2>2. i \in ToSet(edges)
    BY <1>1, <1>2, <1>5, <2>1
  <2> QED
    BY <1>7, <2>1, <2>2
<1> QED
  BY <1>2, <1>3, <1>8, <1>9 DEF edges

-----------------------------------------------------------------------------
\* A lookup: the arguments it is called with, and one step of it.

Lookups(p) == Spots \X Caches(p)
Opened(p, q) == AddFound(q[2], q[1], OwnExports(p, q[1][1], q[1][2]), <<>>)
StepOn(p, f, at, n, c) == FollowEdge(EdgesOf(p, at)[n], at, EdgePlace(EdgesOf(p, at)[n], at), c, f)

\* The value of a lookup whose own lookups have the values of f.
LookupBy(p, f, q) ==
  LET edges == EdgesOf(p, q[1])
      Upto[n \in 0..Len(edges)] == IF n = 0 THEN Opened(p, q) ELSE StepOn(p, f, q[1], n, Upto[n - 1])
  IN  IF q[1] \in q[2].known THEN q[2] ELSE Upto[Len(edges)]

\* The caches a lookup may have on its way.
Since(p, q) == {d \in Caches(p) : q[2].known \cup {q[1]} \subseteq d.known}

\* f adds to the caches of S.
Proper(p, f, S) == \A x \in Spots, d \in S : f[<<x, d>>] \in Caches(p) /\ d.known \subseteq f[<<x, d>>].known

\* u are the caches that a lookup has, re-export by re-export.
Goes(p, f, q, u) ==
  /\ u[0] = Opened(p, q)
  /\ \A n \in 0..Len(EdgesOf(p, q[1])) : u[n] \in Since(p, q)
  /\ \A n \in 1..Len(EdgesOf(p, q[1])) : u[n] = StepOn(p, f, q[1], n, u[n - 1])

\* A place is opened with what its file declares.
LEMMA OpenedFacts ==
  ASSUME NEW p, Scanned(p), NEW q \in Lookups(p)
  PROVE  /\ Opened(p, q) \in Since(p, q)
         /\ Opened(p, q).known = q[2].known \cup {q[1]}
         /\ OwnExports(p, q[1][1], q[1][2]) \subseteq Opened(p, q).declarations[q[1]]
         /\ \A x \in Spots : x # q[1] => Opened(p, q).declarations[x] = q[2].declarations[x]
<1>1. q[1] \in Spots /\ q[2] \in Caches(p)
  BY DEF Lookups
<1>2. OwnExports(p, q[1][1], q[1][2]) \in SUBSET Exported(p)
  BY DEF OwnExports
<1>3. <<>> \in Seq(Files)
  OBVIOUS
<1>4. GrownAt(p, q[2], q[1], OwnExports(p, q[1][1], q[1][2]), Opened(p, q))
  BY <1>1, <1>2, <1>3, AddFoundFacts DEF Opened
<1> QED
  BY <1>4 DEF Since, GrownAt

\* What one step makes of a cache.
Stays(p, f, q, n, c) ==
  LET to == EdgePlace(EdgesOf(p, q[1])[n], q[1])
      d == StepOn(p, f, q[1], n, c)
  IN  /\ d \in Since(p, q)
      /\ to[2] = None => d.known = c.known /\ d.declarations = c.declarations
      /\ to[2] # None => to \in Onward(p, q[1]) /\ to \in Spots /\ d = AddFoundBehind(f[<<to, c>>], q[1], to)

\* One step stays among the caches of the lookup.
LEMMA StepStays ==
  ASSUME NEW p, Scanned(p), NEW q \in Lookups(p), NEW f, Proper(p, f, Since(p, q)),
         NEW n \in 1..Len(EdgesOf(p, q[1])), NEW c \in Since(p, q)
  PROVE  Stays(p, f, q, n, c)
<1> DEFINE at == q[1]
           edge == EdgesOf(p, at)[n]
           to == EdgePlace(edge, at)
           d == StepOn(p, f, at, n, c)
<1>0. Stays(p, f, q, n, c) <=>
        /\ d \in Since(p, q)
        /\ to[2] = None => d.known = c.known /\ d.declarations = c.declarations
        /\ to[2] # None => to \in Onward(p, at) /\ to \in Spots /\ d = AddFoundBehind(f[<<to, c>>], at, to)
  BY Zenon DEF Stays
<1>1. at \in Spots /\ c \in Caches(p) /\ at \in c.known
  BY DEF Lookups, Since
<1>2. /\ edge.target \in Files
      /\ Forwarded(edge, at[2]) # None => to \in Onward(p, at) /\ edge.namespace # at[2]
  BY <1>1, EdgesFacts
<1>3. to[2] = Forwarded(edge, at[2])
  BY DEF EdgePlace
<1>4. d = IF edge.namespace = at[2] THEN AddFound(c, at, {}, <<edge.target>>)
          ELSE IF to[2] = None THEN c ELSE AddFoundBehind(f[<<to, c>>], at, to)
  BY Zenon DEF StepOn, FollowEdge
<1>5. CacheFacts(p, c)
  BY <1>1, CachesFacts
<1> HIDE DEF at, edge, to, d
<1>6. CASE to[2] = None /\ edge.namespace = at[2]
  <2>1. d = AddFound(c, at, {}, <<edge.target>>)
    BY <1>4, <1>6
  <2>2. <<edge.target>> \in Seq(Files) /\ {} \in SUBSET Exported(p)
    BY <1>2
  <2>3. /\ d \in Caches(p) /\ d.known = c.known \cup {at}
        /\ d.declarations[at] = c.declarations[at] \cup {}
        /\ \A x \in Spots : x # at => d.declarations[x] = c.declarations[x]
    <3>1. GrownAt(p, c, at, {}, d)
      BY <1>1, <2>1, <2>2, AddFoundFacts
    <3> QED
      BY <3>1 DEF GrownAt
  <2>4. d.known = c.known
    BY <1>1, <2>3
  <2>5. CacheFacts(p, d)
    BY <2>3, CachesFacts
  <2>6. d.declarations = c.declarations
    <3>1. \A x \in Spots : d.declarations[x] = c.declarations[x]
      BY <2>3
    <3> QED
      BY <1>5, <2>5, <3>1 DEF CacheFacts
  <2>7. d \in Since(p, q)
    BY <2>3, <2>4 DEF Since
  <2> QED
    BY <1>0, <1>6, <2>4, <2>6, <2>7
<1>7. CASE to[2] = None /\ edge.namespace # at[2]
  <2>1. d = c
    BY <1>4, <1>7
  <2> QED
    BY <1>0, <1>7, <2>1
<1>8. CASE to[2] # None
  <2> DEFINE inner == f[<<to, c>>]
  <2>1. to \in Onward(p, at) /\ d = AddFoundBehind(inner, at, to)
    BY <1>2, <1>3, <1>4, <1>8
  <2>2. to \in Spots
    BY <1>1, <2>1, ReachedUnfolds
  <2>3. inner \in Caches(p) /\ c.known \subseteq inner.known
    BY <2>2 DEF Proper
  <2>4. CacheFacts(p, inner)
    BY <2>3, CachesFacts
  <2> HIDE DEF inner
  <2>5. d \in Caches(p) /\ d.known = inner.known \cup {at}
    <3>1. inner.declarations[to] \in SUBSET Exported(p) /\ inner.namespaces[to] \in Seq(Files)
      BY <2>2, <2>4 DEF CacheFacts
    <3>2. d = AddFound(inner, at, inner.declarations[to], inner.namespaces[to])
      BY <2>1 DEF AddFoundBehind
    <3>3. GrownAt(p, inner, at, inner.declarations[to], d)
      BY <1>1, <2>3, <3>1, <3>2, AddFoundFacts
    <3> QED
      BY <3>3 DEF GrownAt
  <2>6. d \in Since(p, q)
    BY <2>3, <2>5 DEF Since
  <2> QED
    BY <1>0, <1>8, <2>1, <2>2, <2>6 DEF inner
<1> QED
  BY <1>6, <1>7, <1>8

\* A lookup goes from cache to cache, in one way only.
LEMMA LookupGoes ==
  ASSUME NEW p, Scanned(p), NEW q \in Lookups(p), q[1] \notin q[2].known,
         NEW f, Proper(p, f, Since(p, q))
  PROVE  /\ \E u : Goes(p, f, q, u)
         /\ \A u : Goes(p, f, q, u) => LookupBy(p, f, q) = u[Len(EdgesOf(p, q[1]))]
<1> DEFINE N == Len(EdgesOf(p, q[1]))
           S == Since(p, q)
           c == Opened(p, q)
           Step(n, v) == StepOn(p, f, q[1], n, v)
           Body(u) == [n \in 0..N |-> IF n = 0 THEN c ELSE Step(n, u[n - 1])]
           U == CHOOSE u : u = Body(u)
           D == [n \in 1..N |-> [v \in S |-> Step(n, v)]]
<1>1. LookupBy(p, f, q) = U[N]
  BY Zenon DEF LookupBy
<1>2. N \in Nat
  <2>1. q[1] \in Spots
    BY DEF Lookups
  <2> QED
    BY <2>1, EdgesFacts
<1>3. c \in S
  BY OpenedFacts
<1>4. \A n \in 1..N, v \in S : Step(n, v) \in S
  BY StepStays, Zenon DEF Stays
<1> HIDE DEF N, S, c, Step
<1>5. D \in Steps(N, S) /\ \A n \in 1..N, v \in S : D[n][v] = Step(n, v)
  BY <1>4, Zenon DEF Steps
<1> HIDE DEF D
<1>6. PICK g : Iterates(g, N, S, c, D)
  BY <1>2, <1>3, <1>5, Iteration
<1>7. /\ g \in [0..N -> S] /\ g[0] = c
      /\ \A n \in 1..N : g[n - 1] \in S /\ g[n] = D[n][g[n - 1]]
  BY <1>2, <1>6, IteratesFacts
<1>8. \A n \in 1..N : g[n] = Step(n, g[n - 1])
  BY <1>5, <1>7
<1>9. g = Body(g)
  <2>1. \A n \in 0..N : g[n] = IF n = 0 THEN c ELSE Step(n, g[n - 1])
    BY <1>2, <1>7, <1>8, OneToN, Zenon
  <2> QED
    BY <1>7, <2>1, Zenon
<1>10. U = Body(U)
  BY <1>9, Zenon
<1> HIDE DEF U
<1>11. U[0] = c /\ \A n \in 1..N : U[n] = Step(n, U[n - 1])
  BY <1>2, <1>10, OneToN, Zenon
<1>12. U[N] = g[N]
  <2>1. \A n \in 1..N : U[n - 1] \in S => U[n] = D[n][U[n - 1]]
    BY <1>5, <1>11, Zenon
  <2> QED
    BY <1>2, <1>6, <1>11, <2>1, OnlyIterate
<1>13. Goes(p, f, q, g)
  BY <1>7, <1>8, Zenon DEF Goes, N, S, c, Step
<1>14. ASSUME NEW u, Goes(p, f, q, u) PROVE U[N] = u[N]
  <2>1. u[0] = c /\ \A n \in 1..N : u[n] = Step(n, u[n - 1])
    BY <1>14, Zenon DEF Goes, N, c, Step
  <2>2. \A n \in 1..N : u[n - 1] \in S => u[n] = D[n][u[n - 1]]
    BY <1>5, <2>1, Zenon
  <2> QED
    BY <1>2, <1>6, <1>12, <2>1, <2>2, OnlyIterate
<1> QED
  BY <1>1, <1>13, <1>14, Zenon DEF N

\* Where two functions agree on the caches of a lookup, it has one value.
LEMMA LookupAgrees ==
  ASSUME NEW p, Scanned(p), NEW q \in Lookups(p), q[1] \notin q[2].known,
         NEW f, NEW g, Proper(p, f, Since(p, q)),
         \A x \in Spots, d \in Since(p, q) : f[<<x, d>>] = g[<<x, d>>]
  PROVE  Proper(p, g, Since(p, q)) /\ LookupBy(p, f, q) = LookupBy(p, g, q)
<1>1. Proper(p, g, Since(p, q))
  BY DEF Proper
<1>2. PICK u : Goes(p, f, q, u)
  BY LookupGoes
<1>3. q[1] \in Spots
  BY DEF Lookups
<1>4. ASSUME NEW n \in 1..Len(EdgesOf(p, q[1])), NEW c \in Since(p, q)
      PROVE  StepOn(p, f, q[1], n, c) = StepOn(p, g, q[1], n, c)
  <2> DEFINE edge == EdgesOf(p, q[1])[n]
             to == EdgePlace(edge, q[1])
  <2>1. Forwarded(edge, q[1][2]) # None => to \in Onward(p, q[1])
    BY <1>3, EdgesFacts
  <2>2. to[2] = Forwarded(edge, q[1][2])
    BY DEF EdgePlace
  <2> HIDE DEF edge, to
  <2>3. to[2] # None => to \in Spots
    BY <1>3, <2>1, <2>2, ReachedUnfolds
  <2>4. to[2] # None => f[<<to, c>>] = g[<<to, c>>]
    BY <2>3
  <2>5. StepOn(p, f, q[1], n, c) = FollowEdge(edge, q[1], to, c, f)
        /\ StepOn(p, g, q[1], n, c) = FollowEdge(edge, q[1], to, c, g)
    BY Zenon DEF StepOn, edge, to
  <2>6. \A h : FollowEdge(edge, q[1], to, c, h) = IF edge.namespace = q[1][2] THEN AddFound(c, q[1], {}, <<edge.target>>)
                ELSE IF to[2] = None THEN c ELSE AddFoundBehind(h[<<to, c>>], q[1], to)
    BY Zenon DEF FollowEdge
  <2> QED
    BY <2>4, <2>5, <2>6
<1>5. Goes(p, g, q, u)
  <2>1. Len(EdgesOf(p, q[1])) \in Nat
    BY <1>3, EdgesFacts
  <2>2. \A n \in 1..Len(EdgesOf(p, q[1])) : u[n - 1] \in Since(p, q)
    BY <1>2, <2>1, OneToN, Zenon DEF Goes
  <2> QED
    BY <1>2, <1>4, <2>2, Zenon DEF Goes
<1> QED
  BY <1>1, <1>2, <1>5, LookupGoes, Zenon

\* How many places a lookup does not know.
Unknown(q) == Cardinality(Spots \ q[2].known)

\* Inside of a lookup there are fewer.
LEMMA FewerUnknown ==
  ASSUME NEW p, NEW q \in Lookups(p)
  PROVE  /\ Unknown(q) \in Nat /\ Unknown(q) <= Cardinality(Spots) /\ Cardinality(Spots) \in Nat
         /\ q[1] \notin q[2].known =>
              \A x \in Spots, d \in Since(p, q) : <<x, d>> \in Lookups(p) /\ Unknown(<<x, d>>) < Unknown(q)
<1>1. IsFiniteSet(Spots) /\ q[1] \in Spots /\ q[2] \in Caches(p)
  BY SpotsAreFinite DEF Lookups
<1>2. \A k : IsFiniteSet(Spots \ k) /\ Spots \ k \subseteq Spots /\ Cardinality(Spots \ k) \in Nat
  BY <1>1, FS_Subset, FS_CardinalityType
<1>3. Cardinality(Spots) \in Nat /\ \A k : Cardinality(Spots \ k) <= Cardinality(Spots)
  BY <1>1, <1>2, FS_Subset, FS_CardinalityType
<1>4. ASSUME q[1] \notin q[2].known, NEW x \in Spots, NEW d \in Since(p, q)
      PROVE  <<x, d>> \in Lookups(p) /\ Unknown(<<x, d>>) < Unknown(q)
  <2>1. d \in Caches(p) /\ q[2].known \subseteq d.known /\ q[1] \in d.known
    BY DEF Since
  <2>2. Spots \ d.known \subseteq Spots \ q[2].known /\ Spots \ d.known # Spots \ q[2].known
    BY <1>1, <1>4, <2>1
  <2>3. Cardinality(Spots \ d.known) < Cardinality(Spots \ q[2].known)
    <3>1. Cardinality(Spots \ d.known) <= Cardinality(Spots \ q[2].known)
      BY <1>2, <2>2, FS_Subset
    <3>2. Cardinality(Spots \ d.known) # Cardinality(Spots \ q[2].known)
      BY <1>2, <2>2, FS_Subset
    <3>3. Cardinality(Spots \ d.known) \in Nat /\ Cardinality(Spots \ q[2].known) \in Nat
      BY <1>2
    <3> QED
      BY <3>1, <3>2, <3>3
  <2> QED
    BY <2>1, <2>3 DEF Lookups, Unknown
<1> QED
  BY <1>2, <1>3, <1>4 DEF Unknown

\* The functions that add to what is known.
Adding(p) == {f \in [Lookups(p) -> Caches(p)] : \A q \in Lookups(p) : q[2].known \subseteq f[q].known}

\* A function whose values are the lookups that go by it.
Solves(p, f) == f = [q \in Lookups(p) |-> LookupBy(p, f, q)]

\* A function that only adds to the caches is proper for every lookup.
LEMMA AddingIsProper ==
  ASSUME NEW p, NEW f \in Adding(p), NEW q \in Lookups(p)
  PROVE  Proper(p, f, Since(p, q))
  BY DEF Proper, Adding, Lookups, Since

\* A lookup only adds to its cache when the lookups inside it do.
LEMMA LookupAdds ==
  ASSUME NEW p, Scanned(p), NEW f \in Adding(p), NEW q \in Lookups(p)
  PROVE  LookupBy(p, f, q) \in Caches(p) /\ q[2].known \subseteq LookupBy(p, f, q).known
<1> DEFINE N == Len(EdgesOf(p, q[1]))
<1>1. CASE q[1] \in q[2].known
  <2>1. LookupBy(p, f, q) = q[2]
    BY <1>1, Zenon DEF LookupBy
  <2> QED
    BY <2>1 DEF Lookups
<1>2. CASE q[1] \notin q[2].known
  <2>1. Proper(p, f, Since(p, q))
    BY AddingIsProper
  <2>2. PICK u : Goes(p, f, q, u)
    BY <1>2, <2>1, LookupGoes
  <2>3. LookupBy(p, f, q) = u[N]
    BY <1>2, <2>1, <2>2, LookupGoes
  <2>4. N \in 0..N
    <3>1. q[1] \in Spots
      BY DEF Lookups
    <3>2. N \in Nat
      BY <3>1, EdgesFacts
    <3> QED
      BY <3>2, OneToN
  <2>5. u[N] \in Since(p, q)
    BY <2>2, <2>4, Zenon DEF Goes
  <2> QED
    BY <2>3, <2>5 DEF Since
<1> QED
  BY <1>1, <1>2

\* There is such a function.
LEMMA SolutionExists ==
  ASSUME NEW p, Scanned(p)
  PROVE  \E f \in Adding(p) : Solves(p, f)
<1> DEFINE M == Cardinality(Spots) + 2
           first == [q \in Lookups(p) |-> q[2]]
           Better(f) == [q \in Lookups(p) |-> LookupBy(p, f, q)]
           D == [n \in 1..M |-> [f \in Adding(p) |-> Better(f)]]
<1>1. Cardinality(Spots) \in Nat /\ M \in Nat /\ M - 1 \in Nat
  BY SpotsAreFinite, FS_CardinalityType
<1>2. first \in Adding(p)
  <2>1. \A q \in Lookups(p) : q[2] \in Caches(p)
    BY DEF Lookups
  <2> QED
    BY <2>1 DEF Adding
<1>3. ASSUME NEW f \in Adding(p) PROVE Better(f) \in Adding(p)
  <2>1. \A q \in Lookups(p) : LookupBy(p, f, q) \in Caches(p) /\ q[2].known \subseteq LookupBy(p, f, q).known
    BY LookupAdds
  <2>2. Better(f) \in [Lookups(p) -> Caches(p)]
    BY <2>1, Zenon
  <2>3. \A q \in Lookups(p) : Better(f)[q] = LookupBy(p, f, q)
    BY Zenon
  <2> HIDE DEF Better
  <2> QED
    BY <2>1, <2>2, <2>3 DEF Adding
<1> HIDE DEF M, first, Better
<1>4. D \in Steps(M, Adding(p)) /\ \A n \in 1..M, f \in Adding(p) : D[n][f] = Better(f)
  BY <1>3, Zenon DEF Steps
<1> HIDE DEF D
<1>5. PICK h : Iterates(h, M, Adding(p), first, D)
  BY <1>1, <1>2, <1>4, Iteration
<1>6. /\ h \in [0..M -> Adding(p)]
      /\ \A n \in 1..M : h[n - 1] \in Adding(p) /\ h[n] = D[n][h[n - 1]]
  BY <1>1, <1>5, IteratesFacts
<1>7. \A n \in 1..M : h[n - 1] \in Adding(p) /\ h[n] = Better(h[n - 1])
  BY <1>4, <1>6
<1> DEFINE Same(k) == \A q \in Lookups(p) : Unknown(q) < k => h[k][q] = h[k + 1][q]
           T == {k \in Nat : k + 1 <= M => Same(k)}
<1>8. 0 \in T
  <2>1. \A q \in Lookups(p) : ~(Unknown(q) < 0)
    BY FewerUnknown
  <2> QED
    BY <2>1
<1>9. ASSUME NEW k \in T PROVE k + 1 \in T
  <2> SUFFICES ASSUME (k + 1) + 1 <= M PROVE Same(k + 1)
    OBVIOUS
  <2>1. k \in Nat /\ k + 1 \in 1..M /\ (k + 1) + 1 \in 1..M /\ (k + 1) - 1 = k /\ ((k + 1) + 1) - 1 = k + 1
    BY <1>1
  <2>2. Same(k)
    BY <1>1, <2>1
  <2>3. /\ h[k] \in Adding(p) /\ h[k + 1] \in Adding(p)
        /\ h[k + 1] = Better(h[k]) /\ h[(k + 1) + 1] = Better(h[k + 1])
    BY <1>7, <2>1
  <2>4. ASSUME NEW q \in Lookups(p), Unknown(q) < k + 1 PROVE h[k + 1][q] = h[(k + 1) + 1][q]
    <3>1. h[k + 1][q] = LookupBy(p, h[k], q) /\ h[(k + 1) + 1][q] = LookupBy(p, h[k + 1], q)
      BY <2>3, Zenon DEF Better
    <3>2. CASE q[1] \in q[2].known
      BY <3>1, <3>2, Zenon DEF LookupBy
    <3>3. CASE q[1] \notin q[2].known
      <4>1. ASSUME NEW x \in Spots, NEW d \in Since(p, q) PROVE h[k][<<x, d>>] = h[k + 1][<<x, d>>]
        <5>1. /\ <<x, d>> \in Lookups(p) /\ Unknown(<<x, d>>) < Unknown(q)
              /\ Unknown(<<x, d>>) \in Nat /\ Unknown(q) \in Nat
          BY <3>3, FewerUnknown
        <5>2. Unknown(<<x, d>>) < k
          BY <2>1, <2>4, <5>1
        <5> QED
          BY <2>2, <5>1, <5>2
      <4>2. Proper(p, h[k], Since(p, q))
        BY <2>3, AddingIsProper
      <4> QED
        BY <3>1, <3>3, <4>1, <4>2, LookupAgrees
    <3> QED
      BY <3>2, <3>3
  <2> QED
    BY <2>4
<1>10. T = Nat
  <2> HIDE DEF T
  <2>1. T \in SUBSET Nat
    BY DEF T
  <2> QED
    BY <1>8, <1>9, <2>1, NaturalInduction
<1> DEFINE m == M - 1
           f == h[m]
<1>11. m \in Nat /\ m + 1 = M /\ m = Cardinality(Spots) + 1 /\ m + 1 \in 1..M /\ (m + 1) - 1 = m
  BY <1>1 DEF M
<1>12. Same(m)
  <2>1. m \in T /\ m + 1 <= M
    BY <1>10, <1>11
  <2> QED
    BY <2>1
<1>13. f \in Adding(p) /\ h[m + 1] = Better(f)
  BY <1>7, <1>11
<1>14. \A q \in Lookups(p) : f[q] = LookupBy(p, f, q)
  <2> SUFFICES ASSUME NEW q \in Lookups(p) PROVE f[q] = LookupBy(p, f, q)
    OBVIOUS
  <2>1. Unknown(q) \in Nat /\ Unknown(q) <= Cardinality(Spots) /\ Cardinality(Spots) \in Nat
    BY FewerUnknown
  <2>2. Unknown(q) < m
    BY <1>11, <2>1
  <2>3. f[q] = h[m + 1][q]
    BY <1>12, <2>2
  <2>4. Better(f)[q] = LookupBy(p, f, q)
    BY Zenon DEF Better
  <2> QED
    BY <1>13, <2>3, <2>4
<1>15. f = [q \in Lookups(p) |-> LookupBy(p, f, q)]
  <2>1. f = [q \in Lookups(p) |-> f[q]]
    BY <1>13 DEF Adding
  <2> HIDE DEF f
  <2> QED
    BY <1>14, <2>1
<1> QED
  BY <1>13, <1>15, Zenon DEF Solves

\* Any function that solves it is that one.
LEMMA SolutionAdds ==
  ASSUME NEW p, Scanned(p), NEW f, Solves(p, f)
  PROVE  f \in Adding(p)
<1>1. PICK h \in Adding(p) : Solves(p, h)
  BY SolutionExists
<1>2. \A q \in Lookups(p) : f[q] = LookupBy(p, f, q) /\ h[q] = LookupBy(p, h, q)
  BY <1>1, Zenon DEF Solves
<1> DEFINE T == {k \in Nat : \A q \in Lookups(p) : Unknown(q) < k => f[q] = h[q]}
<1>3. 0 \in T
  <2>1. \A q \in Lookups(p) : ~(Unknown(q) < 0)
    BY FewerUnknown
  <2> QED
    BY <2>1
<1>4. ASSUME NEW k \in T PROVE k + 1 \in T
  <2> SUFFICES ASSUME NEW q \in Lookups(p), Unknown(q) < k + 1 PROVE f[q] = h[q]
    BY <1>4
  <2>1. CASE q[1] \in q[2].known
    <3>1. LookupBy(p, f, q) = q[2] /\ LookupBy(p, h, q) = q[2]
      BY <2>1, Zenon DEF LookupBy
    <3> QED
      BY <1>2, <3>1
  <2>2. CASE q[1] \notin q[2].known
    <3>1. ASSUME NEW x \in Spots, NEW d \in Since(p, q) PROVE h[<<x, d>>] = f[<<x, d>>]
      <4>1. /\ <<x, d>> \in Lookups(p) /\ Unknown(<<x, d>>) < Unknown(q)
            /\ Unknown(<<x, d>>) \in Nat /\ Unknown(q) \in Nat
        BY <2>2, FewerUnknown
      <4>2. k \in Nat
        BY <1>4
      <4>3. Unknown(<<x, d>>) < k
        BY <4>1, <4>2
      <4> QED
        BY <1>4, <4>1, <4>3
    <3>2. Proper(p, h, Since(p, q))
      BY <1>1, AddingIsProper
    <3>3. LookupBy(p, h, q) = LookupBy(p, f, q)
      BY <2>2, <3>1, <3>2, LookupAgrees
    <3> QED
      BY <1>2, <3>3
  <2> QED
    BY <2>1, <2>2
<1>5. T = Nat
  <2> HIDE DEF T
  <2>1. T \in SUBSET Nat
    BY DEF T
  <2> QED
    BY <1>3, <1>4, <2>1, NaturalInduction
<1>6. \A q \in Lookups(p) : f[q] = h[q]
  <2> SUFFICES ASSUME NEW q \in Lookups(p) PROVE f[q] = h[q]
    OBVIOUS
  <2>1. Unknown(q) \in Nat /\ Unknown(q) + 1 \in Nat /\ Unknown(q) < Unknown(q) + 1
    BY FewerUnknown
  <2>2. Unknown(q) + 1 \in T
    BY <1>5, <2>1
  <2> QED
    BY <2>1, <2>2
<1>7. f = h
  <2>1. f = [q \in Lookups(p) |-> LookupBy(p, f, q)]
    BY Zenon DEF Solves
  <2>2. f = [q \in Lookups(p) |-> f[q]]
    BY <1>2, <2>1, Zenon
  <2>3. h = [q \in Lookups(p) |-> h[q]]
    BY <1>1 DEF Adding
  <2> QED
    BY <1>6, <2>2, <2>3, Zenon
<1> QED
  BY <1>1, <1>7

\* ResolveExport is the value of such a function.
LEMMA ResolveExportSolves ==
  ASSUME NEW p, Scanned(p)
  PROVE  \E f \in Adding(p) : Solves(p, f) /\ \A at, c : ResolveExport(p, at, c) = f[<<at, c>>]
<1> DEFINE f == CHOOSE u : u = [q \in Lookups(p) |-> LookupBy(p, u, q)]
<1>1. \A at, c : ResolveExport(p, at, c) = f[<<at, c>>]
  BY Zenon DEF ResolveExport, LookupBy, Lookups, Spots, EdgesOf, EdgePlace, Opened, StepOn
<1>2. PICK h : h = [q \in Lookups(p) |-> LookupBy(p, h, q)]
  BY SolutionExists DEF Solves
<1>3. f = [q \in Lookups(p) |-> LookupBy(p, f, q)]
  BY <1>2, Zenon
<1> HIDE DEF f
<1>4. Solves(p, f)
  BY <1>3 DEF Solves
<1>5. f \in Adding(p)
  BY <1>4, SolutionAdds
<1> QED
  BY <1>1, <1>4, <1>5

\* What the cache keeps for a place is all the place offers, unless re-exports go around there.
Exact(p, c, x) == ~Circular(p, x) => Offered(p, x) \subseteq c.declarations[x]

\* The places A are being looked up, and lead to `at`; the others are looked up.
Pending(p, c, A, at) ==
  /\ A \in SUBSET c.known /\ \A a \in A : at \in ReachedFrom(p, a)
  /\ \A x \in c.known \ A : Exact(p, c, x)

\* What the cache d has learnt of x from a lookup of `at`.
Knows(p, d, at, x) ==
  /\ Onward(p, x) \subseteq d.known /\ x \in ReachedFrom(p, at)
  /\ OwnExports(p, x[1], x[2]) \subseteq d.declarations[x] \cap d.declarations[at]

\* What a lookup of `at` makes of the cache c.
Learns(p, c, at, d) ==
  /\ d \in Caches(p) /\ c.known \subseteq d.known /\ at \in d.known
  /\ \A x \in c.known : d.declarations[x] = c.declarations[x]
  /\ \A x \in d.known \ c.known : Knows(p, d, at, x)
  /\ \A A : Pending(p, c, A, at) => \A x \in d.known \ c.known : Exact(p, d, x)

\* What one re-export, to a place `to`, makes of the cache c of a lookup of `at`.
Moves(p, at, to, c, d) ==
  /\ c.known \subseteq d.known /\ to \in d.known
  /\ \A x \in c.known : x # at => d.declarations[x] = c.declarations[x]
  /\ c.declarations[at] \subseteq d.declarations[at]
  /\ \A x \in d.known \ c.known : Knows(p, d, at, x)
  /\ \A A : at \in A /\ Pending(p, c, A, at) =>
              /\ \A x \in d.known \ c.known : Exact(p, d, x)
              /\ ~Circular(p, at) => Offered(p, to) \subseteq d.declarations[at]

\* One re-export of a lookup, when the lookups inside it learn what they should.
LEMMA StepMoves ==
  ASSUME NEW p, Scanned(p), NEW f \in Adding(p), NEW q \in Lookups(p),
         NEW n \in 1..Len(EdgesOf(p, q[1])), NEW c \in Since(p, q),
         EdgePlace(EdgesOf(p, q[1])[n], q[1])[2] # None,
         \A x \in Spots : Learns(p, c, x, f[<<x, c>>])
  PROVE  Moves(p, q[1], EdgePlace(EdgesOf(p, q[1])[n], q[1]), c, StepOn(p, f, q[1], n, c))
<1> DEFINE at == q[1]
           to == EdgePlace(EdgesOf(p, at)[n], at)
           d == StepOn(p, f, at, n, c)
           inner == f[<<to, c>>]
<1>1. at \in Spots /\ at \in c.known /\ c \in Caches(p)
  BY DEF Lookups, Since
<1>2. to \in Onward(p, at) /\ to \in Spots /\ d = AddFoundBehind(inner, at, to)
  <2>1. Proper(p, f, Since(p, q))
    BY AddingIsProper
  <2>2. Stays(p, f, q, n, c)
    BY <2>1, StepStays
  <2> QED
    BY <2>2, Zenon DEF Stays
<1>3. Learns(p, c, to, inner)
  BY <1>2
<1> HIDE DEF to, d, inner, at
<1>4. inner \in Caches(p) /\ c.known \subseteq inner.known /\ to \in inner.known
      /\ \A x \in c.known : inner.declarations[x] = c.declarations[x]
  BY <1>3 DEF Learns
<1>5. CacheFacts(p, inner)
  BY <1>4, CachesFacts
<1>6. GrownAt(p, inner, at, inner.declarations[to], d)
  <2>1. inner.declarations[to] \in SUBSET Exported(p) /\ inner.namespaces[to] \in Seq(Files)
    BY <1>2, <1>5 DEF CacheFacts
  <2> QED
    BY <1>1, <1>2, <1>4, <2>1, AddFoundFacts DEF AddFoundBehind
<1>7. /\ d.known = inner.known
      /\ d.declarations[at] = inner.declarations[at] \cup inner.declarations[to]
      /\ \A x \in Spots : x # at => d.declarations[x] = inner.declarations[x]
  BY <1>1, <1>4, <1>6 DEF GrownAt
<1>8. inner.known \subseteq Spots
  BY <1>5 DEF CacheFacts
<1>9. /\ c.known \subseteq d.known /\ to \in d.known
      /\ \A x \in c.known : x # at => d.declarations[x] = c.declarations[x]
      /\ c.declarations[at] \subseteq d.declarations[at]
  BY <1>1, <1>4, <1>7, <1>8
<1>10. ReachedFrom(p, to) \subseteq ReachedFrom(p, at)
  BY <1>1, <1>2, ReachedUnfolds
<1>11. \A x \in d.known \ c.known : x # at /\ x \in Spots /\ d.declarations[x] = inner.declarations[x]
  BY <1>1, <1>7, <1>8
<1>12. \A x \in d.known \ c.known : Knows(p, d, at, x)
  BY <1>3, <1>7, <1>10, <1>11 DEF Learns, Knows
<1>13. ASSUME NEW A, at \in A, Pending(p, c, A, at)
       PROVE  /\ \A x \in d.known \ c.known : Exact(p, d, x)
              /\ ~Circular(p, at) => Offered(p, to) \subseteq d.declarations[at]
  <2>0. Pending(p, c, A, to)
    <3>1. \A a \in A : a \in Spots /\ at \in ReachedFrom(p, a)
      BY <1>4, <1>8, <1>13 DEF Pending
    <3>2. \A a \in A : to \in ReachedFrom(p, a)
      <4> SUFFICES ASSUME NEW a \in A PROVE to \in ReachedFrom(p, a)
        OBVIOUS
      <4>1. a \in Spots /\ at \in ReachedFrom(p, a)
        BY <3>1
      <4>2. ReachedFrom(p, at) \subseteq ReachedFrom(p, a)
        BY <4>1, ReachedUnfolds
      <4>3. to \in ReachedFrom(p, at)
        BY <1>1, <1>2, ReachedUnfolds
      <4> QED
        BY <4>2, <4>3
    <3> QED
      BY <1>13, <3>2 DEF Pending
  <2>1. \A x \in d.known \ c.known : Exact(p, d, x)
    <3>1. \A x \in inner.known \ c.known : Exact(p, inner, x)
      BY <1>3, <2>0 DEF Learns
    <3> QED
      BY <1>7, <1>11, <3>1 DEF Exact
  <2>2. ASSUME ~Circular(p, at) PROVE Offered(p, to) \subseteq d.declarations[at]
    <3>1. ~Circular(p, to) /\ at \notin ReachedFrom(p, to)
      BY <1>1, <1>2, <2>2, StraightFacts, ReachedUnfolds
    <3>2. to \in ReachedFrom(p, to)
      BY <1>2, ReachedUnfolds
    <3>3. to \notin A
      BY <1>13, <3>1 DEF Pending
    <3>4. CASE to \in c.known
      <4>1. Exact(p, c, to)
        BY <1>13, <3>3, <3>4 DEF Pending
      <4>2. Offered(p, to) \subseteq c.declarations[to] /\ inner.declarations[to] = c.declarations[to]
        BY <1>4, <3>1, <3>4, <4>1 DEF Exact
      <4> QED
        BY <1>7, <4>2
    <3>5. CASE to \notin c.known
      <4>1. Exact(p, inner, to)
        BY <1>3, <1>4, <2>0, <3>5 DEF Learns
      <4>2. Offered(p, to) \subseteq inner.declarations[to]
        BY <3>1, <4>1 DEF Exact
      <4> QED
        BY <1>7, <4>2
    <3> QED
      BY <3>4, <3>5
  <2> QED
    BY <2>1, <2>2
<1> QED
  BY <1>9, <1>12, <1>13 DEF Moves, at, to, d

\* What holds of the cache e of the lookup q once its first k re-exports are followed.
Held(p, q, e, k) ==
  /\ e \in Caches(p) /\ q[2].known \cup {q[1]} \subseteq e.known
  /\ \A x \in q[2].known : e.declarations[x] = q[2].declarations[x]
  /\ \A x \in e.known \ q[2].known : x # q[1] => Knows(p, e, q[1], x)
  /\ OwnExports(p, q[1][1], q[1][2]) \subseteq e.declarations[q[1]]
  /\ \A m \in 1..k : LET to == EdgePlace(EdgesOf(p, q[1])[m], q[1]) IN to[2] # None => to \in e.known
  /\ \A A : Pending(p, q[2], A, q[1]) =>
       /\ \A x \in e.known \ q[2].known : x # q[1] => Exact(p, e, x)
       /\ ~Circular(p, q[1]) =>
            \A m \in 1..k : LET to == EdgePlace(EdgesOf(p, q[1])[m], q[1])
                            IN  to[2] # None => Offered(p, to) \subseteq e.declarations[q[1]]

\* The next re-export keeps to it.
LEMMA HeldOn ==
  ASSUME NEW p, Scanned(p), NEW f \in Adding(p), NEW q \in Lookups(p), q[1] \notin q[2].known,
         NEW k \in 1..Len(EdgesOf(p, q[1])), NEW e \in Since(p, q), Held(p, q, e, k - 1),
         \A x \in Spots, d \in Since(p, q) : Learns(p, d, x, f[<<x, d>>])
  PROVE  Held(p, q, StepOn(p, f, q[1], k, e), k)
<1> DEFINE at == q[1]
           c == q[2]
           To(m) == EdgePlace(EdgesOf(p, at)[m], at)
           d == StepOn(p, f, at, k, e)
<1>1. Proper(p, f, Since(p, q))
  BY AddingIsProper
<1>2. /\ d \in Since(p, q)
      /\ To(k)[2] = None => d.known = e.known /\ d.declarations = e.declarations
  <2>1. Stays(p, f, q, k, e)
    BY <1>1, StepStays
  <2> QED
    BY <2>1, Zenon DEF Stays
<1>3. To(k)[2] # None => Moves(p, at, To(k), e, d)
  BY StepMoves
<1>4. at \in Spots /\ c \in Caches(p) /\ CacheFacts(p, c)
  BY CachesFacts DEF Lookups
<1>5. /\ e \in Caches(p) /\ c.known \cup {at} \subseteq e.known
      /\ \A x \in c.known : e.declarations[x] = c.declarations[x]
      /\ \A x \in e.known \ c.known : x # at => Knows(p, e, at, x)
      /\ OwnExports(p, at[1], at[2]) \subseteq e.declarations[at]
      /\ \A m \in 1..(k - 1) : To(m)[2] # None => To(m) \in e.known
      /\ \A A : Pending(p, c, A, at) =>
           /\ \A x \in e.known \ c.known : x # at => Exact(p, e, x)
           /\ ~Circular(p, at) =>
                \A m \in 1..(k - 1) : To(m)[2] # None => Offered(p, To(m)) \subseteq e.declarations[at]
  BY Zenon DEF Held
<1>6. Held(p, q, d, k) <=>
      /\ d \in Caches(p) /\ c.known \cup {at} \subseteq d.known
      /\ \A x \in c.known : d.declarations[x] = c.declarations[x]
      /\ \A x \in d.known \ c.known : x # at => Knows(p, d, at, x)
      /\ OwnExports(p, at[1], at[2]) \subseteq d.declarations[at]
      /\ \A m \in 1..k : To(m)[2] # None => To(m) \in d.known
      /\ \A A : Pending(p, c, A, at) =>
           /\ \A x \in d.known \ c.known : x # at => Exact(p, d, x)
           /\ ~Circular(p, at) =>
                \A m \in 1..k : To(m)[2] # None => Offered(p, To(m)) \subseteq d.declarations[at]
  BY Zenon DEF Held
<1>7. \A m \in 1..k : m = k \/ m \in 1..(k - 1)
  <2>1. Len(EdgesOf(p, at)) \in Nat
    BY <1>4, EdgesFacts
  <2> HIDE DEF at
  <2> QED
    BY <2>1
<1>8. d \in Caches(p) /\ c.known \cup {at} \subseteq d.known
  BY <1>2 DEF Since
<1>0. at \notin c.known
  OBVIOUS
<1> SUFFICES Held(p, q, d, k)
  OBVIOUS
<1> HIDE DEF at, c, To, d
<1>9. CASE To(k)[2] = None
  <2>1. d.known = e.known /\ d.declarations = e.declarations
    BY <1>2, <1>9
  <2>2. \A x : (Knows(p, d, at, x) <=> Knows(p, e, at, x)) /\ (Exact(p, d, x) <=> Exact(p, e, x))
    BY <2>1 DEF Knows, Exact
  <2> QED
    <3>1. /\ \A x \in c.known : d.declarations[x] = c.declarations[x]
          /\ \A x \in d.known \ c.known : x # at => Knows(p, d, at, x)
          /\ OwnExports(p, at[1], at[2]) \subseteq d.declarations[at]
      BY <1>5, <2>1, <2>2
    <3>2. \A m \in 1..k : To(m)[2] # None => To(m) \in d.known
      BY <1>5, <1>7, <1>9, <2>1
    <3>3. ASSUME NEW A, Pending(p, c, A, at)
          PROVE  /\ \A x \in d.known \ c.known : x # at => Exact(p, d, x)
                 /\ ~Circular(p, at) =>
                      \A m \in 1..k : To(m)[2] # None => Offered(p, To(m)) \subseteq d.declarations[at]
      BY <1>5, <1>7, <1>9, <2>1, <2>2, <3>3
    <3> QED
      BY <1>6, <1>8, <3>1, <3>2, <3>3, Zenon
<1>10. CASE To(k)[2] # None
  <2>1. /\ e.known \subseteq d.known /\ To(k) \in d.known
        /\ \A x \in e.known : x # at => d.declarations[x] = e.declarations[x]
        /\ e.declarations[at] \subseteq d.declarations[at]
        /\ \A x \in d.known \ e.known : Knows(p, d, at, x)
        /\ \A A : at \in A /\ Pending(p, e, A, at) =>
             /\ \A x \in d.known \ e.known : Exact(p, d, x)
             /\ ~Circular(p, at) => Offered(p, To(k)) \subseteq d.declarations[at]
    BY <1>3, <1>10 DEF Moves
  <2>2. \A x \in c.known : d.declarations[x] = c.declarations[x]
    BY <1>0, <1>5, <2>1
  <2>3. \A x \in d.known \ c.known : x # at => Knows(p, d, at, x)
    <3>1. \A x \in e.known \ c.known : x # at => Knows(p, d, at, x)
      BY <1>5, <2>1 DEF Knows
    <3> QED
      BY <2>1, <3>1
  <2>4. OwnExports(p, at[1], at[2]) \subseteq d.declarations[at]
    BY <1>5, <2>1
  <2>5. \A m \in 1..k : To(m)[2] # None => To(m) \in d.known
    BY <1>5, <1>7, <2>1
  <2>6. ASSUME NEW A, Pending(p, c, A, at)
        PROVE  /\ \A x \in d.known \ c.known : x # at => Exact(p, d, x)
               /\ ~Circular(p, at) =>
                     \A m \in 1..k : To(m)[2] # None => Offered(p, To(m)) \subseteq d.declarations[at]
    <3>1. /\ \A x \in e.known \ c.known : x # at => Exact(p, e, x)
          /\ ~Circular(p, at) =>
               \A m \in 1..(k - 1) : To(m)[2] # None => Offered(p, To(m)) \subseteq e.declarations[at]
      BY <1>5, <2>6
    <3> DEFINE B == A \cup {at}
    <3>2. Pending(p, e, B, at)
      <4>1. A \in SUBSET c.known /\ (\A a \in A : at \in ReachedFrom(p, a)) /\ \A x \in c.known \ A : Exact(p, c, x)
        BY <2>6 DEF Pending
      <4>2. at \in ReachedFrom(p, at)
        BY <1>4, ReachedUnfolds
      <4>3. B \in SUBSET e.known /\ \A a \in B : at \in ReachedFrom(p, a)
        BY <1>5, <4>1, <4>2
      <4>4. \A x \in c.known \ A : Exact(p, e, x)
        BY <1>5, <4>1 DEF Exact
      <4>5. \A x \in e.known \ B : Exact(p, e, x)
        BY <3>1, <4>4
      <4> QED
        BY <4>3, <4>5 DEF Pending
    <3>3. /\ \A x \in d.known \ e.known : Exact(p, d, x)
          /\ ~Circular(p, at) => Offered(p, To(k)) \subseteq d.declarations[at]
      BY <2>1, <3>2
    <3>4. \A x \in e.known \ c.known : x # at => Exact(p, d, x)
      BY <2>1, <3>1 DEF Exact
    <3>5. \A x \in d.known \ c.known : x # at => Exact(p, d, x)
      BY <3>3, <3>4
    <3>6. ASSUME ~Circular(p, at), NEW m \in 1..k, To(m)[2] # None
          PROVE  Offered(p, To(m)) \subseteq d.declarations[at]
      <4>1. CASE m = k
        BY <3>3, <3>6, <4>1
      <4>2. CASE m \in 1..(k - 1)
        BY <2>1, <3>1, <3>6, <4>2
      <4> QED
        BY <1>7, <4>1, <4>2
    <3> QED
      BY <3>5, <3>6
  <2> QED
    BY <1>6, <1>8, <2>2, <2>3, <2>4, <2>5, <2>6, Zenon
<1> QED
  BY <1>9, <1>10

\* A lookup learns, when the lookups inside of it do.
LEMMA LookupLearns ==
  ASSUME NEW p, Scanned(p), NEW f \in Adding(p), Solves(p, f), NEW q \in Lookups(p), q[1] \notin q[2].known,
         \A x \in Spots, d \in Since(p, q) : Learns(p, d, x, f[<<x, d>>])
  PROVE  Learns(p, q[2], q[1], f[q])
<1> DEFINE at == q[1]
           c == q[2]
           N == Len(EdgesOf(p, at))
           To(m) == EdgePlace(EdgesOf(p, at)[m], at)
<1>1. Proper(p, f, Since(p, q))
  BY AddingIsProper
<1>2. PICK u : Goes(p, f, q, u)
  BY <1>1, LookupGoes
<1>3. f[q] = u[N]
  <2>1. f[q] = LookupBy(p, f, q)
    BY Zenon DEF Solves
  <2>2. LookupBy(p, f, q) = u[N]
    BY <1>1, <1>2, LookupGoes
  <2> QED
    BY <2>1, <2>2
<1>4. at \in Spots /\ c \in Caches(p) /\ N \in Nat
  <2>1. at \in Spots
    BY DEF Lookups
  <2> QED
    BY <2>1, EdgesFacts DEF Lookups
<1>5. /\ u[0] = Opened(p, q) /\ \A n \in 0..N : u[n] \in Since(p, q)
      /\ \A n \in 1..N : u[n] = StepOn(p, f, at, n, u[n - 1])
  BY <1>2, Zenon DEF Goes
<1> DEFINE T == {k \in Nat : k <= N => Held(p, q, u[k], k)}
<1>6. 0 \in T
  <2> DEFINE o == Opened(p, q)
  <2>1. /\ o \in Caches(p) /\ o.known = c.known \cup {at}
        /\ OwnExports(p, at[1], at[2]) \subseteq o.declarations[at]
        /\ \A x \in Spots : x # at => o.declarations[x] = c.declarations[x]
    BY OpenedFacts DEF Since
  <2>2. c.known \subseteq Spots
    BY <1>4, CachesFacts DEF CacheFacts
  <2>3. at \notin c.known
    OBVIOUS
  <2> HIDE DEF o
  <2>4. \A x \in c.known : o.declarations[x] = c.declarations[x]
    BY <2>1, <2>2, <2>3
  <2>5. \A x \in o.known \ c.known : x = at
    BY <2>1
  <2>6. 1..0 = {}
    OBVIOUS
  <2>7. Held(p, q, o, 0)
    BY <2>1, <2>4, <2>5, <2>6, Zenon DEF Held
  <2> QED
    BY <1>5, <2>7 DEF o
<1>7. ASSUME NEW k \in T PROVE k + 1 \in T
  <2> SUFFICES ASSUME k + 1 <= N PROVE Held(p, q, u[k + 1], k + 1)
    OBVIOUS
  <2> HIDE DEF N
  <2>1. k \in Nat /\ k <= N /\ k \in 0..N /\ k + 1 \in 1..N /\ (k + 1) - 1 = k
    BY <1>4
  <2>2. Held(p, q, u[k], k)
    BY <2>1
  <2>3. u[k] \in Since(p, q) /\ u[k + 1] = StepOn(p, f, at, k + 1, u[k])
    BY <1>5, <2>1
  <2>4. k + 1 \in 1..Len(EdgesOf(p, q[1])) /\ Held(p, q, u[k], (k + 1) - 1)
    BY <2>1, <2>2 DEF N
  <2>5. Held(p, q, StepOn(p, f, q[1], k + 1, u[k]), k + 1)
    BY <2>3, <2>4, HeldOn
  <2> QED
    BY <2>3, <2>5
<1>8. T = Nat
  <2> HIDE DEF T
  <2>1. T \in SUBSET Nat
    BY DEF T
  <2> QED
    BY <1>6, <1>7, <2>1, NaturalInduction
<1>9. Held(p, q, u[N], N)
  <2>1. N \in T /\ N <= N
    BY <1>4, <1>8
  <2> QED
    BY <2>1
<1> DEFINE d == f[q]
<1>10. /\ d \in Caches(p) /\ c.known \cup {at} \subseteq d.known
       /\ \A x \in c.known : d.declarations[x] = c.declarations[x]
       /\ \A x \in d.known \ c.known : x # at => Knows(p, d, at, x)
       /\ OwnExports(p, at[1], at[2]) \subseteq d.declarations[at]
       /\ \A m \in 1..N : To(m)[2] # None => To(m) \in d.known
       /\ \A A : Pending(p, c, A, at) =>
            /\ \A x \in d.known \ c.known : x # at => Exact(p, d, x)
            /\ ~Circular(p, at) =>
                 \A m \in 1..N : To(m)[2] # None => Offered(p, To(m)) \subseteq d.declarations[at]
  BY <1>3, <1>9, Zenon DEF Held
<1>11. \A z \in Onward(p, at) : \E m \in 1..N : To(m)[2] # None /\ z = To(m)
  <2>1. \A m \in 1..N : To(m)[2] = Forwarded(EdgesOf(p, at)[m], at[2])
    BY DEF EdgePlace
  <2>2. \A z \in Onward(p, at) : \E m \in 1..N : Forwarded(EdgesOf(p, at)[m], at[2]) # None /\ z = To(m)
    BY <1>4, EdgesFacts
  <2> HIDE DEF To, N
  <2> QED
    BY <2>1, <2>2
<1> HIDE DEF d, To, N, at, c
<1>12. Knows(p, d, at, at)
  <2>1. Onward(p, at) \subseteq d.known
    BY <1>10, <1>11
  <2>2. at \in ReachedFrom(p, at)
    BY <1>4, ReachedUnfolds
  <2> QED
    BY <1>10, <2>1, <2>2 DEF Knows
<1>13. \A x \in d.known \ c.known : Knows(p, d, at, x)
  BY <1>10, <1>12
<1>14. ASSUME NEW A, Pending(p, c, A, at) PROVE \A x \in d.known \ c.known : Exact(p, d, x)
  <2>1. Exact(p, d, at)
    <3> SUFFICES ASSUME ~Circular(p, at), NEW z \in Offered(p, at) PROVE z \in d.declarations[at]
      BY DEF Exact
    <3>1. \A m \in 1..N : To(m)[2] # None => Offered(p, To(m)) \subseteq d.declarations[at]
      BY <1>10, <1>14
    <3>2. z \in OwnExports(p, at[1], at[2]) \/ \E y \in Onward(p, at) : z \in Offered(p, y)
      BY <1>4, OfferedUnfolds
    <3> QED
      BY <1>10, <1>11, <3>1, <3>2
  <2> QED
    BY <1>10, <1>14, <2>1
<1> QED
  BY <1>10, <1>13, <1>14 DEF Learns, d, at, c

\* Every lookup learns.
LEMMA LookupsLearn ==
  ASSUME NEW p, Scanned(p), NEW f \in Adding(p), Solves(p, f)
  PROVE  \A q \in Lookups(p) : Learns(p, q[2], q[1], f[q])
<1> DEFINE T == {k \in Nat : \A q \in Lookups(p) : Unknown(q) < k => Learns(p, q[2], q[1], f[q])}
<1>1. 0 \in T
  <2>1. \A q \in Lookups(p) : ~(Unknown(q) < 0)
    BY FewerUnknown
  <2> QED
    BY <2>1
<1>2. ASSUME NEW k \in T PROVE k + 1 \in T
  <2> SUFFICES ASSUME NEW q \in Lookups(p), Unknown(q) < k + 1 PROVE Learns(p, q[2], q[1], f[q])
    BY <1>2
  <2>1. CASE q[1] \in q[2].known
    <3>1. f[q] = q[2]
      BY <2>1, Zenon DEF Solves, LookupBy
    <3>2. q[2] \in Caches(p)
      BY DEF Lookups
    <3> QED
      BY <2>1, <3>1, <3>2 DEF Learns
  <2>2. CASE q[1] \notin q[2].known
    <3>1. ASSUME NEW x \in Spots, NEW d \in Since(p, q) PROVE Learns(p, d, x, f[<<x, d>>])
      <4>1. /\ <<x, d>> \in Lookups(p) /\ Unknown(<<x, d>>) < Unknown(q)
            /\ Unknown(<<x, d>>) \in Nat /\ Unknown(q) \in Nat
        BY <2>2, FewerUnknown
      <4>2. k \in Nat
        BY <1>2
      <4>3. Unknown(<<x, d>>) < k
        BY <4>1, <4>2
      <4> DEFINE r == <<x, d>>
      <4>4. Learns(p, r[2], r[1], f[r])
        BY <1>2, <4>1, <4>3
      <4> QED
        BY <4>4
    <3> QED
      BY <2>2, <3>1, LookupLearns
  <2> QED
    BY <2>1, <2>2
<1>3. T = Nat
  <2> HIDE DEF T
  <2>1. T \in SUBSET Nat
    BY DEF T
  <2> QED
    BY <1>1, <1>2, <2>1, NaturalInduction
<1> SUFFICES ASSUME NEW q \in Lookups(p) PROVE Learns(p, q[2], q[1], f[q])
  OBVIOUS
<1>4. Unknown(q) \in Nat /\ Unknown(q) + 1 \in Nat /\ Unknown(q) < Unknown(q) + 1
  BY FewerUnknown
<1>5. Unknown(q) + 1 \in T
  BY <1>3, <1>4
<1> QED
  BY <1>4, <1>5

-----------------------------------------------------------------------------
\* The index between lookups.

\* A cache in which nothing is being looked up.
Sound(p, c) ==
  /\ c \in Caches(p)
  /\ \A x \in c.known : Exact(p, c, x) /\ Onward(p, x) \subseteq c.known /\ OwnExports(p, x[1], x[2]) \subseteq c.declarations[x]

\* What looking up a name of a file makes of the cache.
LookedUp(p, at, c, d) ==
  /\ Sound(p, d) /\ c.known \subseteq d.known /\ at \in d.known
  /\ \A x \in c.known : d.declarations[x] = c.declarations[x]
  /\ \A x \in d.known \ c.known :
       x \in ReachedFrom(p, at) /\ OwnExports(p, x[1], x[2]) \subseteq d.declarations[at]

\* Looking up a name of a file: the cache stays sound, knows the place
\* afterwards, leaves the entries it had alone, and what it learnt on the way is
\* with the place.
LEMMA ResolveExportFacts ==
  ASSUME NEW p, Scanned(p), NEW at \in Spots, NEW c, Sound(p, c)
  PROVE  LookedUp(p, at, c, ResolveExport(p, at, c))
<1> DEFINE d == ResolveExport(p, at, c)
<1>1. PICK f \in Adding(p) : Solves(p, f) /\ \A x, b : ResolveExport(p, x, b) = f[<<x, b>>]
  BY ResolveExportSolves
<1>2. Learns(p, c, at, d)
  <2> DEFINE q == <<at, c>>
  <2>1. q \in Lookups(p) /\ q[1] = at /\ q[2] = c
    BY DEF Lookups, Sound
  <2>2. d = f[q]
    BY <1>1
  <2> HIDE DEF q, d
  <2> QED
    BY <1>1, <2>1, <2>2, LookupsLearn
<1> HIDE DEF d
<1>3. /\ d \in Caches(p) /\ c.known \subseteq d.known /\ at \in d.known
      /\ \A x \in c.known : d.declarations[x] = c.declarations[x]
      /\ \A x \in d.known \ c.known : Knows(p, d, at, x)
  BY <1>2 DEF Learns
<1>4. Pending(p, c, {}, at)
  BY DEF Pending, Sound
<1>5. \A x \in d.known \ c.known : Exact(p, d, x)
  BY <1>2, <1>4 DEF Learns
<1>6. \A x \in c.known : /\ Exact(p, d, x) /\ Onward(p, x) \subseteq d.known
                         /\ OwnExports(p, x[1], x[2]) \subseteq d.declarations[x]
  BY <1>3 DEF Sound, Exact
<1>7. \A x \in d.known \ c.known : /\ Onward(p, x) \subseteq d.known /\ x \in ReachedFrom(p, at)
                                   /\ OwnExports(p, x[1], x[2]) \subseteq d.declarations[x]
                                   /\ OwnExports(p, x[1], x[2]) \subseteq d.declarations[at]
  BY <1>3 DEF Knows
<1>8. Sound(p, d)
  BY <1>3, <1>5, <1>6, <1>7 DEF Sound
<1> QED
  BY <1>3, <1>7, <1>8 DEF d, LookedUp

-----------------------------------------------------------------------------
\* What the walk over the imports keeps to.

\* What one state of the walk found, a later one found as well.
More(s, t) ==
  /\ s.surfaces \subseteq t.surfaces /\ s.used \subseteq t.used /\ s.cache.known \subseteq t.cache.known
  /\ \A x \in s.cache.known : t.cache.declarations[x] = s.cache.declarations[x]

\* Of a surface, the files it re-exports as a whole are marked or will be, and
\* what it re-exports by name is used.
Settled(p, s, e) ==
  /\ ToSet(WildcardTargets(p, e)) \subseteq s.surfaces \cup ToSet(s.queue)
  /\ \A n \in ToSet(ReExportedNames(p, e)) :
       <<e, n>> \in s.cache.known /\ s.cache.declarations[<<e, n>>] \subseteq s.used

\* What was looked up is used, but for some declarations, X; all surfaces are
\* settled, but for some, Z.
Kept(p, X, s, Z) ==
  /\ s \in Judgements(p) /\ Sound(p, s.cache)
  /\ \A x \in s.cache.known : OwnExports(p, x[1], x[2]) \subseteq s.used \cup X
  /\ \A e \in s.surfaces \ Z : Settled(p, s, e)

\* What a state of the walk is made of.
LEMMA JudgementsFacts ==
  ASSUME NEW p, NEW s \in Judgements(p)
  PROVE  /\ s.surfaces \in SUBSET Files /\ s.used \in SUBSET Exported(p) /\ s.cache \in Caches(p)
         /\ s.queue \in Seq(Files) /\ ToSet(s.queue) \subseteq Files
         /\ s = [surfaces |-> s.surfaces, used |-> s.used, cache |-> s.cache, queue |-> s.queue]
<1>1. /\ s.surfaces \in SUBSET Files /\ s.used \in SUBSET Exported(p) /\ s.cache \in Caches(p)
      /\ s.queue \in Seq(Files)
      /\ s = [surfaces |-> s.surfaces, used |-> s.used, cache |-> s.cache, queue |-> s.queue]
  BY DEF Judgements
<1>2. ToSet(s.queue) \subseteq Files
  BY <1>1, ConcatSet
<1> QED
  BY <1>1, <1>2

\* There is ever more: an order.
LEMMA MoreFacts ==
  /\ \A s : More(s, s)
  /\ \A s, t, r : More(s, t) /\ More(t, r) => More(s, r)
<1>1. \A s : More(s, s)
  BY DEF More
<1>2. ASSUME NEW s, NEW t, NEW r, More(s, t), More(t, r) PROVE More(s, r)
  BY <1>2 DEF More
<1> QED
  BY <1>1, <1>2

\* Step by step, there is ever more.
LEMMA Growing ==
  ASSUME NEW N \in Nat, NEW f, \A n \in 1..N : More(f[n - 1], f[n])
  PROVE  \A m \in 0..N : More(f[0], f[m]) /\ More(f[m], f[N])
<1> DEFINE T == {k \in Nat : k <= N => More(f[0], f[k]) /\ \A m \in 0..k : More(f[m], f[k])}
<1>1. 0 \in T
  <2>1. \A m \in 0..0 : m = 0
    OBVIOUS
  <2> QED
    BY <2>1, MoreFacts
<1>2. ASSUME NEW k \in T PROVE k + 1 \in T
  <2> SUFFICES ASSUME k + 1 <= N
               PROVE  More(f[0], f[k + 1]) /\ \A m \in 0..(k + 1) : More(f[m], f[k + 1])
    OBVIOUS
  <2>1. k \in Nat /\ k <= N /\ k + 1 \in 1..N /\ (k + 1) - 1 = k
    OBVIOUS
  <2>2. More(f[k], f[k + 1])
    BY <2>1
  <2>3. More(f[0], f[k]) /\ \A m \in 0..k : More(f[m], f[k])
    BY <2>1
  <2>4. \A m \in 0..(k + 1) : m = k + 1 \/ m \in 0..k
    BY <2>1
  <2> QED
    BY <2>2, <2>3, <2>4, MoreFacts
<1>3. T = Nat
  <2> HIDE DEF T
  <2>1. T \in SUBSET Nat
    BY DEF T
  <2> QED
    BY <1>1, <1>2, <2>1, NaturalInduction
<1>4. ASSUME NEW m \in 0..N PROVE More(f[0], f[m]) /\ More(f[m], f[N])
  <2>1. m \in T /\ N \in T /\ m <= N /\ N <= N
    BY <1>3
  <2> QED
    BY <2>1
<1> QED
  BY <1>4

\* A settled surface stays one while more is found and nothing leaves the queue
\* unmarked.
LEMMA SettledStays ==
  ASSUME NEW p, NEW s, NEW t, NEW e, Settled(p, s, e), More(s, t),
         s.surfaces \cup ToSet(s.queue) \subseteq t.surfaces \cup ToSet(t.queue)
  PROVE  Settled(p, t, e)
<1>1. ASSUME NEW n \in ToSet(ReExportedNames(p, e))
      PROVE  <<e, n>> \in t.cache.known /\ t.cache.declarations[<<e, n>>] \subseteq t.used
  <2>1. <<e, n>> \in s.cache.known /\ s.cache.declarations[<<e, n>>] \subseteq s.used
    BY DEF Settled
  <2> QED
    BY <2>1 DEF More
<1>2. ToSet(WildcardTargets(p, e)) \subseteq t.surfaces \cup ToSet(t.queue)
  BY DEF Settled
<1> QED
  BY <1>1, <1>2 DEF Settled

\* After a lookup whose result is used, but for some declarations.
LEMMA KeptWith ==
  ASSUME NEW p, NEW X, NEW Z, NEW s, Kept(p, X, s, Z), NEW at, NEW c, LookedUp(p, at, s.cache, c),
         NEW t \in Judgements(p), t.cache = c, t.surfaces = s.surfaces, s.used \subseteq t.used,
         ToSet(s.queue) \subseteq ToSet(t.queue),
         \A x \in ReachedFrom(p, at) : OwnExports(p, x[1], x[2]) \cap c.declarations[at] \subseteq t.used \cup X
  PROVE  Kept(p, X, t, Z) /\ More(s, t)
<1>1. More(s, t)
  BY DEF LookedUp, More
<1>2. \A e \in t.surfaces \ Z : Settled(p, t, e)
  <2>1. \A e \in s.surfaces \ Z : Settled(p, s, e)
    BY DEF Kept
  <2>2. s.surfaces \cup ToSet(s.queue) \subseteq t.surfaces \cup ToSet(t.queue)
    OBVIOUS
  <2> QED
    BY <1>1, <2>1, <2>2, SettledStays
<1>3. ASSUME NEW x \in c.known PROVE OwnExports(p, x[1], x[2]) \subseteq t.used \cup X
  <2>1. CASE x \in s.cache.known
    BY <2>1 DEF Kept
  <2>2. CASE x \notin s.cache.known
    <3>1. x \in ReachedFrom(p, at) /\ OwnExports(p, x[1], x[2]) \subseteq c.declarations[at]
      BY <2>2 DEF LookedUp
    <3> QED
      BY <3>1
  <2> QED
    BY <2>1, <2>2
<1> QED
  BY <1>1, <1>2, <1>3 DEF Kept, LookedUp

-----------------------------------------------------------------------------
\* The re-exports of a surface.

\* The files re-exported as a whole.
LEMMA WildcardFacts ==
  ASSUME NEW p, Scanned(p), NEW e
  PROVE  /\ WildcardTargets(p, e) \in Seq(Files) /\ ToSet(WildcardTargets(p, e)) \subseteq Files
         /\ \A i \in ToSet(ImportsOf(p, e)) : i.reExport /\ i.wildcard => i.target \in ToSet(WildcardTargets(p, e))
<1> DEFINE I == ToSet(p.imports)
           S == {i \in I : i.reExport}
           W == {i \in I : i.wildcard}
           all == ImportsOf(p, e)
           edges == ReExports(p, e)
           wild == Among(edges, W)
           F == [i \in I |-> i.target]
<1>1. all \in Seq(I) /\ \A i \in ToSet(all) : i \in I /\ i.target \in Files
  BY ImportsOfSet
<1>2. edges = Among(all, S)
  BY Zenon DEF ReExports
<1>3. WildcardTargets(p, e) = [n \in DOMAIN wild |-> wild[n].target]
  BY Zenon DEF WildcardTargets
<1> HIDE DEF I, S, W, all, edges, wild, F
<1>4. edges \in Seq(I) /\ ToSet(edges) = ToSet(all) \cap S
  BY <1>1, <1>2, AmongSet
<1>5. wild \in Seq(I) /\ ToSet(wild) = ToSet(edges) \cap W
  BY <1>4, AmongSet DEF wild
<1>6. \A x \in ToSet(wild) : F[x] \in Files
  BY <1>1, <1>4, <1>5 DEF F
<1>7. Mapped(wild, F) \in Seq(Files) /\ ToSet(Mapped(wild, F)) = {F[x] : x \in ToSet(wild)}
  BY <1>5, <1>6, MappedSet
<1>8. WildcardTargets(p, e) = Mapped(wild, F)
  <2>1. \A n \in DOMAIN wild : wild[n] \in I
    BY <1>5
  <2> QED
    BY <1>3, <2>1 DEF Mapped, F
<1>9. ASSUME NEW i \in ToSet(all), i.reExport, i.wildcard PROVE i.target \in {F[x] : x \in ToSet(wild)}
  <2>1. i \in I /\ i \in S /\ i \in W
    BY <1>1, <1>9 DEF S, W
  <2>2. i \in ToSet(wild) /\ F[i] = i.target
    BY <1>4, <1>5, <2>1 DEF F
  <2> QED
    BY <2>2
<1>10. ToSet(WildcardTargets(p, e)) \subseteq Files
  BY <1>6, <1>7, <1>8
<1> QED
  BY <1>7, <1>8, <1>9, <1>10 DEF all

ExportedBy(i) == [m \in DOMAIN i.entries |-> i.entries[m].exported]

\* The names that one re-export gives to its file.
LEMMA ExportedByFacts ==
  ASSUME NEW p, Scanned(p), NEW i \in ToSet(p.imports)
  PROVE  ExportedBy(i) \in Seq(Names) /\ \A x \in ToSet(i.entries) : x.exported \in ToSet(ExportedBy(i))
<1> DEFINE E == ToSet(i.entries)
           F == [x \in E |-> x.exported]
<1>1. i.entries \in Seq(E) /\ \A x \in E : x.exported \in Names
  BY DEF Scanned
<1>2. \A x \in E : F[x] \in Names /\ F[x] = x.exported
  BY <1>1
<1> HIDE DEF F
<1>3. Mapped(i.entries, F) \in Seq(Names) /\ ToSet(Mapped(i.entries, F)) = {F[x] : x \in E}
  BY <1>1, <1>2, MappedSet
<1>4. ExportedBy(i) = Mapped(i.entries, F)
  <2>1. \A m \in DOMAIN i.entries : i.entries[m] \in E
    BY Zenon DEF ToSet
  <2> QED
    BY <1>2, <2>1 DEF ExportedBy, Mapped
<1> QED
  BY <1>2, <1>3, <1>4

\* The names of the re-exports of a file.
LEMMA ReExportedFacts ==
  ASSUME NEW p, Scanned(p), NEW e
  PROVE  /\ ReExportedNames(p, e) \in Seq(Names)
         /\ \A i \in ToSet(ImportsOf(p, e)) : i.reExport =>
              \A x \in ToSet(i.entries) : x.exported \in ToSet(ReExportedNames(p, e))
<1> DEFINE I == ToSet(p.imports)
           R == {i \in I : i.reExport}
           all == ImportsOf(p, e)
           edges == ReExports(p, e)
           N == Len(edges)
           S == Seq(Names)
           Step(n, v) == v \o ExportedBy(edges[n])
           Body(u) == [n \in 0..N |-> IF n = 0 THEN <<>> ELSE Step(n, u[n - 1])]
           U == CHOOSE u : u = Body(u)
           D == [n \in 1..N |-> [v \in S |-> Step(n, v)]]
<1>1. ReExportedNames(p, e) = U[N]
  BY Zenon DEF ReExportedNames, ExportedBy
<1>2. edges = Among(all, R)
  BY Zenon DEF ReExports
<1>3. all \in Seq(I) /\ \A i \in ToSet(all) : i \in I
  BY ImportsOfSet
<1> HIDE DEF all, R, edges
<1>4. edges \in Seq(I) /\ ToSet(edges) = ToSet(all) \cap R
  BY <1>2, <1>3, AmongSet
<1>5. N \in Nat /\ <<>> \in S /\ \A n \in 1..N : edges[n] \in I
  BY <1>4
<1>6. \A n \in 1..N : ExportedBy(edges[n]) \in Seq(Names)
                      /\ \A x \in ToSet(edges[n].entries) : x.exported \in ToSet(ExportedBy(edges[n]))
  BY <1>5, ExportedByFacts
<1>7. \A n \in 1..N, v \in S : Step(n, v) \in S /\ ToSet(Step(n, v)) = ToSet(v) \cup ToSet(ExportedBy(edges[n]))
  BY <1>6, ConcatSet, ConcatProperties
<1> HIDE DEF N, S, Step
<1>8. D \in Steps(N, S) /\ \A n \in 1..N, v \in S : D[n][v] = Step(n, v)
  BY <1>7, Zenon DEF Steps
<1> HIDE DEF D
<1>9. PICK g : Iterates(g, N, S, <<>>, D)
  BY <1>5, <1>8, Iteration
<1>10. /\ g \in [0..N -> S] /\ g[0] = <<>>
       /\ \A n \in 1..N : g[n - 1] \in S /\ g[n] = D[n][g[n - 1]]
  BY <1>5, <1>9, IteratesFacts
<1>11. \A n \in 1..N : g[n] = Step(n, g[n - 1])
  BY <1>8, <1>10
<1>12. g = Body(g)
  <2>1. \A n \in 0..N : g[n] = IF n = 0 THEN <<>> ELSE Step(n, g[n - 1])
    BY <1>5, <1>10, <1>11, OneToN, Zenon
  <2> QED
    BY <1>10, <2>1, Zenon
<1>13. U = Body(U)
  BY <1>12, Zenon
<1> HIDE DEF U
<1>14. U[0] = <<>> /\ \A n \in 1..N : U[n] = Step(n, U[n - 1])
  BY <1>5, <1>13, OneToN, Zenon
<1>15. \A n \in 0..N : U[n] \in S
  <2>1. U[0] \in S /\ \A n \in 1..N : U[n - 1] \in S => U[n] \in S
    BY <1>5, <1>7, <1>14
  <2> QED
    BY <1>5, <2>1, RunStays
<1> DEFINE Has(k) == \A n \in 1..k : \A x \in ToSet(edges[n].entries) : x.exported \in ToSet(U[k])
           T == {k \in Nat : k <= N => Has(k)}
<1>16. 0 \in T
  <2>1. 1..0 = {}
    OBVIOUS
  <2> QED
    BY <2>1
<1>17. ASSUME NEW k \in T PROVE k + 1 \in T
  <2> SUFFICES ASSUME k + 1 <= N PROVE Has(k + 1)
    OBVIOUS
  <2>1. k \in Nat /\ k \in 0..N /\ k + 1 \in 1..N /\ (k + 1) - 1 = k /\ Has(k)
    BY <1>5
  <2>2. ToSet(U[k + 1]) = ToSet(U[k]) \cup ToSet(ExportedBy(edges[k + 1]))
    BY <1>7, <1>14, <1>15, <2>1
  <2>3. \A n \in 1..(k + 1) : n = k + 1 \/ n \in 1..k
    BY <2>1
  <2>4. \A x \in ToSet(edges[k + 1].entries) : x.exported \in ToSet(ExportedBy(edges[k + 1]))
    BY <1>6, <2>1
  <2> QED
    BY <2>1, <2>2, <2>3, <2>4
<1>18. Has(N)
  <2> HIDE DEF Has
  <2>1. T = Nat
    <3> HIDE DEF T
    <3>1. T \in SUBSET Nat
      BY DEF T
    <3> QED
      BY <1>16, <1>17, <3>1, NaturalInduction
  <2>2. N \in T /\ N <= N
    BY <1>5, <2>1
  <2> QED
    BY <2>2
<1>19. U[N] \in S
  BY <1>5, <1>15
<1>20. ASSUME NEW i \in ToSet(all), NEW x \in ToSet(i.entries), i.reExport PROVE x.exported \in ToSet(U[N])
  <2>1. i \in ToSet(edges)
    BY <1>3, <1>4, <1>20 DEF R
  <2>2. PICK n \in 1..N : i = edges[n]
    <3>1. DOMAIN edges = 1..N
      BY <1>4 DEF N
    <3> QED
      BY <2>1, <3>1, Zenon DEF ToSet
  <2> QED
    BY <1>18, <2>2
<1> QED
  BY <1>1, <1>19, <1>20 DEF S, all

\* What is found under a name of a file is used.
LEMMA UseFoundMakes ==
  ASSUME NEW p, NEW s \in Judgements(p), NEW at \in Spots, NEW c \in Caches(p), NEW t, t = UseFound(s, at, c)
  PROVE  /\ t \in Judgements(p) /\ t.surfaces = s.surfaces /\ t.cache = c
         /\ t.used = s.used \cup c.declarations[at] /\ ToSet(s.queue) \subseteq ToSet(t.queue)
<1>1. c.declarations[at] \in SUBSET Exported(p) /\ c.namespaces[at] \in Seq(Files)
  BY CachesFacts DEF CacheFacts
<1>2. /\ s.surfaces \in SUBSET Files /\ s.used \in SUBSET Exported(p) /\ s.queue \in Seq(Files)
      /\ s = [surfaces |-> s.surfaces, used |-> s.used, cache |-> s.cache, queue |-> s.queue]
  BY JudgementsFacts
<1> DEFINE used == s.used \cup c.declarations[at]
           queue == s.queue \o c.namespaces[at]
<1>3. t = [surfaces |-> s.surfaces, used |-> used, cache |-> c, queue |-> queue]
  BY <1>2 DEF UseFound
<1>4. used \in SUBSET Exported(p) /\ queue \in Seq(Files) /\ ToSet(s.queue) \subseteq ToSet(queue)
  BY <1>1, <1>2, ConcatSet, ConcatProperties
<1> HIDE DEF queue, used
<1>5. t \in Judgements(p) /\ t.surfaces = s.surfaces /\ t.used = used /\ t.cache = c /\ t.queue = queue
  BY <1>2, <1>3, <1>4 DEF Judgements
<1> QED
  BY <1>4, <1>5 DEF used

\* A name of a file that is looked up and used.
UsedAt(p, X, Z, s, at, t) ==
  /\ Kept(p, X, t, Z) /\ More(s, t) /\ t.surfaces = s.surfaces /\ ToSet(s.queue) \subseteq ToSet(t.queue)
  /\ at \in t.cache.known /\ t.cache.declarations[at] \subseteq t.used

\* Using what a name is found to be keeps what the walk keeps to.
LEMMA UseFoundKeeps ==
  ASSUME NEW p, Scanned(p), NEW X, NEW Z, NEW s, Kept(p, X, s, Z), NEW at \in Spots
  PROVE  UsedAt(p, X, Z, s, at, UseFound(s, at, ResolveExport(p, at, s.cache)))
<1> DEFINE c == ResolveExport(p, at, s.cache)
           t == UseFound(s, at, c)
<1>1. s \in Judgements(p) /\ Sound(p, s.cache)
  BY DEF Kept
<1>2. LookedUp(p, at, s.cache, c)
  BY <1>1, ResolveExportFacts
<1> HIDE DEF c
<1>3. c \in Caches(p) /\ at \in c.known
  BY <1>2 DEF LookedUp, Sound
<1>4. /\ t \in Judgements(p) /\ t.surfaces = s.surfaces /\ t.cache = c
      /\ t.used = s.used \cup c.declarations[at] /\ ToSet(s.queue) \subseteq ToSet(t.queue)
  BY <1>1, <1>3, UseFoundMakes
<1> HIDE DEF t
<1>5. Kept(p, X, t, Z) /\ More(s, t)
  BY <1>2, <1>4, KeptWith
<1> QED
  BY <1>3, <1>4, <1>5 DEF UsedAt, t, c

\* Using what a name is found to be leads to a state of the walk.
LEMMA UseFoundStays ==
  ASSUME NEW p, Scanned(p), NEW s \in Judgements(p), NEW at \in Spots
  PROVE  UseFound(s, at, ResolveExport(p, at, s.cache)) \in Judgements(p)
<1> DEFINE c == ResolveExport(p, at, s.cache)
<1>1. c \in Caches(p)
  <2>1. PICK f \in Adding(p) : Solves(p, f) /\ \A x, b : ResolveExport(p, x, b) = f[<<x, b>>]
    BY ResolveExportSolves
  <2>2. <<at, s.cache>> \in Lookups(p)
    BY JudgementsFacts DEF Lookups
  <2>3. f[<<at, s.cache>>] \in Caches(p)
    BY <2>2 DEF Adding
  <2> QED
    BY <2>1, <2>3
<1> HIDE DEF c
<1>2. UseFound(s, at, c) \in Judgements(p)
  BY <1>1, UseFoundMakes
<1> QED
  BY <1>2 DEF c

\* The names of a new surface are used one after the other.
NamesUsed(p, s, file, u) ==
  LET names == ReExportedNames(p, file)
  IN  /\ u[0] = [s EXCEPT !.surfaces = @ \cup {file}]
      /\ \A n \in 0..Len(names) : u[n] \in Judgements(p)
      /\ \A n \in 1..Len(names) :
           u[n] = UseFound(u[n - 1], <<file, names[n]>>, ResolveExport(p, <<file, names[n]>>, u[n - 1].cache))
      /\ Surface(p, s, file) = [u[Len(names)] EXCEPT !.queue = @ \o WildcardTargets(p, file)]

\* The steps by which a file becomes a surface.
LEMMA SurfaceSteps ==
  ASSUME NEW p, Scanned(p), NEW s \in Judgements(p), NEW file \in Files
  PROVE  \E u : NamesUsed(p, s, file, u)
<1> DEFINE names == ReExportedNames(p, file)
           N == Len(names)
           S == Judgements(p)
           c == [s EXCEPT !.surfaces = @ \cup {file}]
           Step(n, v) == UseFound(v, <<file, names[n]>>, ResolveExport(p, <<file, names[n]>>, v.cache))
           Body(u) == [n \in 0..N |-> IF n = 0 THEN c ELSE Step(n, u[n - 1])]
           U == CHOOSE u : u = Body(u)
           D == [n \in 1..N |-> [v \in S |-> Step(n, v)]]
<1>1. Surface(p, s, file) = [U[N] EXCEPT !.queue = @ \o WildcardTargets(p, file)]
  BY Zenon DEF Surface
<1>2. N \in Nat /\ \A n \in 1..N : names[n] \in Names
  <2>1. names \in Seq(Names)
    BY ReExportedFacts
  <2> HIDE DEF names
  <2> QED
    BY <2>1
<1>3. c \in S
  <2>1. s.surfaces \cup {file} \in SUBSET Files
    BY JudgementsFacts
  <2> QED
    BY <2>1 DEF Judgements
<1>4. \A n \in 1..N, v \in S : Step(n, v) \in S
  <2>1. \A n \in 1..N : <<file, names[n]>> \in Spots
    BY <1>2 DEF Spots
  <2> HIDE DEF N, names
  <2> QED
    BY <2>1, UseFoundStays
<1>0. Len(names) = N
  OBVIOUS
<1> HIDE DEF N, S, c, Step
<1>5. D \in Steps(N, S) /\ \A n \in 1..N, v \in S : D[n][v] = Step(n, v)
  BY <1>4, Zenon DEF Steps
<1> HIDE DEF D
<1>6. PICK g : Iterates(g, N, S, c, D)
  BY <1>2, <1>3, <1>5, Iteration
<1>7. /\ g \in [0..N -> S] /\ g[0] = c
      /\ \A n \in 1..N : g[n - 1] \in S /\ g[n] = D[n][g[n - 1]]
  BY <1>2, <1>6, IteratesFacts
<1>8. \A n \in 1..N : g[n] = Step(n, g[n - 1])
  BY <1>5, <1>7
<1>9. g = Body(g)
  <2>1. \A n \in 0..N : g[n] = IF n = 0 THEN c ELSE Step(n, g[n - 1])
    BY <1>2, <1>7, <1>8, OneToN, Zenon
  <2> QED
    BY <1>7, <2>1, Zenon
<1>10. U = Body(U)
  BY <1>9, Zenon
<1> HIDE DEF U
<1>11. U[0] = c /\ \A n \in 1..N : U[n] = Step(n, U[n - 1])
  BY <1>2, <1>10, OneToN, Zenon
<1>12. \A n \in 0..N : U[n] \in S
  <2>1. U[0] \in S /\ \A n \in 1..N : U[n - 1] \in S => U[n] \in S
    BY <1>3, <1>4, <1>11, Zenon
  <2> QED
    BY <1>2, <2>1, RunStays
<1>13. NamesUsed(p, s, file, U)
  BY <1>0, <1>1, <1>11, <1>12, Zenon DEF NamesUsed, c, Step, S
<1> QED
  BY <1>13

\* A file that becomes a surface leads to a state of the walk.
LEMMA SurfaceStays ==
  ASSUME NEW p, Scanned(p), NEW s \in Judgements(p), NEW file \in Files
  PROVE  Surface(p, s, file) \in Judgements(p)
<1> DEFINE N == Len(ReExportedNames(p, file))
<1>1. PICK u : NamesUsed(p, s, file, u)
  BY SurfaceSteps
<1>2. N \in 0..N
  <2>1. N \in Nat
    BY ReExportedFacts
  <2> QED
    BY <2>1, OneToN
<1>3. u[N] \in Judgements(p) /\ Surface(p, s, file) = [u[N] EXCEPT !.queue = @ \o WildcardTargets(p, file)]
  BY <1>1, <1>2, Zenon DEF NamesUsed
<1>4. u[N].queue \o WildcardTargets(p, file) \in Seq(Files)
  BY <1>3, JudgementsFacts, WildcardFacts, ConcatProperties
<1> HIDE DEF N
<1> QED
  BY <1>3, <1>4 DEF Judgements

\* A file that becomes a surface.
LEMMA SurfaceKeeps ==
  ASSUME NEW p, Scanned(p), NEW X, NEW s \in Judgements(p), NEW file \in Files,
         Kept(p, X, [s EXCEPT !.surfaces = @ \cup {file}], {file}),
         NEW t, t = Surface(p, s, file)
  PROVE  /\ Kept(p, X, t, {}) /\ More(s, t) /\ t.surfaces = s.surfaces \cup {file}
         /\ ToSet(s.queue) \subseteq ToSet(t.queue)
<1> DEFINE names == ReExportedNames(p, file)
           N == Len(names)
           c == [s EXCEPT !.surfaces = @ \cup {file}]
           wild == WildcardTargets(p, file)
           Spot(n) == <<file, names[n]>>
<1>1. PICK u : NamesUsed(p, s, file, u)
  BY SurfaceSteps
<1>2. /\ u[0] = c /\ \A n \in 0..N : u[n] \in Judgements(p)
      /\ \A n \in 1..N : u[n] = UseFound(u[n - 1], Spot(n), ResolveExport(p, Spot(n), u[n - 1].cache))
      /\ t = [u[N] EXCEPT !.queue = @ \o wild]
  BY <1>1, Zenon DEF NamesUsed
<1>3. names \in Seq(Names) /\ N \in Nat /\ (\A n \in 1..N : Spot(n) \in Spots) /\ DOMAIN names = 1..N
  <2>1. names \in Seq(Names)
    BY ReExportedFacts
  <2> HIDE DEF names
  <2> QED
    BY <2>1 DEF Spots
<1>4. /\ c \in Judgements(p) /\ c.surfaces = s.surfaces \cup {file} /\ c.queue = s.queue
      /\ c.used = s.used /\ c.cache = s.cache
  <2>1. Kept(p, X, c, {file})
    OBVIOUS
  <2>2. c \in Judgements(p)
    BY <2>1, Zenon DEF Kept
  <2>3. s = [surfaces |-> s.surfaces, used |-> s.used, cache |-> s.cache, queue |-> s.queue]
    BY JudgementsFacts
  <2> QED
    BY <2>2, <2>3
<1>5. Kept(p, X, c, {file})
  OBVIOUS
<1> HIDE DEF names, N, c, wild
<1> DEFINE Fine(r) == /\ Kept(p, X, r, {file}) /\ r.surfaces = s.surfaces \cup {file}
                      /\ ToSet(s.queue) \subseteq ToSet(r.queue)
           G == {r \in Judgements(p) : Fine(r)}
<1>6. ASSUME NEW n \in 1..N, u[n - 1] \in G
      PROVE  /\ u[n] \in G /\ More(u[n - 1], u[n])
             /\ Spot(n) \in u[n].cache.known /\ u[n].cache.declarations[Spot(n)] \subseteq u[n].used
  <2>1. Spot(n) \in Spots /\ u[n] = UseFound(u[n - 1], Spot(n), ResolveExport(p, Spot(n), u[n - 1].cache))
    BY <1>2, <1>3
  <2>2. Kept(p, X, u[n - 1], {file}) /\ u[n - 1].surfaces = s.surfaces \cup {file}
        /\ ToSet(s.queue) \subseteq ToSet(u[n - 1].queue)
    BY <1>6, Zenon
  <2>3. /\ Kept(p, X, u[n], {file}) /\ More(u[n - 1], u[n])
        /\ u[n].surfaces = u[n - 1].surfaces /\ ToSet(u[n - 1].queue) \subseteq ToSet(u[n].queue)
        /\ Spot(n) \in u[n].cache.known /\ u[n].cache.declarations[Spot(n)] \subseteq u[n].used
    <3>1. UsedAt(p, X, {file}, u[n - 1], Spot(n), u[n])
      <4> HIDE DEF Spot
      <4> QED
        BY <2>1, <2>2, UseFoundKeeps
    <3> QED
      BY <3>1 DEF UsedAt
  <2>4. u[n] \in Judgements(p)
    BY <2>3 DEF Kept
  <2>5. Fine(u[n])
    BY <2>2, <2>3
  <2> QED
    BY <2>3, <2>4, <2>5
<1>7. \A n \in 0..N : u[n] \in G
  <2>1. u[0] \in G
    BY <1>2, <1>4, <1>5
  <2> HIDE DEF G
  <2> QED
    BY <1>3, <1>6, <2>1, RunStays
<1>8. \A n \in 1..N : u[n - 1] \in G
  <2> HIDE DEF G
  <2> QED
    BY <1>3, <1>7, OneToN
<1>9. \A m \in 0..N : More(u[0], u[m]) /\ More(u[m], u[N])
  <2>1. \A n \in 1..N : More(u[n - 1], u[n])
    BY <1>6, <1>8
  <2> QED
    BY <1>3, <2>1, Growing
<1>10. N \in 0..N /\ Fine(u[N]) /\ u[N] \in Judgements(p) /\ More(c, u[N])
  <2>1. N \in 0..N
    BY <1>3, OneToN
  <2> QED
    BY <1>2, <1>7, <1>9, <2>1
<1> DEFINE r == u[N]
<1>11. /\ r.surfaces \in SUBSET Files /\ r.used \in SUBSET Exported(p) /\ r.cache \in Caches(p)
       /\ r.queue \in Seq(Files)
       /\ r = [surfaces |-> r.surfaces, used |-> r.used, cache |-> r.cache, queue |-> r.queue]
  BY <1>10, JudgementsFacts
<1>12. wild \in Seq(Files)
  BY WildcardFacts DEF wild
<1> DEFINE queue == r.queue \o wild
<1>13. queue \in Seq(Files) /\ ToSet(queue) = ToSet(r.queue) \cup ToSet(wild)
  BY <1>11, <1>12, ConcatSet, ConcatProperties
<1>14. t = [r EXCEPT !.queue = queue]
  BY <1>2, <1>11
<1> HIDE DEF queue, Fine
<1>15. /\ t.surfaces = r.surfaces /\ t.used = r.used /\ t.cache = r.cache /\ t.queue = queue
       /\ t \in Judgements(p)
  <2> HIDE DEF r
  <2> QED
    BY <1>11, <1>13, <1>14 DEF Judgements
<1>16. Kept(p, X, r, {file}) /\ r.surfaces = s.surfaces \cup {file} /\ ToSet(s.queue) \subseteq ToSet(r.queue)
  BY <1>10 DEF Fine
<1> HIDE DEF r
<1>17. More(r, t)
  BY <1>15 DEF More
<1>18. \A e \in t.surfaces \ {file} : Settled(p, t, e)
  <2>1. \A e \in r.surfaces \ {file} : Settled(p, r, e)
    BY <1>16 DEF Kept
  <2>2. r.surfaces \cup ToSet(r.queue) \subseteq t.surfaces \cup ToSet(t.queue)
    BY <1>13, <1>15
  <2> QED
    BY <1>15, <1>17, <2>1, <2>2, SettledStays
<1>19. Settled(p, t, file)
  <2>1. ASSUME NEW n \in ToSet(names)
        PROVE  <<file, n>> \in t.cache.known /\ t.cache.declarations[<<file, n>>] \subseteq t.used
    <3>1. PICK m \in 1..N : n = names[m]
      BY <1>3, <2>1, Zenon DEF ToSet
    <3>2. Spot(m) \in u[m].cache.known /\ u[m].cache.declarations[Spot(m)] \subseteq u[m].used
      BY <1>6, <1>8
    <3>3. m \in 0..N /\ More(u[m], r)
      BY <1>3, <1>9 DEF r
    <3>4. More(u[m], t)
      BY <1>17, <3>3, MoreFacts
    <3> QED
      BY <3>1, <3>2, <3>4 DEF More
  <2>2. ToSet(wild) \subseteq t.surfaces \cup ToSet(t.queue)
    BY <1>13, <1>15
  <2> QED
    BY <2>1, <2>2 DEF Settled, names, wild
<1>20. Kept(p, X, t, {})
  <2>1. \A e \in t.surfaces \ {} : Settled(p, t, e)
    BY <1>18, <1>19
  <2> QED
    BY <1>15, <1>16, <2>1 DEF Kept
<1>21. More(s, t)
  <2>1. More(c, t)
    BY <1>10, <1>17, MoreFacts DEF r
  <2> QED
    BY <1>4, <2>1 DEF More
<1> QED
  BY <1>13, <1>15, <1>16, <1>20, <1>21

-----------------------------------------------------------------------------
\* Marking files.

Shortened(s) == [s EXCEPT !.queue = Tail(@)]
MarkedOne(p, s) ==
  IF Head(s.queue) \in s.surfaces THEN Shortened(s) ELSE Surface(p, Shortened(s), Head(s.queue))

MarkBy(p, g) ==
  \A s \in Judgements(p) : IF s.queue = <<>> THEN g[s] = s ELSE g[s] = g[MarkedOne(p, s)]

\* Taking the first file off the queue leaves the rest as it is.
LEMMA ShortenedFacts ==
  ASSUME NEW p, NEW s \in Judgements(p), s.queue # <<>>
  PROVE  /\ Head(s.queue) \in Files /\ Shortened(s) \in Judgements(p)
         /\ Shortened(s).surfaces = s.surfaces /\ Shortened(s).used = s.used /\ Shortened(s).cache = s.cache
         /\ Len(Shortened(s).queue) = Len(s.queue) - 1 /\ Len(s.queue) \in Nat
         /\ ToSet(s.queue) = {Head(s.queue)} \cup ToSet(Shortened(s).queue)
<1>1. /\ s.surfaces \in SUBSET Files /\ s.used \in SUBSET Exported(p) /\ s.cache \in Caches(p)
      /\ s.queue \in Seq(Files)
      /\ s = [surfaces |-> s.surfaces, used |-> s.used, cache |-> s.cache, queue |-> s.queue]
  BY JudgementsFacts
<1>2. /\ Head(s.queue) \in Files /\ Tail(s.queue) \in Seq(Files) /\ Len(Tail(s.queue)) = Len(s.queue) - 1
      /\ ToSet(s.queue) = {Head(s.queue)} \cup ToSet(Tail(s.queue))
  BY <1>1, HeadAndTail
<1> DEFINE t == Shortened(s)
           rest == Tail(s.queue)
<1>3. t = [surfaces |-> s.surfaces, used |-> s.used, cache |-> s.cache, queue |-> rest]
  <2>1. t = [s EXCEPT !.queue = rest]
    BY Zenon DEF Shortened
  <2>2. s = [surfaces |-> s.surfaces, used |-> s.used, cache |-> s.cache, queue |-> s.queue]
    BY <1>1
  <2> HIDE DEF t, rest
  <2> QED
    BY <2>1, <2>2
<1>4. Len(s.queue) \in Nat
  BY <1>1
<1> HIDE DEF t, rest
<1>5. t \in Judgements(p) /\ t.surfaces = s.surfaces /\ t.used = s.used /\ t.cache = s.cache /\ t.queue = rest
  BY <1>1, <1>2, <1>3 DEF Judgements, rest
<1> QED
  BY <1>2, <1>4, <1>5 DEF t, rest

\* MarkSurface is the value of a walk that goes by one file of the queue.
LEMMA MarkUnfolds ==
  ASSUME NEW p, Scanned(p)
  PROVE  \E g : MarkBy(p, g) /\ \A start, file : MarkSurface(p, start, file) = g[[start EXCEPT !.queue = <<file>>]]
<1> DEFINE D == Judgements(p)
           Body(g) == [s \in D |-> IF s.queue = <<>> THEN s ELSE g[MarkedOne(p, s)]]
           f == CHOOSE g : g = Body(g)
           T == [s \in D |-> IF s.queue = <<>> THEN s ELSE MarkedOne(p, s)]
           Stop == {s \in D : s.queue = <<>>}
           out == [s \in D |-> s]
<1>1. T \in [D -> D]
  <2>1. ASSUME NEW s \in D, s.queue # <<>> PROVE MarkedOne(p, s) \in D
    <3>1. Head(s.queue) \in Files /\ Shortened(s) \in Judgements(p)
      BY <2>1, ShortenedFacts
    <3>2. Surface(p, Shortened(s), Head(s.queue)) \in Judgements(p)
      BY <3>1, SurfaceStays
    <3> QED
      BY <3>1, <3>2 DEF MarkedOne
  <2> HIDE DEF D
  <2> QED
    BY <2>1, Zenon
<1>2. Stop \in SUBSET D
  OBVIOUS
<1>3. PICK g : g = [s \in D |-> IF s \in Stop THEN out[s] ELSE g[T[s]]]
  <2> HIDE DEF T, Stop, out, D
  <2>1. \E g : CallsItselfLast(g, D, T, Stop, out)
    BY <1>1, <1>2, TailCalls
  <2> QED
    BY <2>1, Zenon DEF CallsItselfLast
<1>4. g = Body(g)
  <2> HIDE DEF D
  <2>1. ASSUME NEW s \in D PROVE g[s] = Body(g)[s]
    <3>1. CASE s.queue = <<>>
      BY <1>3, <3>1, Zenon
    <3>2. CASE s.queue # <<>>
      <4>1. s \notin Stop /\ T[s] = MarkedOne(p, s)
        BY <3>2, Zenon
      <4> QED
        BY <1>3, <3>2, <4>1, Zenon
    <3> QED
      BY <3>1, <3>2
  <2>2. g = [s \in D |-> g[s]]
    <3> HIDE DEF D, Stop, out, T
    <3> QED
      BY <1>3, Zenon
  <2> QED
    BY <2>1, <2>2, Zenon
<1>5. f = Body(f)
  <2> HIDE DEF Body
  <2> QED
    BY <1>4, Zenon
<1>6. MarkBy(p, f)
  <2> HIDE DEF f
  <2> QED
    BY <1>5, Zenon DEF MarkBy
<1>7. \A start, file : MarkSurface(p, start, file) = f[[start EXCEPT !.queue = <<file>>]]
  BY Zenon DEF MarkSurface, MarkedOne, Shortened
<1> QED
  BY <1>6, <1>7, Zenon

\* What taking one more file of the queue does.
HasMarkedOne(p, X, s, t) ==
  /\ Kept(p, X, t, {}) /\ More(s, t)
  /\ ToSet(s.queue) \subseteq t.surfaces \cup ToSet(t.queue)
  /\ \/ t.surfaces = s.surfaces /\ Len(t.queue) = Len(s.queue) - 1
     \/ \E h \in Files \ s.surfaces : t.surfaces = s.surfaces \cup {h}

\* Marking it keeps what the walk has established.
LEMMA MarkedKeeps ==
  ASSUME NEW p, Scanned(p), NEW X, NEW s, Kept(p, X, s, {}), s.queue # <<>>,
         NEW t, t = MarkedOne(p, s)
  PROVE  HasMarkedOne(p, X, s, t)
<1> DEFINE h == Head(s.queue)
           rest == Shortened(s)
<1>1. /\ s \in Judgements(p) /\ Sound(p, s.cache)
      /\ \A x \in s.cache.known : OwnExports(p, x[1], x[2]) \subseteq s.used \cup X
      /\ \A e \in s.surfaces : Settled(p, s, e)
  BY DEF Kept
<1>2. /\ h \in Files /\ rest \in Judgements(p)
      /\ rest.surfaces = s.surfaces /\ rest.used = s.used /\ rest.cache = s.cache
      /\ Len(rest.queue) = Len(s.queue) - 1 /\ ToSet(s.queue) = {h} \cup ToSet(rest.queue)
  BY <1>1, ShortenedFacts
<1>3. More(s, rest)
  BY <1>2 DEF More
<1>4. t = IF h \in s.surfaces THEN rest ELSE Surface(p, rest, h)
  BY DEF MarkedOne
<1> HIDE DEF h, rest
<1>5. CASE h \in s.surfaces
  <2>1. \A e \in s.surfaces : Settled(p, rest, e)
    <3>1. s.surfaces \cup ToSet(s.queue) \subseteq rest.surfaces \cup ToSet(rest.queue)
      BY <1>2, <1>5
    <3> QED
      BY <1>1, <1>3, <3>1, SettledStays
  <2>2. Kept(p, X, rest, {})
    BY <1>1, <1>2, <2>1 DEF Kept
  <2> QED
    BY <1>2, <1>3, <1>4, <1>5, <2>2 DEF HasMarkedOne
<1>6. CASE h \notin s.surfaces
  <2> DEFINE new == [rest EXCEPT !.surfaces = @ \cup {h}]
  <2>1. /\ new.surfaces = rest.surfaces \cup {h} /\ new.used = rest.used /\ new.cache = rest.cache
        /\ new.queue = rest.queue /\ new \in Judgements(p)
    <3>1. /\ rest.surfaces \in SUBSET Files /\ rest.used \in SUBSET Exported(p) /\ rest.cache \in Caches(p)
          /\ rest.queue \in Seq(Files)
          /\ rest = [surfaces |-> rest.surfaces, used |-> rest.used, cache |-> rest.cache, queue |-> rest.queue]
      BY <1>2, JudgementsFacts
    <3> QED
      BY <1>2, <3>1 DEF Judgements
  <2> HIDE DEF new
  <2>2. More(s, new)
    BY <1>2, <2>1 DEF More
  <2>3. \A e \in new.surfaces \ {h} : Settled(p, new, e)
    <3>1. s.surfaces \cup ToSet(s.queue) \subseteq new.surfaces \cup ToSet(new.queue)
      BY <1>2, <2>1
    <3>2. \A e \in s.surfaces : Settled(p, new, e)
      BY <1>1, <2>2, <3>1, SettledStays
    <3> QED
      BY <1>2, <2>1, <3>2
  <2>4. Kept(p, X, new, {h})
    BY <1>1, <1>2, <2>1, <2>3 DEF Kept
  <2>5. Kept(p, X, [rest EXCEPT !.surfaces = @ \cup {h}], {h})
    BY <2>4 DEF new
  <2>6. t = Surface(p, rest, h)
    BY <1>4, <1>6
  <2>7. /\ Kept(p, X, t, {}) /\ More(rest, t) /\ t.surfaces = rest.surfaces \cup {h}
        /\ ToSet(rest.queue) \subseteq ToSet(t.queue)
    BY <1>2, <2>5, <2>6, SurfaceKeeps
  <2>8. More(s, t)
    BY <1>3, <2>7, MoreFacts
  <2> QED
    BY <1>2, <1>6, <2>7, <2>8 DEF HasMarkedOne
<1> QED
  BY <1>5, <1>6

\* What a walk that marks is at its end.
Ended(p, X, s, t) ==
  /\ Kept(p, X, t, {}) /\ t.queue = <<>> /\ More(s, t) /\ ToSet(s.queue) \subseteq t.surfaces

\* The walk over the queue ends, with every file of the queue marked: a file that
\* is marked again only shortens the queue.
LEMMA MarkEnds ==
  ASSUME NEW p, Scanned(p), NEW X, NEW g, MarkBy(p, g)
  PROVE  \A s : Kept(p, X, s, {}) => Ended(p, X, s, g[s])
<1> DEFINE D == Judgements(p)
           f == [s \in D |-> Cardinality(Files \ s.surfaces)]
           l == [s \in D |-> Len(s.queue)]
           B == {s \in D : Kept(p, X, s, {}) /\ ~Ended(p, X, s, g[s])}
<1>1. IsFiniteSet(Files)
  BY ScanConstants
<1>2. f \in [D -> Nat] /\ l \in [D -> Nat]
  <2>1. \A V : Cardinality(Files \ V) \in Nat
    BY <1>1, FS_Difference, FS_CardinalityType
  <2>2. \A s \in D : Len(s.queue) \in Nat
    BY JudgementsFacts, LenProperties
  <2> HIDE DEF D
  <2> QED
    BY <2>1, <2>2
<1>3. \A s : Kept(p, X, s, {}) => s \in D
  BY DEF Kept
<1> SUFFICES ASSUME B # {} PROVE FALSE
  BY <1>3
<1>4. PICK s \in B : \A r \in B : f[s] < f[r] \/ (f[s] = f[r] /\ l[s] <= l[r])
  <2>1. B \in SUBSET D /\ B # {}
    OBVIOUS
  <2> HIDE DEF f, l, D, B
  <2>2. \E s : IsLeast(s, B, f, l)
    BY <1>2, <2>1, LeastOfTwo
  <2> QED
    BY <2>2, Zenon DEF IsLeast
<1>5. s \in D /\ Kept(p, X, s, {}) /\ ~Ended(p, X, s, g[s])
  BY <1>4
<1>6. s.queue # <<>>
  <2> SUFFICES ASSUME s.queue = <<>> PROVE FALSE
    OBVIOUS
  <2>1. g[s] = s
    BY <1>5, Zenon DEF MarkBy
  <2>2. ToSet(s.queue) = {}
    <3>1. <<>> \in Seq(Files)
      OBVIOUS
    <3> QED
      BY <3>1, FirstOf
  <2> QED
    BY <1>5, <2>1, <2>2, MoreFacts DEF Ended
<1> DEFINE t == MarkedOne(p, s)
<1>7. g[s] = g[t]
  BY <1>5, <1>6, Zenon DEF MarkBy
<1>8. /\ Kept(p, X, t, {}) /\ More(s, t)
      /\ ToSet(s.queue) \subseteq t.surfaces \cup ToSet(t.queue)
      /\ \/ t.surfaces = s.surfaces /\ Len(t.queue) = Len(s.queue) - 1
         \/ \E h \in Files \ s.surfaces : t.surfaces = s.surfaces \cup {h}
  <2>1. HasMarkedOne(p, X, s, t)
    <3> HIDE DEF D, f, l, B
    <3> QED
      BY <1>5, <1>6, MarkedKeeps
  <2> QED
    BY <2>1 DEF HasMarkedOne
<1> HIDE DEF t
<1>9. t \in D
  BY <1>3, <1>8
<1>10. t \notin B
  <2>1. f[s] = Cardinality(Files \ s.surfaces) /\ f[t] = Cardinality(Files \ t.surfaces)
        /\ l[s] = Len(s.queue) /\ l[t] = Len(t.queue)
    BY <1>5, <1>9
  <2>2. f[s] \in Nat /\ l[s] \in Nat
    BY <1>2, <1>5
  <2> HIDE DEF f, l, B, D
  <2>3. CASE t.surfaces = s.surfaces /\ Len(t.queue) = Len(s.queue) - 1
    BY <1>4, <2>1, <2>2, <2>3
  <2>4. CASE \E h \in Files \ s.surfaces : t.surfaces = s.surfaces \cup {h}
    <3>1. PICK h \in Files \ s.surfaces : t.surfaces = s.surfaces \cup {h}
      BY <2>4
    <3> DEFINE W == Files \ s.surfaces
    <3>2. Files \ t.surfaces = W \ {h} /\ h \in W
      BY <3>1
    <3>3. IsFiniteSet(W)
      BY <1>1, FS_Difference
    <3>4. f[s] = Cardinality(W)
      BY <2>1
    <3> HIDE DEF W
    <3>5. Cardinality(W \ {h}) = Cardinality(W) - 1
      BY <3>2, <3>3, FS_RemoveElement
    <3>6. f[t] = f[s] - 1
      BY <2>1, <3>2, <3>4, <3>5
    <3> QED
      BY <1>4, <2>2, <3>6
  <2> QED
    BY <1>8, <2>3, <2>4
<1>11. Ended(p, X, t, g[t])
  BY <1>8, <1>9, <1>10
<1>12. Ended(p, X, s, g[s])
  <2>1. ToSet(s.queue) \subseteq g[t].surfaces
    BY <1>8, <1>11 DEF Ended, More
  <2>2. More(s, g[t])
    BY <1>8, <1>11, MoreFacts DEF Ended
  <2> QED
    BY <1>7, <1>11, <2>1, <2>2 DEF Ended
<1> QED
  BY <1>5, <1>12

\* The states between the marks.
Resting(p, X, s) == Kept(p, X, s, {}) /\ s.queue = <<>>

\* markSurface keeps what the walk keeps to, and the file is a surface then.
LEMMA MarkSurfaceKeeps ==
  ASSUME NEW p, Scanned(p), NEW X, NEW s, Resting(p, X, s), NEW file \in Files,
         NEW t, t = MarkSurface(p, s, file)
  PROVE  Resting(p, X, t) /\ More(s, t) /\ file \in t.surfaces
<1>1. PICK g : MarkBy(p, g) /\ \A start, x : MarkSurface(p, start, x) = g[[start EXCEPT !.queue = <<x>>]]
  BY MarkUnfolds
<1> DEFINE r == [s EXCEPT !.queue = <<file>>]
           one == <<file>>
<1>2. Kept(p, X, s, {}) /\ s.queue = <<>>
  BY DEF Resting
<1>3. s \in Judgements(p)
  BY <1>2 DEF Kept
<1>4. one \in Seq(Files) /\ file \in ToSet(one)
  <2>1. one \in Seq(Files) /\ one # <<>> /\ Head(one) = file
    OBVIOUS
  <2> HIDE DEF one
  <2> QED
    BY <2>1, HeadAndTail
<1>5. r.surfaces = s.surfaces /\ r.used = s.used /\ r.cache = s.cache /\ r.queue = one /\ r \in Judgements(p)
  <2>1. /\ s.surfaces \in SUBSET Files /\ s.used \in SUBSET Exported(p) /\ s.cache \in Caches(p)
        /\ s = [surfaces |-> s.surfaces, used |-> s.used, cache |-> s.cache, queue |-> s.queue]
    BY <1>3, JudgementsFacts
  <2> QED
    BY <1>4, <2>1 DEF Judgements
<1>6. t = g[r]
  BY <1>1
<1> HIDE DEF r, one
<1>7. More(s, r)
  BY <1>5 DEF More
<1>8. Kept(p, X, r, {})
  <2>1. ToSet(s.queue) = {}
    <3>1. <<>> \in Seq(Files)
      OBVIOUS
    <3> QED
      BY <1>2, <3>1, FirstOf
  <2>2. \A e \in s.surfaces : Settled(p, r, e)
    <3>1. \A e \in s.surfaces : Settled(p, s, e)
      BY <1>2 DEF Kept
    <3>2. s.surfaces \cup ToSet(s.queue) \subseteq r.surfaces \cup ToSet(r.queue)
      BY <1>5, <2>1
    <3> QED
      BY <1>7, <3>1, <3>2, SettledStays
  <2> QED
    BY <1>2, <1>5, <2>2 DEF Kept
<1>9. Ended(p, X, r, g[r])
  BY <1>1, <1>8, MarkEnds
<1>10. Resting(p, X, t)
  BY <1>6, <1>9 DEF Ended, Resting
<1>11. More(s, t)
  BY <1>6, <1>7, <1>9, MoreFacts DEF Ended
<1>12. file \in t.surfaces
  BY <1>4, <1>5, <1>6, <1>9 DEF Ended
<1> QED
  BY <1>10, <1>11, <1>12

\* So do several files one after the other.
LEMMA MarkSurfacesKeeps ==
  ASSUME NEW p, Scanned(p), NEW X, NEW s, Resting(p, X, s), NEW files \in Seq(Files),
         NEW t, t = MarkSurfaces(p, s, files)
  PROVE  Resting(p, X, t) /\ More(s, t) /\ ToSet(files) \subseteq t.surfaces
<1> DEFINE N == Len(files)
           S == {r \in Judgements(p) : Resting(p, X, r)}
           Step(n, v) == MarkSurface(p, v, files[n])
           Body(u) == [n \in 0..N |-> IF n = 0 THEN s ELSE Step(n, u[n - 1])]
           U == CHOOSE u : u = Body(u)
           D == [n \in 1..N |-> [v \in S |-> Step(n, v)]]
<1>1. MarkSurfaces(p, s, files) = U[N]
  BY Zenon DEF MarkSurfaces
<1>2. N \in Nat /\ DOMAIN files = 1..N /\ \A n \in 1..N : files[n] \in Files
  OBVIOUS
<1>3. s \in S
  BY DEF Resting, Kept
<1>4. ASSUME NEW n \in 1..N, NEW v \in S
      PROVE  Step(n, v) \in S /\ More(v, Step(n, v)) /\ files[n] \in Step(n, v).surfaces
  <2>1. Resting(p, X, v) /\ files[n] \in Files
    BY <1>2
  <2>2. Resting(p, X, Step(n, v)) /\ More(v, Step(n, v)) /\ files[n] \in Step(n, v).surfaces
    BY <2>1, MarkSurfaceKeeps
  <2> HIDE DEF Step
  <2> QED
    BY <2>2 DEF Resting, Kept
<1>5. \A v \in S : Resting(p, X, v)
  OBVIOUS
<1> HIDE DEF N, S, Step
<1>6. D \in Steps(N, S) /\ \A n \in 1..N, v \in S : D[n][v] = Step(n, v)
  BY <1>4, Zenon DEF Steps
<1> HIDE DEF D
<1>7. PICK g : Iterates(g, N, S, s, D)
  BY <1>2, <1>3, <1>6, Iteration
<1>8. /\ g \in [0..N -> S] /\ g[0] = s
      /\ \A n \in 1..N : g[n - 1] \in S /\ g[n] = D[n][g[n - 1]]
  BY <1>2, <1>7, IteratesFacts
<1>9. \A n \in 1..N : g[n] = Step(n, g[n - 1])
  BY <1>6, <1>8
<1>10. g = Body(g)
  <2>1. \A n \in 0..N : g[n] = IF n = 0 THEN s ELSE Step(n, g[n - 1])
    BY <1>2, <1>8, <1>9, OneToN, Zenon
  <2> QED
    BY <1>8, <2>1, Zenon
<1>11. U = Body(U)
  BY <1>10, Zenon
<1> HIDE DEF U
<1>12. U[0] = s /\ \A n \in 1..N : U[n] = Step(n, U[n - 1])
  BY <1>2, <1>11, OneToN, Zenon
<1>13. \A n \in 0..N : U[n] \in S
  <2>1. U[0] \in S /\ \A n \in 1..N : U[n - 1] \in S => U[n] \in S
    BY <1>3, <1>4, <1>12, Zenon
  <2> QED
    BY <1>2, <2>1, RunStays
<1>14. \A n \in 1..N : More(U[n - 1], U[n]) /\ files[n] \in U[n].surfaces
  <2>1. \A n \in 1..N : U[n - 1] \in S
    BY <1>2, <1>13, OneToN
  <2> QED
    BY <1>4, <1>12, <2>1, Zenon
<1>15. \A m \in 0..N : More(U[0], U[m]) /\ More(U[m], U[N])
  BY <1>2, <1>14, Growing
<1>16. N \in 0..N /\ \A n \in 1..N : n \in 0..N
  BY <1>2
<1>17. Resting(p, X, U[N]) /\ More(s, U[N])
  BY <1>5, <1>12, <1>13, <1>15, <1>16
<1>18. ASSUME NEW f \in ToSet(files) PROVE f \in U[N].surfaces
  <2>1. PICK n \in 1..N : f = files[n]
    BY <1>2, Zenon DEF ToSet
  <2>2. f \in U[n].surfaces /\ More(U[n], U[N])
    BY <1>14, <1>15, <1>16, <2>1
  <2> QED
    BY <2>2 DEF More
<1> QED
  BY <1>1, <1>17, <1>18

-----------------------------------------------------------------------------
\* What surfaces offer.

\* An export of a file is declared in it: ids are unique.
LEMMA OwnFile ==
  ASSUME NEW p, Scanned(p), NEW file, NEW name, NEW d \in OwnExports(p, file, name)
  PROVE  FileOf(p, d) = file /\ d \in Exported(p)
<1>1. PICK x \in Declarations(p) : x.file = file /\ x.id = d /\ x.id \in Exported(p)
  BY DEF OwnExports
<1>2. \A y, z \in Declarations(p) : y.id = z.id => y = z
  BY Zenon DEF Scanned, Declarations
<1> DEFINE y == CHOOSE y \in Declarations(p) : y.id = d
<1>3. y \in Declarations(p) /\ y.id = d
  BY <1>1, Zenon
<1>4. y = x
  BY <1>1, <1>2, <1>3
<1> QED
  BY <1>1, <1>4, Zenon DEF FileOf

\* A name is forwarded by a whole re-export or by a re-export of the name.
LEMMA ForwardedBy ==
  ASSUME NEW p, Scanned(p), NEW i \in ToSet(p.imports), NEW name, Forwarded(i, name) # None
  PROVE  i.reExport /\ (i.wildcard \/ \E x \in ToSet(i.entries) : x.exported = name)
<1> DEFINE set == {e \in ToSet(i.entries) : e.exported = name}
           renamed == First(Among(i.entries, set))
<1>1. i.entries \in Seq(ToSet(i.entries))
  BY DEF Scanned
<1>2. i.reExport
  BY Zenon DEF Forwarded
<1>3. ~i.wildcard => renamed # None
  BY <1>2, Zenon DEF Forwarded
<1>4. ASSUME renamed # None PROVE \E x \in ToSet(i.entries) : x.exported = name
  <2>1. renamed \in ToSet(i.entries) \cap set
    <3> HIDE DEF set
    <3> QED
      BY <1>1, <1>4, FirstAmong
  <2> QED
    BY <2>1
<1> QED
  BY <1>2, <1>3, <1>4

\* What a surface offers is in a surface, or it is used.
LEMMA SurfaceOffers ==
  ASSUME NEW p, Scanned(p), NEW X, NEW s, Resting(p, X, s), NEW at \in Spots, at[1] \in s.surfaces,
         NEW d \in Offered(p, at)
  PROVE  FileOf(p, d) \in s.surfaces \/ d \in s.used \/ (Circular(p, at) /\ d \in X)
<1> DEFINE known == s.cache.known
           Good(x) == x \in known /\ (~Circular(p, at) => Offered(p, x) \subseteq s.used)
           R == ReachedFrom(p, at)
           C == {x \in R : x[1] \in s.surfaces \/ Good(x)}
<1>1. /\ s \in Judgements(p) /\ Sound(p, s.cache) /\ s.queue = <<>>
      /\ \A x \in known : OwnExports(p, x[1], x[2]) \subseteq s.used \cup X
      /\ \A e \in s.surfaces : Settled(p, s, e)
  BY DEF Resting, Kept
<1>2. \A x \in known : Onward(p, x) \subseteq known /\ Exact(p, s.cache, x)
  BY <1>1 DEF Sound
<1>3. ToSet(s.queue) = {}
  <2>1. <<>> \in Seq(Files)
    OBVIOUS
  <2> QED
    BY <1>1, <2>1, FirstOf
<1>4. R \in SUBSET Spots /\ at \in R /\ \A x \in R : Onward(p, x) \subseteq R
  <2>1. {at} \in SUBSET Spots
    OBVIOUS
  <2> QED
    BY <2>1, ReachedFacts DEF ReachedFrom
<1>5. \A x \in R : ~Circular(p, at) => ~Circular(p, x)
  BY StraightFacts
<1>6. \A x \in Spots : \A z \in Onward(p, x) : Offered(p, z) \subseteq Offered(p, x)
  <2> SUFFICES ASSUME NEW x \in Spots, NEW z \in Onward(p, x), NEW y \in Offered(p, z) PROVE y \in Offered(p, x)
    OBVIOUS
  <2>1. z \in Spots /\ z \in ReachedFrom(p, x) /\ ReachedFrom(p, z) \subseteq ReachedFrom(p, x)
    BY ReachedUnfolds
  <2>2. \E w \in ReachedFrom(p, z) : y \in OwnExports(p, w[1], w[2])
    BY <2>1, OfferedUnfolds
  <2> QED
    BY <2>1, <2>2, OfferedUnfolds
<1> HIDE DEF R
<1>7. ASSUME NEW x \in C, NEW z \in Onward(p, x) PROVE z \in C
  <2>1. x \in R /\ x \in Spots /\ z \in R /\ Offered(p, z) \subseteq Offered(p, x)
    BY <1>4, <1>6, <1>7
  <2>2. CASE Good(x)
    BY <1>2, <1>7, <2>1, <2>2
  <2>3. CASE x[1] \in s.surfaces
    <3>1. PICK i \in ToSet(ImportsOf(p, x[1])) : Forwarded(i, x[2]) # None /\ z = <<i.target, Forwarded(i, x[2])>>
      BY <1>7, Zenon DEF Onward
    <3>2. i \in ToSet(p.imports)
      BY ImportsOfSet
    <3>3. i.reExport /\ (i.wildcard \/ \E y \in ToSet(i.entries) : y.exported = x[2])
      BY <3>1, <3>2, ForwardedBy
    <3>4. CASE i.wildcard
      <4>1. i.target \in ToSet(WildcardTargets(p, x[1]))
        BY <3>3, <3>4, WildcardFacts
      <4>2. i.target \in s.surfaces
        BY <1>1, <1>3, <2>3, <4>1 DEF Settled
      <4> QED
        BY <2>1, <3>1, <4>2
    <3>5. CASE \E y \in ToSet(i.entries) : y.exported = x[2]
      <4>1. x[2] \in ToSet(ReExportedNames(p, x[1]))
        BY <3>3, <3>5, ReExportedFacts
      <4>2. x = <<x[1], x[2]>>
        BY <2>1 DEF Spots
      <4>3. x \in known /\ s.cache.declarations[x] \subseteq s.used
        BY <1>1, <2>3, <4>1, <4>2 DEF Settled
      <4>4. ~Circular(p, at) => Offered(p, x) \subseteq s.used
        BY <1>2, <1>5, <2>1, <4>3 DEF Exact
      <4> QED
        BY <1>2, <1>7, <2>1, <4>3, <4>4
    <3> QED
      BY <3>3, <3>4, <3>5
  <2> QED
    BY <1>7, <2>2, <2>3
<1>8. R \subseteq C
  <2>1. C \in SUBSET Spots /\ {at} \subseteq C /\ {at} \in SUBSET Spots
    BY <1>4
  <2>2. \A x \in C : Onward(p, x) \subseteq C
    BY <1>7
  <2> HIDE DEF C
  <2> QED
    BY <2>1, <2>2, ReachedFacts DEF R, ReachedFrom
<1>9. PICK x \in R : d \in OwnExports(p, x[1], x[2])
  BY OfferedUnfolds DEF R
<1>10. FileOf(p, d) = x[1]
  BY <1>9, OwnFile
<1>11. x \in Spots /\ x \in C
  BY <1>4, <1>8
<1>12. CASE x[1] \in s.surfaces
  BY <1>10, <1>12
<1>13. CASE Good(x)
  <2>1. d \in s.used \cup X
    BY <1>1, <1>9, <1>13
  <2>2. d \in Offered(p, x)
    <3>1. x \in ReachedFrom(p, x)
      BY <1>11, ReachedUnfolds
    <3> QED
      BY <1>9, <1>11, <3>1, OfferedUnfolds
  <2> QED
    BY <1>13, <2>1, <2>2
<1> QED
  BY <1>11, <1>12, <1>13

-----------------------------------------------------------------------------
\* The imports of the project.

\* What a name imported from a place may mean is used, but for the importer's
\* own exports and what a circle of barrels can hide.
Covered(p, by, at, s) ==
  \A d \in Offered(p, at) :
    \/ FileOf(p, d) \in {by} \cup s.surfaces
    \/ d \in s.used
    \/ Circular(p, at) /\ d \in ImportedBack(p)

\* What is covered stays covered while more is found.
LEMMA CoveredStays ==
  ASSUME NEW p, NEW by, NEW at, NEW s, NEW t, Covered(p, by, at, s), More(s, t)
  PROVE  Covered(p, by, at, t)
  BY DEF Covered, More

Using(s, c, others) == [s EXCEPT !.cache = c, !.used = @ \cup others]

\* What using some declarations makes of a state of the walk.
LEMMA UsedMakes ==
  ASSUME NEW p, NEW s \in Judgements(p), NEW c \in Caches(p), NEW others \in SUBSET Exported(p),
         NEW t, t = Using(s, c, others)
  PROVE  /\ t \in Judgements(p) /\ t.surfaces = s.surfaces /\ t.cache = c /\ t.queue = s.queue
         /\ t.used = s.used \cup others
<1>1. /\ s.surfaces \in SUBSET Files /\ s.used \in SUBSET Exported(p) /\ s.queue \in Seq(Files)
      /\ s = [surfaces |-> s.surfaces, used |-> s.used, cache |-> s.cache, queue |-> s.queue]
  BY JudgementsFacts
<1> DEFINE used == s.used \cup others
<1>2. t = [surfaces |-> s.surfaces, used |-> used, cache |-> c, queue |-> s.queue]
  BY <1>1 DEF Using
<1>3. used \in SUBSET Exported(p)
  BY <1>1
<1> HIDE DEF used
<1>4. /\ t \in Judgements(p) /\ t.surfaces = s.surfaces /\ t.used = used /\ t.cache = c
      /\ t.queue = s.queue
  BY <1>1, <1>2, <1>3 DEF Judgements
<1> QED
  BY <1>4 DEF used

\* One binding of an import: what its name may mean is covered then.
LEMMA UseBindingKeeps ==
  ASSUME NEW p, Scanned(p), NEW X, X = ImportedBack(p), NEW s, Resting(p, X, s),
         NEW i \in ToSet(p.imports), i.target # None, ~i.reExport, NEW b \in ToSet(i.bindings),
         NEW t, t = UseBinding(p, s, i, b)
  PROVE  /\ Resting(p, X, t) /\ More(s, t)
         /\ b.kind # "namespace" => Covered(p, i.file, <<i.target, b.imported>>, t)
<1> DEFINE at == <<i.target, b.imported>>
           whole == b.kind = "namespace" \/ (i.cjs /\ b.imported = "default")
           c == ResolveExport(p, at, s.cache)
<1>1. i.target \in Files /\ at \in Spots /\ at[1] = i.target
  BY DEF Scanned, Spots
<1>2. whole => t = MarkSurface(p, s, i.target)
  BY Zenon DEF UseBinding
<1>3. ~whole => t = UseBindingFound(p, s, i, at, c)
  BY Zenon DEF UseBinding
<1>4. ~whole => b.kind # "namespace"
  OBVIOUS
<1> HIDE DEF whole
<1>5. CASE whole
  <2>1. Resting(p, X, t) /\ More(s, t) /\ i.target \in t.surfaces
    BY <1>1, <1>2, <1>5, MarkSurfaceKeeps
  <2>2. Covered(p, i.file, at, t)
    <3> SUFFICES ASSUME NEW d \in Offered(p, at)
                 PROVE  FileOf(p, d) \in t.surfaces \/ d \in t.used \/ (Circular(p, at) /\ d \in X)
      BY DEF Covered
    <3> HIDE DEF at
    <3> QED
      BY <1>1, <2>1, SurfaceOffers
  <2> QED
    BY <2>1, <2>2
<1>6. CASE ~whole
  <2> HIDE DEF at, c
  <2>1. s \in Judgements(p) /\ Sound(p, s.cache) /\ Kept(p, X, s, {}) /\ s.queue = <<>>
    BY DEF Resting, Kept
  <2>2. LookedUp(p, at, s.cache, c)
    BY <1>1, <2>1, ResolveExportFacts DEF c
  <2>3. Sound(p, c) /\ c \in Caches(p) /\ at \in c.known
    BY <2>2 DEF LookedUp, Sound
  <2>4. c.declarations[at] \in SUBSET Exported(p) /\ c.namespaces[at] \in Seq(Files)
    BY <1>1, <2>3, CachesFacts DEF CacheFacts
  <2>5. /\ s.surfaces \in SUBSET Files /\ s.used \in SUBSET Exported(p)
        /\ s = [surfaces |-> s.surfaces, used |-> s.used, cache |-> s.cache, queue |-> s.queue]
    BY <2>1, JudgementsFacts
  <2> DEFINE others == {d \in c.declarations[at] : FileOf(p, d) # i.file}
             used == s.used \cup others
             r == Using(s, c, others)
             files == IF c.declarations[at] = {} /\ c.namespaces[at] = <<>> THEN <<i.target>> ELSE c.namespaces[at]
  <2>7. used \in SUBSET Exported(p)
    BY <2>4, <2>5
  <2>8. files \in Seq(Files)
    BY <1>1, <2>4
  <2>9. t = MarkSurfaces(p, r, files)
    BY <1>3, <1>6, Zenon DEF UseBindingFound, at, Using
  <2> HIDE DEF files
  <2>10. /\ r.surfaces = s.surfaces /\ r.used = used /\ r.cache = c /\ r.queue = s.queue
         /\ r \in Judgements(p)
    <3>1. others \in SUBSET Exported(p)
      BY <2>4
    <3> HIDE DEF others
    <3> QED
      BY <2>1, <2>3, <3>1, UsedMakes
  <2> HIDE DEF r
  <2>11. ASSUME NEW z \in ReachedFrom(p, at), NEW d \in OwnExports(p, z[1], z[2]), d \in c.declarations[at]
         PROVE  d \in used \cup X
    <3> SUFFICES ASSUME FileOf(p, d) = i.file PROVE d \in ImportedBack(p)
      BY <2>11
    <3>1. d \in Exported(p) /\ d \in Offered(p, at)
      BY <1>1, <2>11, OwnFile, OfferedUnfolds
    <3> DEFINE u == [by |-> i.file, at |-> at]
    <3>2. u \in Uses(p)
      <4> DEFINE named == {y \in ToSet(i.bindings) : y.kind # "namespace"}
                 made == {[by |-> i.file, at |-> <<i.target, x.imported>>] : x \in named}
                 imports == {j \in ToSet(p.imports) : j.target # None /\ ~j.reExport}
      <4>1. b \in named
        BY <1>4, <1>6
      <4>2. u \in made
        BY <4>1, Zenon DEF at
      <4>3. i \in imports
        OBVIOUS
      <4>4. \A j \in imports : \A v :
              v \in {[by |-> j.file, at |-> <<j.target, x.imported>>] :
                       x \in {y \in ToSet(j.bindings) : y.kind # "namespace"}} => v \in Uses(p)
        BY Zenon DEF Uses
      <4> QED
        BY <4>2, <4>3, <4>4, Zenon
    <3>3. u.by = FileOf(p, d) /\ u.at = at
      OBVIOUS
    <3> HIDE DEF u
    <3> QED
      BY <3>1, <3>2, <3>3, Zenon DEF ImportedBack
  <2>12. Kept(p, X, r, {}) /\ More(s, r)
    <3>1. \A x \in ReachedFrom(p, at) : OwnExports(p, x[1], x[2]) \cap c.declarations[at] \subseteq r.used \cup X
      BY <2>10, <2>11
    <3>2. s.used \subseteq r.used
      BY <2>10
    <3> HIDE DEF used
    <3> QED
      BY <2>1, <2>2, <2>10, <3>1, <3>2, KeptWith
  <2>13. Resting(p, X, r)
    BY <2>1, <2>10, <2>12 DEF Resting
  <2>14. Resting(p, X, t) /\ More(r, t)
    BY <2>8, <2>9, <2>13, MarkSurfacesKeeps
  <2>15. Covered(p, i.file, at, r)
    <3> SUFFICES ASSUME NEW d \in Offered(p, at)
                 PROVE  FileOf(p, d) = i.file \/ d \in r.used \/ (Circular(p, at) /\ d \in X)
      BY DEF Covered
    <3>1. CASE ~Circular(p, at)
      <4>1. d \in c.declarations[at]
        BY <2>3, <3>1 DEF Sound, Exact
      <4> QED
        BY <2>10, <4>1
    <3>2. CASE Circular(p, at)
      <4>1. c.known \in SUBSET Spots /\ {at} \in SUBSET Spots /\ {at} \subseteq c.known
            /\ \A x \in c.known : Onward(p, x) \subseteq c.known
        BY <1>1, <2>3, CachesFacts DEF Sound, CacheFacts
      <4>2. ReachedFrom(p, at) \subseteq c.known
        BY <4>1, ReachedFacts DEF ReachedFrom
      <4>3. PICK x \in ReachedFrom(p, at) : d \in OwnExports(p, x[1], x[2])
        BY <1>1, OfferedUnfolds
      <4>4. OwnExports(p, x[1], x[2]) \subseteq r.used \cup X
        BY <2>10, <2>12, <4>2 DEF Kept
      <4> QED
        BY <3>2, <4>3, <4>4
    <3> QED
      BY <3>1, <3>2
  <2>16. Covered(p, i.file, at, t)
    BY <2>14, <2>15, CoveredStays
  <2>17. More(s, t)
    BY <2>12, <2>14, MoreFacts
  <2> QED
    BY <2>14, <2>16, <2>17 DEF at
<1> QED
  BY <1>5, <1>6

\* The names of an import are covered.
ImportCovered(p, i, s) ==
  (i.target # None /\ ~i.reExport) =>
    \A b \in ToSet(i.bindings) : b.kind # "namespace" => Covered(p, i.file, <<i.target, b.imported>>, s)

\* The names of an import stay covered while more is found.
LEMMA ImportCoveredStays ==
  ASSUME NEW p, NEW i, NEW s, NEW t, ImportCovered(p, i, s), More(s, t)
  PROVE  ImportCovered(p, i, t)
  BY CoveredStays DEF ImportCovered

\* The bindings of an import one after the other.
LEMMA BindingsKeep ==
  ASSUME NEW p, Scanned(p), NEW X, X = ImportedBack(p), NEW s, Resting(p, X, s),
         NEW i \in ToSet(p.imports), i.target # None, ~i.reExport, ~(Unbound(i) /\ i.dynamic),
         NEW t, t = UseImport(p, s, i)
  PROVE  Resting(p, X, t) /\ More(s, t) /\ ImportCovered(p, i, t)
<1> DEFINE N == Len(i.bindings)
           S == {r \in Judgements(p) : Resting(p, X, r)}
           Step(n, v) == UseBinding(p, v, i, i.bindings[n])
           Body(u) == [n \in 0..N |-> IF n = 0 THEN s ELSE Step(n, u[n - 1])]
           U == CHOOSE u : u = Body(u)
           D == [n \in 1..N |-> [v \in S |-> Step(n, v)]]
           Done(n, v) == LET b == i.bindings[n]
                         IN  b.kind # "namespace" => Covered(p, i.file, <<i.target, b.imported>>, v)
<1>1. UseImport(p, s, i) = U[N]
  BY Zenon DEF UseImport
<1>2. N \in Nat /\ DOMAIN i.bindings = 1..N /\ \A n \in 1..N : i.bindings[n] \in ToSet(i.bindings)
  <2>1. i.bindings \in Seq(ToSet(i.bindings))
    BY DEF Scanned
  <2> QED
    BY <2>1
<1>3. s \in S
  BY DEF Resting, Kept
<1>4. ASSUME NEW n \in 1..N, NEW v \in S
      PROVE  Step(n, v) \in S /\ More(v, Step(n, v)) /\ Done(n, Step(n, v))
  <2>1. Resting(p, X, v) /\ i.bindings[n] \in ToSet(i.bindings)
    BY <1>2
  <2>2. Resting(p, X, Step(n, v)) /\ More(v, Step(n, v)) /\ Done(n, Step(n, v))
    BY <2>1, UseBindingKeeps
  <2> HIDE DEF Step
  <2> QED
    BY <2>2 DEF Resting, Kept
<1>5. \A v \in S : Resting(p, X, v)
  OBVIOUS
<1> HIDE DEF N, S, Step, Done
<1>6. D \in Steps(N, S) /\ \A n \in 1..N, v \in S : D[n][v] = Step(n, v)
  BY <1>4, Zenon DEF Steps
<1> HIDE DEF D
<1>7. PICK g : Iterates(g, N, S, s, D)
  BY <1>2, <1>3, <1>6, Iteration
<1>8. /\ g \in [0..N -> S] /\ g[0] = s
      /\ \A n \in 1..N : g[n - 1] \in S /\ g[n] = D[n][g[n - 1]]
  BY <1>2, <1>7, IteratesFacts
<1>9. \A n \in 1..N : g[n] = Step(n, g[n - 1])
  BY <1>6, <1>8
<1>10. g = Body(g)
  <2>1. \A n \in 0..N : g[n] = IF n = 0 THEN s ELSE Step(n, g[n - 1])
    BY <1>2, <1>8, <1>9, OneToN, Zenon
  <2> QED
    BY <1>8, <2>1, Zenon
<1>11. U = Body(U)
  BY <1>10, Zenon
<1> HIDE DEF U
<1>12. U[0] = s /\ \A n \in 1..N : U[n] = Step(n, U[n - 1])
  BY <1>2, <1>11, OneToN, Zenon
<1>13. \A n \in 0..N : U[n] \in S
  <2>1. U[0] \in S /\ \A n \in 1..N : U[n - 1] \in S => U[n] \in S
    BY <1>3, <1>4, <1>12, Zenon
  <2> QED
    BY <1>2, <2>1, RunStays
<1>14. \A n \in 1..N : More(U[n - 1], U[n]) /\ Done(n, U[n])
  <2>1. \A n \in 1..N : U[n - 1] \in S
    BY <1>2, <1>13, OneToN
  <2> QED
    BY <1>4, <1>12, <2>1, Zenon
<1>15. \A m \in 0..N : More(U[0], U[m]) /\ More(U[m], U[N])
  BY <1>2, <1>14, Growing
<1>16. N \in 0..N /\ \A n \in 1..N : n \in 0..N
  BY <1>2
<1>17. Resting(p, X, U[N]) /\ More(s, U[N])
  BY <1>5, <1>12, <1>13, <1>15, <1>16
<1>18. ASSUME NEW b \in ToSet(i.bindings), b.kind # "namespace"
       PROVE  Covered(p, i.file, <<i.target, b.imported>>, U[N])
  <2>1. PICK n \in 1..N : b = i.bindings[n]
    BY <1>2, Zenon DEF ToSet
  <2>2. Covered(p, i.file, <<i.target, b.imported>>, U[n]) /\ More(U[n], U[N])
    BY <1>14, <1>15, <1>16, <1>18, <2>1 DEF Done
  <2> QED
    BY <2>2, CoveredStays
<1>19. ImportCovered(p, i, U[N])
  BY <1>18 DEF ImportCovered
<1> QED
  BY <1>1, <1>17, <1>19

\* One import: all of its names are covered then.
LEMMA UseImportKeeps ==
  ASSUME NEW p, Scanned(p), NEW X, X = ImportedBack(p), NEW s, Resting(p, X, s),
         NEW i \in ToSet(p.imports), NEW t, t = UseImport(p, s, i)
  PROVE  Resting(p, X, t) /\ More(s, t) /\ ImportCovered(p, i, t)
<1>1. CASE i.target = None \/ i.reExport
  <2>1. t = s
    BY <1>1, Zenon DEF UseImport
  <2> QED
    BY <1>1, <2>1, MoreFacts DEF ImportCovered
<1>2. CASE ~(i.target = None \/ i.reExport) /\ Unbound(i) /\ i.dynamic
  <2>1. t = MarkSurface(p, s, i.target)
    BY <1>2, Zenon DEF UseImport
  <2>2. i.target \in Files
    BY <1>2 DEF Scanned
  <2>3. ImportCovered(p, i, t)
    BY <1>2 DEF ImportCovered, Unbound, ToSet
  <2> QED
    BY <2>1, <2>2, <2>3, MarkSurfaceKeeps
<1>3. CASE ~(i.target = None \/ i.reExport) /\ ~(Unbound(i) /\ i.dynamic)
  BY <1>3, BindingsKeep
<1> QED
  BY <1>1, <1>2, <1>3

-----------------------------------------------------------------------------
\* The walk as a whole.

\* What the entry points offer is in a surface or used.
EntriesOffer(p, s) ==
  \A e \in ToSet(p.entries), name \in Names : \A d \in Offered(p, <<e, name>>) :
    FileOf(p, d) \in s.surfaces \/ d \in s.used

\* The walk begins with the entry points: what they offer is in a surface or used.
LEMMA EntriesMarked ==
  ASSUME NEW p, Scanned(p), NEW X,
         NEW t, t = MarkSurfaces(p, [surfaces |-> {}, used |-> {}, cache |-> NoCache, queue |-> <<>>], p.entries)
  PROVE  Resting(p, X, t) /\ EntriesOffer(p, t)
<1> DEFINE s == [surfaces |-> {}, used |-> {}, cache |-> NoCache, queue |-> <<>>]
<1>1. /\ NoCache \in Caches(p) /\ NoCache.known = {}
  <2> DEFINE D == [at \in Files \X Names |-> {}]
             M == [at \in Files \X Names |-> <<>>]
  <2>1. D \in [Files \X Names -> SUBSET Exported(p)] /\ M \in [Files \X Names -> Seq(Files)]
    OBVIOUS
  <2>2. NoCache = [known |-> {}, declarations |-> D, namespaces |-> M]
    BY DEF NoCache
  <2>3. {} \in SUBSET (Files \X Names)
    OBVIOUS
  <2> HIDE DEF D, M
  <2> QED
    BY <2>1, <2>2, <2>3 DEF Caches
<1>2. /\ s \in Judgements(p) /\ s.surfaces = {} /\ s.used = {} /\ s.cache = NoCache /\ s.queue = <<>>
  <2>1. <<>> \in Seq(Files)
    OBVIOUS
  <2> QED
    BY <1>1, <2>1 DEF Judgements
<1> HIDE DEF s
<1>3. \A Y : Resting(p, Y, s)
  <2>1. Sound(p, s.cache)
    BY <1>1, <1>2 DEF Sound
  <2> QED
    BY <1>1, <1>2, <2>1 DEF Resting, Kept
<1>4. p.entries \in Seq(Files)
  BY DEF Scanned
<1>5. t = MarkSurfaces(p, s, p.entries)
  BY DEF s
<1>6. Resting(p, {}, t) /\ Resting(p, X, t) /\ ToSet(p.entries) \subseteq t.surfaces
  BY <1>3, <1>4, <1>5, MarkSurfacesKeeps
<1>7. ASSUME NEW e \in ToSet(p.entries), NEW name \in Names, NEW d \in Offered(p, <<e, name>>)
      PROVE  FileOf(p, d) \in t.surfaces \/ d \in t.used
  <2> DEFINE at == <<e, name>>
  <2>1. e \in Files /\ e \in t.surfaces
    BY <1>4, <1>6, ConcatSet
  <2>2. at \in Spots /\ at[1] = e
    BY <2>1 DEF Spots
  <2> HIDE DEF at
  <2>3. d \in Offered(p, at)
    BY DEF at
  <2> QED
    BY <1>6, <2>1, <2>2, <2>3, SurfaceOffers
<1> QED
  BY <1>6, <1>7 DEF EntriesOffer

\* What the entry points offer stays so while more is found.
LEMMA EntriesOfferStays ==
  ASSUME NEW p, NEW s, NEW t, EntriesOffer(p, s), More(s, t)
  PROVE  EntriesOffer(p, t)
  BY DEF EntriesOffer, More

\* What the walk has found in the end.
JudgedWell(p, s) ==
  /\ EntriesOffer(p, s)
  /\ \A i \in ToSet(p.imports) : ImportCovered(p, i, s)

\* The walk over the imports: every name that is imported is covered in the end.
LEMMA JudgedFacts ==
  ASSUME NEW p, Scanned(p)
  PROVE  JudgedWell(p, Judged(p))
<1> DEFINE X == ImportedBack(p)
           N == Len(p.imports)
           S == {r \in Judgements(p) : Resting(p, X, r)}
           start == [surfaces |-> {}, used |-> {}, cache |-> NoCache, queue |-> <<>>]
           s == MarkSurfaces(p, start, p.entries)
           Step(n, v) == UseImport(p, v, p.imports[n])
           Body(u) == [n \in 0..N |-> IF n = 0 THEN s ELSE Step(n, u[n - 1])]
           U == CHOOSE u : u = Body(u)
           D == [n \in 1..N |-> [v \in S |-> Step(n, v)]]
           Done(n, v) == ImportCovered(p, p.imports[n], v)
<1>1. Judged(p) = U[N]
  BY Zenon DEF Judged
<1>2. N \in Nat /\ DOMAIN p.imports = 1..N /\ \A n \in 1..N : p.imports[n] \in ToSet(p.imports)
  <2>1. p.imports \in Seq(ToSet(p.imports))
    BY DEF Scanned
  <2> QED
    BY <2>1
<1>3. Resting(p, X, s) /\ EntriesOffer(p, s)
  BY EntriesMarked
<1> HIDE DEF s
<1>4. s \in S
  BY <1>3 DEF Resting, Kept
<1>5. ASSUME NEW n \in 1..N, NEW v \in S
      PROVE  Step(n, v) \in S /\ More(v, Step(n, v)) /\ Done(n, Step(n, v))
  <2>1. Resting(p, X, v) /\ p.imports[n] \in ToSet(p.imports)
    BY <1>2
  <2>2. Resting(p, X, Step(n, v)) /\ More(v, Step(n, v)) /\ Done(n, Step(n, v))
    BY <2>1, UseImportKeeps
  <2> HIDE DEF Step
  <2> QED
    BY <2>2 DEF Resting, Kept
<1> HIDE DEF N, S, Step, Done
<1>6. D \in Steps(N, S) /\ \A n \in 1..N, v \in S : D[n][v] = Step(n, v)
  BY <1>5, Zenon DEF Steps
<1> HIDE DEF D
<1>7. PICK g : Iterates(g, N, S, s, D)
  BY <1>2, <1>4, <1>6, Iteration
<1>8. /\ g \in [0..N -> S] /\ g[0] = s
      /\ \A n \in 1..N : g[n - 1] \in S /\ g[n] = D[n][g[n - 1]]
  BY <1>2, <1>7, IteratesFacts
<1>9. \A n \in 1..N : g[n] = Step(n, g[n - 1])
  BY <1>6, <1>8
<1>10. g = Body(g)
  <2>1. \A n \in 0..N : g[n] = IF n = 0 THEN s ELSE Step(n, g[n - 1])
    BY <1>2, <1>8, <1>9, OneToN, Zenon
  <2> QED
    BY <1>8, <2>1, Zenon
<1>11. U = Body(U)
  BY <1>10, Zenon
<1> HIDE DEF U
<1>12. U[0] = s /\ \A n \in 1..N : U[n] = Step(n, U[n - 1])
  BY <1>2, <1>11, OneToN, Zenon
<1>13. \A n \in 0..N : U[n] \in S
  <2>1. U[0] \in S /\ \A n \in 1..N : U[n - 1] \in S => U[n] \in S
    BY <1>4, <1>5, <1>12, Zenon
  <2> QED
    BY <1>2, <2>1, RunStays
<1>14. \A n \in 1..N : More(U[n - 1], U[n]) /\ Done(n, U[n])
  <2>1. \A n \in 1..N : U[n - 1] \in S
    BY <1>2, <1>13, OneToN
  <2> QED
    BY <1>5, <1>12, <2>1, Zenon
<1>15. \A m \in 0..N : More(U[0], U[m]) /\ More(U[m], U[N])
  BY <1>2, <1>14, Growing
<1>16. N \in 0..N /\ \A n \in 1..N : n \in 0..N
  BY <1>2
<1>17. EntriesOffer(p, U[N])
  BY <1>3, <1>12, <1>15, <1>16, EntriesOfferStays
<1>18. ASSUME NEW i \in ToSet(p.imports) PROVE ImportCovered(p, i, U[N])
  <2>1. PICK n \in 1..N : i = p.imports[n]
    BY <1>2, Zenon DEF ToSet
  <2>2. ImportCovered(p, i, U[n]) /\ More(U[n], U[N])
    BY <1>14, <1>15, <1>16, <2>1 DEF Done
  <2> QED
    BY <2>2, ImportCoveredStays
<1> QED
  BY <1>1, <1>17, <1>18 DEF JudgedWell

\* What the tool reports is no surface's and is not used.
LEMMA UnusedFacts ==
  ASSUME NEW p, NEW s, NEW calls, NEW classUses, NEW d \in UnusedExports(p, s, calls, classUses)
  PROVE  d \notin s.used /\ FileOf(p, d) \notin s.surfaces
<1> DEFINE declaration == CHOOSE x \in Declarations(p) : x.id = d
           used == s.used \cup {u[2] : u \in UsedFromElsewhere(p, calls, classUses)}
<1>1. d \in Exported(p) \ (used \cup p.handlers) /\ declaration.file \notin s.surfaces \cup p.tests
  BY Zenon DEF UnusedExports
<1>2. FileOf(p, d) = declaration.file
  BY Zenon DEF FileOf
<1> HIDE DEF declaration
<1> QED
  BY <1>1, <1>2

\* What is reported comes from the walk over the imports of the project.
UsedInv ==
  /\ Scanned(project)
  /\ answer.tool = "unused" =>
       \A d \in answer.unused : d \notin Judged(project).used /\ FileOf(project, d) \notin Judged(project).surfaces

\* Nothing is answered when the scan begins.
LEMMA UsedInvInit == Init => UsedInv
<1> SUFFICES ASSUME Init PROVE UsedInv
  OBVIOUS
<1>1. Scanned(project)
  BY ScannedProjects DEF Init, ResolutionInit
<1>2. answer.tool # "unused"
  BY ScanConstants DEF Init
<1> QED
  BY <1>1, <1>2 DEF UsedInv

\* Only find_unused_exports answers so, and the project stays as it is.
LEMMA UsedInvNext == UsedInv /\ [Next]_analysisVars => UsedInv'
<1> SUFFICES ASSUME UsedInv, [Next]_analysisVars PROVE UsedInv'
  OBVIOUS
<1> USE DEF UsedInv
<1>1. CASE UNCHANGED analysisVars
  BY <1>1 DEF analysisVars, resolutionVars
<1>2. CASE Resolve
  <2>1. project' = project /\ answer' = answer
    BY <1>2 DEF Resolve, ResolutionNext, Inherit, ResolveNextCall, Inject, ResolveInstances
  <2> QED
    BY <2>1
<1>3. CASE \E scope \in {"file", "package"}, wanted \in {Files} \cup {{f} : f \in Files} :
             FindImportCycles(scope, wanted)
  <2>1. answer'.tool = "cycles" /\ project' = project
    BY <1>3 DEF FindImportCycles, resolutionVars
  <2> QED
    BY <2>1
<1>4. CASE FindUnusedExports
  <2> DEFINE classUses == injects \cup UNION {{c} \X ToSet(extends[c]) : c \in DOMAIN extends}
             reported == UnusedExports(project, Judged(project), targets, classUses)
  <2>1. answer' = [tool |-> "unused", unused |-> reported] /\ project' = project
    BY <1>4, Zenon DEF FindUnusedExports, resolutionVars
  <2>2. \A d \in reported : d \notin Judged(project).used /\ FileOf(project, d) \notin Judged(project).surfaces
    BY UnusedFacts
  <2> HIDE DEF reported
  <2>3. answer'.unused = reported
    BY <2>1
  <2> QED
    BY <2>1, <2>2, <2>3
<1>5. ASSUME NEW name \in Names \cup project.stores, NEW maxDepth \in 1..MaxDepth, FindImpact(name, maxDepth)
      PROVE  UsedInv'
  <2>1. answer'.tool = "impact" /\ project' = project
    BY <1>5 DEF FindImpact, resolutionVars
  <2> QED
    BY <2>1
<1> QED
  BY <1>1, <1>2, <1>3, <1>4, <1>5 DEF Next

\* What the invariant says of the answer is what the property says.
LEMMA UsedInvCovers == UsedInv => UsedExportsAreNotReported
<1> SUFFICES ASSUME UsedInv, answer.tool = "unused" PROVE
      /\ \A u \in Uses(project) : \A d \in Offered(project, u.at) \cap answer.unused :
           u.by = FileOf(project, d) \/ (Circular(project, u.at) /\ d \in ImportedBack(project))
      /\ \A e \in ToSet(project.entries), name \in Names :
           Offered(project, <<e, name>>) \cap answer.unused = {}
  BY DEF UsedExportsAreNotReported
<1> DEFINE s == Judged(project)
<1>1. Scanned(project) /\ \A d \in answer.unused : d \notin s.used /\ FileOf(project, d) \notin s.surfaces
  BY DEF UsedInv
<1>2. JudgedWell(project, s)
  BY <1>1, JudgedFacts
<1> HIDE DEF s
<1>3. ASSUME NEW u \in Uses(project), NEW d \in Offered(project, u.at) \cap answer.unused
      PROVE  u.by = FileOf(project, d) \/ (Circular(project, u.at) /\ d \in ImportedBack(project))
  <2>1. PICK i \in {i \in ToSet(project.imports) : i.target # None /\ ~i.reExport} :
          u \in {[by |-> i.file, at |-> <<i.target, b.imported>>] :
                   b \in {b \in ToSet(i.bindings) : b.kind # "namespace"}}
    BY Zenon DEF Uses
  <2>2. PICK b \in {b \in ToSet(i.bindings) : b.kind # "namespace"} :
          u = [by |-> i.file, at |-> <<i.target, b.imported>>]
    BY <2>1, Zenon
  <2>3. Covered(project, i.file, <<i.target, b.imported>>, s)
    BY <1>2, <2>2 DEF JudgedWell, ImportCovered
  <2>4. u.by = i.file /\ u.at = <<i.target, b.imported>>
    BY <2>2
  <2>5. Covered(project, u.by, u.at, s)
    BY <2>3, <2>4
  <2> QED
    BY <1>1, <2>5 DEF Covered
<1>4. ASSUME NEW e \in ToSet(project.entries), NEW name \in Names, NEW d \in Offered(project, <<e, name>>)
      PROVE  d \notin answer.unused
  BY <1>1, <1>2 DEF JudgedWell, EntriesOffer
<1> QED
  BY <1>3, <1>4

\* An export that another file imports by name, or that an entry point of a
\* package offers, is not reported as unused, whatever the barrels are; but for
\* exports that are imported through a circle of barrels and imported back.
THEOREM UsedExportsTheorem == Spec => []UsedExportsAreNotReported
<1>1. Spec => []UsedInv
  BY UsedInvInit, UsedInvNext, PTL DEF Spec
<1> QED
  BY <1>1, UsedInvCovers, PTL

=============================================================================
