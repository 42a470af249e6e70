-------------------------- MODULE McpServerProofs --------------------------
(***************************************************************************)
(* Proofs about the MCP server and its paged lists: what McpServer.tla     *)
(* promises for any walks, graphs, limits, budgets and other lines.        *)
(*                                                                         *)
(* The first two sections are about the functions the model is built from, *)
(* which are recursive: an induction over numbers is an argument about a   *)
(* set that holds 0 and with a number the next one.                        *)
(***************************************************************************)
EXTENDS McpServer, SequenceTheorems, WellFoundedInduction, TLAPS

-----------------------------------------------------------------------------
\* Numbers, and the search for the largest page that fits.

\* Every set of numbers that is not empty has a least one.
LEMMA LeastNatural ==
  ASSUME NEW T \in SUBSET Nat, T # {}
  PROVE \E x \in T : \A y \in T : x <= y
<1> DEFINE R == OpToRel(<, Nat)
<1>1. IsWellFoundedOn(R, Nat)
  BY NatLessThanWellFounded
<1>2. \A x, y \in Nat : y < x => <<y, x>> \in R
  BY DEF OpToRel
<1> HIDE DEF R
<1>3. PICK x \in T : \A y \in T : ~(<<y, x>> \in R)
  BY <1>1, WFMin
<1>4. \A y \in T : ~(y < x)
  BY <1>2, <1>3, Zenon
<1>5. \A y \in Nat : ~(y < x) => x <= y
  OBVIOUS
<1> QED
  BY <1>4, <1>5

\* Induction, for a set: 0 is in it, and with a number the next one.
LEMMA NaturalInduction ==
  ASSUME NEW T \in SUBSET Nat, 0 \in T, \A n \in T : n + 1 \in T
  PROVE  T = Nat
<1> SUFFICES ASSUME Nat \ T # {} PROVE FALSE
  OBVIOUS
<1>1. PICK x \in Nat \ T : \A y \in Nat \ T : x <= y
  BY LeastNatural
<1>2. x - 1 \in Nat /\ x - 1 \notin Nat \ T
  BY <1>1
<1> QED
  BY <1>1, <1>2

\* The search of LargestFit.  One round of it looks at the middle of a range and goes
\* on, by the function g, in the half the answer is in; fits is the set of the
\* lengths that fit.
Middle(low, high) == (low + high + 1) \div 2

Round(fits, g, low, high) ==
  IF low >= high THEN low
  ELSE IF Middle(low, high) \in fits THEN g[<<Middle(low, high), high>>]
       ELSE g[<<low, Middle(low, high) - 1>>]

\* Both halves of a range are shorter than it.
LEMMA Halves ==
  ASSUME NEW low \in Nat, NEW high \in Nat, low < high
  PROVE  /\ Middle(low, high) \in Nat
         /\ low < Middle(low, high)
         /\ Middle(low, high) <= high
BY DEF Middle

\* What it is to solve the search, to stay in its ranges and to agree, for the
\* ranges of length n or less; Partial: one function that does, and no other does
\* otherwise.
Pairs == Nat \X Nat

Solves(fits, g, n) == \A l, h \in Nat : h <= l + n => g[<<l, h>>] = Round(fits, g, l, h)

InRange(g, n) ==
  \A l, h \in Nat : h <= l + n => l <= g[<<l,h>>] /\ (l <= h => g[<<l,h>>] <= h)

Agree(f, g, n) == \A l, h \in Nat : h <= l + n => f[<<l,h>>] = g[<<l,h>>]

Partial(fits, g, n) ==
  /\ g \in [Pairs -> Nat]
  /\ Solves(fits, g, n)
  /\ InRange(g, n)
  /\ \A f : Solves(fits, f, n) => Agree(f, g, n)

\* The search is solved for the ranges of any length, by induction over it.
LEMMA Levels ==
  ASSUME NEW fits, NEW n \in Nat
  PROVE  \E g : Partial(fits, g, n)
<1> DEFINE T == {k \in Nat : \E g : Partial(fits, g, k)}
<1>1. 0 \in T
  <2> DEFINE g == [x \in Pairs |-> x[1]]
  <2>1. g \in [Pairs -> Nat]
    BY DEF Pairs
  <2>2. \A l, h \in Nat : g[<<l, h>>] = l
    BY DEF Pairs
  <2> HIDE DEF g
  <2>3. Solves(fits, g, 0) /\ InRange(g, 0)
    BY <2>2 DEF Solves, Round, InRange
  <2>4. ASSUME NEW f, Solves(fits, f, 0) PROVE Agree(f, g, 0)
    BY <2>2, <2>4 DEF Solves, Round, Agree
  <2>5. Partial(fits, g, 0)
    BY <2>1, <2>3, <2>4 DEF Partial
  <2> QED
    BY <2>5
<1>2. ASSUME NEW k \in T PROVE k + 1 \in T
  <2>1. PICK g : Partial(fits, g, k)
    BY <1>2
  <2> DEFINE f == [x \in Pairs |-> Round(fits, g, x[1], x[2])]
  <2>a. \A l, h \in Nat : <<l, h>> \in Pairs
    BY DEF Pairs
  <2>b. ASSUME NEW l \in Nat, NEW h \in Nat PROVE f[<<l,h>>] = Round(fits, g, l, h)
    BY <2>a
  <2>2. ASSUME NEW l \in Nat, NEW h \in Nat PROVE f[<<l,h>>] = Round(fits, g, l, h) /\ f[<<l,h>>] \in Nat
    <3> HIDE DEF f
    <3>1. CASE l >= h
      BY <2>b, <3>1 DEF Round
    <3>2. CASE l < h
      <4>1. Middle(l, h) \in Nat /\ Middle(l, h) - 1 \in Nat
        BY <3>2, Halves
      <4>2. g[<<Middle(l, h), h>>] \in Nat /\ g[<<l, Middle(l, h) - 1>>] \in Nat
        BY <2>1, <2>a, <4>1 DEF Partial
      <4> QED
        BY <2>b, <4>2 DEF Round
    <3> QED
      BY <3>1, <3>2
  <2>3. f \in [Pairs -> Nat]
    <3>1. ASSUME NEW x \in Pairs PROVE Round(fits, g, x[1], x[2]) \in Nat
      <4>1. PICK l \in Nat, h \in Nat : x = <<l, h>>
        BY DEF Pairs
      <4> QED
        BY <2>2, <2>b, <4>1
    <3> QED
      BY <3>1
  <2> HIDE DEF f
  <2>4. ASSUME NEW e, Solves(fits, e, k), NEW l \in Nat, NEW h \in Nat, h <= l + (k + 1)
        PROVE  Round(fits, e, l, h) = Round(fits, g, l, h)
    <3>1. CASE l >= h
      BY <3>1 DEF Round
    <3>2. CASE l < h
      <4>1. PICK m : m = Middle(l, h)
        OBVIOUS
      <4>2. m \in Nat /\ l < m /\ m <= h
        BY <3>2, <4>1, Halves
      <4>3. m - 1 \in Nat /\ h <= m + k /\ m - 1 <= l + k
        BY <4>2, <2>4
      <4>4. e[<<m, h>>] = g[<<m, h>>] /\ e[<<l, m-1>>] = g[<<l, m-1>>]
        BY <2>1, <2>4, <4>2, <4>3 DEF Partial, Agree
      <4> QED
        BY <4>1, <4>4 DEF Round
    <3> QED
      BY <3>1, <3>2
  <2>5. \A e : Solves(fits, e, k + 1) => Solves(fits, e, k)
    BY DEF Solves
  <2>6. Solves(fits, f, k)
    <3> SUFFICES ASSUME NEW l \in Nat, NEW h \in Nat, h <= l + k
                 PROVE f[<<l,h>>] = Round(fits, f, l, h)
      BY DEF Solves
    <3>1. \A i, j \in Nat : j <= i + k => f[<<i, j>>] = g[<<i, j>>]
      BY <2>1, <2>2 DEF Partial, Solves
    <3>2. CASE l >= h
      BY <2>2, <3>2 DEF Round
    <3>3. CASE l < h
      <4>1. PICK m : m = Middle(l, h)
        OBVIOUS
      <4>2. m \in Nat /\ l < m /\ m <= h
        BY <3>3, <4>1, Halves
      <4>3. m - 1 \in Nat /\ h <= m + k /\ m - 1 <= l + k
        BY <4>2
      <4>4. f[<<m, h>>] = g[<<m, h>>] /\ f[<<l, m-1>>] = g[<<l, m-1>>]
        BY <3>1, <4>2, <4>3
      <4> QED
        BY <2>2, <4>1, <4>4 DEF Round
    <3> QED
      BY <3>2, <3>3
  <2>7. Solves(fits, f, k + 1)
    <3> SUFFICES ASSUME NEW l \in Nat, NEW h \in Nat, h <= l + (k + 1)
                 PROVE f[<<l,h>>] = Round(fits, f, l, h)
      BY DEF Solves
    <3>1. Round(fits, f, l, h) = Round(fits, g, l, h)
      BY <2>4, <2>6
    <3> QED
      BY <2>2, <3>1
  <2>8. InRange(f, k + 1)
    <3> SUFFICES ASSUME NEW l \in Nat, NEW h \in Nat, h <= l + (k + 1)
                 PROVE l <= f[<<l,h>>] /\ (l <= h => f[<<l,h>>] <= h)
      BY DEF InRange
    <3>1. CASE l >= h
      <4>1. f[<<l, h>>] = l
        BY <2>2, <3>1 DEF Round
      <4> QED
        BY <3>1, <4>1
    <3>2. CASE l < h
      <4>1. PICK m : m = Middle(l, h)
        OBVIOUS
      <4>2. m \in Nat /\ l < m /\ m <= h
        BY <3>2, <4>1, Halves
      <4>3. m - 1 \in Nat /\ h <= m + k /\ m - 1 <= l + k /\ l <= m - 1
        BY <4>2
      <4>7. InRange(g, k)
        BY <2>1 DEF Partial
      <4>4. /\ m <= g[<<m, h>>] /\ g[<<m, h>>] <= h
            /\ l <= g[<<l, m-1>>] /\ g[<<l, m-1>>] <= m - 1
        BY <4>2, <4>3, <4>7 DEF InRange
      <4>5. g[<<m, h>>] \in Nat /\ g[<<l, m-1>>] \in Nat
        BY <2>1, <2>a, <4>2, <4>3 DEF Partial
      <4>6. f[<<l, h>>] = g[<<m, h>>] \/ f[<<l, h>>] = g[<<l, m-1>>]
        BY <2>2, <3>2, <4>1 DEF Round
      <4> QED
        BY <4>2, <4>4, <4>5, <4>6
    <3> QED
      BY <3>1, <3>2
  <2>9. ASSUME NEW e, Solves(fits, e, k + 1) PROVE Agree(e, f, k + 1)
    BY <2>2, <2>4, <2>5, <2>9 DEF Solves, Agree
  <2>10. Partial(fits, f, k + 1)
    BY <2>3, <2>7, <2>8, <2>9 DEF Partial
  <2> QED
    BY <2>10
<1>3. T = Nat
  BY <1>1, <1>2, NaturalInduction
<1> QED
  BY <1>3

\* Whatever function solves the search ends in the range it began with.
LEMMA Bounded ==
  ASSUME NEW fits, NEW f, \A l, h \in Nat : f[<<l, h>>] = Round(fits, f, l, h),
         NEW l \in Nat, NEW h \in Nat, l <= h
  PROVE  f[<<l, h>>] \in l..h
<1>1. PICK g : Partial(fits, g, h)
  BY Levels
<1>2. Solves(fits, f, h)
  BY DEF Solves
<1>3. f[<<l, h>>] = g[<<l, h>>]
  BY <1>1, <1>2 DEF Partial, Agree
<1>4. g[<<l, h>>] \in Nat /\ l <= g[<<l, h>>] /\ g[<<l, h>>] <= h
  BY <1>1 DEF Partial, InRange, Pairs
<1> QED
  BY <1>3, <1>4

\* A function solves the search for all ranges.
LEMMA Solution ==
  ASSUME NEW fits
  PROVE  \E f \in [Pairs -> Nat] : \A l, h \in Nat : f[<<l, h>>] = Round(fits, f, l, h)
<1> DEFINE G(n) == CHOOSE g : Partial(fits, g, n)
           f == [x \in Pairs |-> G(x[2])[x]]
<1>1. \A n \in Nat : Partial(fits, G(n), n)
  BY Levels
<1> HIDE DEF G
<1>2. \A l, h \in Nat : f[<<l, h>>] = G(h)[<<l, h>>]
  BY DEF Pairs
<1>3. f \in [Pairs -> Nat]
  <2>1. ASSUME NEW x \in Pairs PROVE G(x[2])[x] \in Nat
    BY <1>1 DEF Partial, Pairs
  <2> QED
    BY <2>1
<1> HIDE DEF f
<1>4. ASSUME NEW m \in Nat, NEW n \in Nat, m <= n,
             NEW l \in Nat, NEW h \in Nat, h <= l + m
      PROVE  G(m)[<<l, h>>] = G(n)[<<l, h>>]
  <2>1. Solves(fits, G(n), m)
    BY <1>1, <1>4 DEF Partial, Solves
  <2> QED
    BY <1>1, <1>4, <2>1 DEF Partial, Agree
<1>5. ASSUME NEW l \in Nat, NEW h \in Nat
      PROVE  f[<<l, h>>] = Round(fits, f, l, h)
  <2>1. f[<<l, h>>] = Round(fits, G(h), l, h)
    <3>1. Solves(fits, G(h), h) /\ h <= l + h
      BY <1>1 DEF Partial
    <3> QED
      BY <1>2, <3>1 DEF Solves
  <2>2. CASE l >= h
    BY <2>1, <2>2 DEF Round
  <2>3. CASE l < h
    <3>1. PICK m : m = Middle(l, h)
      OBVIOUS
    <3>2. m \in Nat /\ l < m /\ m <= h /\ m - 1 \in Nat
      BY <2>3, <3>1, Halves
    <3>3. f[<<m, h>>] = G(h)[<<m, h>>]
      BY <1>2, <3>2
    <3>4. f[<<l, m-1>>] = G(h)[<<l, m-1>>]
      BY <1>2, <1>4, <3>2
    <3> QED
      BY <2>1, <3>1, <3>3, <3>4 DEF Round
  <2> QED
    BY <2>2, <2>3
<1> QED
  BY <1>3, <1>5

\* largestFit: a page of more than one row is shortened, and a row of it is kept
\* (budget.ts).
LEMMA FitIsInBounds ==
  ASSUME NEW page, NEW beside, NEW budget, Len(page) \in Nat, 1 < Len(page)
  PROVE  LargestFit(page, beside, budget) \in 1..(Len(page) - 1)
<1> DEFINE Fits(count) == TotalSize(beside) + SizeOf(Take(page, count)) <= budget
           fits == {c \in Nat : Fits(c)}
           Body(s) == [range \in Nat \X Nat |->
                         IF range[1] >= range[2] THEN range[1]
                         ELSE IF Fits((range[1] + range[2] + 1) \div 2)
                              THEN s[<<(range[1] + range[2] + 1) \div 2, range[2]>>]
                              ELSE s[<<range[1], ((range[1] + range[2] + 1) \div 2) - 1>>]]
           search == CHOOSE s : s = Body(s)
<1>1. LargestFit(page, beside, budget) = search[<<1, Len(page) - 1>>]
  BY Zenon DEF LargestFit
<1> HIDE DEF Fits
<1>2. \E s : s = Body(s)
  <2>1. PICK f \in [Pairs -> Nat] : \A l, h \in Nat : f[<<l, h>>] = Round(fits, f, l, h)
    BY Solution
  <2>2. ASSUME NEW x \in Nat \X Nat PROVE f[x] = Body(f)[x]
    <3>1. PICK l \in Nat, h \in Nat : x = <<l, h>>
      OBVIOUS
    <3>2. f[x] = Round(fits, f, l, h)
      BY <2>1, <3>1
    <3>3. CASE l >= h
      BY <3>1, <3>2, <3>3 DEF Round
    <3>4. CASE l < h
      BY <3>1, <3>2, <3>4, Halves DEF Round, Middle
    <3> QED
      BY <3>3, <3>4
  <2>3. f = Body(f)
    BY <2>1, <2>2 DEF Pairs
  <2> QED
    BY <2>3
<1>3. search = Body(search)
  BY <1>2
<1> HIDE DEF search
<1>4. ASSUME NEW l \in Nat, NEW h \in Nat PROVE search[<<l, h>>] = Round(fits, search, l, h)
  <2>1. search[<<l, h>>] = Body(search)[<<l, h>>]
    BY <1>3
  <2>2. CASE l >= h
    BY <2>1, <2>2 DEF Round
  <2>3. CASE l < h
    BY <2>1, <2>3, Halves DEF Round, Middle
  <2> QED
    BY <2>2, <2>3
<1>5. search[<<1, Len(page) - 1>>] \in 1..(Len(page) - 1)
  <2> HIDE DEF fits, Body
  <2>1. Len(page) - 1 \in Nat /\ 1 <= Len(page) - 1
    OBVIOUS
  <2> QED
    BY <2>1, <1>4, Bounded
<1> QED
  BY <1>1, <1>5

-----------------------------------------------------------------------------
\* Sequences.

\* A function on 0..N made by steps: D[i] makes value i from the one before.
Steps(N, S) == [1..N -> [S -> S]]

Iterates(g, N, S, c, D) ==
  g \in [0..N -> S] /\ g[0] = c /\ \A i \in 1..N : g[i] = D[i][g[i - 1]]

\* Such a function exists, for any first value and any steps.
LEMMA Iteration ==
  ASSUME NEW N, NEW S, NEW c, NEW D, N \in Nat, c \in S, D \in Steps(N, S)
  PROVE  \E g : Iterates(g, N, S, c, D)
<1> USE DEF Steps
<1> DEFINE Upto(k) == \E g \in [0..k -> S] : g[0] = c /\ \A i \in 1..k : g[i] = D[i][g[i - 1]]
           T == {k \in Nat : k <= N => Upto(k)}
<1>1. 0 \in T
  <2> DEFINE g == [i \in 0..0 |-> c]
  <2>1. g \in [0..0 -> S] /\ g[0] = c /\ 1..0 = {}
    OBVIOUS
  <2> HIDE DEF g
  <2> QED
    BY <2>1
<1>2. ASSUME NEW k \in T PROVE k + 1 \in T
  <2> SUFFICES ASSUME k + 1 <= N PROVE Upto(k + 1)
    OBVIOUS
  <2>1. k \in Nat /\ k <= N /\ k + 1 \in 1..N
    OBVIOUS
  <2>2. PICK g \in [0..k -> S] : g[0] = c /\ \A i \in 1..k : g[i] = D[i][g[i - 1]]
    BY <1>2, <2>1
  <2> DEFINE h == [i \in 0..(k + 1) |-> IF i <= k THEN g[i] ELSE D[k + 1][g[k]]]
  <2>3. D[k + 1][g[k]] \in S
    BY <2>1, <2>2
  <2>4. h \in [0..(k + 1) -> S]
    BY <2>1, <2>2, <2>3
  <2>5. h[0] = c
    BY <2>1, <2>2
  <2>6. ASSUME NEW i \in 1..(k + 1) PROVE h[i] = D[i][h[i - 1]]
    <3>1. CASE i <= k
      BY <2>1, <2>2, <3>1
    <3>2. CASE i = k + 1
      BY <2>1, <2>2, <3>2
    <3> QED
      BY <2>1, <3>1, <3>2
  <2> QED
    BY <2>4, <2>5, <2>6
<1>3. T = Nat
  BY <1>1, <1>2, NaturalInduction
<1> QED
  BY <1>3 DEF Iterates

\* list_data_access orders the rows it found, and makes no others.
LEMMA DirectFirstIsSeq ==
  ASSUME NEW S, NEW list \in Seq(S)
  PROVE  DirectFirst(list) \in Seq(S)
<1> DEFINE Body(direct, u) ==
      [n \in 0..Len(list) |->
         IF n = 0 THEN <<>>
         ELSE IF list[n].direct = direct THEN Append(u[n - 1], list[n]) ELSE u[n - 1]]
      Upto(direct) == CHOOSE u : u = Body(direct, u)
<1>1. DirectFirst(list) = Upto(TRUE)[Len(list)] \o Upto(FALSE)[Len(list)]
  BY Zenon DEF DirectFirst
<1>2. ASSUME NEW direct PROVE Upto(direct)[Len(list)] \in Seq(S)
  <2> DEFINE D == [i \in 1..Len(list) |-> [s \in Seq(S) |->
                     IF list[i].direct = direct THEN Append(s, list[i]) ELSE s]]
  <2>1. D \in [1..Len(list) -> [Seq(S) -> Seq(S)]]
    OBVIOUS
  <2>2. PICK g \in [0..Len(list) -> Seq(S)] :
          g[0] = <<>> /\ \A i \in 1..Len(list) : g[i] = D[i][g[i - 1]]
    <3>1. Len(list) \in Nat /\ <<>> \in Seq(S)
      OBVIOUS
    <3> HIDE DEF D
    <3>2. D \in Steps(Len(list), Seq(S))
      BY <2>1, Zenon DEF Steps
    <3>3. PICK g : Iterates(g, Len(list), Seq(S), <<>>, D)
      BY <3>1, <3>2, Iteration
    <3> QED
      BY <3>3, Zenon DEF Iterates
  <2>3. g = Body(direct, g)
    <3>1. ASSUME NEW n \in 0..Len(list) PROVE g[n] = Body(direct, g)[n]
      <4>1. CASE n = 0
        BY <2>2, <4>1
      <4>2. CASE n # 0
        <5>1. n \in 1..Len(list) /\ n - 1 \in 0..Len(list)
          BY <4>2
        <5> QED
          BY <2>2, <4>2, <5>1
      <4> QED
        BY <4>1, <4>2
    <3> QED
      BY <2>2, <3>1
  <2>4. Upto(direct) = Body(direct, Upto(direct))
    BY <2>3
  <2> DEFINE u == Upto(direct)
             T == {n \in Nat : n <= Len(list) => u[n] \in Seq(S)}
  <2> HIDE DEF Upto
  <2>5. 0 \in T
    BY <2>4
  <2>6. ASSUME NEW n \in T PROVE n + 1 \in T
    <3> SUFFICES ASSUME n + 1 <= Len(list) PROVE u[n + 1] \in Seq(S)
      OBVIOUS
    <3>1. n \in Nat /\ u[n] \in Seq(S) /\ n + 1 \in 1..Len(list) /\ list[n + 1] \in S
      BY <2>6
    <3>2. n + 1 \in 0..Len(list) /\ n + 1 # 0 /\ (n + 1) - 1 = n
      BY <3>1
    <3>3. u[n + 1] = IF list[n + 1].direct = direct THEN Append(u[n], list[n + 1]) ELSE u[n]
      BY <2>4, <3>2
    <3> QED
      BY <3>1, <3>3
  <2>7. T = Nat
    BY <2>5, <2>6, NaturalInduction
  <2> QED
    BY <2>7
<1> HIDE DEF Upto
<1>3. Upto(TRUE)[Len(list)] \in Seq(S) /\ Upto(FALSE)[Len(list)] \in Seq(S)
  BY <1>2, Zenon
<1>4. \A s, t \in Seq(S) : s \o t \in Seq(S)
  OBVIOUS
<1> QED
  BY <1>1, <1>3, <1>4, Zenon

\* The recursive function behind FlattenSeq.
FlatBody(seqs, f) == [i \in 1..Len(seqs) |-> IF i = 1 THEN seqs[i] ELSE f[i - 1] \o seqs[i]]

\* It exists, and a flattened sequence of sequences of S is a sequence of S.
LEMMA Flattening ==
  ASSUME NEW S, NEW seqs \in Seq(Seq(S)), seqs # <<>>
  PROVE  \E f : /\ f = FlatBody(seqs, f)
                /\ FlattenSeq(seqs) = f[Len(seqs)]
                /\ \A n \in 1..Len(seqs) : f[n] \in Seq(S)
<1> DEFINE N == Len(seqs)
           flat == CHOOSE f : f = FlatBody(seqs, f)
<1>0. N \in Nat /\ N # 0
  OBVIOUS
<1>1. FlattenSeq(seqs) = flat[N]
  <2>1. Len(seqs) # 0
    OBVIOUS
  <2> QED
    BY <2>1, Zenon DEF FlattenSeq, FlatBody
<1>2. \E f : f = FlatBody(seqs, f)
  <2> DEFINE D == [i \in 1..N |-> [s \in Seq(S) |-> IF i = 1 THEN seqs[i] ELSE s \o seqs[i]]]
  <2>1. D \in [1..N -> [Seq(S) -> Seq(S)]]
    OBVIOUS
  <2>2. PICK g \in [0..N -> Seq(S)] : g[0] = <<>> /\ \A i \in 1..N : g[i] = D[i][g[i - 1]]
    <3>1. <<>> \in Seq(S)
      OBVIOUS
    <3> HIDE DEF D, N
    <3>2. D \in Steps(N, Seq(S))
      BY <2>1, Zenon DEF Steps
    <3>3. PICK g : Iterates(g, N, Seq(S), <<>>, D)
      BY <1>0, <3>1, <3>2, Iteration
    <3> QED
      BY <3>3, Zenon DEF Iterates
  <2> DEFINE f == [i \in 1..N |-> g[i]]
  <2>3. ASSUME NEW i \in 1..N PROVE f[i] = FlatBody(seqs, f)[i]
    <3>1. i - 1 \in 0..N
      BY <1>0
    <3>4. g[i - 1] \in Seq(S)
      BY <2>2, <3>1
    <3>2. g[i] = IF i = 1 THEN seqs[i] ELSE g[i - 1] \o seqs[i]
      BY <2>2, <3>4
    <3>3. i # 1 => i - 1 \in 1..N
      BY <1>0
    <3> QED
      BY <3>2, <3>3 DEF FlatBody
  <2>4. f = FlatBody(seqs, f)
    BY <2>3 DEF FlatBody
  <2> QED
    BY <2>4
<1>3. flat = FlatBody(seqs, flat)
  BY <1>2
<1> HIDE DEF flat
<1> DEFINE T == {n \in Nat : n + 1 <= N => flat[n + 1] \in Seq(S)}
<1>4. 0 \in T
  BY <1>0, <1>3 DEF FlatBody
<1>5. ASSUME NEW n \in T PROVE n + 1 \in T
  <2> SUFFICES ASSUME n + 2 <= N PROVE flat[n + 2] \in Seq(S)
    OBVIOUS
  <2>1. n \in Nat /\ flat[n + 1] \in Seq(S) /\ n + 2 \in 1..N /\ seqs[n + 2] \in Seq(S)
    BY <1>5
  <2>3. (n + 2) - 1 = n + 1 /\ n + 2 # 1
    BY <2>1
  <2>2. flat[n + 2] = flat[n + 1] \o seqs[n + 2]
    BY <1>3, <2>1, <2>3 DEF FlatBody
  <2> QED
    BY <2>1, <2>2
<1>6. T = Nat
  BY <1>4, <1>5, NaturalInduction
<1>7. ASSUME NEW n \in 1..N PROVE flat[n] \in Seq(S)
  <2>1. n - 1 \in Nat /\ (n - 1) + 1 = n /\ n <= N
    BY <1>0
  <2>2. n - 1 \in T
    BY <1>6, <2>1
  <2> QED
    BY <2>1, <2>2
<1> QED
  BY <1>1, <1>3, <1>7

\* Flattening one sequence more appends its elements.
LEMMA FlattenAppend ==
  ASSUME NEW S, NEW seqs \in Seq(Seq(S)), NEW last \in Seq(S)
  PROVE  /\ FlattenSeq(seqs) \in Seq(S)
         /\ FlattenSeq(Append(seqs, last)) = FlattenSeq(seqs) \o last
<1> DEFINE longer == Append(seqs, last)
           N == Len(seqs)
<1>1. /\ longer \in Seq(Seq(S)) /\ longer # <<>> /\ Len(longer) = N + 1 /\ N \in Nat
      /\ \A i \in 1..N : longer[i] = seqs[i]
      /\ longer[N + 1] = last
  <2>1. N \in Nat /\ Len(longer) = N + 1
    OBVIOUS
  <2>2. longer \in Seq(Seq(S)) /\ longer # <<>>
    BY AppendProperties
  <2>3. longer[N + 1] = last
    OBVIOUS
  <2>4. \A i \in 1..N : longer[i] = seqs[i]
    OBVIOUS
  <2> QED
    BY <2>1, <2>2, <2>3, <2>4
<1> HIDE DEF longer, N
<1>2. PICK f : f = FlatBody(longer, f) /\ FlattenSeq(longer) = f[N + 1]
  BY <1>1, Flattening
<1>3. CASE seqs = <<>>
  <2>1. N = 0 /\ FlattenSeq(seqs) = <<>>
    BY <1>3 DEF N, FlattenSeq
  <2>2. f[N + 1] = last
    BY <1>1, <1>2, <2>1 DEF FlatBody
  <2> QED
    BY <1>2, <2>1, <2>2 DEF longer
<1>4. CASE seqs # <<>>
  <2>1. PICK h : /\ h = FlatBody(seqs, h) /\ FlattenSeq(seqs) = h[N]
                 /\ \A n \in 1..N : h[n] \in Seq(S)
    BY <1>4, Flattening DEF N
  <2>2. N # 0 /\ N = Len(seqs)
    BY <1>4 DEF N
  <2> DEFINE T == {n \in Nat : n + 1 <= N => f[n + 1] = h[n + 1]}
  <2>3. 0 \in T
    BY <1>1, <1>2, <2>1, <2>2 DEF FlatBody
  <2>4. ASSUME NEW n \in T PROVE n + 1 \in T
    <3> SUFFICES ASSUME n + 2 <= N PROVE f[n + 2] = h[n + 2]
      OBVIOUS
    <3>0. n \in Nat /\ n + 1 <= N
      BY <1>1, <2>4
    <3>1. n \in Nat /\ n + 2 \in 1..N /\ n + 2 \in 1..(N + 1) /\ f[n + 1] = h[n + 1]
      BY <1>1, <2>4, <3>0
    <3>4. (n + 2) - 1 = n + 1 /\ n + 2 # 1
      BY <3>1
    <3>2. f[n + 2] = f[n + 1] \o longer[n + 2]
      BY <1>1, <1>2, <3>1, <3>4 DEF FlatBody
    <3>3. h[n + 2] = h[n + 1] \o seqs[n + 2]
      BY <2>1, <2>2, <3>1, <3>4 DEF FlatBody
    <3> QED
      BY <1>1, <3>1, <3>2, <3>3
  <2>5. T = Nat
    BY <2>3, <2>4, NaturalInduction
  <2>6. f[N] = h[N]
    <3>1. N - 1 \in Nat /\ (N - 1) + 1 = N
      BY <1>1, <2>2
    <3>2. N - 1 \in T
      BY <2>5, <3>1
    <3> QED
      BY <1>1, <3>1, <3>2
  <2>9. (N + 1) - 1 = N /\ N + 1 # 1 /\ N + 1 \in 1..(N + 1)
    BY <1>1, <2>2
  <2>7. f[N + 1] = f[N] \o last
    BY <1>1, <1>2, <2>9 DEF FlatBody
  <2>8. h[N] \in Seq(S)
    BY <1>1, <2>1, <2>2
  <2> QED
    BY <1>2, <2>1, <2>6, <2>7, <2>8 DEF longer
<1> QED
  BY <1>3, <1>4

\* The first n elements of a sequence, or all of it when it is shorter.
LEMMA TakeFacts ==
  ASSUME NEW S, NEW s \in Seq(S), NEW n \in Nat
  PROVE  /\ Take(s, n) \in Seq(S)
         /\ Len(Take(s, n)) = AtMost(n, Len(s))
         /\ AtMost(n, Len(s)) \in Nat
         /\ \A i \in 1..AtMost(n, Len(s)) : Take(s, n)[i] = s[i]
BY DEF Take, AtMost

\* The first n rows of two lists are as many queries' first n rows: a query may be
\* cut at n when only the first n rows of all are needed.
LEMMA TakeConcat ==
  ASSUME NEW S, NEW a \in Seq(S), NEW b \in Seq(S), NEW x \in Seq(S), NEW n \in Nat,
         Take(a, n) = Take(b, n)
  PROVE  Take(a \o Take(x, n), n) = Take(b \o x, n)
<1> DEFINE p == a \o Take(x, n)
           q == b \o x
<1>1. Take(x, n) \in Seq(S) /\ Len(Take(x, n)) = AtMost(n, Len(x))
  BY TakeFacts
<1>2. p \in Seq(S) /\ q \in Seq(S)
  BY <1>1
<1>3. /\ Len(a) >= n => Len(b) >= n
      /\ Len(a) < n => Len(b) = Len(a)
      /\ \A i \in 1..AtMost(n, Len(a)) : a[i] = b[i]
  BY TakeFacts DEF AtMost
<1>4. Len(p) = Len(a) + AtMost(n, Len(x)) /\ Len(q) = Len(b) + Len(x)
  BY <1>1
<1>5. AtMost(n, Len(p)) = AtMost(n, Len(q))
  BY <1>3, <1>4 DEF AtMost
<1>6. ASSUME NEW i \in 1..AtMost(n, Len(p)) PROVE p[i] = q[i]
  <2>1. CASE i <= Len(a)
    BY <1>1, <1>3, <1>4, <2>1 DEF AtMost
  <2>2. CASE i > Len(a)
    <3>1. Len(b) = Len(a) /\ i - Len(a) \in 1..AtMost(n, Len(x))
      BY <1>3, <1>4, <2>2 DEF AtMost
    <3>2. p[i] = Take(x, n)[i - Len(a)] /\ q[i] = x[i - Len(b)]
      BY <1>1, <1>4, <3>1, <2>2 DEF AtMost
    <3> QED
      BY <3>1, <3>2, TakeFacts
  <2>3. i \in Nat /\ Len(a) \in Nat
    BY <1>2 DEF AtMost
  <2> HIDE DEF p, q
  <2> QED
    BY <2>1, <2>2, <2>3
<1>7. /\ Take(p, n) \in Seq(S) /\ Len(Take(p, n)) = AtMost(n, Len(p))
      /\ \A i \in 1..AtMost(n, Len(p)) : Take(p, n)[i] = p[i]
      /\ Take(q, n) \in Seq(S) /\ Len(Take(q, n)) = AtMost(n, Len(q))
      /\ \A i \in 1..AtMost(n, Len(q)) : Take(q, n)[i] = q[i]
  <2> HIDE DEF p, q
  <2> QED
    BY <1>2, TakeFacts
<1> HIDE DEF p, q
<1>8. Take(p, n) = Take(q, n)
  BY <1>5, <1>6, <1>7, SeqEqual
<1> QED
  BY <1>8 DEF p, q

-----------------------------------------------------------------------------
\* Types.

\* A page is a part of the rows the list returned, from the first on: not
\* longer than the limit, and not empty when there is a row.
LEMMA PageFacts ==
  ASSUME NEW S, NEW items \in Seq(S), NEW window \in Windows, NEW rest, NEW page,
         page = FitPage(window, items, rest)
  PROVE  /\ page \in Seq(S)
         /\ Len(page) <= window.limit
         /\ Len(page) <= Len(items)
         /\ items # <<>> => 1 <= Len(page)
         /\ \A i \in 1..Len(page) : page[i] = items[i]
<1> DEFINE first == Take(items, window.limit)
<1>0. window.limit \in Nat /\ 1 <= window.limit /\ Len(items) \in Nat
  BY DEF Windows
<1>1. /\ first \in Seq(S) /\ Len(first) = AtMost(window.limit, Len(items))
      /\ \A i \in 1..Len(first) : first[i] = items[i]
  BY <1>0, TakeFacts
<1>2. /\ Len(first) \in Nat /\ Len(first) <= window.limit /\ Len(first) <= Len(items)
      /\ items # <<>> => 1 <= Len(first)
  BY <1>0, <1>1 DEF AtMost
<1> DEFINE n == LargestFit(first, rest, Budget)
<1>3. page = first \/ (1 < Len(first) /\ page = Take(first, n))
  BY DEF FitPage
<1> HIDE DEF first
<1>4. CASE 1 < Len(first) /\ page = Take(first, n)
  <2>1. n \in 1..(Len(first) - 1)
    BY <1>2, <1>4, FitIsInBounds
  <2> HIDE DEF n
  <2>4. n \in Nat /\ first \in Seq(S)
    BY <1>1, <1>2, <2>1
  <2>2. /\ page \in Seq(S) /\ Len(page) = AtMost(n, Len(first))
        /\ \A i \in 1..AtMost(n, Len(first)) : page[i] = first[i]
    BY <1>4, <2>4, TakeFacts
  <2>3. Len(page) = n
    BY <1>2, <2>1, <2>2 DEF AtMost
  <2> QED
    BY <1>0, <1>1, <1>2, <2>1, <2>2, <2>3
<1> QED
  BY <1>1, <1>2, <1>3, <1>4

\* The rows a call takes from its list: those from the offset to the probe row.
LEMMA ItemFacts ==
  ASSUME NEW S, NEW list \in Seq(S), NEW window \in Windows
  PROVE  LET items == TakeWindow(window, list)
             last == AtMost(window.fetch, Len(list))
         IN  /\ items \in Seq(S)
             /\ Len(items) = IF window.offset + 1 <= last THEN last - window.offset ELSE 0
             /\ \A i \in 1..Len(items) : items[i] = list[window.offset + i]
<1> DEFINE items == TakeWindow(window, list)
           last == AtMost(window.fetch, Len(list))
<1>0. window.offset \in Nat /\ window.fetch \in Nat /\ Len(list) \in Nat
  BY DEF Windows
<1>1. last \in Nat /\ last <= Len(list)
  BY <1>0 DEF AtMost
<1>2. items = SubSeq(list, window.offset + 1, last)
  BY DEF TakeWindow
<1> HIDE DEF items, last
<1>3. /\ items \in Seq(S)
      /\ Len(items) = IF window.offset + 1 <= last THEN last - (window.offset + 1) + 1 ELSE 0
      /\ \A i \in 1..(last - (window.offset + 1) + 1) : items[i] = list[(window.offset + 1) + i - 1]
  <2>1. \A i \in (window.offset + 1)..last : list[i] \in S
    BY <1>0, <1>1
  <2>2. window.offset + 1 \in Int /\ last \in Int
    BY <1>0, <1>1
  <2> QED
    BY <1>2, <2>1, <2>2, SubSeqProperties
<1>4. \A i \in 1..Len(items) : items[i] = list[window.offset + i]
  <2> SUFFICES ASSUME NEW i \in 1..Len(items) PROVE items[i] = list[window.offset + i]
    OBVIOUS
  <2>1. i \in 1..(last - (window.offset + 1) + 1) /\ (window.offset + 1) + i - 1 = window.offset + i
    BY <1>0, <1>1, <1>3
  <2> QED
    BY <1>3, <2>1
<1>5. Len(items) = IF window.offset + 1 <= last THEN last - window.offset ELSE 0
  BY <1>0, <1>1, <1>3
<1> QED
  BY <1>3, <1>4, <1>5 DEF items, last

\* What a tool makes of its rows are rows.
LEMMA ArrangeIsSeq ==
  ASSUME NEW S, NEW list \in Seq(S), NEW tool
  PROVE  Arrange(tool, list) \in Seq(S)
BY DirectFirstIsSeq DEF Arrange

\* pageWindow: the page has one row at least, and the probe row is behind it.
LEMMA WindowType ==
  ASSUME NEW limit \in Limits, NEW offset \in Nat
  PROVE  /\ PageWindow(limit, offset) \in Windows
         /\ PageWindow(limit, offset).offset = offset
         /\ PageWindow(limit, offset).fetch = offset + PageWindow(limit, offset).limit + 1
<1>1. OptionalLimit(limit, DefaultLimit) \in Nat \ {0}
  BY McpConstants, PagingConstants DEF OptionalLimit, AtLeast, AtMost
<1> QED
  BY <1>1 DEF PageWindow, Windows

\* Every tool runs one query at least.
LEMMA ToolFacts ==
  ASSUME NEW tool \in DOMAIN Tools
  PROVE  Len(Tools[tool]) \in Nat /\ 1 <= Len(Tools[tool])
BY DEF Tools, FindDefinitions, FindCallers, ListExports, ListRoutes, ListPages,
       ListEntrypoints, ListEnvConfig, ListDataAccess

\* What a query returns are rows of the graph.
LEMMA RowsOfIsSeq ==
  ASSUME NEW g \in Graphs, NEW kind
  PROVE  RowsOf(g, kind) \in Seq(AllRows)
BY McpConstants DEF RowsOf

\* The line that is read, and the lines that stay.
LEMMA HeadOfInput ==
  ASSUME McpTypeOK, input # <<>>
  PROVE  /\ Head(input) \in OtherLines \cup PageRequests
         /\ Tail(input) \in Seq(OtherLines \cup PageRequests)
         /\ Len(input) \in Nat \ {0}
         /\ Len(Tail(input)) = Len(input) - 1
         /\ Head(input) = input[1]
         /\ \A i \in 1..(Len(input) - 1) : Tail(input)[i] = input[i + 1]
BY DEF McpTypeOK

\* What the server reads as a call of a list tool is a request of a walk.
LEMMA PagedLine ==
  ASSUME NEW line \in OtherLines \cup PageRequests, line.kind = "request", PagedCall(line)
  PROVE  line \in PageRequests
BY McpConstants

\* What a walk writes is a line.
LEMMA PageRequestType ==
  ASSUME NEW w \in Walks, NEW limit \in Limits, NEW c \in Cursors
  PROVE  PageRequest(w, limit, c) \in PageRequests
BY DEF PageRequest, PageRequests, Calls

\* The types of the server's and its clients' state.
THEOREM McpTypes == McpSpec => []McpTypeOK
<1>1. McpInit => McpTypeOK
  <2> SUFFICES ASSUME McpInit PROVE McpTypeOK
    OBVIOUS
  <2>1. open \in BOOLEAN
    BY Zenon DEF McpInit
  <2> QED
    BY <2>1, McpConstants DEF McpInit, McpTypeOK, Cursors
<1>2. McpTypeOK /\ [McpNext]_vars => McpTypeOK'
  <2> SUFFICES ASSUME McpTypeOK, [McpNext]_vars PROVE McpTypeOK'
    OBVIOUS
  <2>1. ASSUME NEW w \in Walks, StartWalk(w) PROVE McpTypeOK'
    <3>1. PICK limit \in Limits : input' = Append(input, PageRequest(w, limit, NoCursor))
      BY <2>1 DEF StartWalk
    <3>2. PageRequest(w, limit, NoCursor) \in PageRequests
      BY PageRequestType DEF Cursors
    <3> QED
      BY <2>1, <3>1, <3>2 DEF StartWalk, McpTypeOK, server, Ids
  <2>2. ASSUME NEW w \in Walks, NextPage(w) PROVE McpTypeOK'
    <3>1. PICK limit \in Limits : input' = Append(input, PageRequest(w, limit, cursor[w]))
      BY <2>2 DEF NextPage
    <3>2. PageRequest(w, limit, cursor[w]) \in PageRequests
      BY PageRequestType DEF McpTypeOK
    <3> QED
      BY <2>2, <3>1, <3>2 DEF NextPage, McpTypeOK, server, Ids
  <2>3. ASSUME NEW w \in Walks, NEW v \in Walks, MixCursors(w, v) PROVE McpTypeOK'
    <3>1. PICK limit \in Limits : input' = Append(input, PageRequest(w, limit, cursor[v]))
      BY <2>3 DEF MixCursors
    <3>2. PageRequest(w, limit, cursor[v]) \in PageRequests
      BY PageRequestType DEF McpTypeOK
    <3> QED
      BY <2>3, <3>1, <3>2, McpConstants DEF MixCursors, McpTypeOK, server, Ids
  <2>4. ASSUME NEW line \in OtherLines, WriteOther(line) PROVE McpTypeOK'
    <3>1. asked' \in Seq(Ids)
      <4>1. line.kind = "request" => line.id \in Ids
        BY DEF Ids
      <4>2. "null" \in Ids
        BY DEF Ids
      <4> QED
        BY <2>4, <4>1, <4>2 DEF WriteOther, McpTypeOK
    <3> QED
      BY <2>4, <3>1, McpConstants DEF WriteOther, McpTypeOK, server
  <2>5. CASE CloseInput
    BY <2>5 DEF CloseInput, McpTypeOK, server
  <2>6. CASE Rescan
    BY <2>6, McpConstants DEF Rescan, McpTypeOK, server
  <2>7. CASE ReadGarbage \/ ReadNotification
    <3>1. input # <<>> /\ "null" \in Ids
      BY <2>7 DEF ReadGarbage, ReadNotification, Reading, Ids
    <3>2. Tail(input) \in Seq(OtherLines \cup PageRequests)
      BY <3>1, HeadOfInput
    <3>3. CASE ReadGarbage
      BY <3>1, <3>2, <3>3 DEF ReadGarbage, ReceiveAnswer, McpTypeOK, client
    <3>4. CASE ReadNotification
      BY <3>2, <3>4 DEF ReadNotification, McpTypeOK, client, server
    <3> QED
      BY <2>7, <3>3, <3>4
  <2>8. CASE ReadNull
    <3>1. input # <<>>
      BY <2>8 DEF ReadNull, Reading
    <3> QED
      BY <2>8, <3>1, HeadOfInput DEF ReadNull, McpTypeOK, client
  <2> DEFINE line == Head(input)
  <2>9. ASSUME Reading, line.kind = "request"
        PROVE  /\ line \in OtherLines \cup PageRequests
               /\ input' = Tail(input) => input' \in Seq(OtherLines \cup PageRequests)
               /\ line.id \in Ids
               /\ PagedCall(line) => line \in PageRequests
    <3>1. line \in OtherLines \cup PageRequests /\ Tail(input) \in Seq(OtherLines \cup PageRequests)
      BY <2>9, HeadOfInput DEF Reading
    <3>2. line.id \in Ids
      <4>1. CASE line \in OtherLines
        BY <2>9, <4>1 DEF Ids
      <4>2. CASE line \in PageRequests
        BY <4>2 DEF Ids, PageRequests
      <4> QED
        BY <3>1, <4>1, <4>2
    <3> QED
      BY <2>9, <3>1, <3>2, PagedLine
  <2>10. CASE ReadRequest
    BY <2>9, <2>10 DEF ReadRequest, ReceiveAnswer, McpTypeOK, client
  <2>11. CASE OpenFails
    <3>1. Reading /\ line.kind = "request"
      BY <2>11 DEF OpenFails
    <3>2. walk' \in [Walks -> {"idle", "waiting", "between", "done", "failed"}]
      BY <2>11 DEF OpenFails, McpTypeOK
    <3>3. input' \in Seq(OtherLines \cup PageRequests) /\ answers' \in Seq(Ids)
      BY <2>9, <2>11, <3>1 DEF OpenFails, ReceiveAnswer, McpTypeOK
    <3>4. failures' \in 0..MaxFailures
      BY <2>11, McpConstants DEF OpenFails, McpTypeOK
    <3> QED
      BY <2>11, <3>2, <3>3, <3>4 DEF OpenFails, McpTypeOK
  <2>12. CASE ReadOverview
    BY <2>9, <2>12 DEF ReadOverview, ReceiveAnswer, McpTypeOK, client
  <2>13. CASE RejectCursor
    <3>1. Reading /\ line.kind = "request"
      BY <2>13 DEF RejectCursor
    <3>2. walk' \in [Walks -> {"idle", "waiting", "between", "done", "failed"}]
      BY <2>13 DEF RejectCursor, McpTypeOK
    <3>3. input' \in Seq(OtherLines \cup PageRequests) /\ answers' \in Seq(Ids)
      BY <2>9, <2>13, <3>1 DEF RejectCursor, ReceiveAnswer, McpTypeOK
    <3> QED
      BY <2>13, <3>2, <3>3 DEF RejectCursor, McpTypeOK
  <2>14. CASE BeginCall
    <3>1. line \in PageRequests /\ input' \in Seq(OtherLines \cup PageRequests)
      BY <2>9, <2>14 DEF BeginCall
    <3>2. line.id \in Walks /\ line.call \in Calls /\ line.limit \in Limits /\ line.cursor \in Cursors
      BY <3>1 DEF PageRequests
    <3>3. DecodeCursor(line.cursor) \in Nat
      BY <3>2 DEF DecodeCursor, Cursors
    <3>4. PageWindow(line.limit, DecodeCursor(line.cursor)) \in Windows
      BY <3>2, <3>3, WindowType
    <3>5. ToolOf[line.call] \in DOMAIN Tools
      BY <3>2, McpConstants
    <3> DEFINE tool == ToolOf[line.call]
               window == PageWindow(line.limit, DecodeCursor(line.cursor))
    <3>6. job' = [id |-> line.id, call |-> line.call, tool |-> tool, next |-> 1, window |-> window]
      BY <2>14 DEF BeginCall
    <3> HIDE DEF tool, window
    <3>7. job' \in Jobs /\ job'.next = 1 /\ job'.tool \in DOMAIN Tools
      BY <3>2, <3>4, <3>5, <3>6 DEF Jobs, tool, window
    <3>8. job'.next <= Len(Tools[job'.tool]) + 1
      BY <3>7, ToolFacts
    <3> QED
      BY <2>14, <3>1, <3>7, <3>8 DEF BeginCall, McpTypeOK, client
  <2>15. CASE RunQuery
    <3>1. job \in Jobs /\ job.next <= Len(Tools[job.tool])
      BY <2>15 DEF RunQuery, McpTypeOK
    <3>2. Len(Tools[job.tool]) \in Nat /\ job.next \in Nat /\ job.window.fetch \in Nat
      BY <3>1, ToolFacts DEF Jobs, Windows
    <3>3. job' \in Jobs /\ job'.next = job.next + 1 /\ job'.tool = job.tool
      BY <2>15, <3>1 DEF RunQuery, Jobs
    <3>4. Take(RowsOf(graph, Tools[job.tool][job.next]), job.window.fetch) \in Seq(AllRows)
      BY <3>2, RowsOfIsSeq, TakeFacts DEF McpTypeOK
    <3>5. rows' \in Seq(AllRows)
      BY <2>15, <3>4 DEF RunQuery, McpTypeOK
    <3>6. job'.next <= Len(Tools[job'.tool]) + 1
      BY <3>1, <3>2, <3>3
    <3> QED
      BY <2>15, <3>3, <3>5, <3>6 DEF RunQuery, McpTypeOK, client
  <2>16. CASE AnswerCall
    <3>1. job \in Jobs /\ job.id \in Walks /\ job.call \in Calls /\ job.window \in Windows
      BY <2>16 DEF AnswerCall, McpTypeOK, Jobs
    <3> DEFINE items == TakeWindow(job.window, Arrange(job.tool, rows))
               rest == FitOthers(RestOf(graph, job.tool))
               page == FitPage(job.window, items, rest)
               next == NextCursor(job.call, job.window, items, page)
    <3>2. items \in Seq(AllRows)
      BY <3>1, ArrangeIsSeq, ItemFacts DEF McpTypeOK
    <3>3. /\ got' = [got EXCEPT ![job.id] = @ \o page]
          /\ cursor' = [cursor EXCEPT ![job.id] = next]
          /\ walk' = [walk EXCEPT ![job.id] = IF next = NoCursor THEN "done" ELSE "between"]
      BY <2>16 DEF AnswerCall
    <3> HIDE DEF items, rest
    <3>4. page \in Seq(AllRows)
      BY <3>1, <3>2, PageFacts
    <3> HIDE DEF page
    <3>5. next \in Cursors
      BY <3>1, <3>4 DEF NextCursor, EncodeCursor, Cursors, Windows
    <3> HIDE DEF next
    <3>6. /\ got' \in [Walks -> Seq(AllRows)]
          /\ cursor' \in [Walks -> Cursors]
          /\ walk' \in [Walks -> {"idle", "waiting", "between", "done", "failed"}]
      <4>1. got' \in [Walks -> Seq(AllRows)]
        BY <3>1, <3>3, <3>4 DEF McpTypeOK
      <4>2. cursor' \in [Walks -> Cursors]
        BY <3>3, <3>5 DEF McpTypeOK
      <4>3. walk' \in [Walks -> {"idle", "waiting", "between", "done", "failed"}]
        BY <3>3 DEF McpTypeOK
      <4> QED
        BY <4>1, <4>2, <4>3
    <3>7. answers' \in Seq(Ids)
      BY <2>16, <3>1 DEF AnswerCall, ReceiveAnswer, McpTypeOK, Ids
    <3> QED
      BY <2>16, <3>6, <3>7 DEF AnswerCall, McpTypeOK
  <2>17. CASE QueryRejects
    <3>1. job \in Jobs /\ job.id \in Walks
      BY <2>17 DEF QueryRejects, McpTypeOK, Jobs
    <3>2. walk' \in [Walks -> {"idle", "waiting", "between", "done", "failed"}]
      BY <2>17 DEF QueryRejects, McpTypeOK
    <3>3. answers' \in Seq(Ids)
      BY <2>17, <3>1 DEF QueryRejects, ReceiveAnswer, McpTypeOK, Ids
    <3>4. failures' \in 0..MaxFailures
      BY <2>17, McpConstants DEF QueryRejects, McpTypeOK
    <3> QED
      BY <2>17, <3>2, <3>3, <3>4 DEF QueryRejects, McpTypeOK
  <2>18. CASE EndLoop
    BY <2>18 DEF EndLoop, McpTypeOK, client
  <2>19. CASE UNCHANGED vars
    BY <2>19 DEF vars, McpTypeOK, client, server
  <2> QED
    BY <2>1, <2>2, <2>3, <2>4, <2>5, <2>6, <2>7, <2>8, <2>10, <2>11, <2>12, <2>13, <2>14, <2>15,
       <2>16, <2>17, <2>18, <2>19 DEF McpNext, ClientStep, ServerStep
<1>3. QED
  BY <1>1, <1>2, PTL DEF McpSpec

-----------------------------------------------------------------------------
\* Answers.

\* Where the answers of the lines that were not read yet will be: places[i] is
\* how many answers there are once line i is answered.  A notification gets no
\* place, and the call that runs has taken its own.
Answered(line) == line.kind \in {"garbage", "request"}
IdOf(line) == IF line.kind = "garbage" THEN "null" ELSE line.id

HavePlaces(places, lines, ids, before) ==
  /\ places \in [0..Len(lines) -> 0..Len(ids)]
  /\ places[0] = before
  /\ places[Len(lines)] = Len(ids)
  /\ \A i \in 1..Len(lines) :
       IF Answered(lines[i])
       THEN places[i] = places[i - 1] + 1 /\ ids[places[i]] = IdOf(lines[i])
       ELSE places[i] = places[i - 1]

Taken == Len(answers) + (IF loop = "calling" THEN 1 ELSE 0)

OrderInv ==
  /\ IsPrefix(answers, asked)
  /\ loop # "ended" => \E places : HavePlaces(places, input, asked, Taken)
  /\ loop = "calling" => asked[Len(answers) + 1] = job.id

\* A prefix is shorter, and the same as far as it goes.
LEMMA PrefixFacts ==
  ASSUME NEW S, NEW s \in Seq(S), NEW t \in Seq(S)
  PROVE  IsPrefix(s, t) <=> Len(s) <= Len(t) /\ \A i \in 1..Len(s) : s[i] = t[i]
<1>1. CASE Len(s) <= Len(t)
  <2>1. Len(s) \in Nat /\ Len(t) \in Nat
    OBVIOUS
  <2>2. SubSeq(s, 1, Len(s)) = s
    BY SubSeqFull
  <2>3. /\ SubSeq(t, 1, Len(s)) \in Seq(S)
        /\ Len(SubSeq(t, 1, Len(s))) = Len(s)
        /\ \A i \in 1..Len(s) : SubSeq(t, 1, Len(s))[i] = t[i]
    BY <1>1, <2>1
  <2>4. (s = SubSeq(t, 1, Len(s))) <=> \A i \in 1..Len(s) : s[i] = t[i]
    BY <2>3, SeqEqual
  <2> QED
    BY <1>1, <2>2, <2>4 DEF IsPrefix
<1> QED
  BY <1>1 DEF IsPrefix

\* The places of the lines, when one more is written.
LEMMA LineWritten ==
  ASSUME NEW L, NEW I, NEW lines \in Seq(L), NEW ids \in Seq(I), NEW before, NEW places,
         HavePlaces(places, lines, ids, before),
         NEW line \in L, NEW more \in Seq(I),
         IF Answered(line) THEN IdOf(line) \in I /\ more = Append(ids, IdOf(line)) ELSE more = ids
  PROVE  \E p : HavePlaces(p, Append(lines, line), more, before)
<1> DEFINE n == Len(lines)
           longer == Append(lines, line)
           p == [i \in 0..(n + 1) |-> IF i <= n THEN places[i] ELSE Len(more)]
<1>1. /\ n \in Nat /\ Len(longer) = n + 1 /\ longer[n + 1] = line
      /\ \A i \in 1..n : longer[i] = lines[i]
  <2>1. n \in Nat /\ Len(longer) = n + 1
    OBVIOUS
  <2>2. longer[n + 1] = line
    OBVIOUS
  <2>3. \A i \in 1..n : longer[i] = lines[i]
    OBVIOUS
  <2> QED
    BY <2>1, <2>2, <2>3
<1>2. /\ Len(ids) \in Nat /\ Len(more) \in Nat /\ Len(ids) <= Len(more)
      /\ \A i \in 1..Len(ids) : more[i] = ids[i]
      /\ Answered(line) => Len(more) = Len(ids) + 1 /\ more[Len(more)] = IdOf(line)
      /\ ~Answered(line) => Len(more) = Len(ids)
  BY DEF Answered
<1> HIDE DEF longer, n
<1>3. /\ places \in [0..n -> 0..Len(ids)] /\ places[0] = before /\ places[n] = Len(ids)
      /\ \A i \in 1..n : IF Answered(lines[i])
                         THEN places[i] = places[i - 1] + 1 /\ ids[places[i]] = IdOf(lines[i])
                         ELSE places[i] = places[i - 1]
  BY DEF HavePlaces, n
<1>4. p \in [0..(n + 1) -> 0..Len(more)]
  BY <1>1, <1>2, <1>3
<1>5. p[0] = before /\ p[n + 1] = Len(more)
  BY <1>1, <1>3
<1>6. ASSUME NEW i \in 1..(n + 1)
      PROVE  IF Answered(longer[i])
             THEN p[i] = p[i - 1] + 1 /\ more[p[i]] = IdOf(longer[i])
             ELSE p[i] = p[i - 1]
  <2>1. CASE i <= n
    <3>1. i \in 1..n /\ i - 1 \in 0..n /\ i \in 0..n
      BY <1>1, <2>1
    <3>2. p[i] = places[i] /\ p[i - 1] = places[i - 1] /\ longer[i] = lines[i]
      BY <1>1, <2>1, <3>1
    <3>3. places[i] \in 0..Len(ids) /\ places[i - 1] \in 0..Len(ids)
      BY <1>3, <3>1
    <3> HIDE DEF p
    <3>4. CASE Answered(lines[i])
      <4>1. places[i] = places[i - 1] + 1 /\ ids[places[i]] = IdOf(lines[i])
        BY <1>3, <3>1, <3>4
      <4>2. places[i] \in 1..Len(ids)
        BY <3>3, <4>1
      <4> QED
        BY <1>2, <3>2, <3>4, <4>1, <4>2
    <3>5. CASE ~Answered(lines[i])
      BY <1>3, <3>1, <3>2, <3>5
    <3> QED
      BY <3>4, <3>5
  <2>2. CASE i = n + 1
    <3>1. n \in 0..n /\ i - 1 = n /\ p[i] = Len(more) /\ p[i - 1] = Len(ids) /\ longer[i] = line
      BY <1>1, <1>3, <2>2
    <3> HIDE DEF p
    <3> QED
      BY <1>2, <3>1
  <2> QED
    BY <1>1, <2>1, <2>2
<1> HIDE DEF p
<1>7. HavePlaces(p, longer, more, before)
  BY <1>1, <1>4, <1>5, <1>6 DEF HavePlaces
<1> QED
  BY <1>7 DEF longer

\* The places of the lines that stay, when the first one is read.
LEMMA LineRead ==
  ASSUME NEW L, NEW I, NEW lines \in Seq(L), NEW ids \in Seq(I), NEW before, NEW places,
         HavePlaces(places, lines, ids, before), lines # <<>>
  PROVE  /\ before \in Nat
         /\ Answered(Head(lines)) =>
              /\ before + 1 <= Len(ids)
              /\ ids[before + 1] = IdOf(Head(lines))
              /\ \E p : HavePlaces(p, Tail(lines), ids, before + 1)
         /\ ~Answered(Head(lines)) => \E p : HavePlaces(p, Tail(lines), ids, before)
<1> DEFINE n == Len(lines)
           rest == Tail(lines)
           p == [i \in 0..(n - 1) |-> places[i + 1]]
<1>1. /\ n \in Nat \ {0} /\ Len(rest) = n - 1 /\ Head(lines) = lines[1]
      /\ \A i \in 1..(n - 1) : rest[i] = lines[i + 1]
  OBVIOUS
<1>2. Len(ids) \in Nat
  OBVIOUS
<1> HIDE DEF n, rest
<1>3. /\ places \in [0..n -> 0..Len(ids)] /\ places[0] = before /\ places[n] = Len(ids)
      /\ \A i \in 1..n : IF Answered(lines[i])
                         THEN places[i] = places[i - 1] + 1 /\ ids[places[i]] = IdOf(lines[i])
                         ELSE places[i] = places[i - 1]
  BY DEF HavePlaces, n
<1>4. 0 \in 0..n /\ 1 \in 0..n /\ 1 \in 1..n /\ 1 - 1 = 0
  BY <1>1
<1>5. p \in [0..(n - 1) -> 0..Len(ids)] /\ p[0] = places[1] /\ p[n - 1] = Len(ids)
  BY <1>1, <1>3, <1>4
<1>6. ASSUME NEW i \in 1..(n - 1)
      PROVE  IF Answered(rest[i])
             THEN p[i] = p[i - 1] + 1 /\ ids[p[i]] = IdOf(rest[i])
             ELSE p[i] = p[i - 1]
  <2>1. i + 1 \in 1..n /\ (i + 1) - 1 = i /\ (i - 1) + 1 = i /\ i - 1 \in 0..(n - 1) /\ i \in 0..(n - 1)
    BY <1>1
  <2>2. p[i] = places[i + 1] /\ p[i - 1] = places[i] /\ rest[i] = lines[i + 1]
    BY <1>1, <2>1
  <2> HIDE DEF p
  <2> QED
    BY <1>3, <2>1, <2>2
<1> HIDE DEF p
<1>7. HavePlaces(p, rest, ids, places[1])
  BY <1>1, <1>5, <1>6 DEF HavePlaces
<1>8. before \in 0..Len(ids) /\ places[1] \in 0..Len(ids)
  BY <1>3, <1>4
<1>9. CASE Answered(Head(lines))
  <2>1. places[1] = before + 1 /\ ids[places[1]] = IdOf(Head(lines))
    BY <1>1, <1>3, <1>4, <1>9
  <2> QED
    BY <1>2, <1>7, <1>8, <1>9, <2>1 DEF rest
<1>10. CASE ~Answered(Head(lines))
  <2>1. places[1] = before
    BY <1>1, <1>3, <1>4, <1>10
  <2> QED
    BY <1>7, <1>8, <1>10, <2>1 DEF rest
<1> QED
  BY <1>9, <1>10

\* A line that is written gets its place behind all others.
LEMMA OrderOfWriting ==
  ASSUME McpTypeOK, McpTypeOK', OrderInv, UNCHANGED server,
         NEW line \in OtherLines \cup PageRequests, input' = Append(input, line),
         IF Answered(line) THEN IdOf(line) \in Ids /\ asked' = Append(asked, IdOf(line))
         ELSE asked' = asked
  PROVE  OrderInv'
<1>1. loop' = loop /\ answers' = answers /\ job' = job /\ Taken' = Taken
  BY DEF server, Taken
<1>2. /\ Len(asked) <= Len(asked') /\ Len(asked) \in Nat /\ Len(asked') \in Nat
      /\ \A i \in 1..Len(asked) : asked'[i] = asked[i]
  BY DEF McpTypeOK, Answered
<1>3. /\ Len(answers) <= Len(asked) /\ Len(answers) \in Nat
      /\ \A i \in 1..Len(answers) : answers[i] = asked[i]
  BY PrefixFacts DEF OrderInv, McpTypeOK
<1>4. IsPrefix(answers', asked')
  <2>1. answers' \in Seq(Ids) /\ asked' \in Seq(Ids)
    BY DEF McpTypeOK
  <2>2. Len(answers') <= Len(asked') /\ \A i \in 1..Len(answers') : answers'[i] = asked'[i]
    BY <1>1, <1>2, <1>3
  <2> QED
    BY <2>1, <2>2, PrefixFacts
<1>5. loop' # "ended" => \E places : HavePlaces(places, input', asked', Taken')
  <2> SUFFICES ASSUME loop # "ended" PROVE \E places : HavePlaces(places, input', asked', Taken)
    BY <1>1
  <2>1. PICK places : HavePlaces(places, input, asked, Taken)
    BY DEF OrderInv
  <2>2. /\ input \in Seq(OtherLines \cup PageRequests)
        /\ asked \in Seq(Ids) /\ asked' \in Seq(Ids)
    BY DEF McpTypeOK
  <2> QED
    BY <2>1, <2>2, LineWritten
<1>6. loop' = "calling" => asked'[Len(answers') + 1] = job'.id
  <2> SUFFICES ASSUME loop = "calling" PROVE asked'[Len(answers) + 1] = job.id
    BY <1>1
  <2>1. PICK places : HavePlaces(places, input, asked, Taken)
    BY DEF OrderInv
  <2>2. Len(answers) + 1 <= Len(asked)
    <3>0. 0 \in 0..Len(input)
      BY DEF McpTypeOK
    <3>1. places[0] \in 0..Len(asked)
      BY <2>1, <3>0 DEF HavePlaces
    <3> QED
      BY <1>2, <1>3, <2>1, <3>1 DEF HavePlaces, Taken
  <2> QED
    BY <1>2, <1>3, <2>2 DEF OrderInv
<1> QED
  BY <1>4, <1>5, <1>6 DEF OrderInv

\* A line that is read takes its place: it is answered, it gets none, or its
\* call begins.
LEMMA OrderOfReading ==
  ASSUME McpTypeOK, McpTypeOK', OrderInv, Reading, input' = Tail(input), asked' = asked,
         \/ /\ Answered(Head(input)) /\ loop' = "reading"
            /\ answers' = Append(answers, IdOf(Head(input)))
         \/ ~Answered(Head(input)) /\ loop' = "reading" /\ answers' = answers
         \/ /\ Answered(Head(input)) /\ loop' = "calling" /\ answers' = answers
            /\ job'.id = IdOf(Head(input))
  PROVE  OrderInv'
<1>1. PICK places : HavePlaces(places, input, asked, Len(answers))
  BY DEF OrderInv, Reading, Taken, McpTypeOK
<1>2. input \in Seq(OtherLines \cup PageRequests) /\ input # <<>> /\ asked \in Seq(Ids)
  BY DEF McpTypeOK, Reading
<1>3. /\ Answered(Head(input)) =>
           /\ Len(answers) + 1 <= Len(asked)
           /\ asked[Len(answers) + 1] = IdOf(Head(input))
           /\ \E p : HavePlaces(p, input', asked, Len(answers) + 1)
      /\ ~Answered(Head(input)) => \E p : HavePlaces(p, input', asked, Len(answers))
  BY <1>1, <1>2, LineRead
<1>4. /\ Len(answers) <= Len(asked) /\ Len(answers) \in Nat
      /\ \A i \in 1..Len(answers) : answers[i] = asked[i]
  BY PrefixFacts DEF OrderInv, McpTypeOK
<1>5. answers \in Seq(Ids) /\ answers' \in Seq(Ids) /\ asked' \in Seq(Ids)
  BY DEF McpTypeOK
<1>6. CASE /\ Answered(Head(input)) /\ loop' = "reading"
           /\ answers' = Append(answers, IdOf(Head(input)))
  <2>1. /\ Len(answers') = Len(answers) + 1
        /\ \A i \in 1..Len(answers) : answers'[i] = answers[i]
        /\ answers'[Len(answers) + 1] = IdOf(Head(input))
    BY <1>5, <1>6
  <2>2. Len(answers') <= Len(asked') /\ \A i \in 1..Len(answers') : answers'[i] = asked'[i]
    <3> SUFFICES ASSUME NEW i \in 1..Len(answers') PROVE answers'[i] = asked[i]
      BY <1>3, <1>6, <2>1
    <3>1. i \in 1..Len(answers) \/ i = Len(answers) + 1
      BY <1>4, <2>1
    <3> QED
      BY <1>3, <1>4, <1>6, <2>1, <3>1
  <2>3. IsPrefix(answers', asked')
    BY <1>5, <2>2, PrefixFacts
  <2>4. Taken' = Len(answers) + 1
    BY <1>4, <1>6, <2>1 DEF Taken
  <2> QED
    BY <1>3, <1>6, <2>3, <2>4 DEF OrderInv
<1>7. CASE ~Answered(Head(input)) /\ loop' = "reading" /\ answers' = answers
  <2>1. Taken' = Len(answers)
    BY <1>4, <1>7 DEF Taken
  <2> QED
    BY <1>3, <1>7, <2>1 DEF OrderInv
<1>8. CASE /\ Answered(Head(input)) /\ loop' = "calling" /\ answers' = answers
           /\ job'.id = IdOf(Head(input))
  <2>1. Taken' = Len(answers) + 1
    BY <1>4, <1>8 DEF Taken
  <2> QED
    BY <1>3, <1>8, <2>1 DEF OrderInv
<1> QED
  BY <1>6, <1>7, <1>8

\* Where nothing is written, read or answered, nothing changes its place.
LEMMA OrderFrame ==
  ASSUME OrderInv, UNCHANGED <<input, asked, answers>>, loop' \in {loop, "ended"},
         loop' = "calling" => job'.id = job.id
  PROVE  OrderInv'
<1>1. loop' = loop => Taken' = Taken
  BY DEF Taken
<1> QED
  BY <1>1 DEF OrderInv

\* Every line that is pending has its place, through every step.
LEMMA OrderInvariant == McpSpec => []OrderInv
<1>1. McpInit => OrderInv
  <2> SUFFICES ASSUME McpInit PROVE OrderInv
    OBVIOUS
  <2> DEFINE places == [i \in 0..0 |-> 0]
  <2>1. places \in [0..0 -> 0..0] /\ places[0] = 0 /\ 1..0 = {}
    OBVIOUS
  <2> HIDE DEF places
  <2>2. input = <<>> /\ asked = <<>> /\ answers = <<>> /\ loop = "reading"
    BY DEF McpInit
  <2>3. Len(<<>>) = 0 /\ Taken = 0
    BY <2>2 DEF Taken
  <2>4. HavePlaces(places, input, asked, Taken)
    BY <2>1, <2>2, <2>3 DEF HavePlaces
  <2>5. IsPrefix(answers, asked)
    BY <2>2, <2>3 DEF IsPrefix
  <2> QED
    BY <2>2, <2>4, <2>5 DEF OrderInv
<1>2. McpTypeOK /\ McpTypeOK' /\ OrderInv /\ [McpNext]_vars => OrderInv'
  <2> SUFFICES ASSUME McpTypeOK, McpTypeOK', OrderInv, [McpNext]_vars PROVE OrderInv'
    OBVIOUS
  <2>1. ASSUME NEW w \in Walks, NEW limit \in Limits, NEW c \in Cursors,
               input' = Append(input, PageRequest(w, limit, c)), asked' = Append(asked, w),
               UNCHANGED server
        PROVE  OrderInv'
    <3>1. PICK line : line = PageRequest(w, limit, c)
      OBVIOUS
    <3>2. line \in PageRequests /\ Answered(line) /\ IdOf(line) = w /\ w \in Ids
      BY <3>1, PageRequestType DEF PageRequest, Answered, IdOf, Ids
    <3> QED
      BY <2>1, <3>1, <3>2, OrderOfWriting
  <2>2. ASSUME NEW w \in Walks, StartWalk(w) PROVE OrderInv'
    BY <2>1, <2>2 DEF StartWalk, Cursors
  <2>3. ASSUME NEW w \in Walks, NextPage(w) PROVE OrderInv'
    BY <2>1, <2>3 DEF NextPage, McpTypeOK
  <2>4. ASSUME NEW w \in Walks, NEW v \in Walks, MixCursors(w, v) PROVE OrderInv'
    BY <2>1, <2>4 DEF MixCursors, McpTypeOK
  <2>5. ASSUME NEW line \in OtherLines, WriteOther(line) PROVE OrderInv'
    <3>1. line.kind = "request" => line.id \in Ids
      BY DEF Ids
    <3>2. "null" \in Ids
      BY DEF Ids
    <3>3. IF Answered(line) THEN IdOf(line) \in Ids /\ asked' = Append(asked, IdOf(line))
          ELSE asked' = asked
      BY <2>5, <3>1, <3>2, McpConstants DEF WriteOther, Answered, IdOf
    <3>4. input' = Append(input, line) /\ UNCHANGED server
      BY <2>5 DEF WriteOther
    <3> QED
      BY <3>3, <3>4, OrderOfWriting
  <2>6. CASE CloseInput
    BY <2>6, OrderFrame DEF CloseInput, server
  <2>7. CASE Rescan
    BY <2>7, OrderFrame DEF Rescan, server
  <2>8. CASE ReadGarbage
    BY <2>8, OrderOfReading DEF ReadGarbage, ReceiveAnswer, Reading, Answered, IdOf, client
  <2>9. CASE ReadNotification
    BY <2>9, OrderOfReading DEF ReadNotification, Reading, Answered, client, server
  <2>10. CASE ReadNull
    BY <2>10 DEF ReadNull, OrderInv, client
  <2>11. CASE ReadRequest
    BY <2>11, OrderOfReading DEF ReadRequest, ReceiveAnswer, Reading, Answered, IdOf, client
  <2>12. CASE OpenFails
    BY <2>12, OrderOfReading DEF OpenFails, ReceiveAnswer, Reading, Answered, IdOf
  <2>13. CASE ReadOverview
    BY <2>13, OrderOfReading DEF ReadOverview, ReceiveAnswer, Reading, Answered, IdOf, client
  <2>14. CASE RejectCursor
    BY <2>14, OrderOfReading DEF RejectCursor, ReceiveAnswer, Reading, Answered, IdOf
  <2>15. CASE BeginCall
    <3>1. job'.id = Head(input).id
      BY <2>15 DEF BeginCall
    <3> QED
      BY <2>15, <3>1, OrderOfReading DEF BeginCall, Answered, IdOf, client
  <2>16. CASE RunQuery
    <3>1. job'.id = job.id
      BY <2>16 DEF RunQuery, McpTypeOK, Jobs
    <3> QED
      BY <2>16, <3>1, OrderFrame DEF RunQuery, client
  <2>17. CASE AnswerCall \/ QueryRejects
    <3>1. /\ loop = "calling" /\ loop' = "reading" /\ answers' = Append(answers, job.id)
          /\ UNCHANGED <<input, asked>>
      BY <2>17 DEF AnswerCall, QueryRejects, ReceiveAnswer
    <3>2. PICK places : HavePlaces(places, input, asked, Len(answers) + 1)
      BY <3>1 DEF OrderInv, Taken
    <3>3. answers \in Seq(Ids) /\ answers' \in Seq(Ids) /\ asked \in Seq(Ids) /\ asked' \in Seq(Ids)
      BY DEF McpTypeOK
    <3>4. /\ Len(answers') = Len(answers) + 1 /\ Len(answers) \in Nat
          /\ \A i \in 1..Len(answers) : answers'[i] = answers[i]
          /\ answers'[Len(answers) + 1] = job.id
      BY <3>1, <3>3
    <3>5. Len(answers) <= Len(asked) /\ \A i \in 1..Len(answers) : answers[i] = asked[i]
      BY <3>3, PrefixFacts DEF OrderInv
    <3>6. Len(answers) + 1 <= Len(asked)
      <4>1. 0 \in 0..Len(input) /\ places[0] \in 0..Len(asked)
        BY <3>2 DEF HavePlaces, McpTypeOK
      <4> QED
        BY <3>2, <3>3, <3>4, <4>1 DEF HavePlaces
    <3>7. \A i \in 1..Len(answers') : answers'[i] = asked'[i]
      <4> SUFFICES ASSUME NEW i \in 1..Len(answers') PROVE answers'[i] = asked[i]
        BY <3>1
      <4>1. i \in 1..Len(answers) \/ i = Len(answers) + 1
        BY <3>4
      <4> QED
        BY <3>1, <3>4, <3>5, <4>1 DEF OrderInv
    <3>8. IsPrefix(answers', asked')
      BY <3>1, <3>3, <3>4, <3>6, <3>7, PrefixFacts
    <3>9. Taken' = Len(answers) + 1
      BY <3>1, <3>4 DEF Taken
    <3> QED
      BY <3>1, <3>2, <3>8, <3>9 DEF OrderInv
  <2>18. CASE EndLoop
    BY <2>18, OrderFrame DEF EndLoop, client
  <2>19. CASE UNCHANGED vars
    BY <2>19, OrderFrame DEF vars, client, server
  <2> QED
    BY <2>2, <2>3, <2>4, <2>5, <2>6, <2>7, <2>8, <2>9, <2>10, <2>11, <2>12, <2>13, <2>14, <2>15,
       <2>16, <2>17, <2>18, <2>19 DEF McpNext, ClientStep, ServerStep
<1>3. QED
  BY <1>1, <1>2, McpTypes, PTL DEF McpSpec

\* Every request is answered once, in the order it was written, and nothing else
\* is, whatever lines come in between and however often the store does not open.
THEOREM AnswerOrderTheorem == McpSpec => []AnsweredInOrder
<1>1. McpTypeOK /\ OrderInv => AnsweredInOrder
  <2> SUFFICES ASSUME McpTypeOK, OrderInv PROVE AnsweredInOrder
    OBVIOUS
  <2>1. ASSUME loop = "reading", input = <<>> PROVE answers = asked
    <3>1. PICK places : HavePlaces(places, input, asked, Taken)
      BY <2>1 DEF OrderInv
    <3>2. Len(answers) \in Nat /\ Len(asked) \in Nat /\ answers \in Seq(Ids) /\ asked \in Seq(Ids)
      BY DEF McpTypeOK
    <3>3. Len(answers) = Len(asked)
      BY <2>1, <3>1, <3>2 DEF HavePlaces, Taken
    <3>4. \A i \in 1..Len(answers) : answers[i] = asked[i]
      BY <3>2, PrefixFacts DEF OrderInv
    <3> QED
      BY <3>2, <3>3, <3>4, SeqEqual
  <2> QED
    BY <2>1 DEF AnsweredInOrder, OrderInv
<1> QED
  BY <1>1, McpTypes, OrderInvariant, PTL

-----------------------------------------------------------------------------
\* Walks, their requests and their cursors.

\* Each list is walked once at a time; the client may still confuse them.
OneWalkPerCall == \A v, w \in Walks : CallOf[v] = CallOf[w] => v = w

IsPage(line) == line.kind = "request" /\ PagedCall(line)

\* A walk waits for one page at most, and a request whose cursor fits carries
\* the cursor its walk got last.
WalkInv ==
  \A w \in Walks : /\ walk[w] = "idle" => cursor[w] = NoCursor /\ got[w] = <<>>
                   /\ cursor[w] # NoCursor => cursor[w].call = CallOf[w]

PendingInv ==
  \A i \in 1..Len(input) :
    IsPage(input[i]) =>
      LET w == input[i].id
      IN  /\ walk[w] = "waiting"
          /\ input[i].call = CallOf[w]
          /\ CursorFits(CallOf[w], input[i].cursor) => input[i].cursor = cursor[w]
          /\ \A j \in 1..Len(input) : i # j /\ IsPage(input[j]) => input[j].id # w

\* The call that runs answers a walk that waits for nothing else.
JobInv ==
  loop = "calling" =>
    /\ walk[job.id] = "waiting"
    /\ job.call = CallOf[job.id]
    /\ job.tool = ToolOf[job.call]
    /\ job.window.offset = DecodeCursor(cursor[job.id])
    /\ job.window.fetch = job.window.offset + job.window.limit + 1
    /\ \A i \in 1..Len(input) : IsPage(input[i]) => input[i].id # job.id

PageInv == WalkInv /\ PendingInv /\ JobInv

\* A pending page request is of a walk.
LEMMA PendingLine ==
  ASSUME McpTypeOK, NEW i \in 1..Len(input), IsPage(input[i])
  PROVE  input[i] \in PageRequests /\ input[i].id \in Walks
<1>1. input[i] \in OtherLines \cup PageRequests
  BY DEF McpTypeOK
<1>2. input[i] \in PageRequests
  BY <1>1, PagedLine DEF IsPage
<1> QED
  BY <1>2 DEF PageRequests

\* A walk that did not wait asks for a page.
LEMMA PageAsked ==
  ASSUME McpTypeOK, PageInv, NEW w \in Walks, NEW limit \in Limits, NEW c \in Cursors,
         walk[w] # "waiting", input' = Append(input, PageRequest(w, limit, c)),
         CursorFits(CallOf[w], c) => c = cursor[w],
         walk' = [walk EXCEPT ![w] = "waiting"], UNCHANGED <<cursor, got, server>>
  PROVE  PageInv'
<1> DEFINE line == PageRequest(w, limit, c)
           n == Len(input)
<1>1. n \in Nat /\ line \in PageRequests
  BY PageRequestType DEF McpTypeOK
<1>2. IsPage(line) /\ line.id = w /\ line.call = CallOf[w] /\ line.cursor = c
  BY DEF IsPage, PagedCall, PageRequest
<1> HIDE DEF line
<1>3. Len(input') = n + 1 /\ input'[n + 1] = line /\ \A i \in 1..n : input'[i] = input[i]
  BY <1>1 DEF McpTypeOK, line
<1> HIDE DEF n
<1>4. walk'[w] = "waiting" /\ \A v \in Walks : v # w => walk'[v] = walk[v]
  BY DEF McpTypeOK
<1>5. ASSUME NEW i \in 1..n, IsPage(input[i]) PROVE input[i].id \in Walks /\ input[i].id # w
  BY <1>5, PendingLine DEF PageInv, PendingInv, n
<1>6. WalkInv'
  BY <1>4 DEF PageInv, WalkInv
<1>7. PendingInv'
  <2> SUFFICES ASSUME NEW i \in 1..(n + 1), IsPage(input'[i]), NEW v, v = input'[i].id
               PROVE  /\ walk'[v] = "waiting"
                      /\ input'[i].call = CallOf[v]
                      /\ CursorFits(CallOf[v], input'[i].cursor) => input'[i].cursor = cursor[v]
                      /\ \A j \in 1..(n + 1) : i # j /\ IsPage(input'[j]) => input'[j].id # v
    BY <1>3 DEF PendingInv
  <2>1. CASE i = n + 1
    <3>1. ASSUME NEW j \in 1..(n + 1), i # j, IsPage(input'[j]) PROVE input'[j].id # v
      BY <1>1, <1>2, <1>3, <1>5, <2>1, <3>1
    <3> QED
      BY <1>2, <1>3, <1>4, <2>1, <3>1
  <2>2. CASE i \in 1..n
    <3>1. input'[i] = input[i] /\ IsPage(input[i]) /\ v \in Walks /\ v # w
      BY <1>3, <1>5, <2>2
    <3>2. /\ walk[v] = "waiting"
          /\ input[i].call = CallOf[v]
          /\ CursorFits(CallOf[v], input[i].cursor) => input[i].cursor = cursor[v]
          /\ \A j \in 1..n : i # j /\ IsPage(input[j]) => input[j].id # v
      BY <2>2, <3>1 DEF PageInv, PendingInv, n
    <3>3. ASSUME NEW j \in 1..(n + 1), i # j, IsPage(input'[j]) PROVE input'[j].id # v
      <4>1. j \in 1..n \/ j = n + 1
        BY <1>1
      <4> QED
        BY <1>2, <1>3, <3>1, <3>2, <3>3, <4>1
    <3> QED
      BY <1>4, <3>1, <3>2, <3>3
  <2>3. i = n + 1 \/ i \in 1..n
    BY <1>1
  <2> QED
    BY <2>1, <2>2, <2>3, Zenon
<1>8. JobInv'
  <2> SUFFICES ASSUME loop = "calling"
               PROVE  /\ walk'[job.id] = "waiting"
                      /\ \A i \in 1..(n + 1) : IsPage(input'[i]) => input'[i].id # job.id
    BY <1>3 DEF PageInv, JobInv, server
  <2>1. job.id \in Walks /\ walk[job.id] = "waiting"
    BY DEF McpTypeOK, Jobs, PageInv, JobInv
  <2>2. ASSUME NEW i \in 1..(n + 1), IsPage(input'[i]) PROVE input'[i].id # job.id
    <3>1. i \in 1..n \/ i = n + 1
      BY <1>1
    <3> QED
      BY <1>2, <1>3, <2>1, <2>2, <3>1 DEF PageInv, JobInv, n
  <2> QED
    BY <1>4, <2>1, <2>2
<1> QED
  BY <1>6, <1>7, <1>8 DEF PageInv

\* A line of no walk changes nothing for the walks.
LEMMA OtherLineWritten ==
  ASSUME McpTypeOK, PageInv, NEW line \in OtherLines, input' = Append(input, line),
         UNCHANGED <<walk, cursor, got, server>>
  PROVE  PageInv'
<1> DEFINE n == Len(input)
<1>1. n \in Nat /\ ~IsPage(line)
  BY McpConstants DEF McpTypeOK, IsPage
<1>2. Len(input') = n + 1 /\ input'[n + 1] = line /\ \A i \in 1..n : input'[i] = input[i]
  BY <1>1 DEF McpTypeOK
<1>3. ASSUME NEW i \in 1..(n + 1), IsPage(input'[i]) PROVE i \in 1..n /\ input'[i] = input[i]
  BY <1>1, <1>2, <1>3
<1> HIDE DEF n
<1>4. PendingInv'
  <2> SUFFICES ASSUME NEW i \in 1..(n + 1), IsPage(input'[i]), NEW v, v = input'[i].id
               PROVE  /\ walk[v] = "waiting"
                      /\ input'[i].call = CallOf[v]
                      /\ CursorFits(CallOf[v], input'[i].cursor) => input'[i].cursor = cursor[v]
                      /\ \A j \in 1..(n + 1) : i # j /\ IsPage(input'[j]) => input'[j].id # v
    BY <1>2 DEF PendingInv
  <2> QED
    BY <1>3 DEF PageInv, PendingInv, n
<1>5. JobInv'
  BY <1>2, <1>3 DEF PageInv, JobInv, server, n
<1> QED
  BY <1>4, <1>5 DEF PageInv, WalkInv

\* A line is read: what is still pending keeps, and is of other walks.
LEMMA LineTaken ==
  ASSUME McpTypeOK, PageInv, Reading, input' = Tail(input), UNCHANGED cursor,
         \A w \in Walks : walk'[w] = walk[w] \/ (IsPage(Head(input)) /\ w = Head(input).id)
  PROVE  /\ PendingInv'
         /\ IsPage(Head(input)) =>
              \A i \in 1..Len(input') : IsPage(input'[i]) => input'[i].id # Head(input).id
<1> DEFINE n == Len(input)
<1>1. /\ n \in Nat \ {0} /\ Len(input') = n - 1 /\ Head(input) = input[1]
      /\ \A i \in 1..(n - 1) : input'[i] = input[i + 1]
  BY HeadOfInput DEF Reading
<1>2. ASSUME NEW i \in 1..(n - 1), IsPage(input'[i])
      PROVE  /\ i + 1 \in 1..n /\ IsPage(input[i + 1]) /\ input'[i] = input[i + 1] /\ i + 1 # 1
             /\ input[i + 1].id \in Walks
             /\ IsPage(Head(input)) => input[i + 1].id # Head(input).id
  <2>1. i + 1 \in 1..n /\ i + 1 # 1 /\ 1 \in 1..n
    BY <1>1
  <2>2. IsPage(input[i + 1]) /\ input'[i] = input[i + 1]
    BY <1>1, <1>2
  <2>3. input[i + 1].id \in Walks
    BY <2>1, <2>2, PendingLine
  <2>4. IsPage(Head(input)) => input[i + 1].id # Head(input).id
    BY <1>1, <2>1, <2>2 DEF PageInv, PendingInv
  <2> QED
    BY <2>1, <2>2, <2>3, <2>4
<1> HIDE DEF n
<1>3. PendingInv'
  <2> SUFFICES ASSUME NEW i \in 1..(n - 1), IsPage(input'[i]), NEW v, v = input'[i].id
               PROVE  /\ walk'[v] = "waiting"
                      /\ input'[i].call = CallOf[v]
                      /\ CursorFits(CallOf[v], input'[i].cursor) => input'[i].cursor = cursor[v]
                      /\ \A j \in 1..(n - 1) : i # j /\ IsPage(input'[j]) => input'[j].id # v
    BY <1>1 DEF PendingInv
  <2>1. /\ walk[v] = "waiting"
        /\ input[i + 1].call = CallOf[v]
        /\ CursorFits(CallOf[v], input[i + 1].cursor) => input[i + 1].cursor = cursor[v]
        /\ \A j \in 1..n : i + 1 # j /\ IsPage(input[j]) => input[j].id # v
    BY <1>2 DEF PageInv, PendingInv, n
  <2>2. ASSUME NEW j \in 1..(n - 1), i # j, IsPage(input'[j]) PROVE input'[j].id # v
    <3>1. j + 1 \in 1..n /\ i + 1 # j + 1
      BY <1>1, <2>2
    <3> QED
      BY <1>2, <2>1, <2>2, <3>1
  <2>3. walk'[v] = walk[v]
    BY <1>2
  <2> QED
    BY <1>2, <2>1, <2>2, <2>3
<1> QED
  BY <1>1, <1>2, <1>3

\* The walks, their pending requests and the call that runs stay in step.
LEMMA PageInvariant == ASSUME OneWalkPerCall PROVE McpSpec => []PageInv
<1>1. McpInit => PageInv
  BY DEF McpInit, PageInv, WalkInv, PendingInv, JobInv
<1>2. McpTypeOK /\ McpTypeOK' /\ PageInv /\ [McpNext]_vars => PageInv'
  <2> SUFFICES ASSUME McpTypeOK, McpTypeOK', PageInv, [McpNext]_vars PROVE PageInv'
    OBVIOUS
  <2>1. ASSUME NEW w \in Walks, StartWalk(w) PROVE PageInv'
    <3>1. cursor[w] = NoCursor /\ walk[w] # "waiting" /\ NoCursor \in Cursors
      BY <2>1 DEF StartWalk, PageInv, WalkInv, Cursors
    <3> QED
      BY <2>1, <3>1, PageAsked DEF StartWalk
  <2>2. ASSUME NEW w \in Walks, NextPage(w) PROVE PageInv'
    BY <2>2, PageAsked DEF NextPage, McpTypeOK
  <2>3. ASSUME NEW w \in Walks, NEW v \in Walks, MixCursors(w, v) PROVE PageInv'
    <3>1. /\ cursor[v] \in Cursors /\ cursor[v] # NoCursor /\ v # w /\ walk[w] # "waiting"
          /\ UNCHANGED <<cursor, got, server>> /\ walk' = [walk EXCEPT ![w] = "waiting"]
      BY <2>3 DEF MixCursors, McpTypeOK
    <3>2. PICK limit \in Limits : input' = Append(input, PageRequest(w, limit, cursor[v]))
      BY <2>3 DEF MixCursors
    <3>3. ~CursorFits(CallOf[w], cursor[v])
      BY <3>1 DEF CursorFits, PageInv, WalkInv, OneWalkPerCall
    <3> QED
      BY <3>1, <3>2, <3>3, PageAsked
  <2>4. ASSUME NEW line \in OtherLines, WriteOther(line) PROVE PageInv'
    BY <2>4, OtherLineWritten DEF WriteOther
  <2>5. CASE CloseInput \/ Rescan \/ EndLoop \/ UNCHANGED vars
    BY <2>5 DEF CloseInput, Rescan, EndLoop, vars, client, server, PageInv, WalkInv, PendingInv, JobInv
  <2>6. ASSUME Reading, input' = Tail(input), UNCHANGED <<walk, cursor, got>>, loop' # "calling"
        PROVE  PageInv'
    <3>1. PendingInv'
      BY <2>6, LineTaken
    <3> QED
      BY <2>6, <3>1 DEF PageInv, WalkInv, JobInv
  <2>7. CASE ReadGarbage \/ ReadNotification \/ ReadNull \/ ReadRequest \/ ReadOverview
    BY <2>6, <2>7 DEF ReadGarbage, ReadNotification, ReadNull, ReadRequest, ReadOverview, Reading,
       client, server
  <2>8. ASSUME Reading, IsPage(Head(input)), input' = Tail(input), UNCHANGED <<cursor, got, loop>>,
               NEW state, state # "idle", walk' = [walk EXCEPT ![Head(input).id] = state]
        PROVE  PageInv'
    <3>1. PendingInv'
      BY <2>8, LineTaken DEF McpTypeOK
    <3>2. WalkInv'
      BY <2>8 DEF PageInv, WalkInv, McpTypeOK
    <3> QED
      BY <2>8, <3>1, <3>2 DEF PageInv, JobInv, Reading
  <2>9. CASE OpenFails
    <3>1. CASE IsPage(Head(input))
      BY <2>8, <2>9, <3>1 DEF OpenFails, IsPage
    <3>2. CASE ~IsPage(Head(input))
      BY <2>6, <2>9, <3>2 DEF OpenFails, IsPage, Reading
    <3> QED
      BY <3>1, <3>2
  <2>10. CASE RejectCursor
    BY <2>8, <2>10 DEF RejectCursor, IsPage
  <2>11. CASE BeginCall
    <3> DEFINE line == Head(input)
    <3>1. /\ Reading /\ input' = Tail(input) /\ UNCHANGED <<walk, cursor, got>>
          /\ IsPage(line) /\ CursorFits(line.call, line.cursor)
          /\ job' = [ id |-> line.id, call |-> line.call, tool |-> ToolOf[line.call], next |-> 1,
                      window |-> PageWindow(line.limit, DecodeCursor(line.cursor)) ]
      BY <2>11 DEF BeginCall, IsPage, client
    <3>2. 1 \in 1..Len(input) /\ line = input[1]
      BY <3>1, HeadOfInput DEF Reading
    <3>3. line \in PageRequests /\ line.id \in Walks
      BY <3>1, <3>2, PendingLine
    <3>4. walk[line.id] = "waiting" /\ line.call = CallOf[line.id] /\ line.cursor = cursor[line.id]
      BY <3>1, <3>2 DEF PageInv, PendingInv
    <3>5. DecodeCursor(line.cursor) \in Nat /\ line.limit \in Limits
      BY <3>3 DEF PageRequests, DecodeCursor, Cursors
    <3> DEFINE window == PageWindow(line.limit, DecodeCursor(line.cursor))
    <3>6. window.offset = DecodeCursor(line.cursor) /\ window.fetch = window.offset + window.limit + 1
      BY <3>5, WindowType
    <3> HIDE DEF window
    <3>7. /\ job'.id = line.id /\ job'.call = line.call /\ job'.tool = ToolOf[line.call]
          /\ job'.window = window
      BY <3>1 DEF window
    <3> HIDE DEF line
    <3>8. PendingInv' /\ \A i \in 1..Len(input') : IsPage(input'[i]) => input'[i].id # line.id
      BY <3>1, LineTaken DEF line
    <3>9. WalkInv'
      BY <3>1 DEF PageInv, WalkInv
    <3>10. JobInv'
      BY <3>1, <3>4, <3>6, <3>7, <3>8 DEF JobInv
    <3> QED
      BY <3>8, <3>9, <3>10 DEF PageInv
  <2>12. CASE RunQuery
    <3>1. /\ loop = "calling" /\ UNCHANGED <<input, walk, cursor, got, loop>>
          /\ job'.id = job.id /\ job'.call = job.call /\ job'.tool = job.tool /\ job'.window = job.window
      BY <2>12 DEF RunQuery, McpTypeOK, Jobs, client
    <3> QED
      BY <3>1 DEF PageInv, WalkInv, PendingInv, JobInv
  <2>13. CASE AnswerCall
    <3>1. /\ loop = "calling" /\ loop' = "reading" /\ input' = input /\ job.id \in Walks
          /\ \A w \in Walks \ {job.id} : walk'[w] = walk[w] /\ cursor'[w] = cursor[w] /\ got'[w] = got[w]
          /\ walk'[job.id] # "idle"
      BY <2>13 DEF AnswerCall, McpTypeOK, Jobs
    <3>2. cursor'[job.id] # NoCursor => cursor'[job.id].call = CallOf[job.id]
      BY <2>13, <3>1 DEF AnswerCall, McpTypeOK, PageInv, JobInv, NextCursor, EncodeCursor
    <3>3. WalkInv'
      <4> SUFFICES ASSUME NEW w \in Walks
                   PROVE  /\ walk'[w] = "idle" => cursor'[w] = NoCursor /\ got'[w] = <<>>
                          /\ cursor'[w] # NoCursor => cursor'[w].call = CallOf[w]
        BY DEF WalkInv
      <4>1. CASE w = job.id
        BY <3>1, <3>2, <4>1
      <4>2. CASE w # job.id
        BY <3>1, <4>2 DEF PageInv, WalkInv
      <4> QED
        BY <4>1, <4>2
    <3>4. PendingInv'
      <4>1. \A i \in 1..Len(input) : IsPage(input[i]) => input[i].id \in Walks \ {job.id}
        BY <3>1, PendingLine DEF PageInv, JobInv
      <4> QED
        BY <3>1, <4>1 DEF PageInv, PendingInv
    <3> QED
      BY <3>1, <3>3, <3>4 DEF PageInv, JobInv
  <2>14. CASE QueryRejects
    <3>1. /\ loop = "calling" /\ loop' = "reading" /\ job.id \in Walks /\ UNCHANGED <<input, cursor, got>>
          /\ \A w \in Walks \ {job.id} : walk'[w] = walk[w]
          /\ walk'[job.id] = "between"
      BY <2>14 DEF QueryRejects, McpTypeOK, Jobs
    <3>2. WalkInv'
      BY <3>1 DEF PageInv, WalkInv
    <3>3. PendingInv'
      <4>1. \A i \in 1..Len(input) : IsPage(input[i]) => input[i].id \in Walks \ {job.id}
        BY <3>1, PendingLine DEF PageInv, JobInv
      <4> QED
        BY <3>1, <4>1 DEF PageInv, PendingInv
    <3> QED
      BY <3>1, <3>2, <3>3 DEF PageInv, JobInv
  <2> QED
    BY <2>1, <2>2, <2>3, <2>4, <2>5, <2>7, <2>9, <2>10, <2>11, <2>12, <2>13, <2>14
       DEF McpNext, ClientStep, ServerStep
<1>3. QED
  BY <1>1, <1>2, McpTypes, PTL DEF McpSpec

\* A page that is not the last one advances its walk, whatever happens to the
\* graph and the budget: the cursor never stays or goes back.
THEOREM CursorTheorem == ASSUME OneWalkPerCall PROVE McpSpec => CursorsAdvance
<1>1. McpTypeOK /\ PageInv /\ [McpNext]_vars =>
        [\A w \in Walks : cursor'[w] # cursor[w] /\ cursor'[w] # NoCursor
           => cursor'[w].offset > DecodeCursor(cursor[w])]_vars
  <2> SUFFICES ASSUME McpTypeOK, PageInv, McpNext, NEW w \in Walks,
                      cursor'[w] # cursor[w], cursor'[w] # NoCursor
               PROVE  cursor'[w].offset > DecodeCursor(cursor[w])
    OBVIOUS
  <2>1. CASE AnswerCall
    <3>1. /\ loop = "calling" /\ job \in Jobs /\ job.id \in Walks /\ job.window \in Windows
          /\ job.window.offset \in Nat
      BY <2>1 DEF AnswerCall, McpTypeOK, Jobs, Windows
    <3> DEFINE items == TakeWindow(job.window, Arrange(job.tool, rows))
               rest == FitOthers(RestOf(graph, job.tool))
               page == FitPage(job.window, items, rest)
    <3>2. cursor' = [cursor EXCEPT ![job.id] = NextCursor(job.call, job.window, items, page)]
      BY <2>1 DEF AnswerCall
    <3>3. items \in Seq(AllRows)
      BY <3>1, ArrangeIsSeq, ItemFacts DEF McpTypeOK
    <3> HIDE DEF items, rest
    <3>4. page \in Seq(AllRows) /\ (items # <<>> => 1 <= Len(page))
      BY <3>1, <3>3, PageFacts
    <3> HIDE DEF page
    <3>5. w = job.id /\ cursor'[w] = NextCursor(job.call, job.window, items, page)
      BY <3>2 DEF McpTypeOK
    <3>6. Len(items) > Len(page) /\ cursor'[w].offset = job.window.offset + Len(page)
      BY <3>5 DEF NextCursor, EncodeCursor
    <3>7. 1 <= Len(page) /\ Len(page) \in Nat
      BY <3>3, <3>4, <3>6
    <3>8. job.window.offset = DecodeCursor(cursor[w])
      BY <3>1, <3>5 DEF PageInv, JobInv
    <3> QED
      BY <3>1, <3>6, <3>7, <3>8
  <2>2. CASE ~AnswerCall
    <3>1. cursor' = cursor
      BY <2>2 DEF McpNext, ClientStep, ServerStep, StartWalk, NextPage, MixCursors, WriteOther,
         CloseInput, Rescan, ReadGarbage, ReadNotification, ReadNull, ReadRequest, OpenFails,
         ReadOverview, RejectCursor, BeginCall, RunQuery, QueryRejects, EndLoop, client
    <3> QED
      BY <3>1
  <2> QED
    BY <2>1, <2>2
<1> QED
  BY <1>1, McpTypes, PageInvariant, PTL DEF McpSpec, CursorsAdvance

-----------------------------------------------------------------------------
\* Pages and lists.

\* No walk goes through list_data_access, whose pages are no parts of its list.
NoAccesses == \A w \in Walks : ToolOf[CallOf[w]] # "list_data_access"

\* The rows of the first n queries of a tool, uncut.
RowsUpto(g, tool, n) == FlattenSeq([i \in 1..n |-> RowsOf(g, Tools[tool][i])])

\* One query more appends its rows.
LEMMA RowsUptoFacts ==
  ASSUME NEW g \in Graphs, NEW tool \in DOMAIN Tools, NEW n \in Nat, n <= Len(Tools[tool])
  PROVE  /\ RowsUpto(g, tool, n) \in Seq(AllRows)
         /\ n = 0 => RowsUpto(g, tool, n) = <<>>
         /\ RowsUpto(g, tool, n + 1) = RowsUpto(g, tool, n) \o RowsOf(g, Tools[tool][n + 1])
<1> DEFINE seqs == [i \in 1..n |-> RowsOf(g, Tools[tool][i])]
           longer == [i \in 1..(n + 1) |-> RowsOf(g, Tools[tool][i])]
           last == RowsOf(g, Tools[tool][n + 1])
<1>1. seqs \in Seq(Seq(AllRows)) /\ last \in Seq(AllRows) /\ Len(seqs) = n
  <2>1. \A i \in 1..n : RowsOf(g, Tools[tool][i]) \in Seq(AllRows)
    BY RowsOfIsSeq
  <2> QED
    BY <2>1, RowsOfIsSeq
<1>2. longer = Append(seqs, last)
  <2>1. \A i \in 1..(n + 1) : RowsOf(g, Tools[tool][i]) \in Seq(AllRows)
    BY RowsOfIsSeq
  <2>2. longer \in Seq(Seq(AllRows)) /\ Len(longer) = n + 1
    BY <2>1
  <2>3. Append(seqs, last) \in Seq(Seq(AllRows)) /\ Len(Append(seqs, last)) = n + 1
    BY <1>1
  <2>4. ASSUME NEW i \in 1..(n + 1) PROVE longer[i] = Append(seqs, last)[i]
    <3>1. CASE i = n + 1
      BY <1>1, <3>1
    <3>2. CASE i \in 1..n
      BY <1>1, <3>2
    <3> QED
      BY <3>1, <3>2
  <2> HIDE DEF longer, seqs, last
  <2> QED
    BY <2>2, <2>3, <2>4, SeqEqual
<1> HIDE DEF seqs, longer, last
<1>3. FlattenSeq(seqs) \in Seq(AllRows) /\ FlattenSeq(longer) = FlattenSeq(seqs) \o last
  BY <1>1, <1>2, FlattenAppend
<1>4. n = 0 => FlattenSeq(seqs) = <<>>
  BY <1>1 DEF FlattenSeq
<1> QED
  BY <1>3, <1>4 DEF RowsUpto, seqs, longer, last

\* A page behind what was got before is the list up to the page's end, and the
\* list ends there when there is no probe row.
LEMMA PageExtendsList ==
  ASSUME NEW S, NEW list \in Seq(S), NEW found \in Seq(S), NEW window \in Windows, NEW rest,
         window.fetch = window.offset + window.limit + 1,
         Take(found, window.fetch) = Take(list, window.fetch),
         window.offset <= Len(list),
         NEW items, items = TakeWindow(window, found),
         NEW page, page = FitPage(window, items, rest)
  PROVE  /\ window.offset + Len(page) <= Len(list)
         /\ Take(list, window.offset) \o page = Take(list, window.offset + Len(page))
         /\ Len(page) = Len(items) => window.offset + Len(page) = Len(list)
         /\ Len(page) \in Nat /\ Len(page) <= Len(items)
<1> DEFINE off == window.offset
           fetch == window.fetch
           last == AtMost(fetch, Len(list))
           k == Len(page)
<1>1. /\ off \in Nat /\ fetch \in Nat /\ window.limit \in Nat /\ Len(list) \in Nat /\ Len(found) \in Nat
      /\ fetch = off + window.limit + 1
  BY DEF Windows
<1>2. /\ AtMost(fetch, Len(found)) = last /\ last \in Nat /\ last <= Len(list) /\ last <= fetch
      /\ last < fetch => last = Len(list)
      /\ \A i \in 1..last : found[i] = list[i]
  BY <1>1, TakeFacts DEF AtMost
<1>3. /\ items \in Seq(S)
      /\ Len(items) = IF off + 1 <= last THEN last - off ELSE 0
      /\ \A i \in 1..Len(items) : items[i] = found[off + i]
  BY <1>2, ItemFacts
<1>4. /\ page \in Seq(S) /\ k <= window.limit /\ k <= Len(items) /\ k \in Nat
      /\ \A i \in 1..k : page[i] = items[i]
  BY <1>3, PageFacts
<1>5. off <= last
  BY <1>1 DEF AtMost
<1> HIDE DEF off, fetch, last, k
<1>6. Len(items) = last - off
  BY <1>1, <1>2, <1>3, <1>5
<1>7. off + k <= Len(list)
  BY <1>1, <1>2, <1>4, <1>6
<1>8. k = Len(items) => off + k = Len(list)
  BY <1>1, <1>2, <1>4, <1>6
<1>9. \A i \in 1..k : page[i] = list[off + i]
  <2> SUFFICES ASSUME NEW i \in 1..k PROVE page[i] = list[off + i]
    OBVIOUS
  <2>1. i \in 1..Len(items) /\ off + i \in 1..last
    BY <1>1, <1>2, <1>4, <1>6
  <2> QED
    BY <1>2, <1>3, <1>4, <2>1
<1>10. /\ Take(list, off) \in Seq(S) /\ Len(Take(list, off)) = off
       /\ \A i \in 1..off : Take(list, off)[i] = list[i]
  <2>1. AtMost(off, Len(list)) = off
    BY <1>1, <1>4, <1>7 DEF AtMost
  <2> QED
    BY <1>1, <2>1, TakeFacts
<1>11. /\ Take(list, off + k) \in Seq(S) /\ Len(Take(list, off + k)) = off + k
       /\ \A i \in 1..(off + k) : Take(list, off + k)[i] = list[i]
  <2>1. off + k \in Nat
    BY <1>1, <1>4
  <2>2. AtMost(off + k, Len(list)) = off + k
    BY <1>1, <1>7, <2>1 DEF AtMost
  <2> QED
    BY <2>1, <2>2, TakeFacts
<1> DEFINE joined == Take(list, off) \o page
<1>12. /\ joined \in Seq(S) /\ Len(joined) = off + k
       /\ \A i \in 1..(off + k) : joined[i] = IF i <= off THEN Take(list, off)[i] ELSE page[i - off]
  <2> DEFINE first == Take(list, off)
  <2>1. Len(page) = k
    BY DEF k
  <2>2. first \in Seq(S) /\ page \in Seq(S) /\ Len(first) = off
    BY <1>4, <1>10
  <2> HIDE DEF first
  <2>3. first \o page \in Seq(S) /\ Len(first \o page) = off + k
    <3>1. first \o page \in Seq(S) /\ Len(first \o page) = Len(first) + Len(page)
      BY <2>2, ConcatProperties, Zenon
    <3> QED
      BY <2>1, <2>2, <3>1
  <2>4. ASSUME NEW i \in 1..(off + k)
        PROVE  (first \o page)[i] = IF i <= off THEN first[i] ELSE page[i - off]
    <3>1. i \in 1..(Len(first) + Len(page)) /\ off \in Nat
      BY <1>1, <1>4, <2>1, <2>2
    <3>2. CASE i <= off
      BY <2>2, <3>1, <3>2
    <3>3. CASE ~(i <= off)
      BY <2>2, <3>1, <3>3
    <3> QED
      BY <3>2, <3>3
  <2> QED
    BY <2>3, <2>4 DEF first
<1> HIDE DEF joined
<1>13. ASSUME NEW i \in 1..(off + k) PROVE joined[i] = Take(list, off + k)[i]
  <2>1. CASE i <= off
    BY <1>1, <1>10, <1>11, <1>12, <2>1
  <2>2. CASE ~(i <= off)
    <3>1. i - off \in 1..k /\ off + (i - off) = i
      BY <1>1, <1>4, <2>2
    <3> QED
      BY <1>9, <1>11, <1>12, <2>2, <3>1
  <2> QED
    BY <2>1, <2>2
<1>14. joined = Take(list, off + k)
  BY <1>11, <1>12, <1>13, SeqEqual
<1> QED
  BY <1>4, <1>7, <1>8, <1>14 DEF off, k, joined

\* The whole list of a walk is what all its queries return.
LEMMA WholeList ==
  ASSUME NoAccesses, NEW g \in Graphs, NEW w \in Walks
  PROVE  /\ FullList[g][CallOf[w]] \in Seq(AllRows)
         /\ FullList[g][CallOf[w]]
              = RowsUpto(g, ToolOf[CallOf[w]], Len(Tools[ToolOf[CallOf[w]]]))
<1> DEFINE tool == ToolOf[CallOf[w]]
           kinds == Tools[tool]
<1>1. CallOf[w] \in Calls /\ tool \in DOMAIN Tools /\ tool # "list_data_access"
  BY McpConstants DEF Calls, NoAccesses
<1>2. DOMAIN kinds = 1..Len(kinds)
  BY <1>1 DEF Tools, FindDefinitions, FindCallers, ListExports, ListRoutes, ListPages,
     ListEntrypoints, ListEnvConfig, ListDataAccess
<1>3. FullList[g][CallOf[w]] = FlattenSeq([i \in DOMAIN kinds |-> RowsOf(g, kinds[i])])
  BY <1>1 DEF FullList, Arrange
<1>4. FullList[g][CallOf[w]] = RowsUpto(g, tool, Len(kinds))
  BY <1>2, <1>3 DEF RowsUpto
<1>5. RowsUpto(g, tool, Len(kinds)) \in Seq(AllRows)
  BY <1>1, ToolFacts, RowsUptoFacts
<1> QED
  BY <1>4, <1>5

\* While the graph stays as it is, a walk has got its list up to its cursor,
\* and the call that runs has as much of it as its page needs.
DuringInv ==
  \A w \in Walks : IF walk[w] = "idle" THEN during[w] = {} ELSE graph \in during[w]

HasGot(w, g) ==
  LET list == FullList[g][CallOf[w]]
      offset == DecodeCursor(cursor[w])
  IN  IF walk[w] = "done" THEN got[w] = list
      ELSE offset <= Len(list) /\ got[w] = Take(list, offset)

GotInv == \A w \in Walks : \A g \in Graphs : during[w] = {g} => HasGot(w, g)

FoundInv ==
  loop = "calling" =>
    \A g \in Graphs :
      during[job.id] = {g} =>
        Take(rows, job.window.fetch)
          = Take(RowsUpto(g, job.tool, job.next - 1), job.window.fetch)

ListInv == DuringInv /\ GotInv /\ FoundInv

\* Nothing is the beginning of every list.
LEMMA NothingGot ==
  ASSUME NEW S, NEW list \in Seq(S)
  PROVE  Take(list, 0) = <<>>
<1>1. Take(list, 0) \in Seq(S) /\ Len(Take(list, 0)) = 0
  BY TakeFacts DEF AtMost
<1> QED
  BY <1>1

\* Where a walk got nothing and its graphs, its cursor and whether it is done
\* stay, what it has got stays right.
LEMMA WalksKeep ==
  ASSUME GotInv, UNCHANGED <<cursor, got, during>>,
         \A w \in Walks : (walk'[w] = "done") <=> (walk[w] = "done")
  PROVE  GotInv'
BY DEF GotInv, HasGot

\* A walk over one graph keeps to its list, through every step.
LEMMA ListInvariant == ASSUME OneWalkPerCall, NoAccesses PROVE McpSpec => []ListInv
<1>1. McpInit => ListInv
  BY DEF McpInit, ListInv, DuringInv, GotInv, FoundInv
<1>2. McpTypeOK /\ McpTypeOK' /\ PageInv /\ ListInv /\ [McpNext]_vars => ListInv'
  <2> SUFFICES ASSUME McpTypeOK, McpTypeOK', PageInv, ListInv, [McpNext]_vars PROVE ListInv'
    OBVIOUS
  <2>1. ASSUME NEW w \in Walks, StartWalk(w) PROVE ListInv'
    <3>1. /\ walk[w] = "idle" /\ UNCHANGED <<graph, cursor, got, server>>
          /\ walk' = [walk EXCEPT ![w] = "waiting"] /\ during' = [during EXCEPT ![w] = {graph}]
      BY <2>1 DEF StartWalk
    <3>2. /\ walk'[w] = "waiting" /\ during'[w] = {graph} /\ graph \in Graphs
          /\ \A v \in Walks \ {w} : walk'[v] = walk[v] /\ during'[v] = during[v]
      BY <3>1 DEF McpTypeOK
    <3>3. DuringInv'
      BY <3>1, <3>2 DEF ListInv, DuringInv
    <3>4. cursor[w] = NoCursor /\ got[w] = <<>>
      BY <3>1 DEF PageInv, WalkInv
    <3>5. ASSUME NEW v \in Walks, NEW g \in Graphs, during'[v] = {g} PROVE HasGot(v, g)'
      <4>1. CASE v = w
        <5>1. FullList[g][CallOf[w]] \in Seq(AllRows)
          BY WholeList
        <5> QED
          BY <3>1, <3>2, <3>4, <4>1, <5>1, NothingGot DEF HasGot, DecodeCursor
      <4>2. CASE v # w
        BY <3>1, <3>2, <3>5, <4>2 DEF ListInv, GotInv, HasGot
      <4> QED
        BY <4>1, <4>2
    <3>6. FoundInv'
      <4> SUFFICES ASSUME loop = "calling" PROVE FoundInv'
        BY <3>1 DEF FoundInv, server
      <4>1. job.id \in Walks /\ job.id # w
        BY <3>1 DEF McpTypeOK, Jobs, PageInv, JobInv
      <4> QED
        BY <3>1, <3>2, <4>1 DEF ListInv, FoundInv, server
    <3> QED
      BY <3>3, <3>5, <3>6 DEF ListInv, GotInv
  <2>2. ASSUME \A v \in Walks : \/ walk'[v] = walk[v]
                                 \/ {walk[v], walk'[v]} \cap {"idle", "done"} = {},
               UNCHANGED <<graph, cursor, got, during, loop, job, rows>>
        PROVE  ListInv'
    <3>1. GotInv'
      BY <2>2, WalksKeep DEF ListInv
    <3> QED
      BY <2>2, <3>1 DEF ListInv, DuringInv, FoundInv
  <2>3. ASSUME NEW w \in Walks, NextPage(w) PROVE ListInv'
    BY <2>2, <2>3 DEF NextPage, server, McpTypeOK
  <2>4. ASSUME NEW w \in Walks, NEW v \in Walks, MixCursors(w, v) PROVE ListInv'
    BY <2>2, <2>4 DEF MixCursors, server, McpTypeOK
  <2>5. CASE Rescan
    <3>1. PICK g \in Graphs \ {graph} :
            /\ graph' = g
            /\ during' = [w \in Walks |-> IF walk[w] = "idle" THEN {} ELSE during[w] \cup {g}]
      BY <2>5 DEF Rescan
    <3>2. UNCHANGED <<walk, cursor, got, loop, job, rows>>
      BY <2>5 DEF Rescan, server
    <3>3. \A w \in Walks : during'[w] = IF walk[w] = "idle" THEN {} ELSE during[w] \cup {g}
      BY <3>1
    <3>4. \A w \in Walks : \A h \in Graphs : during'[w] # {h}
      BY <3>1, <3>3 DEF ListInv, DuringInv
    <3>5. DuringInv'
      BY <3>1, <3>2, <3>3 DEF DuringInv
    <3>6. GotInv'
      BY <3>4 DEF GotInv
    <3>7. FoundInv'
      BY <3>2, <3>4 DEF FoundInv, McpTypeOK, Jobs
    <3> QED
      BY <3>5, <3>6, <3>7 DEF ListInv
  <2>6. ASSUME UNCHANGED <<graph, walk, cursor, got, during>>,
               loop' # "calling" \/ UNCHANGED <<loop, job, rows>>
        PROVE  ListInv'
    <3>1. GotInv'
      BY <2>6, WalksKeep DEF ListInv
    <3> QED
      BY <2>6, <3>1 DEF ListInv, DuringInv, FoundInv
  <2>7. CASE (\E line \in OtherLines : WriteOther(line)) \/ CloseInput \/ UNCHANGED vars
    BY <2>6, <2>7 DEF WriteOther, CloseInput, vars, client, server
  <2>8. CASE ReadGarbage \/ ReadNotification \/ ReadNull \/ ReadRequest \/ ReadOverview \/ EndLoop
    BY <2>6, <2>8 DEF ReadGarbage, ReadNotification, ReadNull, ReadRequest, ReadOverview, EndLoop,
       client, server
  <2>9. ASSUME Reading, IsPage(Head(input))
        PROVE  Head(input).id \in Walks /\ walk[Head(input).id] = "waiting"
    <3>1. 1 \in 1..Len(input) /\ Head(input) = input[1]
      BY <2>9, HeadOfInput DEF Reading
    <3> QED
      BY <2>9, <3>1, PendingLine DEF PageInv, PendingInv
  <2>10. CASE OpenFails
    <3>1. CASE IsPage(Head(input))
      <4>1. /\ walk' = [walk EXCEPT ![Head(input).id] = "failed"]
            /\ UNCHANGED <<graph, cursor, got, during, loop, job, rows>>
        BY <2>10, <3>1 DEF OpenFails, IsPage
      <4>2. Head(input).id \in Walks /\ walk[Head(input).id] = "waiting"
        BY <2>9, <2>10, <3>1 DEF OpenFails
      <4>3. \A v \in Walks : \/ walk'[v] = walk[v]
                              \/ {walk[v], walk'[v]} \cap {"idle", "done"} = {}
        BY <4>1, <4>2 DEF McpTypeOK
      <4> QED
        BY <2>2, <4>1, <4>3
    <3>2. CASE ~IsPage(Head(input))
      BY <2>6, <2>10, <3>2 DEF OpenFails, IsPage
    <3> QED
      BY <3>1, <3>2
  <2>11. CASE RejectCursor
    <3>1. /\ walk' = [walk EXCEPT ![Head(input).id] = "between"]
          /\ UNCHANGED <<graph, cursor, got, during, loop, job, rows>>
      BY <2>11 DEF RejectCursor
    <3>2. Head(input).id \in Walks /\ walk[Head(input).id] = "waiting"
      BY <2>9, <2>11 DEF RejectCursor, IsPage
    <3>3. \A v \in Walks : \/ walk'[v] = walk[v]
                            \/ {walk[v], walk'[v]} \cap {"idle", "done"} = {}
      BY <3>1, <3>2 DEF McpTypeOK
    <3> QED
      BY <2>2, <3>1, <3>3
  <2>12. CASE BeginCall
    <3>1. /\ UNCHANGED <<graph, walk, cursor, got, during>> /\ rows' = <<>> /\ loop' = "calling"
          /\ job'.next = 1
      BY <2>12 DEF BeginCall, client
    <3>2. GotInv' /\ DuringInv'
      BY <3>1, WalksKeep DEF ListInv, DuringInv
    <3>3. job'.tool \in DOMAIN Tools
      BY <3>1 DEF McpTypeOK, Jobs
    <3>4. \A g \in Graphs : RowsUpto(g, job'.tool, 0) = <<>>
      BY <3>3, ToolFacts, RowsUptoFacts
    <3>5. FoundInv'
      BY <3>1, <3>4 DEF FoundInv
    <3> QED
      BY <3>2, <3>5 DEF ListInv
  <2>13. CASE RunQuery
    <3>1. /\ loop = "calling" /\ loop' = loop /\ job.next <= Len(Tools[job.tool])
          /\ rows' = rows \o Take(RowsOf(graph, Tools[job.tool][job.next]), job.window.fetch)
          /\ UNCHANGED <<graph, walk, cursor, got, during>>
      BY <2>13 DEF RunQuery, client
    <3>2. /\ job \in Jobs /\ job.id \in Walks /\ job.tool \in DOMAIN Tools /\ job.next \in Nat \ {0}
          /\ job.window.fetch \in Nat
      BY <3>1 DEF McpTypeOK, Jobs, Windows
    <3>3. job'.id = job.id /\ job'.tool = job.tool /\ job'.window = job.window /\ job'.next = job.next + 1
      BY <2>13, <3>2 DEF RunQuery, Jobs
    <3>4. GotInv' /\ DuringInv'
      BY <3>1, WalksKeep DEF ListInv, DuringInv
    <3>5. ASSUME NEW g \in Graphs, during[job.id] = {g}
          PROVE  Take(rows', job.window.fetch) = Take(RowsUpto(g, job.tool, job.next), job.window.fetch)
      <4>1. graph = g
        BY <3>1, <3>2, <3>5 DEF ListInv, DuringInv, PageInv, JobInv
      <4>2. Take(rows, job.window.fetch) = Take(RowsUpto(g, job.tool, job.next - 1), job.window.fetch)
        BY <3>1, <3>5 DEF ListInv, FoundInv
      <4>3. job.next - 1 \in Nat /\ job.next - 1 <= Len(Tools[job.tool]) /\ (job.next - 1) + 1 = job.next
        BY <3>1, <3>2, ToolFacts
      <4>4. /\ RowsUpto(g, job.tool, job.next - 1) \in Seq(AllRows)
            /\ RowsUpto(g, job.tool, job.next)
                 = RowsUpto(g, job.tool, job.next - 1) \o RowsOf(g, Tools[job.tool][job.next])
        BY <3>2, <4>3, RowsUptoFacts
      <4>5. RowsOf(g, Tools[job.tool][job.next]) \in Seq(AllRows) /\ rows \in Seq(AllRows)
        BY RowsOfIsSeq DEF McpTypeOK
      <4> QED
        BY <3>1, <3>2, <4>1, <4>2, <4>4, <4>5, TakeConcat
    <3>6. job.next + 1 - 1 = job.next
      BY <3>2
    <3>7. FoundInv'
      <4> SUFFICES ASSUME NEW g \in Graphs, during[job.id] = {g}
                   PROVE  Take(rows', job.window.fetch)
                            = Take(RowsUpto(g, job.tool, job.next), job.window.fetch)
        <5>1. job'.next - 1 = job.next
          BY <3>2, <3>3
        <5> QED
          BY <3>1, <3>3, <5>1 DEF FoundInv
      <4> QED
        BY <3>5
    <3> QED
      BY <3>4, <3>7 DEF ListInv
  <2>14. CASE AnswerCall
    <3>0. PICK w \in Walks : w = job.id
      BY <2>14 DEF AnswerCall, McpTypeOK, Jobs
    <3>1. /\ loop = "calling" /\ loop' = "reading" /\ job.next > Len(Tools[job.tool])
          /\ UNCHANGED <<graph, during>>
      BY <2>14 DEF AnswerCall
    <3>2. /\ job \in Jobs /\ w = job.id /\ job.tool \in DOMAIN Tools /\ job.next \in Nat
          /\ job.window \in Windows /\ rows \in Seq(AllRows)
          /\ job.next <= Len(Tools[job.tool]) + 1
      BY <3>0, <3>1 DEF McpTypeOK, Jobs
    <3>3. /\ walk[w] = "waiting" /\ job.call = CallOf[w] /\ job.tool = ToolOf[job.call]
          /\ job.window.offset = DecodeCursor(cursor[w])
          /\ job.window.fetch = job.window.offset + job.window.limit + 1
      BY <3>0, <3>1 DEF PageInv, JobInv
    <3> DEFINE items == TakeWindow(job.window, rows)
               rest == FitOthers(RestOf(graph, job.tool))
               page == FitPage(job.window, items, rest)
               next == NextCursor(job.call, job.window, items, page)
    <3>4. Arrange(job.tool, rows) = rows
      BY <3>2, <3>3 DEF Arrange, NoAccesses
    <3>5. /\ got' = [got EXCEPT ![w] = @ \o page]
          /\ cursor' = [cursor EXCEPT ![w] = next]
          /\ walk' = [walk EXCEPT ![w] = IF next = NoCursor THEN "done" ELSE "between"]
      BY <2>14, <3>0, <3>4 DEF AnswerCall, items, rest, page, next
    <3> HIDE DEF items, rest, page, next
    <3>6. /\ got'[w] = got[w] \o page /\ cursor'[w] = next
          /\ walk'[w] = IF next = NoCursor THEN "done" ELSE "between"
          /\ \A v \in Walks \ {w} : got'[v] = got[v] /\ cursor'[v] = cursor[v] /\ walk'[v] = walk[v]
      BY <3>2, <3>5 DEF McpTypeOK
    <3>7. DuringInv'
      BY <3>1, <3>2, <3>3, <3>6 DEF ListInv, DuringInv
    <3>8. ASSUME NEW g \in Graphs, during[w] = {g} PROVE HasGot(w, g)'
      <4> DEFINE list == FullList[g][CallOf[w]]
      <4>1. list \in Seq(AllRows) /\ list = RowsUpto(g, job.tool, Len(Tools[job.tool]))
        BY <3>2, <3>3, WholeList
      <4>2. job.next - 1 = Len(Tools[job.tool])
        BY <3>1, <3>2, ToolFacts
      <4>3. Take(rows, job.window.fetch) = Take(list, job.window.fetch)
        <5>1. Take(rows, job.window.fetch)
                = Take(RowsUpto(g, job.tool, job.next - 1), job.window.fetch)
          BY <3>0, <3>1, <3>8 DEF ListInv, FoundInv
        <5> QED
          BY <4>1, <4>2, <5>1
      <4>4. job.window.offset <= Len(list) /\ got[w] = Take(list, job.window.offset)
        BY <3>2, <3>3, <3>8 DEF ListInv, GotInv, HasGot
      <4> HIDE DEF list
      <4>5. /\ job.window.offset + Len(page) <= Len(list)
            /\ Take(list, job.window.offset) \o page = Take(list, job.window.offset + Len(page))
            /\ Len(page) = Len(items) => job.window.offset + Len(page) = Len(list)
            /\ Len(page) \in Nat /\ Len(page) <= Len(items)
        <5>1. items = TakeWindow(job.window, rows) /\ page = FitPage(job.window, items, rest)
          BY DEF items, page
        <5>2. /\ list \in Seq(AllRows) /\ rows \in Seq(AllRows) /\ job.window \in Windows
              /\ job.window.fetch = job.window.offset + job.window.limit + 1
              /\ Take(rows, job.window.fetch) = Take(list, job.window.fetch)
              /\ job.window.offset <= Len(list)
          BY <3>2, <3>3, <4>1, <4>3, <4>4
        <5> QED
          BY <5>1, <5>2, PageExtendsList, SMTT(60)
      <4>6. got'[w] = Take(list, job.window.offset + Len(page))
        BY <3>6, <4>4, <4>5
      <4>7. CASE Len(items) > Len(page)
        <5>1. next = [offset |-> job.window.offset + Len(page), call |-> job.call]
          BY <4>7 DEF next, NextCursor, EncodeCursor
        <5>2. next # NoCursor
          BY <3>2, <4>5, <5>1, McpConstants DEF Jobs, Windows
        <5>3. DecodeCursor(cursor'[w]) = job.window.offset + Len(page) /\ walk'[w] = "between"
          BY <3>6, <5>1, <5>2 DEF DecodeCursor
        <5>4. walk'[w] # "done"
          BY <5>3
        <5> QED
          BY <4>5, <4>6, <5>3, <5>4 DEF HasGot, list
      <4>8. CASE ~(Len(items) > Len(page))
        <5>1. next = NoCursor /\ walk'[w] = "done"
          BY <3>6, <4>8 DEF next, NextCursor
        <5>2. Len(items) \in Nat
          BY <3>2, ItemFacts DEF items
        <5>3. Len(page) = Len(items)
          BY <4>5, <4>8, <5>2
        <5>4. Take(list, Len(list)) = list
          BY <4>1, SubSeqFull DEF Take, AtMost
        <5> QED
          BY <4>5, <4>6, <5>1, <5>3, <5>4 DEF HasGot, list
      <4> QED
        BY <4>7, <4>8
    <3>9. GotInv'
      <4> SUFFICES ASSUME NEW v \in Walks, NEW g \in Graphs, during[v] = {g} PROVE HasGot(v, g)'
        BY <3>1 DEF GotInv
      <4>1. CASE v = w
        BY <3>8, <4>1 DEF HasGot
      <4>2. CASE v # w
        BY <3>6, <4>2 DEF ListInv, GotInv, HasGot
      <4> QED
        BY <4>1, <4>2
    <3> QED
      BY <3>1, <3>7, <3>9 DEF ListInv, FoundInv
  <2>15. CASE QueryRejects
    <3>1. /\ loop = "calling" /\ loop' = "reading" /\ job.id \in Walks
          /\ walk' = [walk EXCEPT ![job.id] = "between"] /\ UNCHANGED <<graph, cursor, got, during>>
      BY <2>15 DEF QueryRejects, McpTypeOK, Jobs
    <3>2. walk[job.id] = "waiting"
      BY <3>1 DEF PageInv, JobInv
    <3>3. \A v \in Walks : \/ walk'[v] = walk[v]
                            \/ {walk[v], walk'[v]} \cap {"idle", "done"} = {}
      BY <3>1, <3>2 DEF McpTypeOK
    <3>4. GotInv'
      BY <3>1, <3>3, WalksKeep DEF ListInv
    <3>5. DuringInv'
      BY <3>1, <3>3 DEF ListInv, DuringInv
    <3> QED
      BY <3>1, <3>4, <3>5 DEF ListInv, FoundInv
  <2> QED
    BY <2>1, <2>3, <2>4, <2>5, <2>7, <2>8, <2>10, <2>11, <2>12, <2>13, <2>14, <2>15
       DEF McpNext, ClientStep, ServerStep
<1>3. QED
  BY <1>1, <1>2, McpTypes, PageInvariant, PTL DEF McpSpec

\* Over a graph that stays as it is, the pages of a walk are its list from the
\* first row on, each row once and in order, and the whole list at the end,
\* whatever the limits, the sizes of rows and the budget are.
THEOREM PagesTheorem ==
  ASSUME OneWalkPerCall, NoAccesses PROVE McpSpec => []PagesCoverList
<1>1. McpTypeOK /\ ListInv => PagesCoverList
  <2> SUFFICES ASSUME McpTypeOK, ListInv, NEW w \in Walks, NEW g \in Graphs, during[w] = {g},
                      NEW list, list = FullList[g][CallOf[w]]
               PROVE  /\ IsPrefix(got[w], list)
                      /\ walk[w] = "done" => got[w] = list
    BY DEF PagesCoverList
  <2>1. list \in Seq(AllRows) /\ HasGot(w, g)
    BY WholeList DEF ListInv, GotInv
  <2>2. CASE walk[w] = "done"
    BY <2>1, <2>2, PrefixFacts DEF HasGot
  <2>3. CASE walk[w] # "done"
    <3>1. /\ DecodeCursor(cursor[w]) \in Nat /\ DecodeCursor(cursor[w]) <= Len(list)
          /\ got[w] = Take(list, DecodeCursor(cursor[w]))
      BY <2>1, <2>3 DEF HasGot, DecodeCursor, McpTypeOK, Cursors
    <3>2. /\ got[w] \in Seq(AllRows) /\ Len(got[w]) <= Len(list)
          /\ \A i \in 1..Len(got[w]) : got[w][i] = list[i]
      BY <2>1, <3>1, TakeFacts DEF AtMost
    <3> QED
      BY <2>1, <2>3, <3>2, PrefixFacts
  <2> QED
    BY <2>2, <2>3
<1> QED
  BY <1>1, McpTypes, ListInvariant, PTL
=============================================================================
