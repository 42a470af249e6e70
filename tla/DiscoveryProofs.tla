-------------------------- MODULE DiscoveryProofs --------------------------
(***************************************************************************)
(* Proofs about file discovery: what the walk of Discovery.tla lists, for  *)
(* any tree, options and order of the visits.                              *)
(*                                                                         *)
(* The recursive functions first: globs, ignore rules, the verdict on a    *)
(* path.  GitIgnore.ignores is then shown to say what git says             *)
(* (IgnoresIsIgnored), and mayContain never to leave out a directory with  *)
(* a match (MatchesAreContained).  The invariant of the walk relates every *)
(* visit to the tree it began with and to the tree now; its parts take the *)
(* state as parameters, so that a step disturbs only what it changes.  The *)
(* packages need less: that the tree is one, and the paths paths.          *)
(***************************************************************************)
EXTENDS Discovery, SequenceTheorems, FiniteSetTheorems, WellFoundedInduction, TLAPS

-----------------------------------------------------------------------------
\* Numbers, and functions made by steps.

\* Every set of numbers that is not empty has a least one.
LEMMA LeastNatural ==
  ASSUME NEW T \in SUBSET Nat, T # {}
  PROVE \E x \in T : \A y \in T : x <= y
<1> DEFINE R == OpToRel(<, Nat)
<1>1. IsWellFoundedOn(R, Nat)
  BY NatLessThanWellFounded
<1>2. \A x, y \in Nat : y < x => <<y, x>> \in R
  BY DEF OpToRel
<1> HIDE DEF R
<1>3. PICK x \in T : \A y \in T : ~(<<y, x>> \in R)
  BY <1>1, WFMin
<1>4. \A y \in T : ~(y < x)
  BY <1>2, <1>3, Zenon
<1>5. \A y \in Nat : ~(y < x) => x <= y
  OBVIOUS
<1> QED
  BY <1>4, <1>5

\* Every set of numbers that is bounded, and not empty, has a largest one.
LEMMA LargestNumber ==
  ASSUME NEW n \in Nat, NEW T \in SUBSET (0..n), T # {}
  PROVE  \E m \in T : \A x \in T : x <= m
<1> DEFINE B == {n - x : x \in T}
<1>1. B \in SUBSET Nat /\ B # {}
  <2>1. \A x \in T : n - x \in Nat
    OBVIOUS
  <2> QED
    BY <2>1, Zenon
<1>2. PICK b \in B : \A c \in B : b <= c
  BY <1>1, LeastNatural
<1>3. PICK m \in T : b = n - m
  BY <1>2
<1>4. \A x \in T : n - m <= n - x
  BY <1>2, <1>3
<1>5. \A x \in T : x <= m
  BY <1>3, <1>4
<1> QED
  BY <1>5

\* Induction, for a set: 0 is in it, and with a number the next one.
LEMMA NaturalInduction ==
  ASSUME NEW T \in SUBSET Nat, 0 \in T, \A n \in T : n + 1 \in T
  PROVE  T = Nat
<1> SUFFICES ASSUME Nat \ T # {} PROVE FALSE
  OBVIOUS
<1>1. PICK x \in Nat \ T : \A y \in Nat \ T : x <= y
  BY LeastNatural
<1>2. x - 1 \in Nat /\ x - 1 \notin Nat \ T
  BY <1>1
<1> QED
  BY <1>1, <1>2

\* A function on 0..N made by steps: D[i] makes value i from the one before.
Steps(N, S) == [1..N -> [S -> S]]

Iterates(g, N, S, c, D) ==
  g \in [0..N -> S] /\ g[0] = c /\ \A i \in 1..N : g[i] = D[i][g[i - 1]]

\* Such a function exists, for any first value and any steps.
LEMMA Iteration ==
  ASSUME NEW N, NEW S, NEW c, NEW D, N \in Nat, c \in S, D \in Steps(N, S)
  PROVE  \E g : Iterates(g, N, S, c, D)
<1> USE DEF Steps
<1> DEFINE Upto(k) == \E g \in [0..k -> S] : g[0] = c /\ \A i \in 1..k : g[i] = D[i][g[i - 1]]
           T == {k \in Nat : k <= N => Upto(k)}
<1>1. 0 \in T
  <2> DEFINE g == [i \in 0..0 |-> c]
  <2>1. g \in [0..0 -> S] /\ g[0] = c /\ 1..0 = {}
    OBVIOUS
  <2> HIDE DEF g
  <2> QED
    BY <2>1
<1>2. ASSUME NEW k \in T PROVE k + 1 \in T
  <2> SUFFICES ASSUME k + 1 <= N PROVE Upto(k + 1)
    OBVIOUS
  <2>1. k \in Nat /\ k <= N /\ k + 1 \in 1..N
    OBVIOUS
  <2>2. PICK g \in [0..k -> S] : g[0] = c /\ \A i \in 1..k : g[i] = D[i][g[i - 1]]
    BY <1>2, <2>1
  <2> DEFINE h == [i \in 0..(k + 1) |-> IF i <= k THEN g[i] ELSE D[k + 1][g[k]]]
  <2>3. D[k + 1][g[k]] \in S
    BY <2>1, <2>2
  <2>4. h \in [0..(k + 1) -> S]
    BY <2>1, <2>2, <2>3
  <2>5. h[0] = c
    BY <2>1, <2>2
  <2>6. ASSUME NEW i \in 1..(k + 1) PROVE h[i] = D[i][h[i - 1]]
    <3>1. CASE i <= k
      BY <2>1, <2>2, <3>1
    <3>2. CASE i = k + 1
      BY <2>1, <2>2, <3>2
    <3> QED
      BY <2>1, <3>1, <3>2
  <2> QED
    BY <2>4, <2>5, <2>6
<1>3. T = Nat
  BY <1>1, <1>2, NaturalInduction
<1> QED
  BY <1>3 DEF Iterates

\* The numbers from 1 to N, and the one before each.
LEMMA OneToN ==
  ASSUME NEW N \in Nat
  PROVE  /\ 0 \in 0..N /\ N \in 0..N
         /\ \A n \in 1..N : n \in 0..N /\ n # 0 /\ n - 1 \in 0..N
         /\ \A n \in 0..N : n = 0 \/ n \in 1..N
OBVIOUS

\* What iterates is a function of its steps.
LEMMA IteratesFacts ==
  ASSUME NEW N \in Nat, NEW S, NEW c, NEW D, NEW g, Iterates(g, N, S, c, D)
  PROVE  /\ g \in [0..N -> S] /\ g[0] = c
         /\ \A n \in 1..N : g[n - 1] \in S /\ g[n] = D[n][g[n - 1]]
<1> USE DEF Iterates
<1>1. \A n \in 1..N : g[n - 1] \in S
  BY OneToN
<1> QED
  BY <1>1, Zenon

\* Two functions that take the same steps end alike.
LEMMA OnlyIterate ==
  ASSUME NEW N \in Nat, NEW S, NEW c, NEW D, NEW g, Iterates(g, N, S, c, D),
         NEW f, f[0] = c, \A n \in 1..N : f[n - 1] \in S => f[n] = D[n][f[n - 1]]
  PROVE  f[N] = g[N]
<1> DEFINE T == {k \in Nat : k <= N => f[k] = g[k]}
<1>1. 0 \in T
  BY DEF Iterates
<1>2. ASSUME NEW k \in T PROVE k + 1 \in T
  <2> SUFFICES ASSUME k + 1 <= N PROVE f[k + 1] = g[k + 1]
    OBVIOUS
  <2>1. k \in Nat /\ k <= N /\ k + 1 \in 1..N /\ (k + 1) - 1 = k
    OBVIOUS
  <2>2. f[k] = g[k]
    BY <2>1
  <2>3. g[k] \in S /\ g[k + 1] = D[k + 1][g[k]]
    BY <2>1, IteratesFacts
  <2> QED
    BY <2>1, <2>2, <2>3, Zenon
<1>3. T = Nat
  BY <1>1, <1>2, NaturalInduction
<1> QED
  BY <1>3
-----------------------------------------------------------------------------
\* Rules.

Paths == Seq(Names)
RuleType == [glob : Seq(Names), negated : BOOLEAN, directoryOnly : BOOLEAN]

\* What parseRule makes of a line: one rule, its glob tied to the base or not.
LEMMA RuleIsRule ==
  ASSUME NEW line \in Lines
  PROVE  Rule(line) \in RuleType
<1>1. line.names \in Seq(Names) /\ line.negated \in BOOLEAN /\ line.directoryOnly \in BOOLEAN
  BY DEF Lines
<1>2. <<"**">> \o line.names \in Seq(Names)
  <2>1. "**" \in Names
    BY DiscoveryConstants
  <2>2. \A x \in Names : <<x>> \in Seq(Names)
    OBVIOUS
  <2>3. <<"**">> \in Seq(Names)
    BY <2>1, <2>2, Zenon
  <2> QED
    BY <1>1, <2>3, ConcatProperties
<1>3. (IF line.rooted \/ Len(line.names) > 1 THEN line.names ELSE <<"**">> \o line.names) \in Seq(Names)
  BY <1>1, <1>2
<1> QED
  BY <1>1, <1>3, Zenon DEF Rule, RuleType

\* u[n] is what the first n lines of a file say.
RulesBy(u, lines) ==
  /\ u \in [0..Len(lines) -> Seq(RuleType)]
  /\ u[0] = <<>>
  /\ \A n \in 1..Len(lines) :
       u[n] = IF lines[n].names = <<>> THEN u[n - 1] ELSE Append(u[n - 1], Rule(lines[n]))
  /\ Rules(lines) = u[Len(lines)]

\* parseRule, line by line: the rules of the first n lines, for every n.
LEMMA RulesSteps ==
  ASSUME NEW lines \in Seq(Lines)
  PROVE  \E u : RulesBy(u, lines)
<1> DEFINE N == Len(lines)
           S == Seq(RuleType)
           Step(n, v) ==
             IF lines[n].names = <<>> THEN v ELSE Append(v, Rule(lines[n]))
           Body(u) == [n \in 0..N |-> IF n = 0 THEN <<>> ELSE Step(n, u[n - 1])]
           f == CHOOSE u : u = Body(u)
           D == [n \in 1..N |-> [v \in S |-> Step(n, v)]]
<1>1. Rules(lines) = f[N]
  BY Zenon DEF Rules
<1>2. N \in Nat /\ <<>> \in S
  OBVIOUS
<1>3. D \in Steps(N, S)
  <2>1. ASSUME NEW n \in 1..N, NEW v \in S
        PROVE  Step(n, v) \in S
    BY RuleIsRule
  <2> HIDE DEF Step, S, N
  <2> QED
    BY <2>1, Zenon DEF Steps
<1>4. \A n \in 1..N, v \in S : D[n][v] = Step(n, v)
  BY Zenon
<1>5. PICK g : Iterates(g, N, S, <<>>, D)
  <2> HIDE DEF D, N, S
  <2> QED
    BY <1>2, <1>3, Iteration
<1>6. /\ g \in [0..N -> S]
      /\ g[0] = <<>>
      /\ \A n \in 1..N : g[n] = Step(n, g[n - 1])
  <2> HIDE DEF D, N, S, Step
  <2>1. /\ g \in [0..N -> S] /\ g[0] = <<>>
        /\ \A n \in 1..N : g[n - 1] \in S /\ g[n] = D[n][g[n - 1]]
    BY <1>2, <1>5, IteratesFacts
  <2> QED
    BY <1>4, <2>1, Zenon
<1>7. g = Body(g)
  <2> HIDE DEF N, S, Step, D
  <2>1. ASSUME NEW n \in 0..N PROVE g[n] = Body(g)[n]
    <3>1. CASE n = 0
      BY <1>6, <3>1, Zenon
    <3>2. CASE n # 0
      <4>1. n \in 1..N
        BY <1>2, <3>2
      <4>2. g[n] = Step(n, g[n - 1])
        BY <1>6, <4>1, Zenon
      <4> QED
        BY <3>2, <4>2, Zenon
    <3> QED
      BY <3>1, <3>2
  <2> QED
    BY <1>6, <2>1, Zenon
<1>8. f = Body(f)
  BY <1>7, Zenon
<1>9. f[0] = <<>> /\ \A n \in 1..N : f[n] = Step(n, f[n - 1])
  <2> HIDE DEF f, N, Step
  <2> QED
    BY <1>2, <1>8, OneToN, Zenon
<1>10. f[N] = g[N]
  <2> HIDE DEF f, D, N, S, Step
  <2>1. \A n \in 1..N : f[n - 1] \in S => f[n] = D[n][f[n - 1]]
    BY <1>4, <1>9, Zenon
  <2> QED
    BY <1>2, <1>5, <1>9, <2>1, OnlyIterate
<1> QED
  BY <1>1, <1>6, <1>10, Zenon DEF RulesBy

\* The rules of two lists of lines, one after the other, are the rules of each.
LEMMA RulesOfConcat ==
  ASSUME NEW a \in Seq(Lines), NEW b \in Seq(Lines)
  PROVE  /\ Rules(a \o b) = Rules(a) \o Rules(b)
         /\ Rules(a) \in Seq(RuleType)
         /\ Rules(<<>>) = <<>>
<1> DEFINE c == a \o b
           Next1(list, u, n) ==
             IF list[n].names = <<>> THEN u[n - 1] ELSE Append(u[n - 1], Rule(list[n]))
<1>1. c \in Seq(Lines) /\ Len(c) = Len(a) + Len(b)
  BY ConcatProperties
<1>2. PICK u : /\ u \in [0..Len(a) -> Seq(RuleType)] /\ u[0] = <<>>
               /\ \A n \in 1..Len(a) : u[n] = Next1(a, u, n)
               /\ Rules(a) = u[Len(a)]
  BY RulesSteps DEF RulesBy
<1>3. PICK v : /\ v \in [0..Len(b) -> Seq(RuleType)] /\ v[0] = <<>>
               /\ \A n \in 1..Len(b) : v[n] = Next1(b, v, n)
               /\ Rules(b) = v[Len(b)]
  BY RulesSteps DEF RulesBy
<1> HIDE DEF c
<1>4. PICK w : /\ w \in [0..Len(c) -> Seq(RuleType)] /\ w[0] = <<>>
               /\ \A n \in 1..Len(c) : w[n] = Next1(c, w, n)
               /\ Rules(c) = w[Len(c)]
  BY <1>1, RulesSteps DEF RulesBy
<1>5. /\ \A n \in 1..Len(a) : c[n] = a[n]
      /\ \A n \in 1..Len(b) : c[Len(a) + n] = b[n]
  BY DEF c
<1>6. w[Len(a)] = u[Len(a)]
  <2> DEFINE T == {k \in Nat : k <= Len(a) => w[k] = u[k]}
  <2>1. 0 \in T
    BY <1>2, <1>4
  <2>2. ASSUME NEW k \in T PROVE k + 1 \in T
    <3>1. SUFFICES ASSUME k + 1 <= Len(a) PROVE w[k + 1] = u[k + 1]
      OBVIOUS
    <3>2. /\ k + 1 \in 1..Len(a) /\ (k + 1) - 1 = k /\ w[k] = u[k]
          /\ k + 1 \in 1..Len(c)
      BY <1>1, <3>1
    <3> QED
      BY <1>2, <1>4, <1>5, <3>2, Zenon
  <2>3. T = Nat
    BY <2>1, <2>2, NaturalInduction
  <2> QED
    BY <2>3
<1>7. w[Len(a) + Len(b)] = u[Len(a)] \o v[Len(b)]
  <2> DEFINE P(k) == w[Len(a) + k] = u[Len(a)] \o v[k]
             T == {k \in Nat : k <= Len(b) => P(k)}
  <2>1. 0 \in T
    <3>1. u[Len(a)] \in Seq(RuleType) /\ v[0] = <<>>
      BY <1>2, <1>3
    <3>2. u[Len(a)] \o v[0] = u[Len(a)]
      BY <3>1
    <3>3. Len(a) + 0 = Len(a)
      OBVIOUS
    <3>4. P(0)
      BY <1>6, <3>1, <3>2, <3>3, Zenon
    <3> HIDE DEF P
    <3> QED
      BY <3>4
  <2>2. ASSUME NEW k \in T PROVE k + 1 \in T
    <3> HIDE DEF P
    <3>1. SUFFICES ASSUME k + 1 <= Len(b) PROVE P(k + 1)
      OBVIOUS
    <3>2. /\ k + 1 \in 1..Len(b) /\ (k + 1) - 1 = k /\ P(k)
          /\ Len(a) + (k + 1) \in 1..Len(c) /\ (Len(a) + (k + 1)) - 1 = Len(a) + k
          /\ k \in 0..Len(b)
      BY <1>1, <3>1
    <3>3. c[Len(a) + (k + 1)] = b[k + 1]
      BY <1>5, <3>2
    <3>4. w[Len(a) + (k + 1)] = IF b[k + 1].names = <<>> THEN w[Len(a) + k]
                                ELSE Append(w[Len(a) + k], Rule(b[k + 1]))
      BY <1>4, <3>2, <3>3, Zenon
    <3>5. v[k + 1] = IF b[k + 1].names = <<>> THEN v[k] ELSE Append(v[k], Rule(b[k + 1]))
      BY <1>3, <3>2, Zenon
    <3>6. u[Len(a)] \in Seq(RuleType) /\ v[k] \in Seq(RuleType)
      <4>1. Len(a) \in 0..Len(a)
        OBVIOUS
      <4> QED
        BY <1>2, <1>3, <3>2, <4>1, Zenon
    <3>7. Rule(b[k + 1]) \in RuleType
      BY <3>2, RuleIsRule
    <3>8. u[Len(a)] \o Append(v[k], Rule(b[k + 1])) = Append(u[Len(a)] \o v[k], Rule(b[k + 1]))
      <4> DEFINE r == Rule(b[k + 1]) p == u[Len(a)] q == v[k]
      <4>1. p \in Seq(RuleType) /\ q \in Seq(RuleType) /\ r \in RuleType
        BY <3>6, <3>7
      <4> HIDE DEF r, p, q
      <4>2. p \o Append(q, r) = Append(p \o q, r)
        BY <4>1
      <4> QED
        BY <4>2 DEF r, p, q
    <3> QED
      BY <3>2, <3>4, <3>5, <3>8, Zenon DEF P
  <2>3. T = Nat
    BY <2>1, <2>2, NaturalInduction
  <2> HIDE DEF P
  <2>4. P(Len(b))
    BY <2>3
  <2> QED
    BY <2>4, Zenon DEF P
<1>8. Rules(a) \in Seq(RuleType)
  BY <1>2
<1>9. Rules(<<>>) = <<>>
  <2>1. <<>> \in Seq(Lines) /\ Len(<<>>) = 0
    OBVIOUS
  <2> QED
    BY <2>1, RulesSteps DEF RulesBy
<1> QED
  BY <1>1, <1>2, <1>3, <1>4, <1>7, <1>8, <1>9, Zenon DEF c

\* What a group is when lines are added: only the group of their directory grows.
LEMMA GroupsGrow ==
  ASSUME NEW groups, NEW lines, NEW base, NEW b,
         Rules(lines) \in Seq(RuleType),
         GroupOf(groups, base) \in Seq(RuleType)
  PROVE  /\ GroupOf(AddRules(groups, lines, base), base) = GroupOf(groups, base) \o Rules(lines)
         /\ b # base => GroupOf(AddRules(groups, lines, base), b) = GroupOf(groups, b)
<1>1. CASE Rules(lines) = <<>>
  <2>1. AddRules(groups, lines, base) = groups
    BY <1>1 DEF AddRules
  <2>2. GroupOf(groups, base) \o <<>> = GroupOf(groups, base)
    OBVIOUS
  <2> QED
    BY <1>1, <2>1, <2>2
<1>2. CASE Rules(lines) # <<>>
  <2> DEFINE g == [d \in DOMAIN groups \cup {base} |->
                     IF d = base THEN GroupOf(groups, d) \o Rules(lines) ELSE groups[d]]
  <2>1. AddRules(groups, lines, base) = g
    BY <1>2, Zenon DEF AddRules
  <2>2. GroupOf(g, base) = GroupOf(groups, base) \o Rules(lines)
    <3>1. base \in DOMAIN g /\ g[base] = GroupOf(groups, base) \o Rules(lines)
      BY Zenon
    <3> QED
      BY <3>1, Zenon DEF GroupOf
  <2>3. b # base => GroupOf(g, b) = GroupOf(groups, b)
    BY Zenon DEF GroupOf
  <2> QED
    BY <2>1, <2>2, <2>3, Zenon
<1> QED
  BY <1>1, <1>2

Verdicts == {"kept", "ignored"}

\* u[n] is the verdict after the first n rules of a group.
DecidedBy(u, verdict, group, path, isDirectory) ==
  /\ u \in [0..Len(group) -> Verdicts]
  /\ u[0] = verdict
  /\ \A n \in 1..Len(group) :
       u[n] = IF ~Applies(group[n], path, isDirectory) THEN u[n - 1]
              ELSE IF group[n].negated THEN "kept" ELSE "ignored"
  /\ Decide(verdict, group, path, isDirectory) = u[Len(group)]

\* The verdict after the first n rules of a group, for every n.
LEMMA DecideSteps ==
  ASSUME NEW verdict \in Verdicts, NEW group \in Seq(RuleType), NEW path, NEW isDirectory
  PROVE  \E u : DecidedBy(u, verdict, group, path, isDirectory)
<1> DEFINE N == Len(group)
           S == Verdicts
           Step(n, v) ==
             IF ~Applies(group[n], path, isDirectory) THEN v
             ELSE IF group[n].negated THEN "kept" ELSE "ignored"
           Body(u) == [n \in 0..N |-> IF n = 0 THEN verdict ELSE Step(n, u[n - 1])]
           f == CHOOSE u : u = Body(u)
           D == [n \in 1..N |-> [v \in S |-> Step(n, v)]]
<1>1. Decide(verdict, group, path, isDirectory) = f[N]
  BY Zenon DEF Decide
<1>2. N \in Nat /\ verdict \in S
  OBVIOUS
<1>3. D \in Steps(N, S)
  <2>1. ASSUME NEW n \in 1..N, NEW v \in S
        PROVE  Step(n, v) \in S
    BY Zenon DEF Verdicts
  <2> HIDE DEF Step, S, N
  <2> QED
    BY <2>1, Zenon DEF Steps
<1>4. \A n \in 1..N, v \in S : D[n][v] = Step(n, v)
  BY Zenon
<1>5. PICK g : Iterates(g, N, S, verdict, D)
  <2> HIDE DEF D, N, S
  <2> QED
    BY <1>2, <1>3, Iteration
<1>6. /\ g \in [0..N -> S]
      /\ g[0] = verdict
      /\ \A n \in 1..N : g[n] = Step(n, g[n - 1])
  <2> HIDE DEF D, N, S, Step
  <2>1. /\ g \in [0..N -> S] /\ g[0] = verdict
        /\ \A n \in 1..N : g[n - 1] \in S /\ g[n] = D[n][g[n - 1]]
    BY <1>2, <1>5, IteratesFacts
  <2> QED
    BY <1>4, <2>1, Zenon
<1>7. g = Body(g)
  <2> HIDE DEF N, S, Step, D
  <2>1. ASSUME NEW n \in 0..N PROVE g[n] = Body(g)[n]
    <3>1. CASE n = 0
      BY <1>6, <3>1, Zenon
    <3>2. CASE n # 0
      <4>1. n \in 1..N
        BY <1>2, <3>2
      <4>2. g[n] = Step(n, g[n - 1])
        BY <1>6, <4>1, Zenon
      <4> QED
        BY <3>2, <4>2, Zenon
    <3> QED
      BY <3>1, <3>2
  <2> QED
    BY <1>6, <2>1, Zenon
<1>8. f = Body(f)
  BY <1>7, Zenon
<1>9. f[0] = verdict /\ \A n \in 1..N : f[n] = Step(n, f[n - 1])
  <2> HIDE DEF f, N, Step
  <2> QED
    BY <1>2, <1>8, OneToN, Zenon
<1>10. f[N] = g[N]
  <2> HIDE DEF f, D, N, S, Step
  <2>1. \A n \in 1..N : f[n - 1] \in S => f[n] = D[n][f[n - 1]]
    BY <1>4, <1>9, Zenon
  <2> QED
    BY <1>2, <1>5, <1>9, <2>1, OnlyIterate
<1> QED
  BY <1>1, <1>6, <1>10, Zenon DEF DecidedBy

\* A group leaves one of the two verdicts.
LEMMA DecideVerdict ==
  ASSUME NEW verdict \in Verdicts, NEW group \in Seq(RuleType), NEW path, NEW isDirectory
  PROVE  Decide(verdict, group, path, isDirectory) \in Verdicts
<1>1. Len(group) \in 0..Len(group)
  OBVIOUS
<1> QED
  BY <1>1, DecideSteps DEF DecidedBy

\* u[n] is the verdict after the groups of the first n directories above a path.
IgnoresBy(u, groups, path, isDirectory) ==
  /\ u \in [0..Len(path) -> Verdicts]
  /\ u[0] = "kept"
  /\ \A n \in 1..Len(path) :
       u[n] = Decide(u[n - 1], GroupOf(groups, Prefix(path, n - 1)), Rest(path, n - 1), isDirectory)
  /\ Ignores(groups, path, isDirectory) <=> u[Len(path)] = "ignored"

\* The verdict after the groups of the first n directories above a path, for
\* every n.
LEMMA IgnoresSteps ==
  ASSUME NEW groups, \A b : GroupOf(groups, b) \in Seq(RuleType), NEW path \in Paths, NEW isDirectory
  PROVE  \E u : IgnoresBy(u, groups, path, isDirectory)
<1> DEFINE N == Len(path)
           S == Verdicts
           Step(n, v) ==
             Decide(v, GroupOf(groups, Prefix(path, n - 1)), Rest(path, n - 1), isDirectory)
           Body(u) == [n \in 0..N |-> IF n = 0 THEN "kept" ELSE Step(n, u[n - 1])]
           f == CHOOSE u : u = Body(u)
           D == [n \in 1..N |-> [v \in S |-> Step(n, v)]]
<1>1. Ignores(groups, path, isDirectory) <=> f[N] = "ignored"
  BY Zenon DEF Ignores
<1>2. N \in Nat /\ "kept" \in S
  BY DEF Verdicts, Paths
<1>3. D \in Steps(N, S)
  <2>1. ASSUME NEW n \in 1..N, NEW v \in S
        PROVE  Step(n, v) \in S
    BY DecideVerdict
  <2> HIDE DEF Step, S, N
  <2> QED
    BY <2>1, Zenon DEF Steps
<1>4. \A n \in 1..N, v \in S : D[n][v] = Step(n, v)
  BY Zenon
<1>5. PICK g : Iterates(g, N, S, "kept", D)
  <2> HIDE DEF D, N, S
  <2> QED
    BY <1>2, <1>3, Iteration
<1>6. /\ g \in [0..N -> S]
      /\ g[0] = "kept"
      /\ \A n \in 1..N : g[n] = Step(n, g[n - 1])
  <2> HIDE DEF D, N, S, Step
  <2>1. /\ g \in [0..N -> S] /\ g[0] = "kept"
        /\ \A n \in 1..N : g[n - 1] \in S /\ g[n] = D[n][g[n - 1]]
    BY <1>2, <1>5, IteratesFacts
  <2> QED
    BY <1>4, <2>1, Zenon
<1>7. g = Body(g)
  <2> HIDE DEF N, S, Step, D
  <2>1. ASSUME NEW n \in 0..N PROVE g[n] = Body(g)[n]
    <3>1. CASE n = 0
      BY <1>6, <3>1, Zenon
    <3>2. CASE n # 0
      <4>1. n \in 1..N
        BY <1>2, <3>2
      <4>2. g[n] = Step(n, g[n - 1])
        BY <1>6, <4>1, Zenon
      <4> QED
        BY <3>2, <4>2, Zenon
    <3> QED
      BY <3>1, <3>2
  <2> QED
    BY <1>6, <2>1, Zenon
<1>8. f = Body(f)
  BY <1>7, Zenon
<1>9. f[0] = "kept" /\ \A n \in 1..N : f[n] = Step(n, f[n - 1])
  <2> HIDE DEF f, N, Step
  <2> QED
    BY <1>2, <1>8, OneToN, Zenon
<1>10. f[N] = g[N]
  <2> HIDE DEF f, D, N, S, Step
  <2>1. \A n \in 1..N : f[n - 1] \in S => f[n] = D[n][f[n - 1]]
    BY <1>4, <1>9, Zenon
  <2> QED
    BY <1>2, <1>5, <1>9, <2>1, OnlyIterate
<1> QED
  BY <1>1, <1>6, <1>10, Zenon DEF IgnoresBy

\* u[n] is how far into a path the first n segments of a glob can reach.
Reaches(u, glob, path) ==
  /\ u \in [0..Len(glob) -> SUBSET (0..Len(path))]
  /\ u[0] = {0}
  /\ \A n \in 1..Len(glob) :
       u[n] = {e \in 0..Len(path) : \E from \in u[n - 1] :
                 IF glob[n] = "**" THEN from <= e /\ (n = Len(glob) => from < e)
                 ELSE e = from + 1 /\ SegmentFits(glob[n], path[e])}
  /\ Fits(glob, path) <=> Len(path) \in u[Len(glob)]

\* How far into a path the first n segments of a glob can reach, for every n.
LEMMA FitsSteps ==
  ASSUME NEW glob \in Paths, NEW path \in Paths
  PROVE  \E u : Reaches(u, glob, path)
<1> DEFINE N == Len(glob)
           S == SUBSET (0..Len(path))
           Step(n, v) ==
             {e \in 0..Len(path) : \E from \in v :
                IF glob[n] = "**" THEN from <= e /\ (n = Len(glob) => from < e)
                ELSE e = from + 1 /\ SegmentFits(glob[n], path[e])}
           Body(u) == [n \in 0..N |-> IF n = 0 THEN {0} ELSE Step(n, u[n - 1])]
           f == CHOOSE u : u = Body(u)
           D == [n \in 1..N |-> [v \in S |-> Step(n, v)]]
<1>1. Fits(glob, path) <=> Len(path) \in f[N]
  BY Zenon DEF Fits
<1>2. N \in Nat /\ {0} \in S
  BY DEF Paths
<1>3. D \in Steps(N, S)
  <2>1. ASSUME NEW n \in 1..N, NEW v \in S
        PROVE  Step(n, v) \in S
    BY Zenon
  <2> HIDE DEF Step, S, N
  <2> QED
    BY <2>1, Zenon DEF Steps
<1>4. \A n \in 1..N, v \in S : D[n][v] = Step(n, v)
  BY Zenon
<1>5. PICK g : Iterates(g, N, S, {0}, D)
  <2> HIDE DEF D, N, S
  <2> QED
    BY <1>2, <1>3, Iteration
<1>6. /\ g \in [0..N -> S]
      /\ g[0] = {0}
      /\ \A n \in 1..N : g[n] = Step(n, g[n - 1])
  <2> HIDE DEF D, N, S, Step
  <2>1. /\ g \in [0..N -> S] /\ g[0] = {0}
        /\ \A n \in 1..N : g[n - 1] \in S /\ g[n] = D[n][g[n - 1]]
    BY <1>2, <1>5, IteratesFacts
  <2> QED
    BY <1>4, <2>1, Zenon
<1>7. g = Body(g)
  <2> HIDE DEF N, S, Step, D
  <2>1. ASSUME NEW n \in 0..N PROVE g[n] = Body(g)[n]
    <3>1. CASE n = 0
      BY <1>6, <3>1, Zenon
    <3>2. CASE n # 0
      <4>1. n \in 1..N
        BY <1>2, <3>2
      <4>2. g[n] = Step(n, g[n - 1])
        BY <1>6, <4>1, Zenon
      <4> QED
        BY <3>2, <4>2, Zenon
    <3> QED
      BY <3>1, <3>2
  <2> QED
    BY <1>6, <2>1, Zenon
<1>8. f = Body(f)
  BY <1>7, Zenon
<1>9. f[0] = {0} /\ \A n \in 1..N : f[n] = Step(n, f[n - 1])
  <2> HIDE DEF f, N, Step
  <2> QED
    BY <1>2, <1>8, OneToN, Zenon
<1>10. f[N] = g[N]
  <2> HIDE DEF f, D, N, S, Step
  <2>1. \A n \in 1..N : f[n - 1] \in S => f[n] = D[n][f[n - 1]]
    BY <1>4, <1>9, Zenon
  <2> QED
    BY <1>2, <1>5, <1>9, <2>1, OnlyIterate
<1> QED
  BY <1>1, <1>6, <1>10, Zenon DEF Reaches

\* So Max is what it says, for the sets of numbers here.
LEMMA LargestIsMax ==
  ASSUME NEW n \in Nat, NEW T \in SUBSET (1..n), T # {}
  PROVE  Max(T) \in T /\ \A x \in T : x <= Max(T)
<1>1. T \in SUBSET (0..n)
  OBVIOUS
<1>2. PICK m \in T : \A x \in T : x <= m
  BY <1>1, LargestNumber
<1>3. \A x \in T : m >= x
  BY <1>2
<1>4. Max(T) \in T /\ \A x \in T : Max(T) >= x
  BY <1>3, Zenon DEF Max
<1>5. \A x \in T : x \in Nat
  OBVIOUS
<1> QED
  BY <1>4, <1>5

\* A group in which no rule applies leaves the verdict.
LEMMA NoRuleDecides ==
  ASSUME NEW verdict \in Verdicts, NEW group \in Seq(RuleType), NEW path, NEW isDirectory,
         \A n \in 1..Len(group) : ~Applies(group[n], path, isDirectory)
  PROVE  Decide(verdict, group, path, isDirectory) = verdict
<1>1. PICK u : /\ u \in [0..Len(group) -> Verdicts]
               /\ u[0] = verdict
               /\ \A n \in 1..Len(group) :
                    u[n] = IF ~Applies(group[n], path, isDirectory) THEN u[n - 1]
                           ELSE IF group[n].negated THEN "kept" ELSE "ignored"
               /\ Decide(verdict, group, path, isDirectory) = u[Len(group)]
  BY DecideSteps DEF DecidedBy
<1> DEFINE T == {n \in Nat : n <= Len(group) => u[n] = verdict}
<1>2. 0 \in T
  BY <1>1
<1>3. ASSUME NEW n \in T PROVE n + 1 \in T
  <2>1. SUFFICES ASSUME n + 1 <= Len(group) PROVE u[n + 1] = verdict
    OBVIOUS
  <2>2. n + 1 \in 1..Len(group) /\ (n + 1) - 1 = n /\ u[n] = verdict
    BY <2>1
  <2> QED
    BY <1>1, <2>2, Zenon
<1>4. T = Nat
  BY <1>2, <1>3, NaturalInduction
<1>5. Len(group) \in Nat
  OBVIOUS
<1> QED
  BY <1>1, <1>4, <1>5

\* The last rule that applies decides.
LEMMA LastRuleDecides ==
  ASSUME NEW verdict \in Verdicts, NEW group \in Seq(RuleType), NEW path, NEW isDirectory,
         NEW last \in 1..Len(group), Applies(group[last], path, isDirectory),
         \A n \in (last + 1)..Len(group) : ~Applies(group[n], path, isDirectory)
  PROVE  Decide(verdict, group, path, isDirectory) = IF group[last].negated THEN "kept" ELSE "ignored"
<1>1. PICK u : /\ u \in [0..Len(group) -> Verdicts]
               /\ u[0] = verdict
               /\ \A n \in 1..Len(group) :
                    u[n] = IF ~Applies(group[n], path, isDirectory) THEN u[n - 1]
                           ELSE IF group[n].negated THEN "kept" ELSE "ignored"
               /\ Decide(verdict, group, path, isDirectory) = u[Len(group)]
  BY DecideSteps DEF DecidedBy
<1> DEFINE T == {n \in Nat : last + n <= Len(group) => u[last + n] = u[last]}
<1>2. 0 \in T
  OBVIOUS
<1>3. ASSUME NEW n \in T PROVE n + 1 \in T
  <2>1. SUFFICES ASSUME last + (n + 1) <= Len(group) PROVE u[last + (n + 1)] = u[last]
    OBVIOUS
  <2>2. /\ last + (n + 1) \in 1..Len(group) /\ last + (n + 1) \in (last + 1)..Len(group)
        /\ (last + (n + 1)) - 1 = last + n /\ u[last + n] = u[last]
    BY <2>1
  <2> QED
    BY <1>1, <2>2, Zenon
<1>4. T = Nat
  BY <1>2, <1>3, NaturalInduction
<1>5. Len(group) - last \in Nat /\ last + (Len(group) - last) = Len(group) /\ Len(group) <= Len(group)
  OBVIOUS
<1>6. u[Len(group)] = u[last]
  <2>1. Len(group) - last \in T
    BY <1>4, <1>5
  <2> QED
    BY <1>5, <2>1, Zenon
<1> QED
  BY <1>1, <1>6, Zenon

\* A walk whose groups are the rules of a tree's directories ignores what git says of
\* that tree.
THEOREM IgnoresIsIgnored ==
  ASSUME NEW groups, \A b : GroupOf(groups, b) \in Seq(RuleType),
         NEW t, NEW path \in Paths, NEW isDirectory,
         \A d \in 0..(Len(path) - 1) : GroupOf(groups, Prefix(path, d)) = Rules(LinesOf(t, Prefix(path, d)))
  PROVE  Ignores(groups, path, isDirectory) <=> Ignored(t, path, isDirectory)
<1> DEFINE G(d) == GroupOf(groups, Prefix(path, d))
           A(d) == {n \in DOMAIN G(d) : Applies(G(d)[n], Rest(path, d), isDirectory)}
           Final(d) == G(d)[Max(A(d))]
           Found(k, e) == /\ A(e) # {} /\ ~Final(e).negated
                          /\ \A deeper \in (e + 1)..(k - 1) : A(deeper) = {}
<1>0. PICK V : IgnoresBy(V, groups, path, isDirectory)
  BY IgnoresSteps
<1>1. /\ V \in [0..Len(path) -> Verdicts]
      /\ V[0] = "kept"
      /\ \A n \in 1..Len(path) : V[n] = Decide(V[n - 1], G(n - 1), Rest(path, n - 1), isDirectory)
      /\ Ignores(groups, path, isDirectory) <=> V[Len(path)] = "ignored"
  BY <1>0, Zenon DEF IgnoresBy
<1>2. ASSUME NEW k \in 0..(Len(path) - 1)
      PROVE  /\ A(k) = {} => V[k + 1] = V[k]
             /\ A(k) # {} => V[k + 1] = IF Final(k).negated THEN "kept" ELSE "ignored"
  <2>1. k + 1 \in 1..Len(path) /\ (k + 1) - 1 = k /\ k \in 0..Len(path)
    BY DEF Paths
  <2>2. V[k] \in Verdicts
    BY <1>1, <2>1
  <2>3. V[k + 1] = Decide(V[k], G(k), Rest(path, k), isDirectory)
    BY <1>1, <2>1, Zenon
  <2> DEFINE g == G(k)
  <2>4. g \in Seq(RuleType)
    OBVIOUS
  <2>5. DOMAIN g = 1..Len(g) /\ Len(g) \in Nat
    BY <2>4
  <2>6. CASE A(k) = {}
    <3>1. \A n \in 1..Len(g) : ~Applies(g[n], Rest(path, k), isDirectory)
      BY <2>5, <2>6, Zenon
    <3> QED
      BY <2>2, <2>3, <2>4, <2>6, <3>1, NoRuleDecides, Zenon
  <2>7. CASE A(k) # {}
    <3> DEFINE last == Max(A(k))
    <3>1. A(k) \in SUBSET (1..Len(g))
      BY <2>5, Zenon
    <3> HIDE DEF A, g
    <3>2. last \in A(k) /\ \A x \in A(k) : x <= last
      BY <2>5, <2>7, <3>1, LargestIsMax
    <3>3. last \in 1..Len(g)
      BY <3>1, <3>2
    <3> HIDE DEF last
    <3>4. Applies(g[last], Rest(path, k), isDirectory)
      BY <3>2, Zenon DEF A, g
    <3>5. ASSUME NEW n \in (last + 1)..Len(g) PROVE ~Applies(g[n], Rest(path, k), isDirectory)
      <4>1. n \in 1..Len(g) /\ ~(n <= last)
        BY <2>5, <3>3
      <4>2. n \notin A(k)
        BY <3>2, <4>1
      <4> QED
        BY <2>5, <4>1, <4>2, Zenon DEF A, g
    <3>6. V[k + 1] = IF g[last].negated THEN "kept" ELSE "ignored"
      BY <2>2, <2>3, <2>4, <3>3, <3>4, <3>5, LastRuleDecides, Zenon DEF g
    <3> QED
      BY <2>7, <3>6, Zenon DEF last, g
  <2> QED
    BY <2>6, <2>7
<1> DEFINE P(k) == V[k] = "ignored" <=> \E e \in 0..(k - 1) : Found(k, e)
<1>3. P(0)
  <2>1. 0..(0 - 1) = {}
    OBVIOUS
  <2> QED
    BY <1>1, <2>1, Zenon
<1>4. ASSUME NEW k \in Nat, k + 1 <= Len(path), P(k) PROVE P(k + 1)
  <2>1. k \in 0..(Len(path) - 1) /\ (k + 1) - 1 = k /\ k \in 0..((k + 1) - 1)
    BY <1>4 DEF Paths
  <2> HIDE DEF G, A, Last
  <2>2. CASE A(k) = {}
    <3>1. V[k + 1] = V[k]
      BY <1>2, <2>1, <2>2
    <3>2. ASSUME NEW e \in 0..(k - 1) PROVE Found(k, e) <=> Found(k + 1, e)
      <4>1. \A d : d \in (e + 1)..((k + 1) - 1) <=> d \in (e + 1)..(k - 1) \/ d = k
        BY <2>1
      <4> QED
        BY <2>2, <4>1, Zenon
    <3>3. ~Found(k + 1, k)
      BY <2>2
    <3>4. \A e : e \in 0..((k + 1) - 1) <=> e \in 0..(k - 1) \/ e = k
      BY <2>1
    <3> HIDE DEF Found
    <3> QED
      BY <1>4, <3>1, <3>2, <3>3, <3>4, Zenon
  <2>3. CASE A(k) # {}
    <3>1. V[k + 1] = IF Final(k).negated THEN "kept" ELSE "ignored"
      BY <1>2, <2>1, <2>3
    <3>2. ASSUME NEW e \in 0..(k - 1) PROVE ~Found(k + 1, e)
      <4>1. k \in (e + 1)..((k + 1) - 1)
        BY <2>1
      <4> QED
        BY <2>3, <4>1
    <3>3. Found(k + 1, k) <=> ~Final(k).negated
      <4>1. (k + 1)..((k + 1) - 1) = {}
        OBVIOUS
      <4> QED
        BY <2>3, <4>1, Zenon
    <3>4. \A e : e \in 0..((k + 1) - 1) <=> e \in 0..(k - 1) \/ e = k
      BY <2>1
    <3> HIDE DEF Found
    <3>5. V[k + 1] = "ignored" <=> ~Final(k).negated
      BY <3>1
    <3> QED
      BY <3>2, <3>3, <3>4, <3>5, Zenon
  <2> QED
    BY <2>2, <2>3, Zenon
<1>5. P(Len(path))
  <2> HIDE DEF P
  <2> DEFINE T == {k \in Nat : k <= Len(path) => P(k)}
  <2>1. 0 \in T
    BY <1>3
  <2>2. \A k \in T : k + 1 \in T
    BY <1>4 DEF Paths
  <2>3. T = Nat
    BY <2>1, <2>2, NaturalInduction
  <2>4. Len(path) \in Nat
    BY DEF Paths
  <2> QED
    BY <2>3, <2>4
<1>6. Ignored(t, path, isDirectory) <=> \E e \in 0..(Len(path) - 1) : Found(Len(path), e)
  <2> DEFINE L(d) == Rules(LinesOf(t, Prefix(path, d)))
             B(d) == {n \in DOMAIN L(d) : Applies(L(d)[n], Rest(path, d), isDirectory)}
             Holds(e) == /\ B(e) # {} /\ ~L(e)[Max(B(e))].negated
                         /\ \A deeper \in (e + 1)..(Len(path) - 1) : B(deeper) = {}
  <2>1. Ignored(t, path, isDirectory) <=> \E e \in 0..(Len(path) - 1) : Holds(e)
    BY Zenon DEF Ignored
  <2>2. \A d \in 0..(Len(path) - 1) : L(d) = G(d)
    OBVIOUS
  <2>3. ASSUME NEW d \in 0..(Len(path) - 1) PROVE B(d) = A(d)
    <3> HIDE DEF L, G
    <3>1. L(d) = G(d)
      BY <2>2
    <3> QED
      BY <3>1, Zenon
  <2>4. ASSUME NEW e \in 0..(Len(path) - 1) PROVE Holds(e) <=> Found(Len(path), e)
    <3>1. \A d \in (e + 1)..(Len(path) - 1) : d \in 0..(Len(path) - 1)
      BY DEF Paths
    <3> HIDE DEF L, G, A, B
    <3> QED
      BY <2>2, <2>3, <3>1, Zenon
  <2> HIDE DEF Holds, Found
  <2> QED
    BY <2>1, <2>4, Zenon
<1> HIDE DEF Found
<1> QED
  BY <1>1, <1>5, <1>6, Zenon

\* The verdict on a path is that of the groups of the directories above it.
LEMMA GroupsAboveDecide ==
  ASSUME NEW g, NEW h, \A b : GroupOf(g, b) \in Seq(RuleType), \A b : GroupOf(h, b) \in Seq(RuleType),
         NEW path \in Paths, NEW isDirectory,
         \A d \in 0..(Len(path) - 1) : GroupOf(g, Prefix(path, d)) = GroupOf(h, Prefix(path, d))
  PROVE  Ignores(g, path, isDirectory) <=> Ignores(h, path, isDirectory)
<1>1. PICK V : IgnoresBy(V, g, path, isDirectory)
  BY IgnoresSteps
<1>2. PICK W : IgnoresBy(W, h, path, isDirectory)
  BY IgnoresSteps
<1> DEFINE P(k) == V[k] = W[k]
           T == {k \in Nat : k <= Len(path) => P(k)}
<1>3. P(0)
  BY <1>1, <1>2, Zenon DEF IgnoresBy
<1>4. ASSUME NEW k \in Nat, k + 1 <= Len(path), P(k) PROVE P(k + 1)
  <2>1. k + 1 \in 1..Len(path) /\ (k + 1) - 1 = k /\ k \in 0..(Len(path) - 1)
    BY <1>4 DEF Paths
  <2> QED
    BY <1>1, <1>2, <1>4, <2>1, Zenon DEF IgnoresBy
<1> HIDE DEF P
<1>5. T = Nat
  <2>1. 0 \in T
    BY <1>3
  <2>2. \A k \in T : k + 1 \in T
    BY <1>4 DEF Paths
  <2> QED
    BY <2>1, <2>2, NaturalInduction
<1>6. Len(path) \in Nat
  BY DEF Paths
<1>7. P(Len(path))
  BY <1>5, <1>6
<1> QED
  BY <1>1, <1>2, <1>7, Zenon DEF IgnoresBy, P

-----------------------------------------------------------------------------
\* Paths and trees.

\* The first n names of a path are a path.
LEMMA PrefixFacts ==
  ASSUME NEW path \in Paths, NEW n \in 0..Len(path)
  PROVE  /\ Prefix(path, n) \in Paths
         /\ Len(Prefix(path, n)) = n
         /\ \A k \in 1..n : Prefix(path, n)[k] = path[k]
<1>1. path \in Seq(Names) /\ Len(path) \in Nat /\ n \in Nat
  BY DEF Paths
<1>2. \A i \in 1..n : path[i] \in Names
  BY <1>1
<1>3. SubSeq(path, 1, n) \in Seq(Names)
  BY <1>1
<1> QED
  BY <1>1, <1>2, <1>3 DEF Prefix, Paths

\* The first names of the first names.
LEMMA PrefixOfPrefix ==
  ASSUME NEW path \in Paths, NEW n \in 0..Len(path), NEW k \in 0..n
  PROVE  Prefix(Prefix(path, n), k) = Prefix(path, k)
<1> DEFINE p == Prefix(path, n) q == Prefix(p, k) r == Prefix(path, k)
<1>1. n \in Nat /\ k \in Nat /\ Len(path) \in Nat /\ k \in 0..Len(path) /\ k <= n
  BY DEF Paths
<1>2. p \in Paths /\ Len(p) = n /\ \A i \in 1..n : p[i] = path[i]
  BY PrefixFacts
<1>3. r \in Paths /\ Len(r) = k /\ \A i \in 1..k : r[i] = path[i]
  BY <1>1, PrefixFacts
<1> HIDE DEF p
<1>4. k \in 0..Len(p)
  BY <1>2
<1>5. q \in Paths /\ Len(q) = k /\ \A i \in 1..k : q[i] = p[i]
  BY <1>2, <1>4, PrefixFacts
<1> HIDE DEF q, r
<1>6. \A i \in 1..k : q[i] = r[i]
  BY <1>1, <1>2, <1>3, <1>5
<1>7. q \in Seq(Names) /\ r \in Seq(Names) /\ Len(q) = Len(r)
  BY <1>3, <1>5 DEF Paths
<1>8. q = r
  BY <1>3, <1>6, <1>7, SeqEqual
<1> QED
  BY <1>8 DEF p, q, r

\* All names of a path, and none.
LEMMA WholePath ==
  ASSUME NEW path \in Paths
  PROVE  Prefix(path, Len(path)) = path /\ Prefix(path, 0) = <<>>
<1>1. path \in Seq(Names) /\ Len(path) \in Nat
  BY DEF Paths
<1>2. Prefix(path, Len(path)) = path
  BY <1>1 DEF Prefix
<1>3. Prefix(path, 0) = <<>>
  BY <1>1 DEF Prefix
<1> QED
  BY <1>2, <1>3

\* An entry of a directory: its path, its name, and what is above it.
LEMMA AppendFacts ==
  ASSUME NEW d \in Paths, NEW name \in Names
  PROVE  /\ Append(d, name) \in Paths
         /\ Len(Append(d, name)) = Len(d) + 1
         /\ Append(d, name) # <<>>
         /\ Name(Append(d, name)) = name
         /\ \A k \in 0..Len(d) : Prefix(Append(d, name), k) = Prefix(d, k)
         /\ Prefix(Append(d, name), Len(d)) = d
<1> DEFINE p == Append(d, name)
<1>1. d \in Seq(Names) /\ Len(d) \in Nat
  BY DEF Paths
<1>2. p \in Seq(Names) /\ Len(p) = Len(d) + 1 /\ p[Len(p)] = name /\ \A i \in 1..Len(d) : p[i] = d[i]
  BY <1>1
<1> HIDE DEF p
<1>3. p \in Paths
  BY <1>2 DEF Paths
<1>4. ASSUME NEW k \in 0..Len(d) PROVE Prefix(p, k) = Prefix(d, k)
  <2> DEFINE q == Prefix(p, k) r == Prefix(d, k)
  <2>1. k \in 0..Len(p) /\ k \in Nat
    BY <1>1, <1>2
  <2>2. q \in Paths /\ Len(q) = k /\ \A i \in 1..k : q[i] = p[i]
    BY <1>3, <2>1, PrefixFacts
  <2>3. r \in Paths /\ Len(r) = k /\ \A i \in 1..k : r[i] = d[i]
    BY PrefixFacts
  <2> HIDE DEF q, r
  <2>4. \A i \in 1..k : q[i] = r[i]
    BY <1>1, <1>2, <2>1, <2>2, <2>3
  <2>5. q \in Seq(Names) /\ r \in Seq(Names) /\ Len(q) = Len(r)
    BY <2>2, <2>3 DEF Paths
  <2>6. q = r
    BY <2>3, <2>4, <2>5, SeqEqual
  <2> QED
    BY <2>6 DEF q, r
<1>5. Prefix(p, Len(d)) = d
  <2>1. Len(d) \in 0..Len(d)
    BY <1>1
  <2> QED
    BY <1>4, <2>1, WholePath
<1>6. p # <<>>
  BY <1>1, <1>2
<1> QED
  BY <1>2, <1>3, <1>4, <1>5, <1>6 DEF p, Name

\* A path that is not the root is an entry of the directory above it.
LEMMA ParentAndName ==
  ASSUME NEW path \in Paths, path # <<>>
  PROVE  /\ Len(path) \in Nat /\ 1 <= Len(path)
         /\ Prefix(path, Len(path) - 1) \in Paths
         /\ Len(Prefix(path, Len(path) - 1)) = Len(path) - 1
         /\ Name(path) \in Names
         /\ path = Append(Prefix(path, Len(path) - 1), Name(path))
<1>1. path \in Seq(Names) /\ Len(path) \in Nat /\ Len(path) # 0
  BY DEF Paths
<1>2. Len(path) - 1 \in 0..Len(path) /\ 1 <= Len(path)
  BY <1>1
<1> DEFINE d == Prefix(path, Len(path) - 1)
<1>3. d \in Paths /\ Len(d) = Len(path) - 1 /\ \A i \in 1..(Len(path) - 1) : d[i] = path[i]
  BY <1>2, PrefixFacts
<1>4. Name(path) \in Names
  BY <1>1, <1>2 DEF Name
<1> HIDE DEF d
<1>5. d \in Seq(Names)
  BY <1>3 DEF Paths
<1> DEFINE q == Append(d, Name(path))
<1>6. /\ q \in Seq(Names) /\ Len(q) = Len(path) /\ q[Len(path)] = Name(path)
      /\ \A i \in 1..(Len(path) - 1) : q[i] = d[i]
  BY <1>1, <1>3, <1>4, <1>5
<1> HIDE DEF q
<1>7. \A i \in 1..Len(path) : i \in 1..(Len(path) - 1) \/ i = Len(path)
  BY <1>1
<1>8. \A i \in 1..Len(path) : q[i] = path[i]
  BY <1>3, <1>6, <1>7, Zenon DEF Name
<1>9. q = path
  BY <1>1, <1>6, <1>8, SeqEqual
<1> QED
  BY <1>1, <1>2, <1>3, <1>4, <1>9 DEF q, d

\* What lies below a path: one step more is the path itself or below its directory.
LEMMA WithinStep ==
  ASSUME NEW d \in Paths, NEW name \in Names, NEW r \in Paths
  PROVE  Within(Append(d, name), r) <=> r = Append(d, name) \/ Within(d, r)
<1> DEFINE p == Append(d, name)
<1>1. /\ p \in Paths /\ Len(p) = Len(d) + 1
      /\ \A k \in 0..Len(d) : Prefix(p, k) = Prefix(d, k)
      /\ Len(d) \in Nat /\ Len(r) \in Nat
  BY AppendFacts DEF Paths
<1> HIDE DEF p
<1>2. CASE Len(r) <= Len(d)
  <2>1. Len(r) \in 0..Len(d) /\ Len(r) # Len(p) /\ Len(r) <= Len(p)
    BY <1>1, <1>2
  <2>2. Prefix(p, Len(r)) = Prefix(d, Len(r))
    BY <1>1, <2>1
  <2> QED
    BY <1>2, <2>1, <2>2 DEF Within, p
<1>3. CASE ~(Len(r) <= Len(d))
  <2>1. ~Within(d, r)
    BY <1>3 DEF Within
  <2>2. Len(r) <= Len(p) => Len(r) = Len(p)
    BY <1>1, <1>3
  <2>3. Within(p, r) => Prefix(p, Len(p)) = r
    BY <2>2 DEF Within
  <2>4. Prefix(p, Len(p)) = p
    BY <1>1, WholePath
  <2>5. Within(p, r) => r = p
    BY <2>3, <2>4
  <2>6. Within(p, p)
    BY <1>1, <2>4 DEF Within
  <2> QED
    BY <2>1, <2>5, <2>6 DEF p
<1> QED
  BY <1>2, <1>3

\* A path is below itself.
LEMMA WithinItself ==
  ASSUME NEW p \in Paths
  PROVE  Within(p, p)
BY WholePath DEF Within, Paths

\* What is above a prefix of a path is above the path.
LEMMA WithinPrefix ==
  ASSUME NEW p \in Paths, NEW n \in 0..Len(p), NEW r \in Paths, Within(Prefix(p, n), r)
  PROVE  Within(p, r)
<1>1. Len(p) \in Nat /\ Len(r) \in Nat /\ n \in Nat
  BY DEF Paths
<1>2. Prefix(p, n) \in Paths /\ Len(Prefix(p, n)) = n
  BY PrefixFacts
<1>3. Len(r) <= n /\ Prefix(Prefix(p, n), Len(r)) = r
  BY <1>2 DEF Within
<1>4. Len(r) \in 0..n /\ Len(r) <= Len(p)
  BY <1>1, <1>3
<1>5. Prefix(Prefix(p, n), Len(r)) = Prefix(p, Len(r))
  BY <1>4, PrefixOfPrefix
<1> QED
  BY <1>3, <1>4, <1>5 DEF Within

\* The paths of a tree are paths, and the directories above them are in it.
LEMMA TreeFacts ==
  ASSUME NEW t, IsTree(t), NEW p \in DOMAIN t.kind
  PROVE  /\ p \in Paths /\ p # <<>> /\ Len(p) \in Nat /\ 1 <= Len(p)
         /\ Len(p) > 1 => /\ Prefix(p, Len(p) - 1) \in DOMAIN t.kind
                          /\ t.kind[Prefix(p, Len(p) - 1)] = "directory"
         /\ There(t, Prefix(p, Len(p) - 1))
<1>1. p \in Paths /\ p # <<>>
  BY DEF IsTree, Paths
<1>2. Len(p) \in Nat /\ 1 <= Len(p)
  BY <1>1, ParentAndName
<1>3. Len(p) > 1 => /\ Prefix(p, Len(p) - 1) \in DOMAIN t.kind
                    /\ t.kind[Prefix(p, Len(p) - 1)] = "directory"
  BY DEF IsTree
<1>4. ASSUME Len(p) = 1 PROVE Prefix(p, Len(p) - 1) = <<>>
  <2>1. Len(p) - 1 = 0
    BY <1>4
  <2>2. Prefix(p, 0) = <<>>
    BY <1>1, WholePath
  <2> QED
    BY <2>1, <2>2
<1>5. Len(p) > 1 \/ Len(p) = 1
  <2>1. \A k \in Nat : 1 <= k => k > 1 \/ k = 1
    OBVIOUS
  <2> QED
    BY <1>2, <2>1, Zenon
<1>6. There(t, Prefix(p, Len(p) - 1))
  BY <1>3, <1>4, <1>5, Zenon DEF There
<1> QED
  BY <1>1, <1>2, <1>3, <1>6

\* What is above a path of a tree is a directory of the tree.
LEMMA AncestorsThere ==
  ASSUME NEW t, IsTree(t), NEW p \in DOMAIN t.kind, NEW n \in 1..Len(p)
  PROVE  /\ Prefix(p, n) \in DOMAIN t.kind
         /\ n < Len(p) => t.kind[Prefix(p, n)] = "directory"
<1>1. p \in Paths /\ p # <<>> /\ Len(p) \in Nat
  BY TreeFacts
<1> DEFINE P(k) == /\ Prefix(p, Len(p) - k) \in DOMAIN t.kind
                   /\ (k > 0 => t.kind[Prefix(p, Len(p) - k)] = "directory")
           T == {k \in Nat : k < Len(p) => P(k)}
<1>2. P(0)
  <2>1. Len(p) - 0 = Len(p) /\ ~(0 > 0)
    BY <1>1
  <2> QED
    BY <1>1, <2>1, WholePath
<1>3. ASSUME NEW k \in Nat, k + 1 < Len(p), P(k) PROVE P(k + 1)
  <2> DEFINE q == Prefix(p, Len(p) - k)
  <2>1. /\ Len(p) - k \in 0..Len(p) /\ Len(p) - k > 1
        /\ (Len(p) - k) - 1 = Len(p) - (k + 1) /\ Len(p) - (k + 1) \in 0..(Len(p) - k)
    BY <1>1, <1>3
  <2>2. q \in DOMAIN t.kind
    BY <1>3
  <2>3. Len(q) = Len(p) - k
    BY <1>1, <2>1, PrefixFacts
  <2>4. Prefix(q, Len(p) - (k + 1)) = Prefix(p, Len(p) - (k + 1))
    BY <1>1, <2>1, PrefixOfPrefix
  <2> HIDE DEF q
  <2>5. Prefix(q, Len(q) - 1) \in DOMAIN t.kind /\ t.kind[Prefix(q, Len(q) - 1)] = "directory"
    BY <2>1, <2>2, <2>3, TreeFacts
  <2>6. Prefix(q, Len(q) - 1) = Prefix(p, Len(p) - (k + 1))
    BY <2>1, <2>3, <2>4
  <2> QED
    BY <2>5, <2>6
<1> HIDE DEF P
<1>4. T = Nat
  <2>1. 0 \in T
    BY <1>2
  <2>2. \A k \in T : k + 1 \in T
    BY <1>1, <1>3
  <2> QED
    BY <2>1, <2>2, NaturalInduction
<1>5. /\ Len(p) - n \in Nat /\ Len(p) - n < Len(p)
      /\ Len(p) - (Len(p) - n) = n /\ (n < Len(p) => Len(p) - n > 0)
  BY <1>1
<1>6. P(Len(p) - n)
  BY <1>4, <1>5
<1> QED
  BY <1>5, <1>6 DEF P

\* The names in a directory are those of the paths that end in it.
LEMMA NamesAreChildren ==
  ASSUME NEW t, IsTree(t), NEW d \in Paths, NEW name
  PROVE  name \in NamesIn(t, d) <=> name \in Names /\ Append(d, name) \in DOMAIN t.kind
<1>1. ASSUME name \in NamesIn(t, d) PROVE name \in Names /\ Append(d, name) \in DOMAIN t.kind
  <2>1. PICK p \in DOMAIN t.kind : Within(p, d) /\ Len(p) = Len(d) + 1 /\ name = Name(p)
    BY <1>1, Zenon DEF NamesIn
  <2>2. p \in Paths /\ p # <<>>
    BY TreeFacts
  <2>3. Len(p) - 1 = Len(d)
    BY <2>1 DEF Paths
  <2>4. Prefix(p, Len(p) - 1) = d
    BY <2>1, <2>3 DEF Within
  <2> QED
    BY <2>1, <2>2, <2>4, ParentAndName
<1>2. ASSUME name \in Names, Append(d, name) \in DOMAIN t.kind PROVE name \in NamesIn(t, d)
  <2> DEFINE p == Append(d, name)
  <2>1. p \in Paths /\ Len(p) = Len(d) + 1 /\ Name(p) = name /\ Prefix(p, Len(d)) = d
    BY <1>2, AppendFacts
  <2>2. Len(d) <= Len(p)
    BY <2>1 DEF Paths
  <2>3. Within(p, d)
    BY <2>1, <2>2 DEF Within
  <2> HIDE DEF p
  <2>4. p \in DOMAIN t.kind
    BY <1>2 DEF p
  <2> QED
    BY <2>1, <2>3, <2>4, Zenon DEF NamesIn
<1> QED
  BY <1>1, <1>2

\* The segments of a glob before its first "**" are those of any path it matches.
LEMMA SegmentsBefore ==
  ASSUME NEW glob \in Paths, NEW path \in Paths, NEW E, Reaches(E, glob, path), Fits(glob, path),
         NEW k \in 0..Len(glob), \A i \in 1..k : glob[i] # "**"
  PROVE  /\ \A e \in E[k] : e = k
         /\ \A i \in 1..k : SegmentFits(glob[i], path[i])
         /\ E[k] # {} /\ k <= Len(path)
<1> DEFINE Step(i, from, e) == IF glob[i] = "**" THEN from <= e /\ (i = Len(glob) => from < e)
                               ELSE e = from + 1 /\ SegmentFits(glob[i], path[e])
<1>1. /\ E \in [0..Len(glob) -> SUBSET (0..Len(path))]
      /\ E[0] = {0}
      /\ \A i \in 1..Len(glob) : E[i] =
           {e \in 0..Len(path) : \E from \in E[i - 1] : Step(i, from, e)}
      /\ Fits(glob, path) <=> Len(path) \in E[Len(glob)]
  BY Zenon DEF Reaches
<1>2. Len(path) \in Nat /\ Len(glob) \in Nat /\ k \in Nat /\ k <= Len(glob)
  BY DEF Paths
<1> DEFINE Alone(j) == \A e \in E[j] : e = j /\ \A i \in 1..j : SegmentFits(glob[i], path[i])
           T == {j \in Nat : j <= k => Alone(j)}
<1>3. Alone(0)
  <2>1. 1..0 = {}
    OBVIOUS
  <2> QED
    BY <1>1, <2>1, Zenon
<1>4. ASSUME NEW j \in Nat, j + 1 <= k, Alone(j) PROVE Alone(j + 1)
  <2> SUFFICES ASSUME NEW e \in E[j + 1]
               PROVE  e = j + 1 /\ \A i \in 1..(j + 1) : SegmentFits(glob[i], path[i])
    BY Zenon
  <2>1. j + 1 \in 1..Len(glob) /\ (j + 1) - 1 = j /\ j + 1 \in 1..k
    BY <1>2, <1>4
  <2>2. PICK from \in E[j] : Step(j + 1, from, e)
    <3> HIDE DEF Step
    <3>1. E[j + 1] = {x \in 0..Len(path) : \E from \in E[(j + 1) - 1] : Step(j + 1, from, x)}
      BY <1>1, <2>1
    <3>2. \E from \in E[(j + 1) - 1] : Step(j + 1, from, e)
      BY <3>1
    <3> QED
      BY <2>1, <3>2
  <2>3. glob[j + 1] # "**"
    BY <2>1
  <2>4. e = from + 1 /\ SegmentFits(glob[j + 1], path[e])
    BY <2>2, <2>3
  <2>5. from = j /\ \A i \in 1..j : SegmentFits(glob[i], path[i])
    BY <1>4, Zenon
  <2>6. \A i \in 1..(j + 1) : i \in 1..j \/ i = j + 1
    BY <1>4
  <2> QED
    BY <2>4, <2>5, <2>6, Zenon
<1> HIDE DEF Alone, Step
<1>5. Alone(k)
  <2>1. 0 \in T
    BY <1>3
  <2>2. \A j \in T : j + 1 \in T
    BY <1>2, <1>4
  <2>3. T = Nat
    BY <2>1, <2>2, NaturalInduction
  <2> QED
    BY <1>2, <2>3
<1>6. E[k] # {}
  <2> DEFINE B == {i \in Nat : i <= Len(glob) => E[Len(glob) - i] # {}}
  <2>1. 0 \in B
    <3>1. Len(glob) - 0 = Len(glob)
      BY <1>2
    <3> QED
      BY <1>1, <3>1
  <2>2. ASSUME NEW i \in B PROVE i + 1 \in B
    <3> SUFFICES ASSUME i + 1 <= Len(glob) PROVE E[Len(glob) - (i + 1)] # {}
      OBVIOUS
    <3>1. /\ Len(glob) - i \in 1..Len(glob) /\ (Len(glob) - i) - 1 = Len(glob) - (i + 1)
          /\ E[Len(glob) - i] # {}
      BY <1>2
    <3> QED
      BY <1>1, <3>1, Zenon
  <2>3. B = Nat
    BY <2>1, <2>2, NaturalInduction
  <2>4. /\ Len(glob) - k \in Nat /\ Len(glob) - k <= Len(glob)
        /\ Len(glob) - (Len(glob) - k) = k
    BY <1>2
  <2> QED
    BY <2>3, <2>4
<1>7. PICK e \in E[k] : TRUE
  BY <1>6
<1>8. e \in 0..Len(path) /\ e = k
  <2>1. E[k] \in SUBSET (0..Len(path))
    BY <1>1
  <2> QED
    BY <1>5, <1>7, <2>1 DEF Alone
<1>9. k <= Len(path)
  BY <1>2, <1>8
<1>10. \A i \in 1..k : SegmentFits(glob[i], path[i])
  BY <1>5, <1>7, Zenon DEF Alone
<1>11. \A x \in E[k] : x = k
  BY <1>5, Zenon DEF Alone
<1> QED
  BY <1>6, <1>9, <1>10, <1>11

\* A directory in which a glob matches something may contain matches: the walk does
\* not leave it out.
THEOREM MatchesAreContained ==
  ASSUME NEW glob \in Paths, NEW path \in Paths, Fits(glob, path), NEW n \in 1..(Len(path) - 1)
  PROVE  MayContain(glob, Prefix(path, n))
<1>1. PICK E : Reaches(E, glob, path)
  BY FitsSteps
<1>2. Len(path) \in Nat /\ Len(glob) \in Nat
  BY DEF Paths
<1> DEFINE Plain(k) == \A i \in 1..k : glob[i] # "**"
           d == Prefix(path, n)
<1>3. d \in Paths /\ Len(d) = n /\ n \in 0..Len(path) /\ \A i \in 1..n : d[i] = path[i]
  <2>1. n \in 0..Len(path)
    BY <1>2
  <2> QED
    BY <2>1, PrefixFacts
<1> HIDE DEF d
<1>4. CASE \E i \in 1..n : i <= Len(glob) /\ glob[i] = "**"
  <2> DEFINE S == {i \in 1..n : i <= Len(glob) /\ glob[i] = "**"}
  <2>1. S \in SUBSET Nat /\ S # {}
    BY <1>4
  <2>2. PICK m \in S : \A i \in S : m <= i
    BY <2>1, LeastNatural
  <2>3. m \in 1..n /\ m <= Len(glob) /\ glob[m] = "**" /\ m - 1 \in 0..Len(glob)
    BY <1>2, <2>2
  <2>4. Plain(m - 1)
    <3>1. ASSUME NEW i \in 1..(m - 1) PROVE glob[i] # "**"
      <4>1. i \in 1..n /\ i <= Len(glob) /\ ~(m <= i)
        BY <1>2, <2>3
      <4> QED
        BY <2>2, <4>1
    <3> QED
      BY <3>1
  <2>5. \A i \in 1..(m - 1) : SegmentFits(glob[i], path[i])
    BY <1>1, <2>3, <2>4, SegmentsBefore
  <2>6. \A i \in 1..(m - 1) : d[i] = path[i]
    <3>1. \A i \in 1..(m - 1) : i \in 1..n
      BY <2>3
    <3> QED
      BY <1>3, <3>1
  <2>7. \A i \in 1..(m - 1) : SegmentFits(glob[i], d[i])
    BY <2>5, <2>6, Zenon
  <2> QED
    BY <1>3, <2>3, <2>7, Zenon DEF MayContain, d
<1>5. CASE ~\E i \in 1..n : i <= Len(glob) /\ glob[i] = "**"
  <2>1. n < Len(glob)
    <3> SUFFICES ASSUME Len(glob) <= n PROVE FALSE
      BY <1>2
    <3>1. Plain(Len(glob))
      <4>1. \A i \in 1..Len(glob) : i \in 1..n /\ i <= Len(glob)
        BY <1>2
      <4> QED
        BY <1>5, <4>1, Zenon
    <3>2. Len(glob) \in 0..Len(glob) /\ Len(path) \in E[Len(glob)]
      BY <1>1, <1>2 DEF Reaches
    <3>3. Len(path) = Len(glob)
      BY <1>1, <3>1, <3>2, SegmentsBefore
    <3> QED
      BY <1>2, <3>3
  <2>2. n \in 0..Len(glob)
    BY <1>2, <2>1
  <2>3. Plain(n)
    <3>1. \A i \in 1..n : i <= Len(glob)
      BY <1>2, <2>1
    <3> QED
      BY <1>5, <3>1, Zenon
  <2>4. \A i \in 1..n : SegmentFits(glob[i], d[i])
    <3>1. \A i \in 1..n : SegmentFits(glob[i], path[i])
      BY <1>1, <2>2, <2>3, SegmentsBefore
    <3> QED
      BY <1>3, <3>1, Zenon
  <2> QED
    BY <1>3, <2>1, <2>4, Zenon DEF MayContain, d
<1> QED
  BY <1>4, <1>5, Zenon

\* A path a glob matches ends with the last name of the glob, and is longer than what
\* comes before any "**" of it.
LEMMA LastSegment ==
  ASSUME NEW glob \in Paths, NEW path \in Paths, Fits(glob, path),
         glob # <<>>, glob[Len(glob)] \notin {"*", "**"},
         NEW k \in 0..(Len(glob) - 1), \A i \in 1..k : glob[i] # "**"
  PROVE  path # <<>> /\ Name(path) = glob[Len(glob)] /\ k < Len(path)
<1>1. PICK E : Reaches(E, glob, path)
  BY FitsSteps
<1> DEFINE N == Len(glob)
           Step(i, from, e) == IF glob[i] = "**" THEN from <= e /\ (i = N => from < e)
                               ELSE e = from + 1 /\ SegmentFits(glob[i], path[e])
<1>2. /\ E \in [0..N -> SUBSET (0..Len(path))]
      /\ E[0] = {0}
      /\ \A i \in 1..N : E[i] = {e \in 0..Len(path) : \E from \in E[i - 1] : Step(i, from, e)}
      /\ Len(path) \in E[N]
  BY <1>1, Zenon DEF Reaches
<1>3. Len(path) \in Nat /\ N \in Nat /\ k \in Nat /\ k + 1 <= N /\ N \in 1..N
  BY DEF Paths
<1>4. ASSUME NEW i \in 1..N, NEW e \in E[i]
      PROVE  \E from \in E[i - 1] : from <= e /\ Step(i, from, e)
  <2>1. PICK from \in E[i - 1] : Step(i, from, e)
    <3> HIDE DEF Step
    <3> QED
      BY <1>2
  <2>2. from \in Nat /\ e \in Nat
    <3>1. i - 1 \in 0..N /\ i \in 0..N
      BY <1>3
    <3>2. E[i - 1] \in SUBSET (0..Len(path)) /\ E[i] \in SUBSET (0..Len(path))
      BY <1>2, <3>1
    <3> QED
      BY <3>2
  <2>3. from <= e
    BY <2>1, <2>2
  <2> QED
    BY <2>1, <2>3, Zenon
<1> HIDE DEF Step, N
<1> DEFINE T == {j \in Nat : k + j <= N => \A e \in E[k + j] : k <= e}
<1>5. 0 \in T
  <2>1. k \in 0..N /\ k + 0 = k
    BY <1>3
  <2>2. \A e \in E[k] : e = k
    BY <1>1, <2>1, SegmentsBefore DEF N
  <2> QED
    BY <1>3, <2>1, <2>2
<1>6. ASSUME NEW j \in T PROVE j + 1 \in T
  <2> SUFFICES ASSUME k + (j + 1) <= N, NEW e \in E[k + (j + 1)] PROVE k <= e
    OBVIOUS
  <2>1. k + (j + 1) \in 1..N /\ (k + (j + 1)) - 1 = k + j /\ k + j <= N /\ k + j \in 0..N
    BY <1>3
  <2>2. PICK from \in E[k + j] : from <= e
    BY <1>4, <2>1
  <2>3. from \in Nat /\ e \in Nat
    <3>1. E[k + j] \in SUBSET (0..Len(path)) /\ E[k + (j + 1)] \in SUBSET (0..Len(path))
      BY <1>2, <1>3, <2>1
    <3> QED
      BY <2>2, <3>1
  <2> QED
    BY <1>3, <2>1, <2>2, <2>3
<1>7. T = Nat
  BY <1>5, <1>6, NaturalInduction
<1>8. PICK from \in E[N - 1] : Step(N, from, Len(path))
  BY <1>2, <1>3, <1>4
<1>9. Len(path) = from + 1 /\ SegmentFits(glob[N], path[Len(path)])
  BY <1>8 DEF Step, N
<1>10. k <= from /\ from \in Nat
  <2>1. N - 1 - k \in Nat /\ k + (N - 1 - k) = N - 1 /\ N - 1 <= N /\ N - 1 \in 0..N
    BY <1>3
  <2>2. E[N - 1] \in SUBSET (0..Len(path))
    BY <1>2, <2>1
  <2> QED
    BY <1>7, <1>8, <2>1, <2>2
<1>11. Name(path) = glob[N]
  BY <1>9 DEF Name, SegmentFits, N
<1> QED
  BY <1>3, <1>9, <1>10, <1>11 DEF N

\* Where the walk for a glob starts: at its first names, and never at its last.
LEMMA BaseFacts ==
  ASSUME NEW glob \in Paths, glob # <<>>
  PROVE  \E k \in 0..(Len(glob) - 1) :
           Base(glob) = Prefix(glob, k) /\ \A i \in 1..k : glob[i] \notin {"*", "**"}
<1> DEFINE literal == {n \in 0..(Len(glob) - 1) : \A i \in 1..n : glob[i] \notin {"*", "**"}}
<1>1. Len(glob) - 1 \in Nat
  BY ParentAndName
<1>2. 0 \in literal
  BY <1>1
<1>3. \E n \in literal : \A m \in literal : m <= n
  <2>1. literal \in SUBSET (0..(Len(glob) - 1)) /\ literal # {}
    BY <1>2
  <2> HIDE DEF literal
  <2> QED
    BY <1>1, <2>1, LargestNumber
<1> DEFINE k == CHOOSE n \in literal : \A m \in literal : m <= n
<1>4. k \in literal
  BY <1>3, Zenon
<1>5. Base(glob) = Prefix(glob, k)
  BY Zenon DEF Base
<1> HIDE DEF k
<1> QED
  BY <1>4, <1>5

\* A path a glob matches is below where the walk for it starts.
LEMMA MatchesAreBelowBase ==
  ASSUME NEW glob \in Paths, glob # <<>>, glob[Len(glob)] \notin {"*", "**"},
         NEW path \in Paths, Fits(glob, path)
  PROVE  /\ Base(glob) \in Paths
         /\ Name(path) = glob[Len(glob)] /\ path # <<>>
         /\ Within(Prefix(path, Len(path) - 1), Base(glob))
<1>1. PICK k \in 0..(Len(glob) - 1) :
        Base(glob) = Prefix(glob, k) /\ \A i \in 1..k : glob[i] \notin {"*", "**"}
  BY BaseFacts
<1>2. Len(glob) \in Nat /\ Len(path) \in Nat /\ k \in Nat /\ k \in 0..Len(glob)
  BY DEF Paths
<1>3. \A i \in 1..k : glob[i] # "**"
  BY <1>1
<1>4. path # <<>> /\ Name(path) = glob[Len(glob)] /\ k < Len(path)
  BY <1>3, LastSegment
<1>5. \A i \in 1..k : SegmentFits(glob[i], path[i])
  <2>1. PICK E : Reaches(E, glob, path)
    BY FitsSteps
  <2> QED
    BY <1>2, <1>3, <2>1, SegmentsBefore
<1>6. \A i \in 1..k : glob[i] = path[i]
  BY <1>1, <1>5, Zenon DEF SegmentFits
<1> DEFINE d == Prefix(path, Len(path) - 1)
           b == Prefix(glob, k)
           c == Prefix(path, k)
<1>7. b \in Paths /\ Len(b) = k /\ \A i \in 1..k : b[i] = glob[i]
  BY <1>2, PrefixFacts
<1>8. Len(path) - 1 \in 0..Len(path) /\ k \in 0..(Len(path) - 1) /\ k \in 0..Len(path) /\ k <= Len(path) - 1
  BY <1>2, <1>4
<1>9. c \in Paths /\ Len(c) = k /\ \A i \in 1..k : c[i] = path[i]
  BY <1>8, PrefixFacts
<1>10. Prefix(d, k) = c /\ Len(d) = Len(path) - 1
  BY <1>8, PrefixOfPrefix, PrefixFacts
<1> HIDE DEF b, c, d
<1>11. b = c
  <2>1. \A i \in 1..k : b[i] = c[i]
    BY <1>6, <1>7, <1>9
  <2>2. b \in Seq(Names) /\ c \in Seq(Names)
    BY <1>7, <1>9 DEF Paths
  <2> QED
    BY <1>7, <1>9, <2>1, <2>2, SeqEqual
<1>12. Base(glob) = b
  BY <1>1 DEF b
<1>13. Within(d, Base(glob))
  BY <1>7, <1>8, <1>10, <1>11, <1>12 DEF Within
<1> QED
  BY <1>4, <1>7, <1>12, <1>13 DEF d

\* Below where the walk starts, it is a directory of installed packages that keeps it out.
Installed(d, glob) == \E n \in (Len(Base(glob)) + 1)..Len(d) : d[n] = "node_modules"

\* The files findWorkspacePackageJsons finds: all its glob matches, wherever the walk
\* starts and whatever mayContain leaves out, but none that is installed.
THEOREM ManifestsAreTheMatches ==
  ASSUME NEW t, IsTree(t), NEW names \in Paths,
         NEW p \in DOMAIN t.kind, t.kind[p] \in {"file", "link"}, Fits(Append(names, "package.json"), p)
  PROVE  LET glob == Append(names, "package.json")
             d == Prefix(p, Len(p) - 1)
         IN  /\ p = ManifestOf(d)
             /\ p \in ManifestsBelow(t, Base(glob), glob) <=> ~Installed(d, glob)
<1> DEFINE glob == Append(names, "package.json")
           d == Prefix(p, Len(p) - 1)
           b == Base(glob)
           enters(q) == t.kind[q] = "directory" /\ Name(q) # "node_modules" /\ MayContain(glob, q)
<1>1. "package.json" \in Names
  BY DiscoveryConstants
<1>2. glob \in Paths /\ glob # <<>> /\ glob[Len(glob)] = "package.json"
  BY <1>1, AppendFacts DEF Name
<1>3. p \in Paths /\ p # <<>> /\ Len(p) \in Nat /\ 1 <= Len(p)
  BY TreeFacts
<1>4. b \in Paths /\ Name(p) = "package.json" /\ Within(d, b)
  <2>1. glob[Len(glob)] \notin {"*", "**"}
    BY <1>2
  <2>2. Fits(glob, p)
    OBVIOUS
  <2> HIDE DEF glob
  <2> QED
    BY <1>2, <1>3, <2>1, <2>2, MatchesAreBelowBase
<1>5. d \in Paths /\ Len(d) = Len(p) - 1 /\ p = Append(d, Name(p))
  BY <1>3, ParentAndName
<1>6. p = ManifestOf(d)
  BY <1>4, <1>5 DEF ManifestOf
<1>7. ASSUME NEW n \in (Len(b) + 1)..Len(d)
      PROVE  enters(Prefix(d, n)) <=> d[n] # "node_modules"
  <2>1. Len(b) \in Nat /\ n \in 1..(Len(p) - 1) /\ n \in 1..Len(p) /\ n < Len(p) /\ n \in 0..Len(p)
    BY <1>3, <1>4, <1>5 DEF Paths
  <2>2. n \in 0..(Len(p) - 1) /\ Len(p) - 1 \in 0..Len(p) /\ n \in 0..Len(d) /\ n \in 1..n
    BY <1>3, <1>5, <2>1
  <2>3. Prefix(d, n) = Prefix(p, n)
    BY <1>3, <2>2, PrefixOfPrefix
  <2>4. t.kind[Prefix(p, n)] = "directory"
    BY <2>1, AncestorsThere
  <2>5. MayContain(glob, Prefix(p, n))
    BY <1>2, <1>3, <2>1, MatchesAreContained
  <2>6. Name(Prefix(d, n)) = d[n]
    <3>1. Len(Prefix(d, n)) = n /\ Prefix(d, n)[n] = d[n]
      BY <1>5, <2>2, PrefixFacts
    <3> QED
      BY <3>1, Zenon DEF Name
  <2> HIDE DEF glob, d
  <2> QED
    BY <2>3, <2>4, <2>5, <2>6, Zenon
<1>8. p \in ManifestsBelow(t, b, glob) <=>
        Within(d, b) /\ \A n \in (Len(b) + 1)..Len(d) : enters(Prefix(d, n))
  <2> HIDE DEF glob, b
  <2>1. Fits(glob, p)
    BY DEF glob
  <2> QED
    BY <2>1, Zenon DEF ManifestsBelow
<1>9. Installed(d, glob) <=> \E n \in (Len(b) + 1)..Len(d) : d[n] = "node_modules"
  BY Zenon DEF Installed
<1> HIDE DEF glob, d, b, enters
<1> QED
  BY <1>4, <1>6, <1>7, <1>8, <1>9, Zenon DEF glob, d, b

\* When a path and all below it are gone, what is left is a tree.
LEMMA RemovalLeavesTree ==
  ASSUME NEW t, IsTree(t), NEW path \in DOMAIN t.kind, NEW u,
         DOMAIN u.kind = {p \in DOMAIN t.kind : ~Within(p, path)},
         \A p \in DOMAIN u.kind : u.kind[p] = t.kind[p], u.content = t.content
  PROVE  IsTree(u)
<1>1. IsFiniteSet(DOMAIN u.kind)
  <2>1. IsFiniteSet(DOMAIN t.kind) /\ DOMAIN u.kind \subseteq DOMAIN t.kind
    BY DEF IsTree
  <2> QED
    BY <2>1, FS_Subset
<1>2. DOMAIN u.kind \subseteq Seq(Names) \ {<<>>}
  BY DEF IsTree
<1>3. ASSUME NEW p \in DOMAIN u.kind, Len(p) > 1
      PROVE  /\ Prefix(p, Len(p) - 1) \in DOMAIN u.kind
             /\ u.kind[Prefix(p, Len(p) - 1)] = "directory"
  <2> DEFINE d == Prefix(p, Len(p) - 1)
  <2>1. p \in DOMAIN t.kind /\ ~Within(p, path)
    OBVIOUS
  <2>2. d \in DOMAIN t.kind /\ t.kind[d] = "directory"
    BY <1>3, <2>1, TreeFacts
  <2>3. p \in Paths /\ Len(p) - 1 \in 0..Len(p)
    <3>1. p \in Paths /\ Len(p) \in Nat /\ 1 <= Len(p)
      BY <2>1, TreeFacts
    <3> QED
      BY <3>1
  <2>4. ~Within(d, path)
    BY <2>1, <2>3, TreeFacts, WithinPrefix
  <2> HIDE DEF d
  <2> QED
    BY <2>2, <2>4 DEF d
<1>4. ASSUME NEW p \in DOMAIN u.kind, Name(p) = ".gitignore", u.kind[p] \in {"file", "link"}
      PROVE  u.content[p] \in Seq(Lines)
  <2>1. p \in DOMAIN t.kind /\ t.kind[p] \in {"file", "link"}
    BY <1>4
  <2> QED
    BY <1>4, <2>1 DEF IsTree
<1>5. \A p : There(u, p) => There(t, p)
  BY Zenon DEF There
<1>6. Readable(u, <<>>) => Readable(t, <<>>)
  <2>1. "package.json" \in Names /\ <<>> \in Paths
    BY DiscoveryConstants DEF Paths
  <2>2. ManifestOf(<<>>) # <<>>
    BY <2>1, AppendFacts DEF ManifestOf
  <2>3. There(u, ManifestOf(<<>>)) => u.kind[ManifestOf(<<>>)] = t.kind[ManifestOf(<<>>)]
    BY <2>2, Zenon DEF There
  <2> QED
    BY <1>5, <2>3, Zenon DEF Readable
<1>7. /\ Readable(u, <<>>) => u.content[<<"package.json">>].workspaces \in Seq(Patterns)
      /\ There(u, <<"pnpm-workspace.yaml">>) => u.content[<<"pnpm-workspace.yaml">>] \in Seq(Patterns)
  BY <1>5, <1>6, Zenon DEF IsTree
<1> QED
  BY <1>1, <1>2, <1>3, <1>4, <1>7, Zenon DEF IsTree

-----------------------------------------------------------------------------
\* The invariant.

\* What accept says of a directory and of a file, by its options and rules.
AcceptsDirectory(o, r, path) ==
  /\ ~Ignores(r, path, TRUE)
  /\ \E n \in DOMAIN o.include : MayContain(o.include[n], path)

AcceptsFile(o, r, path) ==
  /\ ~Ignores(r, path, FALSE)
  /\ \E n \in DOMAIN o.include : Fits(o.include[n], path)
  /\ \A n \in DOMAIN o.negated : ~Fits(o.negated[n], path)

\* The lines a directory has before its .gitignore is read, and all it has.
FirstLines(o, d) == IF d = <<>> THEN DefaultIgnores \o o.exclude ELSE <<>>

VendorLines(t, d) ==
  IF Lists(t, d, "go.mod") /\ Lists(t, d, "vendor") THEN <<VendorLine>> ELSE <<>>

AllLines(o, t, d) == FirstLines(o, d) \o GitIgnoreLines(t, d) \o VendorLines(t, d)

ScanOK(o, b) ==
  /\ IsTree(b)
  /\ o.include \in Seq(Paths)
  /\ o.exclude \in Seq(Lines)

\* The tree is the one the scan began with, or what is left when one path and all
\* below it are gone.
LessOne(b, t, r) == DOMAIN t.kind = {p \in DOMAIN b.kind : ~Within(p, r)}

TreeOK(b, t) ==
  /\ IsTree(t)
  /\ DOMAIN t.kind \subseteq DOMAIN b.kind
  /\ \A p \in DOMAIN t.kind : t.kind[p] = b.kind[p]
  /\ t.content = b.content
  /\ DOMAIN t.kind = DOMAIN b.kind \/ \E r \in DOMAIN b.kind : LessOne(b, t, r)

\* A directory whose entries are looked at has its rules: those of the tree the scan
\* began with, or of the tree now.
Entered(v, d) == d \in DOMAIN v /\ v[d].step \in {"filter", "done"}

GroupsOK(o, b, t, r, v) ==
  /\ \A d : GroupOf(r, d) \in Seq(RuleType)
  /\ \A d \in Paths : ~Entered(v, d) => GroupOf(r, d) = Rules(FirstLines(o, d))
  /\ \A d \in Paths : Entered(v, d) /\ There(t, d) =>
       GroupOf(r, d) = Rules(AllLines(o, b, d)) \/ GroupOf(r, d) = Rules(AllLines(o, t, d))

\* A visited directory is none that is ignored, and those above it are done.
ChainOK(b, r, v) ==
  /\ <<>> \in DOMAIN v
  /\ \A d \in DOMAIN v :
       /\ d \in Paths
       /\ v[d].step \in {"list", "enter", "filter", "done"}
       /\ \A k \in 0..(Len(d) - 1) : Prefix(d, k) \in DOMAIN v /\ v[Prefix(d, k)].step = "done"
       /\ d # <<>> => d \in DOMAIN b.kind /\ b.kind[d] = "directory" /\ ~Ignores(r, d, TRUE)

\* What is left of a visit, and what has been made of the rest.
KindsOK(b, left, d) ==
  /\ left = [n \in DOMAIN left |-> b.kind[Append(d, n)]]
  /\ DOMAIN left \subseteq NamesIn(b, d)

Taken(o, b, r, f, directories, p) ==
  /\ b.kind[p] = "directory" /\ AcceptsDirectory(o, r, p) => p \in directories
  /\ b.kind[p] \in {"file", "link"} /\ AcceptsFile(o, r, p) => p \in f

Fields(visit) == visit = [step |-> visit.step, into |-> visit.into, left |-> visit.left]

EnterOK(b, t, visit, d) ==
  /\ Fields(visit)
  /\ KindsOK(b, visit.left, d)
  /\ visit.into = {}
  /\ DOMAIN visit.left = NamesIn(b, d) \/ DOMAIN visit.left = NamesIn(t, d)

FilterOK(o, b, t, r, f, visit, d) ==
  /\ Fields(visit)
  /\ KindsOK(b, visit.left, d)
  /\ \A p \in visit.into : /\ \E n \in NamesIn(b, d) : p = Append(d, n)
                           /\ b.kind[p] = "directory" /\ ~Ignores(r, p, TRUE)
  /\ \A n \in NamesIn(t, d) \ DOMAIN visit.left : Taken(o, b, r, f, visit.into, Append(d, n))

DoneOK(o, b, t, r, f, directories, d) ==
  \A n \in NamesIn(t, d) : Taken(o, b, r, f, directories, Append(d, n))

VisitsOK(o, b, t, r, v, f) ==
  \A d \in DOMAIN v :
    /\ v[d].step = "enter" => EnterOK(b, t, v[d], d)
    /\ v[d].step = "filter" => FilterOK(o, b, t, r, f, v[d], d)
    /\ v[d].step = "done" => DoneOK(o, b, t, r, f, DOMAIN v, d)

FilesOK(o, b, r, v, f) ==
  \A p \in f :
    /\ p \in DOMAIN b.kind /\ b.kind[p] \in {"file", "link"}
    /\ Entered(v, Prefix(p, Len(p) - 1))
    /\ AcceptsFile(o, r, p)

OutcomeOK(out, v) == out \in {"listed", "owned"} => \A d \in DOMAIN v : v[d].step = "done"

WalkInv ==
  /\ ScanOK(options, before)
  /\ TreeOK(before, tree)
  /\ GroupsOK(options, before, tree, rules, visits)
  /\ ChainOK(before, rules, visits)
  /\ VisitsOK(options, before, tree, rules, visits, files)
  /\ FilesOK(options, before, rules, visits, files)
  /\ OutcomeOK(outcome, visits)

-----------------------------------------------------------------------------
\* What the invariant says when the walk is over.

\* The lines the scan has before it reads any file are lines.
LEMMA DefaultsAreLines == DefaultIgnores \in Seq(Lines) /\ VendorLine \in Lines
<1>1. /\ Line(<<".git">>) \in Lines /\ Line(<<"node_modules">>) \in Lines
      /\ Line(<<"dist">>) \in Lines /\ VendorLine \in Lines
  <2>1. ASSUME NEW x \in Names PROVE Line(<<x>>) \in Lines
    <3>1. <<x>> \in Seq(Names)
      OBVIOUS
    <3> QED
      BY <3>1 DEF Line, Lines
  <2>2. {".git", "node_modules", "dist", "vendor"} \subseteq Names
    BY DiscoveryConstants
  <2>3. VendorLine \in Lines
    <3>1. <<"vendor">> \in Seq(Names)
      <4>1. \A x \in Names : <<x>> \in Seq(Names)
        OBVIOUS
      <4> QED
        BY <2>2, <4>1
    <3> QED
      BY <3>1 DEF VendorLine, Lines
  <2> QED
    BY <2>1, <2>2, <2>3
<1>2. DefaultIgnores \in Seq(Lines)
  <2>1. \A x, y, z \in Lines : <<x, y, z>> \in Seq(Lines)
    OBVIOUS
  <2> QED
    BY <1>1, <2>1, Zenon DEF DefaultIgnores
<1> QED
  BY <1>1, <1>2

\* So are the lines of a directory, from each of their three sources.
LEMMA LinesAreLines ==
  ASSUME NEW o, NEW b, ScanOK(o, b), NEW d \in Paths
  PROVE  /\ FirstLines(o, d) \in Seq(Lines)
         /\ GitIgnoreLines(b, d) \in Seq(Lines)
         /\ VendorLines(b, d) \in Seq(Lines)
<1>1. VendorLine \in Lines
  BY DefaultsAreLines
<1>2. DefaultIgnores \in Seq(Lines)
  BY DefaultsAreLines
<1>3. o.exclude \in Seq(Lines)
  BY DEF ScanOK
<1>4. FirstLines(o, d) \in Seq(Lines)
  <2>1. DefaultIgnores \o o.exclude \in Seq(Lines)
    BY <1>2, <1>3, ConcatProperties
  <2>2. <<>> \in Seq(Lines)
    OBVIOUS
  <2> QED
    BY <2>1, <2>2, Zenon DEF FirstLines
<1>5. VendorLines(b, d) \in Seq(Lines)
  <2>1. <<VendorLine>> \in Seq(Lines)
    BY <1>1
  <2>2. <<>> \in Seq(Lines)
    OBVIOUS
  <2> QED
    BY <2>1, <2>2, Zenon DEF VendorLines
<1>6. GitIgnoreLines(b, d) \in Seq(Lines)
  <2> DEFINE p == Append(d, ".gitignore")
  <2>1. ".gitignore" \in Names
    BY DiscoveryConstants
  <2>2. p # <<>> /\ Name(p) = ".gitignore"
    BY <2>1, AppendFacts
  <2> HIDE DEF p
  <2>3. There(b, p) /\ b.kind[p] \in {"file", "link"} => b.content[p] \in Seq(Lines)
    BY <2>2 DEF There, ScanOK, IsTree
  <2>4. <<>> \in Seq(Lines)
    OBVIOUS
  <2> QED
    BY <2>3, <2>4, Zenon DEF GitIgnoreLines, p
<1> QED
  BY <1>4, <1>5, <1>6

\* Two trees with the same names in a directory have the same lines there.
LEMMA SameLines ==
  ASSUME NEW o, NEW b, NEW t, TreeOK(b, t), NEW d \in Paths,
         \A n \in Names : Append(d, n) \in DOMAIN t.kind <=> Append(d, n) \in DOMAIN b.kind
  PROVE  AllLines(o, t, d) = AllLines(o, b, d)
<1>1. {".gitignore", "go.mod", "vendor"} \subseteq Names
  BY DiscoveryConstants
<1>2. VendorLines(t, d) = VendorLines(b, d)
  BY <1>1 DEF VendorLines, Lists
<1>3. GitIgnoreLines(t, d) = GitIgnoreLines(b, d)
  <2> DEFINE p == Append(d, ".gitignore")
  <2>1. p \in DOMAIN t.kind <=> p \in DOMAIN b.kind
    BY <1>1
  <2>2. p # <<>>
    BY <1>1, AppendFacts
  <2>3. t.content[p] = b.content[p] /\ (p \in DOMAIN t.kind => t.kind[p] = b.kind[p])
    BY DEF TreeOK
  <2> HIDE DEF p
  <2> QED
    BY <2>1, <2>2, <2>3, Zenon DEF GitIgnoreLines, There, p
<1> QED
  BY <1>2, <1>3 DEF AllLines

\* When one path is gone, only the directory it was in has other lines.
LEMMA OneDirectoryDiffers ==
  ASSUME NEW o, NEW b, NEW t, ScanOK(o, b), TreeOK(b, t), NEW r \in DOMAIN b.kind, LessOne(b, t, r),
         NEW d \in Paths, There(t, d), d # Prefix(r, Len(r) - 1)
  PROVE  AllLines(o, t, d) = AllLines(o, b, d)
<1>1. r \in Paths /\ r # <<>> /\ Len(r) \in Nat /\ 1 <= Len(r)
  BY TreeFacts DEF ScanOK
<1>2. ~Within(d, r)
  <2>1. CASE d = <<>>
    <3>1. Len(d) = 0
      BY <2>1
    <3> QED
      BY <1>1, <3>1 DEF Within
  <2>2. CASE d # <<>>
    <3>1. d \in DOMAIN t.kind
      BY <2>2 DEF There
    <3> QED
      BY <3>1 DEF LessOne
  <2> QED
    BY <2>1, <2>2
<1>3. ASSUME NEW n \in Names
      PROVE  Append(d, n) \in DOMAIN t.kind <=> Append(d, n) \in DOMAIN b.kind
  <2>1. r # Append(d, n)
    <3> SUFFICES ASSUME r = Append(d, n) PROVE FALSE
      OBVIOUS
    <3>1. Len(Append(d, n)) = Len(d) + 1 /\ Prefix(Append(d, n), Len(d)) = d
      BY AppendFacts
    <3>2. Len(r) - 1 = Len(d)
      BY <3>1 DEF Paths
    <3>3. Prefix(r, Len(r) - 1) = d
      BY <3>1, <3>2
    <3> QED
      BY <3>3
  <2>2. ~Within(Append(d, n), r)
    BY <1>1, <1>2, <2>1, WithinStep
  <2> QED
    BY <2>2 DEF LessOne
<1> QED
  BY <1>3, SameLines

\* The rules of all directories that are there and were entered are those of one
\* tree: the one the scan began with, or the one now.
LEMMA OneTreeOfRules ==
  ASSUME NEW o, NEW b, NEW t, NEW r, NEW v,
         ScanOK(o, b), TreeOK(b, t), GroupsOK(o, b, t, r, v)
  PROVE  \E u \in {b, t} : \A d \in Paths :
           Entered(v, d) /\ There(t, d) => GroupOf(r, d) = Rules(AllLines(o, u, d))
<1>1. \A d \in Paths : Entered(v, d) /\ There(t, d) =>
        GroupOf(r, d) = Rules(AllLines(o, b, d)) \/ GroupOf(r, d) = Rules(AllLines(o, t, d))
  BY Zenon DEF GroupsOK
<1>2. CASE DOMAIN t.kind = DOMAIN b.kind
  <2>1. \A d \in Paths : AllLines(o, t, d) = AllLines(o, b, d)
    BY <1>2, SameLines
  <2>2. \A d \in Paths : Entered(v, d) /\ There(t, d) => GroupOf(r, d) = Rules(AllLines(o, b, d))
    BY <1>1, <2>1, Zenon
  <2> QED
    BY <2>2, Zenon
<1>3. CASE \E x \in DOMAIN b.kind : LessOne(b, t, x)
  <2>1. PICK x \in DOMAIN b.kind : LessOne(b, t, x)
    BY <1>3
  <2> DEFINE P == Prefix(x, Len(x) - 1)
  <2>2. \A d \in Paths : There(t, d) /\ d # P => AllLines(o, t, d) = AllLines(o, b, d)
    BY <2>1, OneDirectoryDiffers
  <2> HIDE DEF P
  <2>3. CASE GroupOf(r, P) = Rules(AllLines(o, t, P))
    <3>1. \A d \in Paths : Entered(v, d) /\ There(t, d) => GroupOf(r, d) = Rules(AllLines(o, t, d))
      BY <1>1, <2>2, <2>3, Zenon
    <3> QED
      BY <3>1, Zenon
  <2>4. CASE GroupOf(r, P) # Rules(AllLines(o, t, P))
    <3>1. \A d \in Paths : Entered(v, d) /\ There(t, d) => GroupOf(r, d) = Rules(AllLines(o, b, d))
      BY <1>1, <2>2, <2>4, Zenon
    <3> QED
      BY <3>1, Zenon
  <2> QED
    BY <2>3, <2>4, Zenon
<1> QED
  BY <1>2, <1>3, Zenon DEF TreeOK

\* What is above a path in an entered directory was entered, too.
LEMMA AncestorsEntered ==
  ASSUME NEW b, NEW r, NEW v, ChainOK(b, r, v), NEW p \in Paths, p # <<>>,
         Entered(v, Prefix(p, Len(p) - 1)), NEW k \in 0..(Len(p) - 1)
  PROVE  /\ Entered(v, Prefix(p, k))
         /\ Prefix(p, k) # Prefix(p, Len(p) - 1) => v[Prefix(p, k)].step = "done"
<1> DEFINE d == Prefix(p, Len(p) - 1)
<1>1. Len(p) \in Nat /\ Len(d) = Len(p) - 1 /\ Len(p) - 1 \in 0..Len(p)
  BY ParentAndName
<1>2. k \in 0..Len(d) /\ k \in 0..(Len(p) - 1)
  BY <1>1
<1>3. Prefix(d, k) = Prefix(p, k)
  BY <1>1, PrefixOfPrefix
<1>4. CASE k = Len(p) - 1
  BY <1>4
<1>5. CASE k # Len(p) - 1
  <2>1. k \in 0..(Len(d) - 1)
    BY <1>1, <1>2, <1>5
  <2>2. d \in DOMAIN v
    BY DEF Entered
  <2> HIDE DEF d
  <2>3. Prefix(d, k) \in DOMAIN v /\ v[Prefix(d, k)].step = "done"
    BY <2>1, <2>2, Zenon DEF ChainOK
  <2> QED
    BY <1>3, <2>3 DEF Entered
<1> QED
  BY <1>4, <1>5

\* At the end, what the options take and git does not ignore has been accepted, and
\* nothing else that is there.
LEMMA WalkedFilesAreSources ==
  ASSUME WalkInv, outcome \in {"listed", "owned"}
  PROVE  SourcesAreListed
<1> USE DEF WalkInv
<1>1. \A d \in DOMAIN visits : visits[d].step = "done"
  BY Zenon DEF OutcomeOK
<1>2. PICK u \in {before, tree} : \A d \in Paths :
        Entered(visits, d) /\ There(tree, d) => GroupOf(rules, d) = Rules(AllLines(options, u, d))
  BY OneTreeOfRules
<1>3. IsTree(before) /\ IsTree(tree) /\ IsTree(u)
  BY DEF ScanOK, TreeOK
<1>4. /\ DOMAIN tree.kind \subseteq DOMAIN before.kind
      /\ \A p \in DOMAIN tree.kind :
           p \in DOMAIN u.kind /\ u.kind[p] = before.kind[p] /\ tree.kind[p] = before.kind[p]
  BY DEF TreeOK
<1>5. ASSUME NEW p \in Paths, NEW isDirectory,
             \A k \in 0..(Len(p) - 1) : Entered(visits, Prefix(p, k)) /\ There(tree, Prefix(p, k))
      PROVE  Ignores(rules, p, isDirectory) <=> Ignored(u, p, isDirectory)
  <2>1. \A b : GroupOf(rules, b) \in Seq(RuleType)
    BY Zenon DEF GroupsOK
  <2>2. \A k \in 0..(Len(p) - 1) : GroupOf(rules, Prefix(p, k)) = Rules(LinesOf(u, Prefix(p, k)))
    <3> SUFFICES ASSUME NEW k \in 0..(Len(p) - 1)
                 PROVE  GroupOf(rules, Prefix(p, k)) = Rules(LinesOf(u, Prefix(p, k)))
      OBVIOUS
    <3>1. Prefix(p, k) \in Paths
      <4>1. k \in 0..Len(p)
        BY DEF Paths
      <4> QED
        BY <4>1, PrefixFacts
    <3>2. GroupOf(rules, Prefix(p, k)) = Rules(AllLines(options, u, Prefix(p, k)))
      BY <1>2, <1>5, <3>1
    <3> QED
      BY <3>2, Zenon DEF AllLines, LinesOf, FirstLines, VendorLines
  <2> QED
    BY <2>1, <2>2, IgnoresIsIgnored
<1>6. ASSUME NEW p \in files \cap DOMAIN tree.kind PROVE p \in Sources(u)
  <2>1. /\ p \in DOMAIN before.kind /\ before.kind[p] \in {"file", "link"}
        /\ Entered(visits, Prefix(p, Len(p) - 1))
        /\ AcceptsFile(options, rules, p)
    BY Zenon DEF FilesOK
  <2>2. p \in Paths /\ p # <<>> /\ Len(p) \in Nat /\ 1 <= Len(p)
    BY <1>3, TreeFacts
  <2>3. ASSUME NEW k \in 0..(Len(p) - 1)
        PROVE  Entered(visits, Prefix(p, k)) /\ There(tree, Prefix(p, k))
    <3>1. Entered(visits, Prefix(p, k))
      BY <2>1, <2>2, AncestorsEntered
    <3>2. CASE k = 0
      BY <2>2, <3>1, <3>2, WholePath DEF There
    <3>3. CASE k # 0
      <4>1. k \in 1..Len(p)
        BY <2>2, <3>3
      <4> QED
        BY <1>3, <3>1, <4>1, AncestorsThere DEF There
    <3> QED
      BY <3>2, <3>3
  <2>4. ~Ignored(u, p, FALSE)
    BY <1>5, <2>1, <2>2, <2>3, Zenon DEF AcceptsFile
  <2>5. ASSUME NEW n \in 1..(Len(p) - 1) PROVE ~Ignored(u, Prefix(p, n), TRUE)
    <3> DEFINE q == Prefix(p, n)
    <3>1. n \in 0..Len(p) /\ n \in 0..(Len(p) - 1)
      BY <2>2
    <3>2. q \in Paths /\ Len(q) = n
      BY <2>2, <3>1, PrefixFacts
    <3>3. q # <<>>
      BY <3>2
    <3>4. q \in DOMAIN visits
      BY <2>3, <3>1 DEF Entered
    <3>5. \A k \in 0..(Len(q) - 1) : k \in 0..(Len(p) - 1) /\ Prefix(q, k) = Prefix(p, k)
      BY <2>2, <3>1, <3>2, PrefixOfPrefix
    <3> HIDE DEF q
    <3>6. ~Ignores(rules, q, TRUE)
      BY <3>3, <3>4, Zenon DEF ChainOK
    <3>7. \A k \in 0..(Len(q) - 1) : Entered(visits, Prefix(q, k)) /\ There(tree, Prefix(q, k))
      BY <2>3, <3>5
    <3> QED
      BY <1>5, <3>2, <3>6, <3>7, Zenon DEF q
  <2>6. Wanted(u, p)
    BY <2>1, <2>4, <2>5, Zenon DEF Wanted, AcceptsFile, ToSet
  <2> QED
    BY <1>4, <2>1, <2>6, Zenon DEF Sources
<1>7. ASSUME NEW p \in Sources(u), p \in DOMAIN tree.kind PROVE p \in files
  <2>1. p \in Paths /\ p # <<>> /\ Len(p) \in Nat /\ 1 <= Len(p)
    BY <1>3, <1>7, TreeFacts
  <2>2. Wanted(u, p) /\ u.kind[p] \in {"file", "link"}
    BY Zenon DEF Sources
  <2>3. ASSUME NEW n \in 0..(Len(p) - 1)
        PROVE  There(tree, Prefix(p, n)) /\ Prefix(p, n) \in Paths /\ Len(Prefix(p, n)) = n
    <3>1. CASE n = 0
      BY <2>1, <3>1, WholePath, PrefixFacts DEF There
    <3>2. CASE n # 0
      <4>1. n \in 1..Len(p) /\ n \in 0..Len(p)
        BY <2>1, <3>2
      <4> QED
        BY <1>3, <1>7, <2>1, <4>1, AncestorsThere, PrefixFacts DEF There
    <3> QED
      BY <3>1, <3>2
  <2>4. \A n \in 0..(Len(p) - 1) : \A k \in 0..n : Prefix(Prefix(p, n), k) = Prefix(p, k)
    BY <2>1, PrefixOfPrefix
  <2>5. PICK i \in DOMAIN options.include : Fits(options.include[i], p)
    BY <2>2, Zenon DEF Wanted, ToSet
  <2>6. options.include[i] \in Paths
    <3>1. options.include \in Seq(Paths)
      BY DEF ScanOK
    <3> QED
      BY <3>1
  <2> DEFINE Visited(n) == Prefix(p, n) \in DOMAIN visits
             Upto(n) == \A k \in 0..n : Visited(k)
             T == {n \in Nat : n < Len(p) => Upto(n)}
  <2>7. Upto(0)
    <3>1. Prefix(p, 0) = <<>>
      BY <2>1, WholePath
    <3>2. \A k \in 0..0 : k = 0
      OBVIOUS
    <3> QED
      BY <3>1, <3>2, Zenon DEF ChainOK
  <2>8. ASSUME NEW n \in 0..(Len(p) - 1), Upto(n)
        PROVE  \A k \in 0..n : Entered(visits, Prefix(p, k))
    BY <1>1, <2>8, Zenon DEF Entered
  <2>9. ASSUME NEW n \in Nat, n + 1 < Len(p), Upto(n) PROVE Upto(n + 1)
    <3> DEFINE d == Prefix(p, n) q == Prefix(p, n + 1)
    <3>1. /\ n \in 0..(Len(p) - 1) /\ n + 1 \in 0..(Len(p) - 1)
          /\ n + 1 \in 1..(Len(p) - 1) /\ n + 1 \in 1..Len(p)
      BY <2>1, <2>9
    <3>2. q \in DOMAIN tree.kind /\ tree.kind[q] = "directory"
      BY <1>3, <1>7, <2>9, <3>1, AncestorsThere
    <3>3. q \in Paths /\ Len(q) = n + 1 /\ d \in Paths
      BY <2>3, <3>1
    <3>4. Prefix(q, Len(q) - 1) = d
      <4>1. (n + 1) - 1 = n /\ n \in 0..(n + 1)
        BY <2>9
      <4> QED
        BY <2>4, <3>1, <3>3, <4>1
    <3>5. q # <<>>
      BY <3>3
    <3> HIDE DEF d, q
    <3>6. q = Append(d, Name(q)) /\ Name(q) \in Names
      BY <3>3, <3>4, <3>5, ParentAndName
    <3>7. Name(q) \in NamesIn(tree, d)
      BY <1>3, <3>2, <3>3, <3>6, NamesAreChildren
    <3>8. ~Ignores(rules, q, TRUE)
      <4>1. ~Ignored(u, q, TRUE)
        BY <2>2, <3>1, Zenon DEF Wanted, q
      <4>2. \A k \in 0..(Len(q) - 1) : k \in 0..n /\ k \in 0..(n + 1) /\ k \in 0..(Len(p) - 1)
        BY <2>1, <3>1, <3>3
      <4>3. \A k \in 0..(Len(q) - 1) : Prefix(q, k) = Prefix(p, k)
        BY <2>4, <3>1, <4>2, Zenon DEF q
      <4>4. \A k \in 0..(Len(q) - 1) : Entered(visits, Prefix(q, k)) /\ There(tree, Prefix(q, k))
        BY <2>3, <2>8, <2>9, <3>1, <4>2, <4>3, Zenon
      <4> QED
        BY <1>5, <3>3, <4>1, <4>4, Zenon
    <3>9. MayContain(options.include[i], q)
      BY <2>1, <2>5, <2>6, <3>1, MatchesAreContained, Zenon DEF q
    <3>10. AcceptsDirectory(options, rules, q)
      BY <3>8, <3>9, Zenon DEF AcceptsDirectory
    <3>11. d \in DOMAIN visits
      <4>1. n \in 0..n
        BY <2>9
      <4> QED
        BY <2>9, <4>1 DEF d
    <3>12. DoneOK(options, before, tree, rules, files, DOMAIN visits, d)
      BY <1>1, <3>11, Zenon DEF VisitsOK
    <3>13. Taken(options, before, rules, files, DOMAIN visits, q)
      BY <3>6, <3>7, <3>12, Zenon DEF DoneOK
    <3>14. before.kind[q] = "directory"
      BY <1>4, <3>2
    <3>15. q \in DOMAIN visits
      BY <3>10, <3>13, <3>14, Zenon DEF Taken
    <3>16. \A k \in 0..(n + 1) : k \in 0..n \/ k = n + 1
      BY <2>9
    <3> QED
      BY <2>9, <3>15, <3>16, Zenon DEF q
  <2> HIDE DEF Upto
  <2>10. T = Nat
    <3>1. 0 \in T
      BY <2>7
    <3>2. \A n \in T : n + 1 \in T
      BY <2>1, <2>9
    <3> QED
      BY <3>1, <3>2, NaturalInduction
  <2>11. Len(p) - 1 \in 0..(Len(p) - 1) /\ Len(p) - 1 \in Nat /\ Len(p) - 1 < Len(p)
    BY <2>1
  <2>12. Upto(Len(p) - 1)
    BY <2>10, <2>11
  <2>13. \A k \in 0..(Len(p) - 1) : Entered(visits, Prefix(p, k)) /\ There(tree, Prefix(p, k))
    BY <2>3, <2>8, <2>11, <2>12
  <2>14. ~Ignores(rules, p, FALSE)
    <3>1. ~Ignored(u, p, FALSE)
      BY <2>2, Zenon DEF Wanted
    <3> QED
      BY <1>5, <2>1, <2>13, <3>1, Zenon
  <2>15. AcceptsFile(options, rules, p)
    <3>1. \A n \in DOMAIN options.negated : ~Fits(options.negated[n], p)
      BY <2>2, Zenon DEF Wanted, ToSet
    <3> QED
      BY <2>5, <2>14, <3>1, Zenon DEF AcceptsFile
  <2> DEFINE d == Prefix(p, Len(p) - 1)
  <2>16. p = Append(d, Name(p)) /\ Name(p) \in Names /\ d \in Paths
    BY <2>1, ParentAndName
  <2>17. d \in DOMAIN visits
    BY <2>11, <2>13 DEF Entered
  <2> HIDE DEF d
  <2>18. Name(p) \in NamesIn(tree, d)
    BY <1>3, <1>7, <2>16, NamesAreChildren
  <2>19. DoneOK(options, before, tree, rules, files, DOMAIN visits, d)
    BY <1>1, <2>17, Zenon DEF VisitsOK
  <2>20. Taken(options, before, rules, files, DOMAIN visits, p)
    BY <2>16, <2>18, <2>19, Zenon DEF DoneOK
  <2>21. before.kind[p] \in {"file", "link"}
    BY <1>4, <1>7, <2>2
  <2> QED
    BY <2>15, <2>20, <2>21, Zenon DEF Taken
<1>8. Sources(before) \cap Sources(tree) \subseteq files
  <2>1. \A p \in Sources(tree) : p \in DOMAIN tree.kind
    BY Zenon DEF Sources
  <2> QED
    BY <1>7, <2>1, Zenon
<1>9. files \cap DOMAIN tree.kind \subseteq Sources(before) \cup Sources(tree)
  BY <1>6, Zenon
<1> QED
  BY <1>8, <1>9, Zenon DEF SourcesAreListed

-----------------------------------------------------------------------------
\* What the steps leave as it is.

\* What a visit has seen stays true when files and directories are added and entries go.
LEMMA VisitStays ==
  ASSUME NEW o, NEW b, NEW t, NEW t2, NEW r, NEW f, NEW f2, 
         NEW directories, NEW directories2, NEW d, NEW visit,
         f \subseteq f2, directories \subseteq directories2, NamesIn(t2, d) \subseteq NamesIn(t, d)
  PROVE  /\ FilterOK(o, b, t, r, f, visit, d) => FilterOK(o, b, t2, r, f2, visit, d)
         /\ DoneOK(o, b, t, r, f, directories, d) => DoneOK(o, b, t2, r, f2, directories2, d)
<1>1. \A p, s, s2 : s \subseteq s2 /\ Taken(o, b, r, f, s, p) => Taken(o, b, r, f2, s2, p)
  BY Zenon DEF Taken
<1> QED
  BY <1>1, Zenon DEF FilterOK, DoneOK

\* A step of a visit that is not over keeps the order of the visits.
LEMMA ChainStays ==
  ASSUME NEW b, NEW r, NEW v, NEW v2, ChainOK(b, r, v), NEW d \in DOMAIN v, v[d].step # "done",
         DOMAIN v2 = DOMAIN v, \A e \in DOMAIN v : e # d => v2[e] = v[e],
         v2[d].step \in {"list", "enter", "filter", "done"}
  PROVE  ChainOK(b, r, v2)
<1>1. ASSUME NEW e \in DOMAIN v2, NEW k \in 0..(Len(e) - 1)
      PROVE  Prefix(e, k) \in DOMAIN v2 /\ v2[Prefix(e, k)].step = "done"
  <2>1. Prefix(e, k) \in DOMAIN v /\ v[Prefix(e, k)].step = "done"
    BY Zenon DEF ChainOK
  <2> QED
    BY <2>1, Zenon
<1>2. \A e \in DOMAIN v2 : v2[e].step \in {"list", "enter", "filter", "done"}
  BY Zenon DEF ChainOK
<1> QED
  BY <1>1, <1>2, Zenon DEF ChainOK

\* The accepted files stay accepted when more directories are entered.
LEMMA FilesStay ==
  ASSUME NEW o, NEW b, NEW r, NEW v, NEW v2, NEW f, FilesOK(o, b, r, v, f),
         \A d : Entered(v, d) => Entered(v2, d)
  PROVE  FilesOK(o, b, r, v2, f)
BY Zenon DEF FilesOK

\* The rules of a directory come before anything in it is looked at, so what has
\* been decided stays decided.
LEMMA VerdictsStay ==
  ASSUME NEW o, NEW b, NEW t, NEW r, NEW r2, NEW v, NEW f, NEW d,
         IsTree(b), IsTree(t), DOMAIN t.kind \subseteq DOMAIN b.kind,
         ChainOK(b, r, v), VisitsOK(o, b, t, r, v, f), FilesOK(o, b, r, v, f),
         d \in DOMAIN v, v[d].step = "enter",
         \A e : GroupOf(r, e) \in Seq(RuleType), \A e : GroupOf(r2, e) \in Seq(RuleType),
         \A e \in Paths : e # d => GroupOf(r2, e) = GroupOf(r, e)
  PROVE  ChainOK(b, r2, v) /\ VisitsOK(o, b, t, r2, v, f) /\ FilesOK(o, b, r2, v, f)
<1>1. ASSUME NEW p \in Paths, NEW isDirectory, \A k \in 0..(Len(p) - 1) : Prefix(p, k) # d
      PROVE  Ignores(r2, p, isDirectory) <=> Ignores(r, p, isDirectory)
  <2>1. \A k \in 0..(Len(p) - 1) : Prefix(p, k) \in Paths
    <3>1. \A k \in 0..(Len(p) - 1) : k \in 0..Len(p)
      BY DEF Paths
    <3> QED
      BY <3>1, PrefixFacts
  <2>2. \A k \in 0..(Len(p) - 1) : GroupOf(r2, Prefix(p, k)) = GroupOf(r, Prefix(p, k))
    BY <1>1, <2>1, Zenon
  <2> QED
    BY <2>2, GroupsAboveDecide
<1>2. ASSUME NEW e \in DOMAIN v, NEW isDirectory
      PROVE  Ignores(r2, e, isDirectory) <=> Ignores(r, e, isDirectory)
  <2>1. e \in Paths /\ \A k \in 0..(Len(e) - 1) : v[Prefix(e, k)].step = "done"
    BY Zenon DEF ChainOK
  <2>2. \A k \in 0..(Len(e) - 1) : Prefix(e, k) # d
    BY <2>1
  <2> QED
    BY <1>1, <2>1, <2>2
<1>3. ASSUME NEW e, Entered(v, e), NEW n \in Names, NEW isDirectory
      PROVE  Ignores(r2, Append(e, n), isDirectory) <=> Ignores(r, Append(e, n), isDirectory)
  <2> DEFINE p == Append(e, n)
  <2>1. e \in DOMAIN v /\ e # d
    BY <1>3 DEF Entered
  <2>2. e \in Paths /\ \A k \in 0..(Len(e) - 1) : v[Prefix(e, k)].step = "done"
    BY <2>1, Zenon DEF ChainOK
  <2>3. /\ p \in Paths /\ Len(p) = Len(e) + 1 /\ Len(e) \in Nat
        /\ \A k \in 0..Len(e) : Prefix(p, k) = Prefix(e, k)
    BY <2>2, AppendFacts DEF Paths
  <2>4. Prefix(e, Len(e)) = e
    BY <2>2, WholePath
  <2> HIDE DEF p
  <2>5. ASSUME NEW k \in 0..(Len(p) - 1) PROVE Prefix(p, k) # d
    <3>1. k \in 0..Len(e) /\ (k \in 0..(Len(e) - 1) \/ k = Len(e))
      BY <2>3
    <3>2. Prefix(p, k) = Prefix(e, k)
      BY <2>3, <3>1
    <3>3. CASE k \in 0..(Len(e) - 1)
      BY <2>2, <3>2, <3>3
    <3>4. CASE k = Len(e)
      BY <2>1, <2>4, <3>2, <3>4
    <3> QED
      BY <3>1, <3>3, <3>4
  <2>6. Ignores(r2, p, isDirectory) <=> Ignores(r, p, isDirectory)
    BY <1>1, <2>3, <2>5
  <2> QED
    BY <2>6, Zenon DEF p
<1>4. ASSUME NEW e, Entered(v, e), NEW n \in Names
      PROVE  /\ AcceptsDirectory(o, r2, Append(e, n)) <=> AcceptsDirectory(o, r, Append(e, n))
             /\ AcceptsFile(o, r2, Append(e, n)) <=> AcceptsFile(o, r, Append(e, n))
  <2>1. Ignores(r2, Append(e, n), TRUE) <=> Ignores(r, Append(e, n), TRUE)
    BY <1>3, <1>4
  <2>2. Ignores(r2, Append(e, n), FALSE) <=> Ignores(r, Append(e, n), FALSE)
    BY <1>3, <1>4
  <2> QED
    BY <2>1, <2>2, Zenon DEF AcceptsDirectory, AcceptsFile
<1>5. \A e \in DOMAIN v : e \in Paths
  BY Zenon DEF ChainOK
<1>6. \A e \in Paths : \A n : (n \in NamesIn(t, e) \/ n \in NamesIn(b, e)) => n \in Names
  BY NamesAreChildren
<1>7. ChainOK(b, r2, v)
  <2>1. \A e \in DOMAIN v : e # <<>> => ~Ignores(r2, e, TRUE)
    BY <1>2, Zenon DEF ChainOK
  <2> QED
    BY <2>1, Zenon DEF ChainOK
<1>8. VisitsOK(o, b, t, r2, v, f)
  <2>1. ASSUME NEW e \in DOMAIN v, v[e].step = "filter" PROVE FilterOK(o, b, t, r2, f, v[e], e)
    <3>1. FilterOK(o, b, t, r, f, v[e], e)
      BY <2>1, Zenon DEF VisitsOK
    <3>2. Entered(v, e) /\ e \in Paths
      BY <1>5, <2>1 DEF Entered
    <3>3. \A n \in NamesIn(b, e) : ~Ignores(r, Append(e, n), TRUE) => ~Ignores(r2, Append(e, n), TRUE)
      BY <1>3, <1>6, <3>2, Zenon
    <3>4. \A n \in NamesIn(t, e) : Taken(o, b, r, f, v[e].into, Append(e, n)) =>
            Taken(o, b, r2, f, v[e].into, Append(e, n))
      BY <1>4, <1>6, <3>2, Zenon DEF Taken
    <3> QED
      BY <3>1, <3>3, <3>4, Zenon DEF FilterOK
  <2>2. ASSUME NEW e \in DOMAIN v, v[e].step = "done" PROVE DoneOK(o, b, t, r2, f, DOMAIN v, e)
    <3>1. DoneOK(o, b, t, r, f, DOMAIN v, e)
      BY <2>2, Zenon DEF VisitsOK
    <3>2. Entered(v, e) /\ e \in Paths
      BY <1>5, <2>2 DEF Entered
    <3>3. \A n \in NamesIn(t, e) : Taken(o, b, r, f, DOMAIN v, Append(e, n)) =>
            Taken(o, b, r2, f, DOMAIN v, Append(e, n))
      BY <1>4, <1>6, <3>2, Zenon DEF Taken
    <3> QED
      BY <3>1, <3>3, Zenon DEF DoneOK
  <2> QED
    BY <2>1, <2>2, Zenon DEF VisitsOK
<1>9. FilesOK(o, b, r2, v, f)
  <2> SUFFICES ASSUME NEW p \in f
               PROVE  /\ p \in DOMAIN b.kind /\ b.kind[p] \in {"file", "link"}
                      /\ Entered(v, Prefix(p, Len(p) - 1))
                      /\ AcceptsFile(o, r2, p)
    BY Zenon DEF FilesOK
  <2>1. /\ p \in DOMAIN b.kind /\ b.kind[p] \in {"file", "link"}
        /\ Entered(v, Prefix(p, Len(p) - 1))
        /\ AcceptsFile(o, r, p)
    BY Zenon DEF FilesOK
  <2>2. p \in Paths /\ p # <<>>
    BY <2>1, TreeFacts
  <2>3. p = Append(Prefix(p, Len(p) - 1), Name(p)) /\ Name(p) \in Names
    BY <2>2, ParentAndName
  <2>4. AcceptsFile(o, r2, p) <=> AcceptsFile(o, r, p)
    BY <1>4, <2>1, <2>3, Zenon
  <2> QED
    BY <2>1, <2>4, Zenon
<1> QED
  BY <1>7, <1>8, <1>9

-----------------------------------------------------------------------------
\* The walk keeps the invariant.

\* The walk begins in the invariant: the root is to be listed, and its rules are the
\* defaults and the excludes.
LEMMA WalkBegins ==
  ASSUME Init
  PROVE  WalkInv
<1>1. PICK scan \in Scans : options = scan.options /\ tree = scan.tree
  BY DEF Init
<1>2. before = tree /\ visits = [d \in {<<>>} |-> [step |-> "list"]] /\ files = {} /\ outcome = "walking"
      /\ rules = AddRules(AddRules(<<>>, DefaultIgnores, <<>>), options.exclude, <<>>)
  BY DEF Init
<1>3. IsTree(before) /\ options.include \in Seq(Paths) /\ options.exclude \in Seq(Lines)
  BY <1>1, <1>2, DiscoveryConstants DEF Paths
<1>4. ScanOK(options, before)
  BY <1>3 DEF ScanOK
<1>5. TreeOK(before, tree)
  <2>1. IsTree(tree)
    BY <1>2, <1>3
  <2>2. TreeOK(tree, tree)
    BY <2>1 DEF TreeOK
  <2> QED
    BY <1>2, <2>2
<1>6. DOMAIN visits = {<<>>} /\ visits[<<>>] = [step |-> "list"]
  BY <1>2, Zenon
<1>7. visits[<<>>].step = "list"
  BY <1>6
<1>8. <<>> \in Paths /\ Len(<<>>) = 0
  BY DEF Paths
<1>9. /\ DefaultIgnores \in Seq(Lines)
      /\ FirstLines(options, <<>>) = DefaultIgnores \o options.exclude
  <2>1. FirstLines(options, <<>>) = DefaultIgnores \o options.exclude
    BY Zenon DEF FirstLines
  <2> QED
    BY <2>1, DefaultsAreLines
<1>10. \A d : GroupOf(<<>>, d) = <<>>
  BY DEF GroupOf
<1> DEFINE r1 == AddRules(<<>>, DefaultIgnores, <<>>)
<1>11. /\ Rules(DefaultIgnores) \in Seq(RuleType) /\ Rules(options.exclude) \in Seq(RuleType)
       /\ Rules(FirstLines(options, <<>>)) = Rules(DefaultIgnores) \o Rules(options.exclude)
       /\ Rules(<<>>) = <<>>
  BY <1>3, <1>9, RulesOfConcat
<1>12. <<>> \in Seq(RuleType) /\ <<>> \o Rules(DefaultIgnores) = Rules(DefaultIgnores)
  BY <1>11
<1>13. /\ GroupOf(r1, <<>>) = Rules(DefaultIgnores)
       /\ \A d : d # <<>> => GroupOf(r1, d) = <<>>
  <2>1. GroupOf(<<>>, <<>>) \in Seq(RuleType)
    BY <1>10, <1>12
  <2>2. GroupOf(r1, <<>>) = GroupOf(<<>>, <<>>) \o Rules(DefaultIgnores)
    BY <1>11, <2>1, GroupsGrow
  <2>3. \A d : d # <<>> => GroupOf(r1, d) = GroupOf(<<>>, d)
    BY <1>11, <2>1, GroupsGrow
  <2> QED
    BY <1>10, <1>12, <2>2, <2>3, Zenon
<1> HIDE DEF r1
<1>14. /\ GroupOf(rules, <<>>) = Rules(FirstLines(options, <<>>))
       /\ \A d : d # <<>> => GroupOf(rules, d) = <<>>
  <2>1. GroupOf(r1, <<>>) \in Seq(RuleType) /\ rules = AddRules(r1, options.exclude, <<>>)
    BY <1>2, <1>11, <1>13 DEF r1
  <2>2. GroupOf(rules, <<>>) = GroupOf(r1, <<>>) \o Rules(options.exclude)
    BY <1>11, <2>1, GroupsGrow
  <2>3. \A d : d # <<>> => GroupOf(rules, d) = GroupOf(r1, d)
    BY <1>11, <2>1, GroupsGrow
  <2> QED
    BY <1>11, <1>13, <2>2, <2>3, Zenon
<1>15. \A d : ~Entered(visits, d)
  BY <1>6, <1>7 DEF Entered
<1>16. GroupsOK(options, before, tree, rules, visits)
  <2>1. \A d : GroupOf(rules, d) \in Seq(RuleType)
    <3>1. Rules(FirstLines(options, <<>>)) \in Seq(RuleType)
      BY <1>11, ConcatProperties
    <3> QED
      BY <1>12, <1>14, <3>1, Zenon
  <2>2. \A d : d # <<>> => FirstLines(options, d) = <<>>
    BY Zenon DEF FirstLines
  <2> QED
    BY <1>11, <1>14, <1>15, <2>1, <2>2, Zenon DEF GroupsOK
<1>17. ChainOK(before, rules, visits)
  <2>1. 0..(Len(<<>>) - 1) = {}
    BY <1>8
  <2> QED
    BY <1>6, <1>7, <1>8, <2>1, Zenon DEF ChainOK
<1>18. VisitsOK(options, before, tree, rules, visits, files)
  BY <1>6, <1>7 DEF VisitsOK
<1>19. FilesOK(options, before, rules, visits, files)
  BY <1>2 DEF FilesOK
<1>20. OutcomeOK(outcome, visits)
  BY <1>2 DEF OutcomeOK
<1> QED
  BY <1>4, <1>5, <1>16, <1>17, <1>18, <1>19, <1>20 DEF WalkInv

\* readdir: the entries are those of the tree now.
LEMMA ListDirectoryStep ==
  ASSUME WalkInv, NEW d \in DOMAIN visits, ListDirectory(d)
  PROVE  WalkInv'
<1> USE DEF WalkInv
<1>1. /\ outcome = "walking" /\ visits[d].step = "list"
      /\ UNCHANGED <<options, before, tree, rules, files, outcome, packages, owner>>
  BY DEF ListDirectory, At
<1> DEFINE listed == [step |-> "enter", into |-> {},
                      left |-> [name \in NamesIn(tree, d) |-> tree.kind[Append(d, name)]]]
<1>2. visits' = [visits EXCEPT ![d] = IF ~There(tree, d) THEN [step |-> "done"] ELSE listed]
  BY Zenon DEF ListDirectory
<1>3. PICK v : v = visits'
  OBVIOUS
<1>4. /\ DOMAIN v = DOMAIN visits
      /\ \A e \in DOMAIN visits : e # d => v[e] = visits[e]
      /\ v[d] = IF ~There(tree, d) THEN [step |-> "done"] ELSE listed
  BY <1>2, <1>3
<1>5. v[d].step = IF ~There(tree, d) THEN "done" ELSE "enter"
  BY <1>4
<1>6. d \in Paths
  BY Zenon DEF ChainOK
<1>7. IsTree(tree) /\ IsTree(before) /\ DOMAIN tree.kind \subseteq DOMAIN before.kind
  BY DEF TreeOK, ScanOK
<1>8. ChainOK(before, rules, v)
  <2>1. v[d].step \in {"list", "enter", "filter", "done"} /\ visits[d].step # "done"
    BY <1>1, <1>5
  <2> QED
    BY <1>4, <2>1, ChainStays
<1>9. \A e : Entered(visits, e) => Entered(v, e)
  BY <1>1, <1>4 DEF Entered
<1>10. \A e : Entered(v, e) /\ There(tree, e) => Entered(visits, e)
  BY <1>4, <1>5 DEF Entered
<1>11. GroupsOK(options, before, tree, rules, v)
  BY <1>9, <1>10, Zenon DEF GroupsOK
<1>12. FilesOK(options, before, rules, v, files)
  BY <1>9, FilesStay
<1>13. VisitsOK(options, before, tree, rules, v, files)
  <2>1. ASSUME ~There(tree, d) PROVE DoneOK(options, before, tree, rules, files, DOMAIN v, d)
    <3>1. ASSUME NEW n \in NamesIn(tree, d) PROVE FALSE
      <4>1. n \in Names /\ Append(d, n) \in DOMAIN tree.kind
        BY <1>6, <1>7, <3>1, NamesAreChildren
      <4>2. Len(Append(d, n)) - 1 = Len(d) /\ Prefix(Append(d, n), Len(d)) = d
        <5>1. Len(Append(d, n)) = Len(d) + 1 /\ Prefix(Append(d, n), Len(d)) = d
          BY <1>6, <4>1, AppendFacts
        <5> QED
          BY <1>6, <5>1 DEF Paths
      <4>3. There(tree, Prefix(Append(d, n), Len(Append(d, n)) - 1))
        BY <1>7, <4>1, TreeFacts
      <4> QED
        BY <2>1, <4>2, <4>3
    <3> QED
      BY <3>1, Zenon DEF DoneOK
  <2>2. ASSUME There(tree, d) PROVE EnterOK(before, tree, v[d], d)
    <3>1. v[d] = listed
      BY <1>4, <2>2
    <3>2. /\ v[d].left = [name \in NamesIn(tree, d) |-> tree.kind[Append(d, name)]]
          /\ v[d].into = {} /\ v[d].step = "enter"
      BY <3>1
    <3>3. Fields(v[d])
      BY <3>1, <3>2, Zenon DEF Fields
    <3>4. ASSUME NEW n \in NamesIn(tree, d)
          PROVE  n \in NamesIn(before, d) /\ tree.kind[Append(d, n)] = before.kind[Append(d, n)]
      <4>1. n \in Names /\ Append(d, n) \in DOMAIN tree.kind
        BY <1>6, <1>7, NamesAreChildren
      <4>2. n \in NamesIn(before, d)
        BY <1>6, <1>7, <4>1, NamesAreChildren
      <4> QED
        BY <4>1, <4>2, Zenon DEF TreeOK
    <3> DEFINE left == v[d].left
    <3>5. DOMAIN left = NamesIn(tree, d)
      BY <3>2, Zenon
    <3>6. left = [n \in NamesIn(tree, d) |-> before.kind[Append(d, n)]]
      <4>1. [n \in NamesIn(tree, d) |-> tree.kind[Append(d, n)]]
              = [n \in NamesIn(tree, d) |-> before.kind[Append(d, n)]]
        BY <3>4, Zenon
      <4> QED
        BY <3>2, <4>1
    <3>7. KindsOK(before, v[d].left, d)
      BY <3>4, <3>5, <3>6, Zenon DEF KindsOK
    <3> QED
      BY <3>2, <3>3, <3>5, <3>7, Zenon DEF EnterOK
  <2>3. ASSUME NEW e \in DOMAIN v, e # d
        PROVE  /\ v[e].step = "enter" => EnterOK(before, tree, v[e], e)
               /\ v[e].step = "filter" => FilterOK(options, before, tree, rules, files, v[e], e)
               /\ v[e].step = "done" => DoneOK(options, before, tree, rules, files, DOMAIN v, e)
    <3>1. v[e] = visits[e] /\ e \in DOMAIN visits
      BY <1>4, <2>3
    <3> QED
      BY <1>4, <3>1, Zenon DEF VisitsOK
  <2>4. CASE There(tree, d)
    <3>1. v[d].step = "enter" /\ v[d].step # "filter" /\ v[d].step # "done"
      BY <1>5, <2>4
    <3> QED
      BY <2>2, <2>3, <2>4, <3>1, Zenon DEF VisitsOK
  <2>5. CASE ~There(tree, d)
    <3>1. v[d].step # "enter" /\ v[d].step # "filter" /\ v[d].step = "done"
      BY <1>5, <2>5
    <3> QED
      BY <2>1, <2>3, <2>5, <3>1, Zenon DEF VisitsOK
  <2> QED
    BY <2>4, <2>5
<1>14. OutcomeOK(outcome', v)
  BY <1>1 DEF OutcomeOK
<1> QED
  BY <1>1, <1>3, <1>8, <1>11, <1>12, <1>13, <1>14

\* enterDirectory: the directory gets its rules, and nothing decided before depends on
\* them.
LEMMA EnterDirectoryStep ==
  ASSUME WalkInv, NEW d \in DOMAIN visits, EnterDirectory(d)
  PROVE  WalkInv'
<1> USE DEF WalkInv
<1>1. /\ outcome = "walking" /\ visits[d].step = "enter"
      /\ UNCHANGED <<options, before, tree, files, outcome, packages, owner>>
      /\ visits' = [visits EXCEPT ![d].step = "filter"]
  BY DEF EnterDirectory, At
<1> DEFINE listed == DOMAIN visits[d].left
           read == IF ".gitignore" \in listed THEN AddRules(rules, GitIgnoreLines(tree, d), d) ELSE rules
<1>2. rules' = IF {"go.mod", "vendor"} \subseteq listed THEN AddRules(read, <<VendorLine>>, d) ELSE read
  BY Zenon DEF EnterDirectory
<1>3. d \in Paths
  BY Zenon DEF ChainOK
<1>4. IsTree(tree) /\ IsTree(before) /\ DOMAIN tree.kind \subseteq DOMAIN before.kind
  BY DEF TreeOK, ScanOK
<1>5. EnterOK(before, tree, visits[d], d)
  BY <1>1, Zenon DEF VisitsOK
<1>6. /\ visits[d] = [step |-> "enter", into |-> {}, left |-> visits[d].left]
      /\ KindsOK(before, visits[d].left, d)
      /\ listed = NamesIn(before, d) \/ listed = NamesIn(tree, d)
  BY <1>1, <1>5 DEF EnterOK, Fields
<1>7. {".gitignore", "go.mod", "vendor"} \subseteq Names
  BY DiscoveryConstants
<1>8. \A t, n : IsTree(t) /\ n \in Names => (n \in NamesIn(t, d) <=> Append(d, n) \in DOMAIN t.kind)
  BY <1>3, NamesAreChildren
\* What the group of the directory becomes.
<1> DEFINE first == FirstLines(options, d)
           git == IF ".gitignore" \in listed THEN GitIgnoreLines(tree, d) ELSE <<>>
           vendor == IF {"go.mod", "vendor"} \subseteq listed THEN <<VendorLine>> ELSE <<>>
<1>9. /\ first \in Seq(Lines) /\ git \in Seq(Lines) /\ vendor \in Seq(Lines)
  <2>1. GitIgnoreLines(tree, d) \in Seq(Lines) /\ first \in Seq(Lines)
    <3>1. ScanOK(options, tree)
      BY <1>4 DEF ScanOK
    <3> QED
      BY <1>3, <3>1, LinesAreLines
  <2>2. <<>> \in Seq(Lines)
    OBVIOUS
  <2>3. <<VendorLine>> \in Seq(Lines)
    <3>1. \A x \in Lines : <<x>> \in Seq(Lines)
      OBVIOUS
    <3> QED
      BY <3>1, DefaultsAreLines
  <2> QED
    BY <2>1, <2>2, <2>3, Zenon
<1>10. \A e : GroupOf(rules, e) \in Seq(RuleType)
  BY Zenon DEF GroupsOK
<1>11. GroupOf(rules, d) = Rules(first)
  <2>1. ~Entered(visits, d)
    BY <1>1 DEF Entered
  <2> QED
    BY <1>3, <2>1, Zenon DEF GroupsOK
<1> HIDE DEF first
<1>12. /\ Rules(first) \in Seq(RuleType) /\ Rules(git) \in Seq(RuleType) /\ Rules(vendor) \in Seq(RuleType)
       /\ Rules(<<>>) = <<>>
  BY <1>9, RulesOfConcat
<1>13. \A s \in Seq(RuleType) : s \o <<>> = s
  OBVIOUS
<1>14. /\ GroupOf(read, d) = Rules(first) \o Rules(git)
       /\ \A e : e # d => GroupOf(read, e) = GroupOf(rules, e)
  <2>1. CASE ".gitignore" \in listed
    <3>1. read = AddRules(rules, git, d)
      BY <2>1, Zenon
    <3> HIDE DEF read, git
    <3> QED
      BY <1>10, <1>11, <1>12, <3>1, GroupsGrow
  <2>2. CASE ".gitignore" \notin listed
    <3>1. read = rules /\ git = <<>>
      BY <2>2, Zenon
    <3> QED
      BY <1>11, <1>12, <1>13, <3>1, Zenon
  <2> QED
    BY <2>1, <2>2
<1>15. GroupOf(read, d) \in Seq(RuleType)
  <2> HIDE DEF git, read
  <2> QED
    BY <1>12, <1>14, ConcatProperties
<1>16. /\ GroupOf(rules', d) = (Rules(first) \o Rules(git)) \o Rules(vendor)
       /\ \A e : e # d => GroupOf(rules', e) = GroupOf(rules, e)
  <2>1. CASE {"go.mod", "vendor"} \subseteq listed
    <3>1. rules' = AddRules(read, vendor, d)
      BY <1>2, <2>1, Zenon
    <3> HIDE DEF read, git, vendor
    <3>2. /\ GroupOf(rules', d) = GroupOf(read, d) \o Rules(vendor)
          /\ \A e : e # d => GroupOf(rules', e) = GroupOf(read, e)
      BY <1>12, <1>15, <3>1, GroupsGrow
    <3> QED
      BY <1>14, <3>2, Zenon
  <2>2. CASE ~({"go.mod", "vendor"} \subseteq listed)
    <3>1. rules' = read /\ vendor = <<>>
      BY <1>2, <2>2, Zenon
    <3> HIDE DEF read, git
    <3> QED
      BY <1>12, <1>13, <1>14, <1>15, <3>1, Zenon
  <2> QED
    BY <2>1, <2>2
<1>17. GroupOf(rules', d) = Rules((first \o git) \o vendor)
  <2> HIDE DEF git, vendor
  <2>1. first \o git \in Seq(Lines) /\ Rules(first \o git) = Rules(first) \o Rules(git)
    BY <1>9, RulesOfConcat, ConcatProperties
  <2>2. Rules((first \o git) \o vendor) = Rules(first \o git) \o Rules(vendor)
    BY <1>9, <2>1, RulesOfConcat
  <2> QED
    BY <1>16, <2>1, <2>2
\* If the directory still is there, these are the lines of one of the two trees.
<1>18. ASSUME There(tree, d)
       PROVE  \E u \in {before, tree} : first \o git \o vendor = AllLines(options, u, d)
  <2>1. \A u : Lists(u, d, "go.mod") <=> Append(d, "go.mod") \in DOMAIN u.kind
    BY DEF Lists
  <2>2. \A u : Lists(u, d, "vendor") <=> Append(d, "vendor") \in DOMAIN u.kind
    BY DEF Lists
  <2>3. ASSUME NEW u \in {before, tree}, listed = NamesIn(u, d) PROVE vendor = VendorLines(u, d)
    <3>1. {"go.mod", "vendor"} \subseteq listed <=> Lists(u, d, "go.mod") /\ Lists(u, d, "vendor")
      <4>1. "go.mod" \in listed <=> Lists(u, d, "go.mod")
        BY <1>4, <1>7, <1>8, <2>1, <2>3
      <4>2. "vendor" \in listed <=> Lists(u, d, "vendor")
        BY <1>4, <1>7, <1>8, <2>2, <2>3
      <4> QED
        BY <4>1, <4>2, Zenon
    <3> QED
      BY <3>1, Zenon DEF VendorLines
  <2> DEFINE g == Append(d, ".gitignore")
  <2>4. g # <<>>
    BY <1>3, <1>7, AppendFacts
  <2>5. \A u \in {before, tree} : g \notin DOMAIN u.kind => GitIgnoreLines(u, d) = <<>>
    BY <2>4, Zenon DEF GitIgnoreLines, There
  <2>6. g \in DOMAIN tree.kind => GitIgnoreLines(tree, d) = GitIgnoreLines(before, d)
    <3>1. /\ tree.content[g] = before.content[g]
          /\ (g \in DOMAIN tree.kind => tree.kind[g] = before.kind[g] /\ g \in DOMAIN before.kind)
      BY DEF TreeOK
    <3> HIDE DEF g
    <3> QED
      BY <3>1, Zenon DEF GitIgnoreLines, There, g
  <2>7. \A u \in {before, tree} : listed = NamesIn(u, d) => (".gitignore" \in listed <=> g \in DOMAIN u.kind)
    BY <1>4, <1>7, <1>8
  <2> HIDE DEF g, vendor
  <2>8. CASE listed = NamesIn(tree, d)
    <3>1. git = GitIgnoreLines(tree, d)
      BY <2>5, <2>7, <2>8, Zenon
    <3> QED
      BY <2>3, <2>8, <3>1, Zenon DEF AllLines, first
  <2>9. CASE listed = NamesIn(before, d) /\ ".gitignore" \notin listed
    <3>1. git = GitIgnoreLines(before, d)
      BY <2>5, <2>7, <2>9, Zenon
    <3> QED
      BY <2>3, <2>9, <3>1, Zenon DEF AllLines, first
  <2>10. CASE listed = NamesIn(before, d) /\ g \in DOMAIN tree.kind
    <3>1. g \in DOMAIN before.kind
      BY <1>4, <2>10
    <3>2. git = GitIgnoreLines(before, d)
      BY <2>6, <2>7, <2>10, <3>1, Zenon
    <3> QED
      BY <2>3, <2>10, <3>2, Zenon DEF AllLines, first
  \* The .gitignore itself is what is gone: all else is as it was.
  <2>11. CASE listed = NamesIn(before, d) /\ ".gitignore" \in listed /\ g \notin DOMAIN tree.kind
    <3>1. git = GitIgnoreLines(tree, d)
      BY <2>11, Zenon
    <3>2. g \in DOMAIN before.kind
      BY <2>7, <2>11, Zenon
    <3>3. PICK r \in DOMAIN before.kind : LessOne(before, tree, r)
      BY <2>11, <3>2 DEF TreeOK
    <3>4. r \in Paths /\ r # <<>>
      BY <1>4, TreeFacts
    <3>5. ~Within(d, r)
      <4>1. CASE d = <<>>
        <5>1. Len(d) = 0 /\ Len(r) \in Nat /\ Len(r) # 0
          BY <3>4, <4>1 DEF Paths
        <5> QED
          BY <5>1 DEF Within
      <4>2. CASE d # <<>>
        BY <1>18, <3>3, <4>2 DEF There, LessOne
      <4> QED
        BY <4>1, <4>2
    <3>6. Within(g, r)
      BY <2>11, <3>2, <3>3 DEF LessOne
    <3>7. r = g
      BY <1>3, <1>7, <3>4, <3>5, <3>6, WithinStep DEF g
    <3>8. ASSUME NEW n \in {"go.mod", "vendor"}
          PROVE  Append(d, n) \in DOMAIN tree.kind <=> Append(d, n) \in DOMAIN before.kind
      <4>1. n \in Names /\ n # ".gitignore"
        BY <1>7
      <4>2. Name(Append(d, n)) = n /\ Name(g) = ".gitignore"
        BY <1>3, <1>7, <4>1, AppendFacts DEF g
      <4>3. ~Within(Append(d, n), r)
        BY <1>3, <3>4, <3>5, <3>7, <4>1, <4>2, WithinStep
      <4> QED
        BY <3>3, <4>3 DEF LessOne
    <3>9. VendorLines(tree, d) = VendorLines(before, d)
      BY <3>8 DEF VendorLines, Lists
    <3>10. vendor = VendorLines(tree, d)
      BY <2>3, <2>11, <3>9, Zenon
    <3> QED
      BY <3>1, <3>10, Zenon DEF AllLines, first
  <2> QED
    BY <1>6, <2>8, <2>9, <2>10, <2>11, Zenon
<1> HIDE DEF git, vendor, read
<1>19. PICK r : r = rules'
  OBVIOUS
<1>20. PICK v : v = visits'
  OBVIOUS
<1>21. /\ DOMAIN v = DOMAIN visits
       /\ \A e \in DOMAIN visits : e # d => v[e] = visits[e]
       /\ v[d] = [step |-> "filter", into |-> {}, left |-> visits[d].left]
  BY <1>1, <1>6, <1>20
<1>22. \A e : GroupOf(r, e) \in Seq(RuleType)
  <2>1. GroupOf(r, d) \in Seq(RuleType)
    <3>1. Rules(first) \o Rules(git) \in Seq(RuleType)
      BY <1>12, ConcatProperties
    <3>2. (Rules(first) \o Rules(git)) \o Rules(vendor) \in Seq(RuleType)
      BY <1>12, <3>1, ConcatProperties
    <3> QED
      BY <1>16, <1>19, <3>2
  <2> QED
    BY <1>10, <1>16, <1>19, <2>1, Zenon
<1>23. /\ ChainOK(before, r, visits)
       /\ VisitsOK(options, before, tree, r, visits, files)
       /\ FilesOK(options, before, r, visits, files)
  <2>1. \A e \in Paths : e # d => GroupOf(r, e) = GroupOf(rules, e)
    BY <1>16, <1>19
  <2> QED
    BY <1>1, <1>4, <1>10, <1>22, <2>1, VerdictsStay
<1>24. v[d].step = "filter" /\ visits[d].step # "done"
  BY <1>1, <1>21
<1>25. ChainOK(before, r, v)
  <2>1. v[d].step \in {"list", "enter", "filter", "done"}
    BY <1>24
  <2> QED
    BY <1>21, <1>23, <1>24, <2>1, ChainStays
<1>26. \A e : Entered(v, e) <=> Entered(visits, e) \/ e = d
  BY <1>21, <1>24 DEF Entered
<1>27. FilesOK(options, before, r, v, files)
  BY <1>23, <1>26, FilesStay
<1>28. GroupsOK(options, before, tree, r, v)
  <2>1. There(tree, d) =>
          \/ GroupOf(r, d) = Rules(AllLines(options, before, d))
          \/ GroupOf(r, d) = Rules(AllLines(options, tree, d))
    BY <1>17, <1>18, <1>19, Zenon
  <2>2. \A e : e # d => GroupOf(r, e) = GroupOf(rules, e)
    BY <1>16, <1>19
  <2> QED
    BY <1>22, <1>26, <2>1, <2>2, Zenon DEF GroupsOK
<1>29. VisitsOK(options, before, tree, r, v, files)
  <2>1. FilterOK(options, before, tree, r, files, v[d], d)
    <3>1. v[d].left = visits[d].left /\ v[d].into = {} /\ Fields(v[d])
      BY <1>21 DEF Fields
    <3>2. ASSUME NEW n \in NamesIn(tree, d) PROVE n \in listed
      <4>1. n \in NamesIn(before, d)
        BY <1>3, <1>4, NamesAreChildren
      <4> QED
        BY <1>6, <4>1
    <3> QED
      BY <1>6, <3>1, <3>2, Zenon DEF FilterOK
  <2>2. ASSUME NEW e \in DOMAIN v, e # d
        PROVE  /\ v[e].step = "enter" => EnterOK(before, tree, v[e], e)
               /\ v[e].step = "filter" => FilterOK(options, before, tree, r, files, v[e], e)
               /\ v[e].step = "done" => DoneOK(options, before, tree, r, files, DOMAIN v, e)
    <3>1. v[e] = visits[e] /\ e \in DOMAIN visits
      BY <1>21, <2>2
    <3> QED
      BY <1>21, <1>23, <3>1, Zenon DEF VisitsOK
  <2>3. v[d].step # "enter" /\ v[d].step # "done"
    BY <1>24
  <2> QED
    BY <2>1, <2>2, <2>3, Zenon DEF VisitsOK
<1>30. OutcomeOK(outcome', v)
  BY <1>1 DEF OutcomeOK
<1> QED
  BY <1>1, <1>19, <1>20, <1>25, <1>27, <1>28, <1>29, <1>30

\* accept, for one entry: a directory to enter, a file to take, or neither.
LEMMA FilterEntryStep ==
  ASSUME WalkInv, NEW d \in DOMAIN visits, FilterEntry(d)
  PROVE  WalkInv'
<1> USE DEF WalkInv
<1>1. /\ outcome = "walking" /\ visits[d].step = "filter" /\ visits[d].left # <<>>
      /\ UNCHANGED <<options, before, tree, rules, outcome, packages, owner>>
  BY DEF FilterEntry, At
<1>2. d \in Paths
  BY Zenon DEF ChainOK
<1>3. IsTree(tree) /\ IsTree(before) /\ DOMAIN tree.kind \subseteq DOMAIN before.kind
  BY DEF TreeOK, ScanOK
<1>4. FilterOK(options, before, tree, rules, files, visits[d], d)
  BY <1>1, Zenon DEF VisitsOK
<1> DEFINE old == visits[d].left
           taken == visits[d].into
           chosen == CHOOSE n \in DOMAIN old : TRUE
           isDirectory(n) == old[n] = "directory"
           enters(n) == old[n] = "directory" /\ Accepts(Append(d, n), TRUE)
           isFile(n) == old[n] = "file" \/ (old[n] = "link" /\ There(tree, Append(d, n)))
           takes(n) == old[n] # "directory" /\ isFile(n) /\ Accepts(Append(d, n), FALSE)
           rest(n) == [m \in DOMAIN old \ {n} |-> old[m]]
           next(n) == [step |-> "filter", into |-> taken \cup {p \in {Append(d, n)} : enters(n)},
                       left |-> rest(n)]
<1>5. /\ visits' = [visits EXCEPT ![d] = next(chosen)]
      /\ files' = IF takes(chosen) THEN files \cup {Append(d, chosen)} ELSE files
  BY Zenon DEF FilterEntry
<1>6. /\ old = [n \in DOMAIN old |-> before.kind[Append(d, n)]]
      /\ DOMAIN old \subseteq NamesIn(before, d)
  BY <1>4, Zenon DEF FilterOK, KindsOK
<1>7. DOMAIN old # {}
  <2> SUFFICES ASSUME DOMAIN old = {} PROVE FALSE
    OBVIOUS
  <2> HIDE DEF old
  <2>1. old = <<>>
    BY <1>6
  <2> QED
    BY <1>1, <2>1 DEF old
<1>8. PICK n : n = chosen
  OBVIOUS
<1>9. n \in DOMAIN old
  BY <1>7, <1>8, Zenon
<1> HIDE DEF chosen
<1>10. n \in Names /\ Append(d, n) \in DOMAIN before.kind
  BY <1>2, <1>3, <1>6, <1>9, NamesAreChildren
<1>11. PICK p : p = Append(d, n)
  OBVIOUS
<1>12. /\ p \in Paths /\ Len(p) = Len(d) + 1 /\ Prefix(p, Len(d)) = d
       /\ \A m \in Names : Append(d, m) = p => m = n
  <2>1. \A m \in Names : Name(Append(d, m)) = m
    BY <1>2, AppendFacts
  <2> QED
    BY <1>2, <1>10, <1>11, <2>1, AppendFacts
<1>13. old[n] = before.kind[p]
  <2> HIDE DEF old
  <2> QED
    BY <1>6, <1>9, <1>11
<1>14. /\ Accepts(p, TRUE) <=> AcceptsDirectory(options, rules, p)
       /\ Accepts(p, FALSE) <=> AcceptsFile(options, rules, p)
  BY Zenon DEF Accepts, AcceptsDirectory, AcceptsFile
<1>15. PICK v : v = visits'
  OBVIOUS
<1>16. PICK f : f = files'
  OBVIOUS
<1>17. /\ DOMAIN v = DOMAIN visits
       /\ \A e \in DOMAIN visits : e # d => v[e] = visits[e]
       /\ v[d] = next(n)
  <2> HIDE DEF next
  <2> QED
    BY <1>5, <1>8, <1>15
<1>18. /\ v[d].step = "filter" /\ Fields(v[d])
       /\ v[d].left = rest(n)
       /\ v[d].into = taken \cup {q \in {p} : enters(n)}
  <2> HIDE DEF enters, rest, taken
  <2> QED
    BY <1>11, <1>17 DEF Fields
<1>19. /\ files \subseteq f
       /\ \A q \in f : q \in files \/ (q = p /\ takes(n))
       /\ takes(n) => p \in f
  <2> HIDE DEF takes
  <2>1. f = IF takes(n) THEN files \cup {p} ELSE files
    BY <1>5, <1>8, <1>11, <1>16
  <2>2. takes(n) => f = files \cup {p}
    BY <2>1
  <2>3. ~takes(n) => f = files
    BY <2>1
  <2>4. CASE takes(n)
    <3>1. f = files \cup {p}
      BY <2>2, <2>4, Zenon
    <3>2. files \subseteq f /\ p \in f /\ \A q \in f : q \in files \/ q = p
      BY <3>1
    <3> QED
      BY <2>4, <3>2, Zenon
  <2>5. CASE ~takes(n)
    <3>1. f = files
      BY <2>3, <2>5, Zenon
    <3> QED
      BY <2>5, <3>1, Zenon
  <2> QED
    BY <2>4, <2>5
<1>20. ChainOK(before, rules, v)
  <2>1. v[d].step \in {"list", "enter", "filter", "done"} /\ visits[d].step # "done"
    BY <1>1, <1>18
  <2> QED
    BY <1>17, <2>1, ChainStays
<1>21. \A e : Entered(v, e) <=> Entered(visits, e)
  BY <1>1, <1>17, <1>18 DEF Entered
<1>22. GroupsOK(options, before, tree, rules, v)
  BY <1>21, Zenon DEF GroupsOK
<1>23. FilesOK(options, before, rules, v, f)
  <2>1. FilesOK(options, before, rules, v, files)
    BY <1>21, FilesStay
  <2>2. ASSUME takes(n)
        PROVE  /\ p \in DOMAIN before.kind /\ before.kind[p] \in {"file", "link"}
               /\ Entered(v, Prefix(p, Len(p) - 1))
               /\ AcceptsFile(options, rules, p)
    <3>1. Len(p) - 1 = Len(d)
      BY <1>2, <1>12 DEF Paths
    <3>2. Prefix(p, Len(p) - 1) = d
      BY <1>12, <3>1
    <3>3. Entered(v, d)
      BY <1>17, <1>18 DEF Entered
    <3>4. before.kind[p] \in {"file", "link"}
      BY <1>13, <2>2
    <3> QED
      BY <1>10, <1>11, <1>14, <2>2, <3>2, <3>3, <3>4, Zenon
  <2> HIDE DEF takes
  <2> QED
    BY <1>19, <2>1, <2>2, Zenon DEF FilesOK
<1>24. FilterOK(options, before, tree, rules, f, v[d], d)
  <2>1. KindsOK(before, v[d].left, d)
    <3>1. DOMAIN rest(n) = DOMAIN old \ {n}
      BY Zenon
    <3>2. \A m \in DOMAIN old : old[m] = before.kind[Append(d, m)]
      <4> HIDE DEF old
      <4> QED
        BY <1>6
    <3>3. rest(n) = [m \in DOMAIN old \ {n} |-> before.kind[Append(d, m)]]
      BY <3>2, Zenon
    <3> QED
      BY <1>6, <1>18, <3>1, <3>3, Zenon DEF KindsOK
  <2>2. ASSUME NEW q \in v[d].into
        PROVE  /\ \E m \in NamesIn(before, d) : q = Append(d, m)
               /\ before.kind[q] = "directory" /\ ~Ignores(rules, q, TRUE)
    <3>1. CASE q \in taken
      BY <1>4, <3>1, Zenon DEF FilterOK
    <3>2. CASE q = p /\ enters(n)
      <4>1. before.kind[p] = "directory" /\ AcceptsDirectory(options, rules, p)
        BY <1>11, <1>13, <1>14, <3>2
      <4> QED
        BY <1>6, <1>9, <1>11, <3>2, <4>1, Zenon DEF AcceptsDirectory
    <3> QED
      BY <1>18, <3>1, <3>2, Zenon
  <2>3. ASSUME NEW m \in NamesIn(tree, d) \ DOMAIN v[d].left
        PROVE  Taken(options, before, rules, f, v[d].into, Append(d, m))
    <3>1. m \notin DOMAIN old \/ m = n
      BY <1>18, Zenon
    <3>2. CASE m \notin DOMAIN old
      <4>1. Taken(options, before, rules, files, taken, Append(d, m))
        BY <1>4, <3>2, Zenon DEF FilterOK
      <4>2. taken \subseteq v[d].into
        BY <1>18, Zenon
      <4> QED
        BY <1>19, <4>1, <4>2, Zenon DEF Taken
    <3>3. CASE m = n
      <4>1. There(tree, p)
        <5>1. Append(d, m) \in DOMAIN tree.kind
          BY <1>2, <1>3, NamesAreChildren
        <5> QED
          BY <1>11, <3>3, <5>1 DEF There
      <4>2. ASSUME before.kind[p] = "directory", AcceptsDirectory(options, rules, p)
            PROVE  p \in v[d].into
        <5>1. enters(n)
          BY <1>11, <1>13, <1>14, <4>2
        <5> QED
          BY <1>18, <5>1, Zenon
      <4>3. ASSUME before.kind[p] \in {"file", "link"}, AcceptsFile(options, rules, p)
            PROVE  p \in f
        <5>1. takes(n)
          BY <1>11, <1>13, <1>14, <4>1, <4>3
        <5> QED
          BY <1>19, <5>1
      <4> QED
        BY <1>11, <3>3, <4>2, <4>3, Zenon DEF Taken
    <3> QED
      BY <3>1, <3>2, <3>3
  <2> QED
    BY <1>18, <2>1, <2>2, <2>3, Zenon DEF FilterOK
<1>25. VisitsOK(options, before, tree, rules, v, f)
  <2>1. ASSUME NEW e \in DOMAIN v, e # d
        PROVE  /\ v[e].step = "enter" => EnterOK(before, tree, v[e], e)
               /\ v[e].step = "filter" => FilterOK(options, before, tree, rules, f, v[e], e)
               /\ v[e].step = "done" => DoneOK(options, before, tree, rules, f, DOMAIN v, e)
    <3>1. v[e] = visits[e] /\ e \in DOMAIN visits
      BY <1>17, <2>1
    <3>2. /\ FilterOK(options, before, tree, rules, files, v[e], e) =>
               FilterOK(options, before, tree, rules, f, v[e], e)
          /\ DoneOK(options, before, tree, rules, files, DOMAIN v, e) =>
               DoneOK(options, before, tree, rules, f, DOMAIN v, e)
      BY <1>19, VisitStays
    <3> QED
      BY <1>17, <3>1, <3>2, Zenon DEF VisitsOK
  <2>2. v[d].step # "enter" /\ v[d].step # "done"
    BY <1>18
  <2> QED
    BY <1>24, <2>1, <2>2, Zenon DEF VisitsOK
<1>26. OutcomeOK(outcome', v)
  BY <1>1 DEF OutcomeOK
<1> QED
  BY <1>1, <1>15, <1>16, <1>20, <1>22, <1>23, <1>25, <1>26

\* The visit is over, and its subdirectories are to be listed.
LEMMA VisitSubdirectoriesStep ==
  ASSUME WalkInv, NEW d \in DOMAIN visits, VisitSubdirectories(d)
  PROVE  WalkInv'
<1> USE DEF WalkInv
<1>1. /\ outcome = "walking" /\ visits[d].step = "filter" /\ visits[d].left = <<>>
      /\ UNCHANGED <<options, before, tree, rules, files, outcome, packages, owner>>
  BY DEF VisitSubdirectories, At
<1>2. d \in Paths
  BY Zenon DEF ChainOK
<1>3. IsTree(tree) /\ IsTree(before)
  BY DEF TreeOK, ScanOK
<1>4. FilterOK(options, before, tree, rules, files, visits[d], d)
  BY <1>1, Zenon DEF VisitsOK
<1> DEFINE into == visits[d].into
<1>5. PICK v : v = visits'
  OBVIOUS
<1>6. v = [e \in DOMAIN visits \cup into |->
             IF e = d THEN [step |-> "done"] ELSE IF e \in into THEN [step |-> "list"] ELSE visits[e]]
  BY <1>5, Zenon DEF VisitSubdirectories
<1>7. ASSUME NEW e \in into
      PROVE  /\ \E n \in Names : e = Append(d, n)
             /\ e \in DOMAIN before.kind /\ before.kind[e] = "directory" /\ ~Ignores(rules, e, TRUE)
             /\ e \in Paths /\ Len(e) = Len(d) + 1 /\ e # <<>> /\ Prefix(e, Len(d)) = d
             /\ \A k \in 0..Len(d) : Prefix(e, k) = Prefix(d, k)
  <2>1. PICK n \in NamesIn(before, d) : e = Append(d, n)
    BY <1>4, Zenon DEF FilterOK
  <2>2. n \in Names /\ e \in DOMAIN before.kind
    BY <1>2, <1>3, <2>1, NamesAreChildren
  <2>3. before.kind[e] = "directory" /\ ~Ignores(rules, e, TRUE)
    BY <1>4, Zenon DEF FilterOK
  <2> QED
    BY <1>2, <2>1, <2>2, <2>3, AppendFacts
<1>8. Len(d) \in Nat
  BY <1>2 DEF Paths
<1>9. ASSUME NEW e \in into PROVE e \notin DOMAIN visits
  <2> SUFFICES ASSUME e \in DOMAIN visits PROVE FALSE
    OBVIOUS
  <2>1. Len(d) \in 0..(Len(e) - 1)
    <3>1. Len(e) = Len(d) + 1
      BY <1>7
    <3> QED
      BY <1>8, <3>1
  <2>2. visits[Prefix(e, Len(d))].step = "done"
    BY <2>1, Zenon DEF ChainOK
  <2> QED
    BY <1>1, <1>7, <2>2
<1>10. \A e \in DOMAIN visits : e \notin into
  BY <1>9
<1> HIDE DEF into
<1>11. /\ DOMAIN v = DOMAIN visits \cup into
       /\ v[d] = [step |-> "done"]
       /\ \A e \in into : e # d => v[e] = [step |-> "list"]
       /\ \A e \in DOMAIN visits : e # d => v[e] = visits[e]
  BY <1>6, <1>10, Zenon
<1>12. \A e \in into : e # d
  BY <1>9
<1>13. v[d].step = "done" /\ \A e \in into : v[e].step = "list"
  BY <1>11, <1>12
<1>14. \A e \in DOMAIN visits : visits[e].step = "done" => v[e].step = "done"
  BY <1>1, <1>11, Zenon
<1>15. ChainOK(before, rules, v)
  <2>1. ASSUME NEW e \in DOMAIN visits
        PROVE  /\ e \in Paths
               /\ v[e].step \in {"list", "enter", "filter", "done"}
               /\ \A k \in 0..(Len(e) - 1) : Prefix(e, k) \in DOMAIN v /\ v[Prefix(e, k)].step = "done"
               /\ e # <<>> =>
                    e \in DOMAIN before.kind /\ before.kind[e] = "directory" /\ ~Ignores(rules, e, TRUE)
    <3>1. v[e].step \in {"list", "enter", "filter", "done"}
      <4>1. visits[e].step \in {"list", "enter", "filter", "done"}
        BY Zenon DEF ChainOK
      <4> QED
        BY <1>11, <1>13, <4>1
    <3>2. \A k \in 0..(Len(e) - 1) : Prefix(e, k) \in DOMAIN v /\ v[Prefix(e, k)].step = "done"
      <4>1. \A k \in 0..(Len(e) - 1) : Prefix(e, k) \in DOMAIN visits /\ visits[Prefix(e, k)].step = "done"
        BY Zenon DEF ChainOK
      <4> QED
        BY <1>11, <1>14, <4>1
    <3> QED
      BY <3>1, <3>2, Zenon DEF ChainOK
  <2>2. ASSUME NEW e \in into
        PROVE  /\ e \in Paths
               /\ v[e].step \in {"list", "enter", "filter", "done"}
               /\ \A k \in 0..(Len(e) - 1) : Prefix(e, k) \in DOMAIN v /\ v[Prefix(e, k)].step = "done"
               /\ e # <<>> =>
                    e \in DOMAIN before.kind /\ before.kind[e] = "directory" /\ ~Ignores(rules, e, TRUE)
    <3>1. ASSUME NEW k \in 0..(Len(e) - 1)
          PROVE  Prefix(e, k) \in DOMAIN v /\ v[Prefix(e, k)].step = "done"
      <4>1. k \in 0..Len(d) /\ (k \in 0..(Len(d) - 1) \/ k = Len(d))
        <5>1. Len(e) = Len(d) + 1
          BY <1>7
        <5> QED
          BY <1>8, <5>1
      <4>2. CASE k = Len(d)
        BY <1>7, <1>11, <1>13, <4>2
      <4>3. CASE k \in 0..(Len(d) - 1)
        <5>1. Prefix(d, k) \in DOMAIN visits /\ visits[Prefix(d, k)].step = "done"
          BY <4>3, Zenon DEF ChainOK
        <5> QED
          BY <1>7, <1>11, <1>14, <4>1, <5>1
      <4> QED
        BY <4>1, <4>2, <4>3
    <3>2. v[e].step \in {"list", "enter", "filter", "done"}
      BY <1>13
    <3> QED
      BY <1>7, <3>1, <3>2
  <2>3. <<>> \in DOMAIN v
    BY <1>11 DEF ChainOK
  <2> QED
    BY <1>11, <2>1, <2>2, <2>3, Zenon DEF ChainOK
<1>16. \A e : Entered(v, e) <=> Entered(visits, e)
  <2>1. \A e \in DOMAIN visits : Entered(v, e) <=> Entered(visits, e)
    BY <1>1, <1>11, <1>13 DEF Entered
  <2>2. \A e \in into : ~Entered(v, e) /\ ~Entered(visits, e)
    BY <1>9, <1>13 DEF Entered
  <2>3. \A e : e \notin DOMAIN visits /\ e \notin into => ~Entered(v, e) /\ ~Entered(visits, e)
    BY <1>11, Zenon DEF Entered
  <2> QED
    BY <2>1, <2>2, <2>3, Zenon
<1>17. GroupsOK(options, before, tree, rules, v)
  BY <1>16, Zenon DEF GroupsOK
<1>18. FilesOK(options, before, rules, v, files)
  BY <1>16, FilesStay
<1>19. VisitsOK(options, before, tree, rules, v, files)
  <2>1. DoneOK(options, before, tree, rules, files, DOMAIN v, d)
    <3>1. DOMAIN visits[d].left = {}
      BY <1>1
    <3>2. DoneOK(options, before, tree, rules, files, into, d)
      BY <1>4, <3>1, Zenon DEF FilterOK, DoneOK, into
    <3>3. into \subseteq DOMAIN v
      BY <1>11
    <3> QED
      BY <3>2, <3>3, VisitStays
  <2>2. ASSUME NEW e \in DOMAIN visits, e # d
        PROVE  /\ v[e].step = "enter" => EnterOK(before, tree, v[e], e)
               /\ v[e].step = "filter" => FilterOK(options, before, tree, rules, files, v[e], e)
               /\ v[e].step = "done" => DoneOK(options, before, tree, rules, files, DOMAIN v, e)
    <3>1. v[e] = visits[e]
      BY <1>11, <2>2
    <3>2. DOMAIN visits \subseteq DOMAIN v
      BY <1>11
    <3>3. DoneOK(options, before, tree, rules, files, DOMAIN visits, e) =>
            DoneOK(options, before, tree, rules, files, DOMAIN v, e)
      BY <3>2, VisitStays
    <3> QED
      BY <3>1, <3>3, Zenon DEF VisitsOK
  <2>3. v[d].step # "enter" /\ v[d].step # "filter"
    BY <1>13
  <2>4. \A e \in into : v[e].step # "enter" /\ v[e].step # "filter" /\ v[e].step # "done"
    BY <1>13
  <2> QED
    BY <1>11, <2>1, <2>2, <2>3, <2>4, Zenon DEF VisitsOK
<1>20. OutcomeOK(outcome', v)
  BY <1>1 DEF OutcomeOK
<1> QED
  BY <1>1, <1>5, <1>15, <1>17, <1>18, <1>19, <1>20

\* A path goes, and no other has gone before.
LEMMA RemovePathStep ==
  ASSUME WalkInv, MaxRemovals <= 1, NEW path \in DOMAIN tree.kind, RemovePath(path)
  PROVE  WalkInv'
<1> USE DEF WalkInv
<1> DEFINE tops == {p \in DOMAIN before.kind : ~There(tree, p) /\ There(tree, Prefix(p, Len(p) - 1))}
<1>1. /\ outcome = "walking" /\ Cardinality(tops) < MaxRemovals
      /\ tree' = [kind |-> [p \in {p \in DOMAIN tree.kind : ~Within(p, path)} |-> tree.kind[p]],
                  content |-> tree.content]
      /\ UNCHANGED <<options, before, rules, visits, files, outcome, packages, owner>>
  BY Zenon DEF RemovePath
<1>2. IsTree(tree) /\ IsTree(before) /\ DOMAIN tree.kind \subseteq DOMAIN before.kind
  BY DEF TreeOK, ScanOK
<1>3. path \in Paths /\ path # <<>> /\ path \in DOMAIN before.kind
  BY <1>2, TreeFacts
\* Nothing was removed before.
<1>4. tops = {}
  <2>1. IsFiniteSet(DOMAIN before.kind)
    BY <1>2 DEF IsTree
  <2>2. IsFiniteSet(tops)
    BY <2>1, FS_Subset
  <2>3. Cardinality(tops) \in Nat
    BY <2>2, FS_CardinalityType
  <2>4. Cardinality(tops) = 0
    BY <1>1, <2>3, DiscoveryConstants
  <2> QED
    BY <2>2, <2>4, FS_EmptySet
<1>5. DOMAIN tree.kind = DOMAIN before.kind
  <2> SUFFICES ASSUME NEW r \in DOMAIN before.kind, LessOne(before, tree, r) PROVE FALSE
    BY DEF TreeOK
  <2>1. r \in Paths /\ r # <<>> /\ Len(r) \in Nat /\ 1 <= Len(r)
    BY <1>2, TreeFacts
  <2>2. ~There(tree, r)
    <3>1. Within(r, r)
      BY <2>1, WithinItself
    <3> QED
      BY <2>1, <3>1 DEF There, LessOne
  <2>3. There(tree, Prefix(r, Len(r) - 1))
    <3> DEFINE d == Prefix(r, Len(r) - 1)
    <3>1. There(before, d) /\ Len(d) = Len(r) - 1
      BY <1>2, <2>1, TreeFacts, ParentAndName
    <3>2. ~Within(d, r)
      BY <2>1, <3>1 DEF Within
    <3> HIDE DEF d
    <3> QED
      BY <3>1, <3>2, Zenon DEF There, LessOne, d
  <2> QED
    BY <1>4, <2>2, <2>3
<1>6. PICK t : t = tree'
  OBVIOUS
<1>7. /\ DOMAIN t.kind = {p \in DOMAIN tree.kind : ~Within(p, path)}
      /\ \A p \in DOMAIN t.kind : t.kind[p] = tree.kind[p]
      /\ t.content = tree.content
  <2> DEFINE kept == {p \in DOMAIN tree.kind : ~Within(p, path)}
  <2>1. t.kind = [p \in kept |-> tree.kind[p]] /\ t.content = tree.content
    BY <1>1, <1>6
  <2> QED
    BY <2>1, Zenon
<1>8. LessOne(before, t, path)
  BY <1>5, <1>7 DEF LessOne
<1>9. IsTree(t)
  BY <1>2, <1>7, RemovalLeavesTree
<1>10. TreeOK(before, t)
  <2>1. DOMAIN t.kind \subseteq DOMAIN before.kind
    BY <1>2, <1>7
  <2>2. \A p \in DOMAIN t.kind : t.kind[p] = before.kind[p]
    BY <1>7 DEF TreeOK
  <2>3. t.content = before.content
    BY <1>7 DEF TreeOK
  <2> QED
    BY <1>3, <1>8, <1>9, <2>1, <2>2, <2>3, Zenon DEF TreeOK
<1>11. \A d \in Paths : NamesIn(t, d) \subseteq NamesIn(tree, d) /\ NamesIn(tree, d) = NamesIn(before, d)
  <2> SUFFICES ASSUME NEW d \in Paths
               PROVE  NamesIn(t, d) \subseteq NamesIn(tree, d) /\ NamesIn(tree, d) = NamesIn(before, d)
    OBVIOUS
  <2>1. \A n : n \in NamesIn(t, d) <=> n \in Names /\ Append(d, n) \in DOMAIN t.kind
    BY <1>9, NamesAreChildren
  <2>2. \A n : n \in NamesIn(tree, d) <=> n \in Names /\ Append(d, n) \in DOMAIN tree.kind
    BY <1>2, NamesAreChildren
  <2>3. \A n : n \in NamesIn(before, d) <=> n \in Names /\ Append(d, n) \in DOMAIN before.kind
    BY <1>2, NamesAreChildren
  <2>4. DOMAIN t.kind \subseteq DOMAIN tree.kind
    BY <1>7
  <2> QED
    BY <1>5, <2>1, <2>2, <2>3, <2>4, Zenon
<1>12. GroupsOK(options, before, t, rules, visits)
  <2>1. ASSUME NEW d \in Paths, Entered(visits, d), There(t, d)
        PROVE  GroupOf(rules, d) = Rules(AllLines(options, before, d))
    <3>1. There(tree, d)
      BY <1>7, <2>1 DEF There
    <3>2. AllLines(options, tree, d) = AllLines(options, before, d)
      BY <1>5, SameLines
    <3> QED
      BY <2>1, <3>1, <3>2, Zenon DEF GroupsOK
  <2> QED
    BY <2>1, Zenon DEF GroupsOK
<1>13. VisitsOK(options, before, t, rules, visits, files)
  <2> SUFFICES ASSUME NEW e \in DOMAIN visits
               PROVE  /\ visits[e].step = "enter" => EnterOK(before, t, visits[e], e)
                      /\ visits[e].step = "filter" => FilterOK(options, before, t, rules, files, visits[e], e)
                      /\ visits[e].step = "done" => DoneOK(options, before, t, rules, files, DOMAIN visits, e)
    BY Zenon DEF VisitsOK
  <2>1. e \in Paths
    BY Zenon DEF ChainOK
  <2>2. EnterOK(before, tree, visits[e], e) => EnterOK(before, t, visits[e], e)
    BY <1>11, <2>1, Zenon DEF EnterOK
  <2>3. /\ FilterOK(options, before, tree, rules, files, visits[e], e) =>
             FilterOK(options, before, t, rules, files, visits[e], e)
        /\ DoneOK(options, before, tree, rules, files, DOMAIN visits, e) =>
             DoneOK(options, before, t, rules, files, DOMAIN visits, e)
    BY <1>11, <2>1, VisitStays
  <2> QED
    BY <2>2, <2>3, Zenon DEF VisitsOK
<1>14. OutcomeOK(outcome', visits)
  BY <1>1 DEF OutcomeOK
<1> QED
  BY <1>1, <1>6, <1>10, <1>12, <1>13, <1>14

\* The steps that end the walk, and what comes after it.
LEMMA EndStep ==
  ASSUME WalkInv,
         \/ \E d \in DOMAIN visits : VisitFails(d)
         \/ WalkEnds
         \/ AddPackages
         \/ PackagesFail
         \/ UNCHANGED vars
  PROVE  WalkInv'
<1> USE DEF WalkInv
<1>1. UNCHANGED <<options, before, tree, rules, visits, files>>
  BY Zenon DEF VisitFails, WalkEnds, AddPackages, PackagesFail, vars
<1>2. OutcomeOK(outcome', visits)
  <2>1. CASE \E d \in DOMAIN visits : VisitFails(d)
    BY <2>1 DEF VisitFails, OutcomeOK
  <2>2. CASE WalkEnds
    BY <2>2, Zenon DEF WalkEnds, OutcomeOK
  <2>3. CASE AddPackages
    <3>1. outcome = "listed"
      BY <2>3, Zenon DEF AddPackages
    <3> QED
      BY <3>1, Zenon DEF OutcomeOK
  <2>4. CASE PackagesFail
    BY <2>4, Zenon DEF PackagesFail, OutcomeOK
  <2>5. CASE UNCHANGED vars
    BY <2>5 DEF vars
  <2> QED
    BY <2>1, <2>2, <2>3, <2>4, <2>5
<1> QED
  BY <1>1, <1>2

\* Every step keeps the invariant.
LEMMA WalkGoesOn ==
  ASSUME MaxRemovals <= 1, WalkInv, [Next]_vars
  PROVE  WalkInv'
<1>1. ASSUME NEW d \in DOMAIN visits, Visit(d) PROVE WalkInv'
  BY <1>1, ListDirectoryStep, EnterDirectoryStep, FilterEntryStep, VisitSubdirectoriesStep,
     EndStep, Zenon DEF Visit
<1>2. ASSUME NEW path \in DOMAIN tree.kind, RemovePath(path) PROVE WalkInv'
  BY <1>2, RemovePathStep
<1>3. ASSUME WalkEnds \/ AddPackages \/ PackagesFail \/ UNCHANGED vars PROVE WalkInv'
  BY <1>3, EndStep, Zenon
<1> QED
  BY <1>1, <1>2, <1>3, Zenon DEF Next

\* The invariant of the walk, for every tree and all options, as long as at most one path
\* is removed meanwhile.
THEOREM WalkInvariant ==
  ASSUME MaxRemovals <= 1
  PROVE  Spec => []WalkInv
<1>1. Init => WalkInv
  BY WalkBegins
<1>2. WalkInv /\ [Next]_vars => WalkInv'
  BY WalkGoesOn
<1> QED
  BY <1>1, <1>2, PTL DEF Spec

\* However the visits interleave, and whatever single path somebody removes meanwhile, a
\* walk lists the files git would not ignore and the options include, and nothing else
\* that is there.  After two removals this need not be so: the rules of one directory can
\* be those of the tree the scan began with, and those of another what is left of it.
\* (discover-files.ts discoverFiles, glob.ts walkFiles)
THEOREM SourcesTheorem ==
  ASSUME MaxRemovals <= 1
  PROVE  Spec => []SourcesAreListed
<1>1. WalkInv => SourcesAreListed
  <2>1. CASE outcome \in {"listed", "owned"}
    BY <2>1, WalkedFilesAreSources
  <2>2. CASE outcome \notin {"listed", "owned"}
    BY <2>2, Zenon DEF SourcesAreListed
  <2> QED
    BY <2>1, <2>2
<1> QED
  BY <1>1, WalkInvariant, PTL
-----------------------------------------------------------------------------
\* Packages and their files.

\* The globs of the workspaces are sequences of names.
LEMMA PatternsArePatterns ==
  ASSUME NEW t, IsTree(t), NEW pattern \in WorkspacePatterns(t)
  PROVE  pattern.glob \in Paths
<1> DEFINE own == IF Readable(t, <<>>) THEN ToSet(t.content[<<"package.json">>].workspaces) ELSE {}
           pnpm == IF There(t, <<"pnpm-workspace.yaml">>)
                   THEN {p \in ToSet(t.content[<<"pnpm-workspace.yaml">>]) : ~p.negated} ELSE {}
<1>1. \A s \in Seq(Patterns) : \A x \in ToSet(s) : x.glob \in Paths
  <2>1. \A x \in Patterns : x.glob \in Paths
    BY DEF Patterns, Paths
  <2>2. \A s \in Seq(Patterns) : \A x \in ToSet(s) : x \in Patterns
    BY DEF ToSet
  <2> QED
    BY <2>1, <2>2, Zenon
<1>2. \A x \in own : x.glob \in Paths
  <2>1. CASE Readable(t, <<>>)
    BY <1>1, <2>1, Zenon DEF IsTree
  <2>2. CASE ~Readable(t, <<>>)
    BY <2>2
  <2> QED
    BY <2>1, <2>2
<1>3. \A x \in pnpm : x.glob \in Paths
  <2>1. CASE There(t, <<"pnpm-workspace.yaml">>)
    BY <1>1, <2>1, Zenon DEF IsTree
  <2>2. CASE ~There(t, <<"pnpm-workspace.yaml">>)
    BY <2>2
  <2> QED
    BY <2>1, <2>2
<1>4. \A x \in CommonWorkspaces : x.glob \in Paths
  <2>1. "packages" \in Names /\ "*" \in Names
    BY DiscoveryConstants
  <2>2. \A x, y \in Names : <<x, y>> \in Seq(Names)
    OBVIOUS
  <2>3. <<"packages", "*">> \in Seq(Names)
    BY <2>1, <2>2, Zenon
  <2>4. \A x \in CommonWorkspaces : x.glob = <<"packages", "*">>
    BY DEF CommonWorkspaces
  <2> QED
    BY <2>3, <2>4, Zenon DEF Paths
<1>5. WorkspacePatterns(t) = IF own \cup pnpm = {} THEN CommonWorkspaces ELSE own \cup pnpm
  BY Zenon DEF WorkspacePatterns
<1> HIDE DEF own, pnpm
<1> QED
  BY <1>2, <1>3, <1>4, <1>5

\* What the packages of a tree are: the directories whose package.json some pattern
\* matches, and the root.
Globs(t) == {Append(p.glob, "package.json") : p \in {p \in WorkspacePatterns(t) : ~p.negated}}

Named(t) ==
  {d \in {<<>>} \cup DOMAIN t.kind :
     d = <<>> \/ \E glob \in Globs(t) : Fits(glob, ManifestOf(d)) /\ ~Installed(d, glob)}

\* detectWorkspacePackages finds just those that can be read.
LEMMA PackagesAreNamed ==
  ASSUME NEW t, IsTree(t)
  PROVE  DetectPackages(t) = {d \in Named(t) : Readable(t, d)}
<1> DEFINE found == UNION {FindWorkspaceManifests(t, pattern) : pattern \in WorkspacePatterns(t)}
           Parent(p) == Prefix(p, Len(p) - 1)
<1>1. DetectPackages(t) = {d \in {<<>>} \cup {Parent(p) : p \in found} : Readable(t, d)}
  BY Zenon DEF DetectPackages
<1>2. ASSUME NEW p \in found
      PROVE  Parent(p) \in Named(t)
  <2>1. PICK pattern \in WorkspacePatterns(t) : p \in FindWorkspaceManifests(t, pattern)
    BY <1>2
  <2> DEFINE glob == Append(pattern.glob, "package.json")
  <2>2. ~pattern.negated /\ p \in ManifestsBelow(t, Base(glob), glob)
    BY <2>1 DEF FindWorkspaceManifests
  <2> HIDE DEF glob
  <2>3. p \in DOMAIN t.kind /\ t.kind[p] \in {"file", "link"} /\ Fits(glob, p)
    BY <2>2, Zenon DEF ManifestsBelow
  <2>4. pattern.glob \in Paths
    BY PatternsArePatterns
  <2>5. p = ManifestOf(Parent(p)) /\ ~Installed(Parent(p), glob)
    BY <2>2, <2>3, <2>4, ManifestsAreTheMatches DEF glob
  <2>6. glob \in Globs(t)
    BY <2>2, Zenon DEF Globs, glob
  <2>7. Parent(p) \in {<<>>} \cup DOMAIN t.kind
    BY <2>3, TreeFacts DEF There
  <2>8. Fits(glob, ManifestOf(Parent(p)))
    BY <2>3, <2>5
  <2> HIDE DEF Parent
  <2> QED
    BY <2>5, <2>6, <2>7, <2>8, Zenon DEF Named
<1>3. ASSUME NEW d \in Named(t), Readable(t, d)
      PROVE  d \in {<<>>} \cup {Parent(p) : p \in found}
  <2> SUFFICES ASSUME d # <<>> PROVE \E p \in found : d = Parent(p)
    BY Zenon
  <2>1. d \in DOMAIN t.kind /\ \E glob \in Globs(t) : Fits(glob, ManifestOf(d)) /\ ~Installed(d, glob)
    BY Zenon DEF Named
  <2>2. PICK pattern \in WorkspacePatterns(t) :
          /\ ~pattern.negated
          /\ Fits(Append(pattern.glob, "package.json"), ManifestOf(d))
          /\ ~Installed(d, Append(pattern.glob, "package.json"))
    BY <2>1, Zenon DEF Globs
  <2> DEFINE glob == Append(pattern.glob, "package.json")
             p == ManifestOf(d)
  <2>3. d \in Paths /\ "package.json" \in Names
    BY <2>1, TreeFacts, DiscoveryConstants
  <2>4. p # <<>> /\ Len(p) - 1 = Len(d) /\ Prefix(p, Len(d)) = d
    <3>1. p # <<>> /\ Len(p) = Len(d) + 1 /\ Prefix(p, Len(d)) = d
      BY <2>3, AppendFacts DEF ManifestOf
    <3>2. Len(d) \in Nat
      BY <2>3 DEF Paths
    <3> QED
      BY <3>1, <3>2
  <2> HIDE DEF p
  <2>5. p \in DOMAIN t.kind /\ t.kind[p] \in {"file", "link"}
    BY <1>3, <2>4, Zenon DEF Readable, There, p
  <2>6. d = Parent(p)
    BY <2>4
  <2>7. pattern.glob \in Paths
    BY PatternsArePatterns
  <2>8. Fits(glob, p) /\ ~Installed(Parent(p), glob)
    BY <2>2, <2>6 DEF p
  <2>9. p \in ManifestsBelow(t, Base(glob), glob)
    BY <2>5, <2>7, <2>8, ManifestsAreTheMatches
  <2>10. p \in FindWorkspaceManifests(t, pattern)
    BY <2>2, <2>9, Zenon DEF FindWorkspaceManifests
  <2> QED
    BY <2>6, <2>10, Zenon
<1>4. <<>> \in Named(t)
  BY Zenon DEF Named
<1> HIDE DEF found, Parent
<1> QED
  BY <1>1, <1>2, <1>3, <1>4, Zenon

\* The package the search from the deepest on finds is the nearest around a file.
LEMMA NearestIsNearest ==
  ASSUME NEW f \in Paths, NEW directories, NEW c \in directories, Within(f, c),
         \A d \in directories : d \in Paths
  PROVE  /\ Nearest(f, directories) \in directories
         /\ Within(f, Nearest(f, directories))
         /\ \A d \in directories : Within(f, d) => Within(Nearest(f, directories), d)
<1> DEFINE around == {d \in directories : Within(f, d)}
           lengths == {Len(d) : d \in around}
<1>1. Len(f) \in Nat /\ \A d \in around : Len(d) \in 0..Len(f)
  BY DEF Within, Paths
<1>2. PICK m \in lengths : \A n \in lengths : n <= m
  <2>1. lengths \in SUBSET (0..Len(f)) /\ lengths # {}
    BY <1>1
  <2> HIDE DEF lengths
  <2> QED
    BY <1>1, <2>1, LargestNumber
<1>3. PICK e \in around : Len(e) = m
  BY <1>2
<1>4. \A d \in directories : Within(f, d) => Within(f, e) /\ Len(d) <= Len(e)
  BY <1>2, <1>3
<1> DEFINE near == Nearest(f, directories)
<1>5. near \in directories /\ \A d \in directories : Within(f, d) => Within(f, near) /\ Len(d) <= Len(near)
  <2>1. \E x \in directories : \A d \in directories : Within(f, d) => Within(f, x) /\ Len(d) <= Len(x)
    BY <1>3, <1>4
  <2> QED
    BY <2>1, Zenon DEF Nearest
<1> HIDE DEF near
<1>6. Within(f, near) /\ near \in Paths
  BY <1>5
<1>7. ASSUME NEW d \in directories, Within(f, d) PROVE Within(near, d)
  <2>1. Len(d) <= Len(near) /\ Len(d) \in Nat /\ Len(near) \in Nat /\ Len(near) <= Len(f)
    BY <1>5, <1>6, <1>7 DEF Within, Paths
  <2>2. Prefix(f, Len(near)) = near /\ Prefix(f, Len(d)) = d
    BY <1>6, <1>7 DEF Within
  <2>3. Len(near) \in 0..Len(f) /\ Len(d) \in 0..Len(near)
    BY <1>1, <2>1
  <2>4. Prefix(Prefix(f, Len(near)), Len(d)) = Prefix(f, Len(d))
    BY <2>3, PrefixOfPrefix
  <2> QED
    BY <2>1, <2>2, <2>4 DEF Within
<1> QED
  BY <1>5, <1>6, <1>7 DEF near

\* What is a path, and what a tree, whatever is removed meanwhile.
VisitTyped(visit) ==
  /\ Fields(visit)
  /\ visit.left = [n \in DOMAIN visit.left |-> visit.left[n]]
  /\ DOMAIN visit.left \subseteq Names
  /\ visit.into \subseteq Paths

WalkTyped(t, v, f) ==
  /\ IsTree(t)
  /\ f \subseteq Paths
  /\ DOMAIN v \subseteq Paths
  /\ \A d \in DOMAIN v : v[d].step \in {"enter", "filter"} => VisitTyped(v[d])

WalkTypes == WalkTyped(tree, visits, files)

\* Every step keeps the types of the walk, however often something is removed.
LEMMA TypesStay ==
  ASSUME WalkTypes, [Next]_vars
  PROVE  WalkTypes'
<1> USE DEF WalkTypes
<1>1. PICK v, f, t : v = visits' /\ f = files' /\ t = tree'
  OBVIOUS
<1>2. ASSUME t = tree, NEW d \in DOMAIN visits, DOMAIN v = DOMAIN visits,
             \A e \in DOMAIN visits : e # d => v[e] = visits[e],
             v[d].step \in {"enter", "filter"} => VisitTyped(v[d]),
             f \subseteq Paths
      PROVE  WalkTypes'
  BY <1>1, <1>2, Zenon DEF WalkTyped
<1>3. ASSUME NEW d \in DOMAIN visits, ListDirectory(d) PROVE WalkTypes'
  <2> DEFINE listed == [step |-> "enter", into |-> {},
                        left |-> [name \in NamesIn(tree, d) |-> tree.kind[Append(d, name)]]]
  <2>1. /\ visits' = [visits EXCEPT ![d] = IF ~There(tree, d) THEN [step |-> "done"] ELSE listed]
        /\ UNCHANGED <<tree, files>>
    BY <1>3, Zenon DEF ListDirectory
  <2>2. /\ DOMAIN v = DOMAIN visits
        /\ \A e \in DOMAIN visits : e # d => v[e] = visits[e]
        /\ v[d] = IF ~There(tree, d) THEN [step |-> "done"] ELSE listed
    BY <1>1, <2>1
  <2>3. NamesIn(tree, d) \subseteq Names
    BY NamesAreChildren DEF WalkTyped
  <2>4. VisitTyped(listed)
    <3>1. /\ DOMAIN listed.left = NamesIn(tree, d) /\ listed.into = {}
          /\ listed = [step |-> listed.step, into |-> listed.into, left |-> listed.left]
          /\ listed.left = [n \in DOMAIN listed.left |-> listed.left[n]]
      OBVIOUS
    <3> HIDE DEF listed
    <3> QED
      BY <2>3, <3>1 DEF VisitTyped, Fields
  <2>5. v[d].step \in {"enter", "filter"} => v[d] = listed
    BY <2>2
  <2> HIDE DEF listed
  <2> QED
    BY <1>1, <1>2, <2>1, <2>2, <2>4, <2>5 DEF WalkTyped
<1>4. ASSUME NEW d \in DOMAIN visits, EnterDirectory(d) PROVE WalkTypes'
  <2>1. /\ visits[d].step = "enter"
        /\ visits' = [visits EXCEPT ![d].step = "filter"]
        /\ UNCHANGED <<tree, files>>
    BY <1>4, Zenon DEF EnterDirectory, At
  <2>2. VisitTyped(visits[d])
    BY <2>1 DEF WalkTyped
  <2>3. /\ DOMAIN v = DOMAIN visits
        /\ \A e \in DOMAIN visits : e # d => v[e] = visits[e]
        /\ v[d] = [visits[d] EXCEPT !.step = "filter"]
    BY <1>1, <2>1
  <2>4. v[d] = [step |-> "filter", into |-> visits[d].into, left |-> visits[d].left]
    BY <2>2, <2>3 DEF VisitTyped, Fields
  <2>5. VisitTyped(v[d])
    BY <2>2, <2>4 DEF VisitTyped, Fields
  <2> QED
    BY <1>1, <1>2, <2>1, <2>3, <2>5 DEF WalkTyped
<1>5. ASSUME NEW d \in DOMAIN visits, FilterEntry(d) PROVE WalkTypes'
  <2> DEFINE old == visits[d].left
             chosen == CHOOSE n \in DOMAIN old : TRUE
             p == Append(d, chosen)
             enters == old[chosen] = "directory" /\ Accepts(p, TRUE)
             isFile == old[chosen] = "file" \/ (old[chosen] = "link" /\ There(tree, p))
             takes == old[chosen] # "directory" /\ isFile /\ Accepts(p, FALSE)
             rest == [n \in DOMAIN old \ {chosen} |-> old[n]]
             into == visits[d].into \cup {q \in {p} : enters}
             next == [step |-> "filter", into |-> into, left |-> rest]
  <2>1. /\ visits[d].step = "filter" /\ old # <<>>
        /\ visits' = [visits EXCEPT ![d] = next]
        /\ files' = IF takes THEN files \cup {p} ELSE files
        /\ UNCHANGED tree
    BY <1>5, Zenon DEF FilterEntry, At
  <2>2. VisitTyped(visits[d]) /\ d \in Paths /\ files \subseteq Paths
    BY <2>1 DEF WalkTyped
  <2>3. chosen \in DOMAIN old
    <3> SUFFICES ASSUME DOMAIN old = {} PROVE FALSE
      OBVIOUS
    <3>1. old = [n \in DOMAIN old |-> old[n]]
      BY <2>2, Zenon DEF VisitTyped
    <3> HIDE DEF old
    <3>2. old = <<>>
      BY <3>1
    <3> QED
      BY <2>1, <3>2 DEF old
  <2>4. p \in Paths
    BY <2>2, <2>3, AppendFacts DEF VisitTyped
  <2>5. /\ DOMAIN v = DOMAIN visits
        /\ \A e \in DOMAIN visits : e # d => v[e] = visits[e]
        /\ v[d] = next
    <3> HIDE DEF next
    <3> QED
      BY <1>1, <2>1
  <2>6. VisitTyped(next)
    <3>1. DOMAIN rest \subseteq Names /\ rest = [n \in DOMAIN rest |-> rest[n]]
      BY <2>2 DEF VisitTyped
    <3>2. into \subseteq Paths
      BY <2>2, <2>4, Zenon DEF VisitTyped
    <3> HIDE DEF rest, into
    <3>3. next.left = rest /\ next.into = into /\ Fields(next)
      BY DEF Fields
    <3> QED
      BY <3>1, <3>2, <3>3, Zenon DEF VisitTyped
  <2>7. files' \subseteq Paths
    <3> HIDE DEF takes, p
    <3>1. CASE takes
      BY <2>1, <2>2, <2>4, <3>1, Zenon
    <3>2. CASE ~takes
      BY <2>1, <2>2, <3>2, Zenon
    <3> QED
      BY <3>1, <3>2
  <2> HIDE DEF next
  <2> QED
    BY <1>1, <1>2, <2>1, <2>5, <2>6, <2>7
<1>6. ASSUME NEW d \in DOMAIN visits, VisitSubdirectories(d) PROVE WalkTypes'
  <2> DEFINE into == visits[d].into
  <2>1. /\ visits[d].step = "filter"
        /\ visits' = [e \in DOMAIN visits \cup into |->
                        IF e = d THEN [step |-> "done"]
                        ELSE IF e \in into THEN [step |-> "list"] ELSE visits[e]]
        /\ UNCHANGED <<tree, files>>
    BY <1>6, Zenon DEF VisitSubdirectories, At
  <2>2. into \subseteq Paths
    BY <2>1 DEF WalkTyped, VisitTyped
  <2> HIDE DEF into
  <2>3. DOMAIN v = DOMAIN visits \cup into
    BY <1>1, <2>1
  <2>4. ASSUME NEW e \in DOMAIN v, v[e].step \in {"enter", "filter"} PROVE VisitTyped(v[e])
    <3>1. v[e] = IF e = d THEN [step |-> "done"]
                 ELSE IF e \in into THEN [step |-> "list"] ELSE visits[e]
      BY <1>1, <2>1, <2>3
    <3>2. e # d /\ e \notin into /\ v[e] = visits[e] /\ e \in DOMAIN visits
      BY <2>3, <2>4, <3>1
    <3> QED
      BY <2>4, <3>2 DEF WalkTyped
  <2> QED
    BY <1>1, <2>1, <2>2, <2>3, <2>4 DEF WalkTyped
<1>7. ASSUME NEW path \in DOMAIN tree.kind, RemovePath(path) PROVE WalkTypes'
  <2> DEFINE kept == {p \in DOMAIN tree.kind : ~Within(p, path)}
  <2>1. /\ t = [kind |-> [p \in kept |-> tree.kind[p]], content |-> tree.content]
        /\ UNCHANGED <<visits, files>>
    BY <1>1, <1>7, Zenon DEF RemovePath
  <2>2. t.kind = [p \in kept |-> tree.kind[p]] /\ t.content = tree.content
    BY <2>1
  <2>3. DOMAIN t.kind = kept /\ \A p \in DOMAIN t.kind : t.kind[p] = tree.kind[p]
    BY <2>2, Zenon
  <2>4. IsTree(t)
    BY <2>2, <2>3, RemovalLeavesTree DEF WalkTyped
  <2> QED
    BY <1>1, <2>1, <2>4 DEF WalkTyped
<1>8. ASSUME UNCHANGED <<tree, visits, files>> PROVE WalkTypes'
  BY <1>8 DEF WalkTyped
<1>9. ASSUME NEW d \in DOMAIN visits, VisitFails(d) PROVE WalkTypes'
  BY <1>8, <1>9, Zenon DEF VisitFails
<1>10. ASSUME WalkEnds \/ AddPackages \/ PackagesFail \/ UNCHANGED vars PROVE WalkTypes'
  BY <1>8, <1>10, Zenon DEF WalkEnds, AddPackages, PackagesFail, vars
<1> HIDE DEF WalkTypes
<1>11. ASSUME NEW d \in DOMAIN visits, Visit(d) PROVE WalkTypes'
  BY <1>3, <1>4, <1>5, <1>6, <1>9, <1>11, Zenon DEF Visit
<1> QED
  BY <1>7, <1>10, <1>11, Zenon DEF Next

\* The walk visits paths and finds paths, in a tree, however often something is removed.
THEOREM WalkTypesTheorem == Spec => []WalkTypes
<1>1. Init => WalkTypes
  <2> SUFFICES ASSUME Init PROVE WalkTypes
    OBVIOUS
  <2>1. IsTree(tree) /\ files = {} /\ visits = [d \in {<<>>} |-> [step |-> "list"]]
    BY DiscoveryConstants, Zenon DEF Init
  <2>2. DOMAIN visits = {<<>>} /\ visits[<<>>].step = "list"
    BY <2>1
  <2>3. <<>> \in Paths
    BY DEF Paths
  <2> QED
    BY <2>1, <2>2, <2>3 DEF WalkTypes, WalkTyped
<1>2. WalkTypes /\ [Next]_vars => WalkTypes'
  BY TypesStay
<1> QED
  BY <1>1, <1>2, PTL DEF Spec

\* Packages and owners are those of the tree as it is from then on.
OwnersOK ==
  outcome = "owned" =>
    /\ packages = DetectPackages(tree)
    /\ owner = [f \in {f \in files : \E d \in packages : Within(f, d)} |-> Nearest(f, packages)]

\* After AddPackages nothing changes any more.
LEMMA OwnersStay ==
  ASSUME OwnersOK, [Next]_vars
  PROVE  OwnersOK'
<1>1. ASSUME outcome = "walking", outcome' \in {"walking", "listed", "failed"} PROVE OwnersOK'
  BY <1>1 DEF OwnersOK
<1>2. ASSUME NEW d \in DOMAIN visits, Visit(d) PROVE OwnersOK'
  <2>1. outcome = "walking" /\ (outcome' = outcome \/ outcome' = "failed")
    BY <1>2, Zenon
    DEF Visit, ListDirectory, EnterDirectory, FilterEntry, VisitSubdirectories, VisitFails, At
  <2> QED
    BY <1>1, <2>1
<1>3. ASSUME NEW path \in DOMAIN tree.kind, RemovePath(path) PROVE OwnersOK'
  <2>1. outcome = "walking" /\ outcome' = outcome
    BY <1>3, Zenon DEF RemovePath
  <2> QED
    BY <1>1, <2>1
<1>4. ASSUME WalkEnds PROVE OwnersOK'
  BY <1>1, <1>4 DEF WalkEnds
<1>5. ASSUME AddPackages PROVE OwnersOK'
  BY <1>5, Zenon DEF AddPackages, OwnersOK
<1>6. ASSUME PackagesFail PROVE OwnersOK'
  BY <1>6, Zenon DEF PackagesFail, OwnersOK
<1>7. ASSUME UNCHANGED vars PROVE OwnersOK'
  BY <1>7, Zenon DEF vars, OwnersOK
<1> QED
  BY <1>2, <1>3, <1>4, <1>5, <1>6, <1>7, Zenon DEF Next

\* For any tree, patterns and removals, the packages of a scan are the directories whose
\* package.json a pattern matches and which can be read, and each file below one belongs
\* to the nearest of them.  (workspace-packages.ts detectWorkspacePackages,
\* addPackageFileRelationships; glob.ts findWorkspacePackageJsons)
THEOREM PackagesTheorem == Spec => []PackagesOwnTheirFiles
<1>1. Init => OwnersOK
  BY DEF Init, OwnersOK
<1>2. OwnersOK /\ [Next]_vars => OwnersOK'
  BY OwnersStay
<1>3. WalkTypes /\ OwnersOK => PackagesOwnTheirFiles
  <2> SUFFICES ASSUME WalkTypes, OwnersOK, outcome = "owned" PROVE PackagesOwnTheirFiles
    BY Zenon DEF PackagesOwnTheirFiles
  <2>1. IsTree(tree) /\ files \subseteq Paths
    BY DEF WalkTypes, WalkTyped
  <2>2. packages = {d \in Named(tree) : Readable(tree, d)}
    BY <2>1, PackagesAreNamed DEF OwnersOK
  <2>3. ASSUME NEW d \in packages PROVE d \in Paths
    <3>1. d = <<>> \/ d \in DOMAIN tree.kind
      BY <2>2, Zenon DEF Named
    <3>2. <<>> \in Paths
      BY DEF Paths
    <3> QED
      BY <2>1, <3>1, <3>2, TreeFacts
  <2>4. owner = [f \in {f \in files : \E d \in packages : Within(f, d)} |-> Nearest(f, packages)]
    BY DEF OwnersOK
  <2>5. ASSUME NEW f \in files
        PROVE  LET around == {d \in packages : Within(f, d)}
               IN  IF around = {} THEN f \notin DOMAIN owner
                   ELSE owner[f] \in around /\ \A d \in around : Within(owner[f], d)
    <3> DEFINE around == {d \in packages : Within(f, d)}
    <3>1. CASE around = {}
      BY <2>4, <3>1
    <3>2. CASE around # {}
      <4>1. PICK c \in packages : Within(f, c)
        BY <3>2
      <4>2. owner[f] = Nearest(f, packages)
        BY <2>4, <4>1
      <4>3. /\ Nearest(f, packages) \in packages
            /\ Within(f, Nearest(f, packages))
            /\ \A d \in packages : Within(f, d) => Within(Nearest(f, packages), d)
        BY <2>1, <2>3, <4>1, NearestIsNearest
      <4> QED
        BY <3>2, <4>2, <4>3
    <3> QED
      BY <3>1, <3>2
  <2> QED
    BY <2>2, <2>5, Zenon DEF PackagesOwnTheirFiles, Named, Globs, Installed
<1> QED
  BY <1>1, <1>2, <1>3, WalkTypesTheorem, PTL DEF Spec
=============================================================================
