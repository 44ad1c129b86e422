----------------------------- MODULE Pure_proofs -----------------------------
(***************************************************************************)
(* Lemmas about the operators of the modules that only compute, for any     *)
(* JSON values, rules, facts, tools and lists: what the extraction of facts *)
(* collects however deep an argument is nested, which rules the evaluator   *)
(* finds, what the matchers let through, what a fold over a list comes to,  *)
(* and that of what was taken out once nothing is left to take out.        *)
(***************************************************************************)
EXTENDS CommandLine, Envelopes, Framing, SequenceTheorems, FiniteSetTheorems,
        WellFoundedInduction, TLAPS

-----------------------------------------------------------------------------
(* Numbers and lists.                                                      *)

\* A set of numbers has a least one.
LEMMA LeastNumber ==
  ASSUME NEW S \in SUBSET Nat, S # {}
  PROVE  \E x \in S : \A y \in S : x <= y
<1> DEFINE less == OpToRel(<, Nat)
<1>1. IsWellFoundedOn(less, Nat)
  BY NatLessThanWellFounded
<1>2. \A x, y \in Nat : y < x => <<y, x>> \in less
  BY DEF OpToRel
<1> HIDE DEF less
<1>3. PICK x \in S : \A y \in S : ~(<<y, x>> \in less)
  BY <1>1, WFMin
<1>4. ASSUME NEW y \in S PROVE x <= y
  <2>1. x \in Nat /\ y \in Nat
    OBVIOUS
  <2>2. ~(y < x)
    BY <1>2, <1>3, <2>1
  <2> QED
    BY <2>1, <2>2
<1> QED
  BY <1>4

\* The first place where something holds is one where it holds.
LEMMA LeastPlace ==
  ASSUME NEW n \in Nat, NEW S \in SUBSET (1..n), S # {}
  PROVE  Min(S) \in S
<1>1. \E x \in S : \A y \in S : x <= y
  <2>1. S \in SUBSET Nat
    OBVIOUS
  <2> QED
    BY <2>1, LeastNumber
<1> QED
  BY <1>1 DEF Min

\* A list is a function on the places up to its length.
LEMMA ListDomain ==
  ASSUME NEW s, IsList(s)
  PROVE  /\ Len(s) \in Nat /\ DOMAIN s = 1..Len(s)
         /\ s \in Seq(ToSet(s))
BY DEF IsList

\* One list after another has the elements of both.
LEMMA ListConcat ==
  ASSUME NEW one, IsList(one), NEW two, IsList(two)
  PROVE  IsList(one \o two) /\ ToSet(one \o two) = ToSet(one) \cup ToSet(two)
<1> DEFINE T == ToSet(one) \cup ToSet(two)
           both == one \o two
<1>1. one \in Seq(T) /\ two \in Seq(T)
  BY ListDomain
<1>2. /\ both \in Seq(T) /\ Len(both) = Len(one) + Len(two)
      /\ \A i \in 1..Len(one) : both[i] = one[i]
      /\ \A i \in 1..Len(two) : both[Len(one) + i] = two[i]
  BY <1>1
<1>3. /\ DOMAIN one = 1..Len(one) /\ Len(one) \in Nat
      /\ DOMAIN two = 1..Len(two) /\ Len(two) \in Nat
      /\ DOMAIN both = 1..(Len(one) + Len(two))
  BY <1>1, <1>2
<1> HIDE DEF both
<1>4. ToSet(one) \subseteq ToSet(both) /\ ToSet(two) \subseteq ToSet(both)
  BY <1>2, <1>3 DEF ToSet
<1>5. both \in Seq(ToSet(both))
  BY <1>2, <1>3 DEF ToSet
<1>6. \A e \in ToSet(both) : e \in T
  BY <1>2, <1>3 DEF ToSet
<1> QED
  BY <1>4, <1>5, <1>6 DEF IsList, both

\* Lists flattened have the elements of all.
LEMMA ListFlatten ==
  ASSUME NEW lists, IsList(lists), \A i \in DOMAIN lists : IsList(lists[i])
  PROVE  /\ IsList(FlattenSeq(lists))
         /\ ToSet(FlattenSeq(lists)) = UNION {ToSet(lists[i]) : i \in DOMAIN lists}
<1> DEFINE n == Len(lists)
           next(f, i) == IF i = 1 THEN lists[i] ELSE f[i - 1] \o lists[i]
           flat == CHOOSE f : f = [i \in 1..n |-> next(f, i)]
<1>1. n \in Nat /\ DOMAIN lists = 1..n
  BY ListDomain
<1>2. CASE n = 0
  <2>1. lists = <<>> /\ FlattenSeq(lists) = lists
    BY <1>1, <1>2, ListDomain DEF FlattenSeq
  <2> QED
    BY <2>1 DEF ToSet
<1>3. CASE n # 0
  <2>1. FlattenSeq(lists) = flat[n]
    BY <1>3 DEF FlattenSeq
  <2> HIDE DEF flat
  <2>2. \E f : f = [i \in 1..n |-> next(f, i)]
    <3> DEFINE Exists(k) == \E f : f = [i \in 1..k |-> next(f, i)]
               Missing == {k \in Nat : ~Exists(k)}
    <3>1. Exists(0)
      <4>1. [i \in 1..0 |-> 0] = [i \in 1..0 |-> next([j \in 1..0 |-> 0], i)]
        OBVIOUS
      <4> QED
        BY <4>1
    <3>2. ASSUME NEW k \in Nat, Exists(k) PROVE Exists(k + 1)
      <4>1. PICK g : g = [i \in 1..k |-> next(g, i)]
        BY <3>2
      <4> DEFINE f == [i \in 1..k + 1 |-> IF i <= k THEN g[i] ELSE next(g, k + 1)]
      <4>2. \A i \in 1..k : f[i] = g[i]
        OBVIOUS
      <4> HIDE DEF next
      <4>3. \A i \in 1..k : g[i] = next(g, i)
        BY <4>1
      <4>4. \A i \in 1..k + 1 : next(f, i) = next(g, i)
        BY <4>2 DEF next
      <4>5. \A i \in 1..k + 1 : f[i] = next(f, i)
        BY <4>2, <4>3, <4>4
      <4>6. f = [i \in 1..k + 1 |-> next(f, i)]
        BY <4>5
      <4> QED
        BY <4>6
    <3> HIDE DEF Exists
    <3>3. Missing = {}
      <4> SUFFICES ASSUME Missing # {} PROVE FALSE
        OBVIOUS
      <4>1. PICK k \in Missing : \A other \in Missing : k <= other
        BY LeastNumber
      <4>2. k \in Nat /\ ~Exists(k) /\ k # 0 /\ k - 1 \in Nat
        BY <3>1
      <4>3. Exists(k - 1)
        BY <4>1, <4>2
      <4> QED
        BY <3>2, <4>2, <4>3
    <3> QED
      BY <1>1, <3>3 DEF Exists
  <2>3. flat = [i \in 1..n |-> next(flat, i)]
    BY <2>2 DEF flat
  <2> DEFINE Good(k) == /\ IsList(flat[k])
                        /\ ToSet(flat[k]) = UNION {ToSet(lists[i]) : i \in 1..k}
             Wrong == {k \in 1..n : ~Good(k)}
  <2>4. Good(1)
    <3>1. flat[1] = lists[1]
      BY <1>1, <1>3, <2>3
    <3> QED
      BY <1>1, <1>3, <3>1
  <2>5. ASSUME NEW k \in 1..n, k + 1 \in 1..n, Good(k) PROVE Good(k + 1)
    <3>1. flat[k + 1] = flat[k] \o lists[k + 1]
      <4>1. flat[k + 1] = next(flat, k + 1)
        <5> HIDE DEF next
        <5> QED
          BY <2>3, <2>5
      <4>2. k + 1 # 1 /\ (k + 1) - 1 = k
        BY <1>1
      <4> QED
        BY <4>1, <4>2
    <3>2. IsList(flat[k + 1]) /\ ToSet(flat[k + 1]) = ToSet(flat[k]) \cup ToSet(lists[k + 1])
      BY <1>1, <2>5, <3>1, ListConcat
    <3>3. 1..k + 1 = (1..k) \cup {k + 1}
      BY <1>1
    <3> QED
      BY <2>5, <3>2, <3>3
  <2>6. Wrong = {}
    <3> SUFFICES ASSUME Wrong # {} PROVE FALSE
      OBVIOUS
    <3> HIDE DEF Good
    <3> Wrong \in SUBSET Nat
      BY <1>1
    <3>1. PICK k \in Wrong : \A other \in Wrong : k <= other
      BY LeastNumber
    <3>2. k \in 1..n /\ k - 1 \in 1..n /\ (k - 1) + 1 = k
      BY <1>1, <2>4, <3>1
    <3>3. Good(k - 1)
      BY <3>1, <3>2
    <3> QED
      BY <2>5, <3>1, <3>2, <3>3
  <2>7. Good(n)
    BY <1>1, <1>3, <2>6
  <2> QED
    BY <1>1, <2>1, <2>7
<1> QED
  BY <1>2, <1>3

\* Distinct takes out repetitions and nothing else.  It is a fold over the places of the
\* list, from the last one down, defined for every set of places.
LEMMA DistinctKeeps ==
  ASSUME NEW s, IsList(s)
  PROVE  IsList(Distinct(s)) /\ ToSet(Distinct(s)) = ToSet(s)
<1> DEFINE n == Len(s)
           keep(kept, e) == IF e \in ToSet(kept) THEN kept ELSE Append(kept, e)
           next(f, I) == IF I = {} THEN <<>> ELSE keep(f[I \ {Max(I)}], s[Max(I)])
           Until(k, f) == f = [I \in SUBSET (1..k) |-> next(f, I)]
           Missing == {k \in Nat : ~\E f : Until(k, f)}
           fold == CHOOSE f : Until(n, f)
<1>1. n \in Nat /\ DOMAIN s = 1..n /\ s \in Seq(ToSet(s))
  BY ListDomain
<1>2. Distinct(s) = fold[1..n]
  <2>1. Distinct(s) = (CHOOSE f : f = [I \in SUBSET DOMAIN s |-> next(f, I)])[DOMAIN s]
    BY DEF Distinct, FoldLeft, MapThenFoldSet
  <2> QED
    BY <1>1, <2>1
<1> HIDE DEF fold
<1>3. ASSUME NEW k \in Nat, NEW I \in SUBSET (1..k), I # {}
      PROVE  Max(I) \in I /\ \A i \in I : i <= Max(I)
  <2> DEFINE from == {k - i : i \in I}
  <2> \A i \in I : i \in 1..k /\ k - i \in Nat
    OBVIOUS
  <2>1. from \in SUBSET Nat /\ from # {}
    BY <1>3
  <2>2. PICK d \in from : \A other \in from : d <= other
    BY <2>1, LeastNumber
  <2>3. PICK m \in I : d = k - m
    OBVIOUS
  <2>4. \A i \in I : i <= m
    <3> SUFFICES ASSUME NEW i \in I PROVE i <= m
      OBVIOUS
    <3>1. d <= k - i /\ i \in 1..k /\ m \in 1..k
      BY <2>2
    <3> QED
      BY <2>3, <3>1
  <2>5. \E x \in I : \A y \in I : x >= y
    <3>1. \A y \in I : m >= y
      BY <2>4
    <3> QED
      BY <3>1
  <2> QED
    BY <2>5 DEF Max
<1>4. \E f : Until(n, f)
  <2>1. \E f : Until(0, f)
    <3>1. [I \in SUBSET (1..0) |-> <<>>] = [I \in SUBSET (1..0) |->
                                             next([J \in SUBSET (1..0) |-> <<>>], I)]
      OBVIOUS
    <3> QED
      BY <3>1
  <2>2. ASSUME NEW k \in Nat, \E g : Until(k, g) PROVE \E f : Until(k + 1, f)
    <3>1. PICK g : Until(k, g)
      BY <2>2
    <3> DEFINE f == [I \in SUBSET (1..k + 1) |-> IF k + 1 \in I THEN next(g, I) ELSE g[I]]
    <3>2. \A I \in SUBSET (1..k) : I \in SUBSET (1..k + 1) /\ k + 1 \notin I
      OBVIOUS
    <3>3. \A I \in SUBSET (1..k) : f[I] = g[I]
      BY <3>2
    <3>4. \A I \in SUBSET (1..k) : g[I] = next(g, I)
      <4> HIDE DEF next
      <4> QED
        BY <3>1
    <3> HIDE DEF f
    <3>5. ASSUME NEW I \in SUBSET (1..k + 1), I # {}
          PROVE  I \ {Max(I)} \in SUBSET (1..k)
      <4> k + 1 \in Nat
        OBVIOUS
      <4>1. Max(I) \in I /\ \A i \in I : i <= Max(I)
        BY <1>3, <3>5
      <4>2. ASSUME NEW i \in I \ {Max(I)} PROVE i \in 1..k
        <5>1. i \in 1..k + 1 /\ Max(I) \in 1..k + 1 /\ i <= Max(I) /\ i # Max(I)
          BY <4>1
        <5> QED
          BY <5>1
      <4> QED
        BY <4>2
    <3>6. ASSUME NEW I \in SUBSET (1..k + 1) PROVE next(f, I) = next(g, I)
      BY <3>3, <3>5
    <3>7. ASSUME NEW I \in SUBSET (1..k + 1) PROVE f[I] = next(f, I)
      <4> HIDE DEF next
      <4>1. CASE k + 1 \in I
        BY <3>6, <4>1 DEF f
      <4>2. CASE k + 1 \notin I
        <5>1. I \in SUBSET (1..k)
          <6> SUFFICES ASSUME NEW i \in I PROVE i \in 1..k
            OBVIOUS
          <6>1. i \in 1..k + 1 /\ i # k + 1
            BY <4>2
          <6> QED
            BY <6>1
        <5> QED
          BY <3>3, <3>4, <3>6, <5>1
      <4> QED
        BY <4>1, <4>2
    <3>8. DOMAIN f = SUBSET (1..k + 1) /\ f = [I \in SUBSET (1..k + 1) |-> f[I]]
      BY DEF f
    <3> HIDE DEF next
    <3>9. f = [I \in SUBSET (1..k + 1) |-> next(f, I)]
      BY <3>7, <3>8
    <3> QED
      BY <3>9
  <2> HIDE DEF Until
  <2>3. Missing = {}
    <3> SUFFICES ASSUME Missing # {} PROVE FALSE
      OBVIOUS
    <3>1. PICK k \in Missing : \A other \in Missing : k <= other
      BY LeastNumber
    <3>2. k # 0 /\ k - 1 \in Nat /\ (k - 1) + 1 = k
      BY <2>1, <3>1
    <3>3. \E g : Until(k - 1, g)
      BY <3>1, <3>2
    <3> QED
      BY <2>2, <3>1, <3>2, <3>3
  <2> QED
    BY <1>1, <2>3
<1>5. fold = [I \in SUBSET (1..n) |-> next(fold, I)]
  BY <1>4 DEF fold
<1>6. \A I \in SUBSET (1..n) : fold[I] = next(fold, I)
  <2> HIDE DEF next
  <2> QED
    BY <1>5
<1> DEFINE Good(k) == /\ IsList(fold[1..k])
                      /\ ToSet(fold[1..k]) = {s[i] : i \in 1..k}
           Wrong == {k \in 0..n : ~Good(k)}
<1>7. Good(0)
  <2> {} \in SUBSET (1..n) /\ 1..0 = {}
    OBVIOUS
  <2>1. fold[{}] = <<>>
    BY <1>6
  <2>2. <<>> \in Seq({}) /\ ToSet(<<>>) = {}
    BY DEF ToSet
  <2> QED
    BY <2>1, <2>2 DEF IsList
<1>8. ASSUME NEW k \in 0..n, k + 1 \in 0..n, Good(k) PROVE Good(k + 1)
  <2>1. k \in Nat /\ 1..k + 1 \in SUBSET (1..n) /\ k + 1 \in 1..k + 1 /\ k + 1 \in 1..n
    BY <1>1, <1>8
  <2>2. Max(1..k + 1) = k + 1
    <3> k + 1 \in Nat /\ 1..k + 1 # {} /\ 1..k + 1 \in SUBSET (1..k + 1)
      BY <2>1
    <3>1. Max(1..k + 1) \in 1..k + 1 /\ \A i \in 1..k + 1 : i <= Max(1..k + 1)
      BY <1>3
    <3>2. k + 1 <= Max(1..k + 1)
      BY <2>1, <3>1
    <3> QED
      BY <2>1, <3>1, <3>2
  <2>3. (1..k + 1) \ {k + 1} = 1..k
    BY <2>1
  <2>4. fold[1..k + 1] = keep(fold[1..k], s[k + 1])
    <3> HIDE DEF keep
    <3> QED
      BY <1>6, <2>1, <2>2, <2>3
  <2> DEFINE kept == fold[1..k]
  <2>5. {s[i] : i \in 1..k + 1} = {s[i] : i \in 1..k} \cup {s[k + 1]}
    <3>1. 1..k + 1 = (1..k) \cup {k + 1}
      BY <2>1
    <3> QED
      BY <3>1
  <2>6. IsList(<<s[k + 1]>>) /\ ToSet(<<s[k + 1]>>) = {s[k + 1]}
    <3>1. <<s[k + 1]>> \in Seq({s[k + 1]}) /\ ToSet(<<s[k + 1]>>) = {s[k + 1]}
      BY DEF ToSet
    <3> QED
      BY <3>1 DEF IsList
  <2>7. CASE s[k + 1] \in ToSet(kept)
    BY <1>8, <2>4, <2>5, <2>7
  <2>8. CASE s[k + 1] \notin ToSet(kept)
    <3>1. fold[1..k + 1] = kept \o <<s[k + 1]>>
      <4>1. fold[1..k + 1] = Append(kept, s[k + 1])
        BY <2>4, <2>8
      <4>2. kept \in Seq(ToSet(kept))
        BY <1>8 DEF IsList
      <4> HIDE DEF kept
      <4>3. Append(kept, s[k + 1]) = kept \o <<s[k + 1]>>
        BY <4>2
      <4> QED
        BY <4>1, <4>3 DEF kept
    <3> QED
      BY <1>8, <2>5, <2>6, <3>1, ListConcat
  <2> QED
    BY <2>7, <2>8
<1>9. Wrong = {}
  <2> SUFFICES ASSUME Wrong # {} PROVE FALSE
    OBVIOUS
  <2> HIDE DEF Good
  <2> Wrong \in SUBSET Nat
    BY <1>1
  <2>1. PICK k \in Wrong : \A other \in Wrong : k <= other
    BY LeastNumber
  <2>2. k \in 0..n /\ k - 1 \in 0..n /\ (k - 1) + 1 = k
    BY <1>1, <1>7, <2>1
  <2>3. Good(k - 1)
    BY <2>1, <2>2
  <2> QED
    BY <1>8, <2>1, <2>2, <2>3
<1> QED
  <2>1. Good(n)
    <3> HIDE DEF Good
    <3> n \in 0..n
      BY <1>1
    <3> QED
      BY <1>9
  <2> QED
    BY <1>1, <1>2, <2>1 DEF ToSet

-----------------------------------------------------------------------------
(* The facts of an argument.                                               *)

IsFacts(facts) == IsList(facts) /\ \A fact \in ToSet(facts) : fact.kind \in FactKind

\* The facts of v, given those of its parts.
FactsOf(f, v) ==
  CASE v.json = "array" -> FlattenSeq([i \in DOMAIN v.items |-> f[v.items[i]]])
    [] v.json = "record" ->
         CommandFacts(v)
           \o FlattenSeq([i \in DOMAIN v.fields |->
                            SecretFacts(v.fields[i].key) \o f[v.fields[i].value]])
    [] v.json = "string" -> StringFacts(v)
    [] OTHER -> <<>>

Shallower(k) == {v \in Json : Nesting[v] < k}

\* What is in a value is less deep than it.
LEMMA NestingOfParts ==
  ASSUME NEW v \in Json
  PROVE  /\ Nesting[v] \in Nat
         /\ \A w \in Parts(v) : w \in Json /\ Nesting[w] \in Nat /\ Nesting[w] < Nesting[v]
BY JsonAssumption

\* The facts of a value are made from those of its parts alone.
LEMMA FactsOfParts ==
  ASSUME NEW v \in Json, NEW f, NEW g, \A w \in Parts(v) : f[w] = g[w]
  PROVE  FactsOf(f, v) = FactsOf(g, v)
<1>1. CASE v.json = "array"
  <2>1. \A i \in DOMAIN v.items : v.items[i] \in Parts(v)
    BY <1>1 DEF Parts, ToSet
  <2>2. [i \in DOMAIN v.items |-> f[v.items[i]]] = [i \in DOMAIN v.items |-> g[v.items[i]]]
    BY <2>1
  <2> QED
    BY <1>1, <2>2 DEF FactsOf
<1>2. CASE v.json = "record"
  <2>1. \A i \in DOMAIN v.fields : v.fields[i].value \in Parts(v)
    BY <1>2 DEF Parts, ToSet
  <2>2. [i \in DOMAIN v.fields |-> SecretFacts(v.fields[i].key) \o f[v.fields[i].value]]
          = [i \in DOMAIN v.fields |-> SecretFacts(v.fields[i].key) \o g[v.fields[i].value]]
    BY <2>1
  <2> QED
    BY <1>2, <2>2 DEF FactsOf
<1>3. CASE v.json \notin {"array", "record"}
  BY <1>3 DEF FactsOf
<1> QED
  BY <1>1, <1>2, <1>3

\* The extraction is defined for every value: values are nested finitely, so what it
\* gives is settled for ever deeper ones.
LEMMA FactsUnfold ==
  ASSUME NEW v \in Json
  PROVE  ExtractFacts[v] = FactsOf(ExtractFacts, v)
<1> DEFINE Until(k, f) == f = [w \in Shallower(k) |-> FactsOf(f, w)]
           Missing == {k \in Nat : ~\E f : Until(k, f)}
           upto(k) == CHOOSE f : Until(k, f)
           all == [w \in Json |-> upto(Nesting[w] + 1)[w]]
<1>1. \E f : Until(0, f)
  <2>1. Shallower(0) = {}
    BY NestingOfParts DEF Shallower
  <2>2. [w \in {} |-> 0] = [w \in {} |-> FactsOf([u \in {} |-> 0], w)]
    OBVIOUS
  <2> QED
    BY <2>1, <2>2
<1>2. ASSUME NEW k \in Nat, \E g : Until(k, g) PROVE \E f : Until(k + 1, f)
  <2>1. PICK g : Until(k, g)
    BY <1>2
  <2> DEFINE f == [w \in Shallower(k + 1) |-> FactsOf(g, w)]
  <2>2. \A w \in Shallower(k) : w \in Shallower(k + 1)
    BY NestingOfParts DEF Shallower
  <2>3. \A w \in Shallower(k) : f[w] = g[w]
    BY <2>1, <2>2
  <2>4. \A w \in Shallower(k + 1) : \A u \in Parts(w) : u \in Shallower(k)
    BY NestingOfParts DEF Shallower
  <2> HIDE DEF f
  <2>5. ASSUME NEW w \in Shallower(k + 1) PROVE FactsOf(f, w) = FactsOf(g, w)
    BY <2>3, <2>4, FactsOfParts DEF Shallower
  <2>6. f = [w \in Shallower(k + 1) |-> FactsOf(f, w)]
    BY <2>5 DEF f
  <2> QED
    BY <2>6
<1> HIDE DEF Until
<1>3. Missing = {}
  <2> SUFFICES ASSUME Missing # {} PROVE FALSE
    OBVIOUS
  <2>1. PICK k \in Missing : \A other \in Missing : k <= other
    BY LeastNumber
  <2>2. k # 0 /\ k - 1 \in Nat /\ (k - 1) + 1 = k
    BY <1>1, <2>1
  <2>3. \E g : Until(k - 1, g)
    BY <2>1, <2>2
  <2> QED
    BY <1>2, <2>1, <2>2, <2>3
<1>4. \A k \in Nat : Until(k, upto(k))
  BY <1>3
<1> HIDE DEF upto
<1>5. ASSUME NEW k \in Nat, NEW w \in Shallower(k) PROVE upto(k)[w] = FactsOf(upto(k), w)
  BY <1>4, <1>5 DEF Until
<1>6. ASSUME NEW j \in Nat, NEW k \in Nat
      PROVE  \A w \in Shallower(j) \cap Shallower(k) : upto(j)[w] = upto(k)[w]
  <2> DEFINE Wrong == {w \in Shallower(j) \cap Shallower(k) : upto(j)[w] # upto(k)[w]}
             depths == {Nesting[w] : w \in Wrong}
  <2> SUFFICES ASSUME Wrong # {} PROVE FALSE
    OBVIOUS
  <2>1. depths \in SUBSET Nat /\ depths # {}
    BY NestingOfParts DEF Shallower
  <2>2. PICK d \in depths : \A other \in depths : d <= other
    BY <2>1, LeastNumber
  <2>3. PICK w \in Wrong : d = Nesting[w]
    OBVIOUS
  <2>4. \A u \in Parts(w) : u \in Shallower(j) \cap Shallower(k) /\ u \notin Wrong
    <3>1. w \in Json /\ Nesting[w] < j /\ Nesting[w] < k
      BY DEF Shallower
    <3> SUFFICES ASSUME NEW u \in Parts(w)
                 PROVE  u \in Shallower(j) \cap Shallower(k) /\ u \notin Wrong
      OBVIOUS
    <3>2. u \in Json /\ Nesting[u] \in Nat /\ Nesting[w] \in Nat /\ Nesting[u] < Nesting[w]
      BY <3>1, NestingOfParts
    <3>3. u \in Shallower(j) \cap Shallower(k)
      BY <3>1, <3>2 DEF Shallower
    <3>4. ~(d <= Nesting[u])
      BY <2>3, <3>2
    <3> QED
      BY <2>2, <3>3, <3>4
  <2>5. FactsOf(upto(j), w) = FactsOf(upto(k), w)
    BY <2>4, FactsOfParts DEF Shallower
  <2> QED
    BY <1>5, <2>5
<1>7. ASSUME NEW w \in Json PROVE all[w] = FactsOf(all, w)
  <2>1. Nesting[w] + 1 \in Nat /\ w \in Shallower(Nesting[w] + 1)
    BY NestingOfParts DEF Shallower
  <2>2. all[w] = FactsOf(upto(Nesting[w] + 1), w)
    BY <1>5, <2>1
  <2>3. ASSUME NEW u \in Parts(w) PROVE upto(Nesting[w] + 1)[u] = all[u]
    <3>1. /\ u \in Json /\ Nesting[u] + 1 \in Nat
          /\ u \in Shallower(Nesting[w] + 1) \cap Shallower(Nesting[u] + 1)
      BY NestingOfParts DEF Shallower
    <3> QED
      BY <1>6, <2>1, <3>1
  <2> HIDE DEF all
  <2> QED
    BY <2>2, <2>3, FactsOfParts
<1>8. all = [w \in Json |-> FactsOf(all, w)]
  <2>1. \A w \in Json : all[w] = FactsOf(all, w)
    BY <1>7
  <2>2. all = [w \in Json |-> all[w]]
    OBVIOUS
  <2> HIDE DEF all
  <2> QED
    BY <2>1, <2>2
<1> HIDE DEF all
<1>9. ExtractFacts = CHOOSE f : f = [w \in Json |-> FactsOf(f, w)]
  BY DEF ExtractFacts, FactsOf
<1>10. ExtractFacts = [w \in Json |-> FactsOf(ExtractFacts, w)]
  BY <1>8, <1>9
<1> QED
  BY <1>10

\* One fact is a list of facts.
LEMMA OneFact ==
  ASSUME NEW fact, fact.kind \in FactKind
  PROVE  IsFacts(<<fact>>) /\ ToSet(<<fact>>) = {fact}
<1>1. ToSet(<<fact>>) = {fact}
  BY DEF ToSet
<1>2. <<fact>> \in Seq({fact})
  OBVIOUS
<1> QED
  BY <1>1, <1>2 DEF IsFacts, IsList

\* No facts are a list of facts.
LEMMA NoFact == IsFacts(<<>>) /\ ToSet(<<>>) = {}
<1>1. ToSet(<<>>) = {}
  BY DEF ToSet
<1>2. <<>> \in Seq({})
  OBVIOUS
<1> QED
  BY <1>1, <1>2 DEF IsFacts, IsList

\* What a string or a key tells by itself are facts.
LEMMA OwnFacts ==
  /\ \A v : IsFacts(StringFacts(v)) /\ IsFacts(CommandFacts(v))
  /\ \A key : IsFacts(SecretFacts(key))
<1> SUFFICES ASSUME NEW v
             PROVE  /\ IsFacts(StringFacts(v)) /\ IsFacts(CommandFacts(v))
                    /\ IsFacts(SecretFacts(v))
  OBVIOUS
<1>1. IsFacts(StringFacts(v))
  <2> DEFINE path == [kind |-> "path", value |-> v.value]
             network == [kind |-> "network", value |-> v.value]
  <2>1. IsFacts(<<path>>) /\ IsFacts(<<network>>) /\ IsFacts(<<>>)
    BY OneFact, NoFact DEF FactKind
  <2> QED
    BY <2>1 DEF StringFacts
<1>2. IsFacts(CommandFacts(v))
  <2> DEFINE executable == Field(v, "executable")
             argv == Field(v, "argv")
             command == [kind |-> "command", executable |-> executable[1].value.executable,
                         argv |-> [i \in DOMAIN argv[1].value.items |->
                                     argv[1].value.items[i].text]]
  <2>1. command.kind \in FactKind
    BY DEF FactKind
  <2> HIDE DEF command
  <2>2. IsFacts(<<command>>) /\ IsFacts(<<>>)
    BY <2>1, OneFact, NoFact
  <2>3. CommandFacts(v) \in {<<command>>, <<>>}
    BY DEF CommandFacts, command
  <2> QED
    BY <2>2, <2>3
<1>3. IsFacts(SecretFacts(v))
  <2> DEFINE secret == [kind |-> "secret", label |-> v]
  <2>1. IsFacts(<<secret>>) /\ IsFacts(<<>>)
    BY OneFact, NoFact DEF FactKind
  <2> QED
    BY <2>1 DEF SecretFacts
<1> QED
  BY <1>1, <1>2, <1>3

\* Facts one after another are facts, and all are kept.
LEMMA FactsConcat ==
  ASSUME NEW one, IsFacts(one), NEW two, IsFacts(two)
  PROVE  IsFacts(one \o two) /\ ToSet(one \o two) = ToSet(one) \cup ToSet(two)
BY ListConcat DEF IsFacts

\* Lists of facts flattened are facts, and all are kept.
LEMMA FactsFlatten ==
  ASSUME NEW lists, IsList(lists), \A i \in DOMAIN lists : IsFacts(lists[i])
  PROVE  /\ IsFacts(FlattenSeq(lists))
         /\ \A i \in DOMAIN lists : ToSet(lists[i]) \subseteq ToSet(FlattenSeq(lists))
<1>1. /\ IsList(FlattenSeq(lists))
      /\ ToSet(FlattenSeq(lists)) = UNION {ToSet(lists[i]) : i \in DOMAIN lists}
  BY ListFlatten DEF IsFacts
<1>2. \A fact \in ToSet(FlattenSeq(lists)) : fact.kind \in FactKind
  <2> SUFFICES ASSUME NEW fact \in ToSet(FlattenSeq(lists)) PROVE fact.kind \in FactKind
    OBVIOUS
  <2>1. PICK i \in DOMAIN lists : fact \in ToSet(lists[i])
    BY <1>1
  <2> QED
    BY <2>1 DEF IsFacts
<1> QED
  BY <1>1, <1>2 DEF IsFacts

\* A list mapped is a list.
LEMMA MappedList ==
  ASSUME NEW s, IsList(s), NEW f, f = [i \in DOMAIN s |-> f[i]]
  PROVE  IsList(f) /\ DOMAIN f = DOMAIN s
<1>1. Len(s) \in Nat /\ DOMAIN s = 1..Len(s)
  BY ListDomain
<1>2. DOMAIN f = 1..Len(s)
  BY <1>1
<1>3. \A i \in 1..Len(s) : f[i] \in ToSet(f)
  BY <1>2 DEF ToSet
<1>4. f \in [1..Len(s) -> ToSet(f)]
  BY <1>1, <1>2, <1>3
<1> QED
  BY <1>1, <1>2, <1>4 DEF IsList

\* The facts of a value are a list, and has those of its parts in it, and a record's
\* also the labels of its keys.
FactsKept(v) ==
  /\ IsFacts(ExtractFacts[v])
  /\ \A w \in Parts(v) : ToSet(ExtractFacts[w]) \subseteq ToSet(ExtractFacts[v])
  /\ v.json = "record" =>
       /\ ToSet(CommandFacts(v)) \subseteq ToSet(ExtractFacts[v])
       /\ \A field \in ToSet(v.fields) : ToSet(SecretFacts(field.key)) \subseteq ToSet(ExtractFacts[v])

\* If the facts of its parts are facts, so are those of the value, and it keeps them.
LEMMA FactsStep ==
  ASSUME NEW v \in Json, \A w \in Parts(v) : IsFacts(ExtractFacts[w])
  PROVE  FactsKept(v)
<1>1. ExtractFacts[v] = FactsOf(ExtractFacts, v)
  BY FactsUnfold
<1>2. CASE v.json = "array"
  <2> DEFINE lists == [i \in DOMAIN v.items |-> ExtractFacts[v.items[i]]]
  <2>1. IsList(v.items)
    BY <1>2, JsonAssumption
  <2>2. IsList(lists) /\ DOMAIN lists = DOMAIN v.items
    BY <2>1, MappedList
  <2>3. \A i \in DOMAIN lists : IsFacts(lists[i])
    BY <1>2 DEF Parts, ToSet
  <2>4. ExtractFacts[v] = FlattenSeq(lists)
    BY <1>1, <1>2 DEF FactsOf
  <2>5. ASSUME NEW w \in Parts(v)
        PROVE  \E i \in DOMAIN lists : lists[i] = ExtractFacts[w]
    BY <1>2 DEF Parts, ToSet
  <2> HIDE DEF lists
  <2>6. /\ IsFacts(FlattenSeq(lists))
        /\ \A i \in DOMAIN lists : ToSet(lists[i]) \subseteq ToSet(FlattenSeq(lists))
    BY <2>2, <2>3, FactsFlatten
  <2>7. \A w \in Parts(v) : ToSet(ExtractFacts[w]) \subseteq ToSet(ExtractFacts[v])
    BY <2>4, <2>5, <2>6
  <2> QED
    BY <1>2, <2>4, <2>6, <2>7 DEF FactsKept
<1>3. CASE v.json = "record"
  <2> DEFINE of(i) == SecretFacts(v.fields[i].key) \o ExtractFacts[v.fields[i].value]
             lists == [i \in DOMAIN v.fields |-> of(i)]
  <2>1. IsList(v.fields)
    BY <1>3, JsonAssumption
  <2>2. IsList(lists) /\ DOMAIN lists = DOMAIN v.fields
    BY <2>1, MappedList
  <2>3. ASSUME NEW i \in DOMAIN v.fields
        PROVE  /\ IsFacts(of(i))
               /\ ToSet(SecretFacts(v.fields[i].key)) \subseteq ToSet(of(i))
               /\ ToSet(ExtractFacts[v.fields[i].value]) \subseteq ToSet(of(i))
    <3>1. v.fields[i].value \in Parts(v)
      BY <1>3 DEF Parts, ToSet
    <3>2. IsFacts(SecretFacts(v.fields[i].key)) /\ IsFacts(ExtractFacts[v.fields[i].value])
      BY <3>1, OwnFacts
    <3> QED
      BY <3>2, FactsConcat
  <2>4. ExtractFacts[v] = CommandFacts(v) \o FlattenSeq(lists)
    BY <1>1, <1>3 DEF FactsOf
  <2>5. \A i \in DOMAIN lists : lists[i] = of(i)
    OBVIOUS
  <2> HIDE DEF lists, of
  <2>6. /\ IsFacts(FlattenSeq(lists))
        /\ \A i \in DOMAIN lists : ToSet(lists[i]) \subseteq ToSet(FlattenSeq(lists))
    BY <2>2, <2>3, <2>5, FactsFlatten
  <2>7. /\ IsFacts(ExtractFacts[v])
        /\ ToSet(CommandFacts(v)) \subseteq ToSet(ExtractFacts[v])
        /\ \A i \in DOMAIN lists : ToSet(lists[i]) \subseteq ToSet(ExtractFacts[v])
    BY <2>4, <2>6, OwnFacts, FactsConcat
  <2>8. ASSUME NEW w \in Parts(v)
        PROVE  ToSet(ExtractFacts[w]) \subseteq ToSet(ExtractFacts[v])
    <3>1. PICK i \in DOMAIN v.fields : w = v.fields[i].value
      BY <1>3 DEF Parts, ToSet
    <3> QED
      BY <2>2, <2>3, <2>5, <2>7, <3>1
  <2>9. ASSUME NEW field \in ToSet(v.fields)
        PROVE  ToSet(SecretFacts(field.key)) \subseteq ToSet(ExtractFacts[v])
    <3>1. PICK i \in DOMAIN v.fields : field = v.fields[i]
      BY DEF ToSet
    <3> QED
      BY <2>2, <2>3, <2>5, <2>7, <3>1
  <2> QED
    BY <2>7, <2>8, <2>9 DEF FactsKept
<1>4. CASE v.json \notin {"array", "record"}
  <2>1. Parts(v) = {}
    BY <1>4 DEF Parts
  <2>2. ExtractFacts[v] \in {StringFacts(v), <<>>}
    BY <1>1, <1>4 DEF FactsOf
  <2> QED
    BY <1>4, <2>1, <2>2, OwnFacts, NoFact DEF FactsKept
<1> QED
  BY <1>2, <1>3, <1>4

\* That holds of every value, for one of least nesting for which it does not has parts
\* for which it does.
LEMMA FactsAreKept ==
  ASSUME NEW v \in Json
  PROVE  FactsKept(v)
<1> DEFINE Wrong == {w \in Json : ~FactsKept(w)}
           depths == {Nesting[w] : w \in Wrong}
<1> SUFFICES ASSUME Wrong # {} PROVE FALSE
  OBVIOUS
<1>1. depths \in SUBSET Nat /\ depths # {}
  BY NestingOfParts
<1>2. PICK d \in depths : \A other \in depths : d <= other
  BY <1>1, LeastNumber
<1>3. PICK w \in Wrong : d = Nesting[w]
  OBVIOUS
<1>4. ASSUME NEW u \in Parts(w) PROVE IsFacts(ExtractFacts[u])
  <2>1. /\ u \in Json /\ Nesting[u] \in Nat /\ Nesting[w] \in Nat
        /\ Nesting[u] < Nesting[w]
    BY NestingOfParts
  <2>2. u \notin Wrong
    BY <1>2, <1>3, <2>1
  <2> QED
    BY <2>1, <2>2 DEF FactsKept
<1> QED
  BY <1>4, FactsStep

-----------------------------------------------------------------------------
(* What the evaluator finds.                                               *)

\* A rule of an action is found when one of the list matches.
LEMMA FirstFound ==
  ASSUME NEW rules, Len(rules) \in Nat, NEW action, NEW call, NEW capability
  PROVE  FirstRule(rules, action, call, capability) # 0
           <=> \E i \in 1..Len(rules) : /\ rules[i].action = action
                                        /\ RuleMatches(rules[i], call, capability)
<1> DEFINE I == {i \in 1..Len(rules) : rules[i].action = action
                                         /\ RuleMatches(rules[i], call, capability)}
<1>1. FirstRule(rules, action, call, capability) = IF I # {} THEN Min(I) ELSE 0
  BY DEF FirstRule, SelectInSeq
<1>2. I # {} => Min(I) \in I
  BY LeastPlace
<1> QED
  BY <1>1, <1>2

\* A capability is denied by a rule exactly when some deny rule matches.
LEMMA DeniedByRule ==
  ASSUME NEW rules, NEW call, NEW capability, NEW approvalHook
  PROVE  LET decision == EvaluateCapability(rules, call, capability, approvalHook)
         IN  /\ FirstRule(rules, "deny", call, capability) # 0
                  => decision.action = "deny"
             /\ decision.evidence[1].code = "policy.rule_deny"
                  => FirstRule(rules, "deny", call, capability) # 0
BY DEF EvaluateCapability, Decision, DenyFor

\* A fact that is blocked denies the call.
LEMMA BlockedIsDenied ==
  ASSUME NEW fact, fact.kind \in FactKind, Blocked(fact)
  PROVE  /\ BlockedFor(fact).action = "deny"
         /\ BlockedFor(fact).evidence[1].code # "policy.rule_deny"
BY DEF FactKind, Blocked, BlockedFor, DenyFor, Decision

\* The first blocked fact that is found is a blocked fact.
LEMMA FirstBlocked ==
  ASSUME NEW facts, IsFacts(facts), SelectInSeq(facts, Blocked) # 0
  PROVE  /\ facts[SelectInSeq(facts, Blocked)].kind \in FactKind
         /\ Blocked(facts[SelectInSeq(facts, Blocked)])
<1> DEFINE I == {i \in 1..Len(facts) : Blocked(facts[i])}
<1>1. Len(facts) \in Nat /\ DOMAIN facts = 1..Len(facts)
  BY ListDomain DEF IsFacts
<1>2. SelectInSeq(facts, Blocked) = IF I # {} THEN Min(I) ELSE 0
  BY DEF SelectInSeq
<1>3. SelectInSeq(facts, Blocked) \in I
  BY <1>1, <1>2, LeastPlace
<1> QED
  BY <1>1, <1>3 DEF IsFacts, ToSet

\* A call one of whose capabilities a rule denies is denied, whatever else is so.
LEMMA DenyRuleDenies ==
  ASSUME NEW rules, NEW call, NEW approvalHook,
         IsList(Distinct(call.capabilities)), IsFacts(call.facts),
         NEW i \in DOMAIN Distinct(call.capabilities),
         FirstRule(rules, "deny", call, Distinct(call.capabilities)[i]) # 0
  PROVE  EvaluateToolCall(rules, call, approvalHook).action = "deny"
<1> DEFINE capabilities == Distinct(call.capabilities)
           blocked == SelectInSeq(call.facts, Blocked)
           decisions == [k \in DOMAIN capabilities |->
                           EvaluateCapability(rules, call, capabilities[k], approvalHook)]
           denied == SelectInSeq(decisions, LAMBDA d : d.action = "deny")
           D == {k \in 1..Len(decisions) : decisions[k].action = "deny"}
<1>1. Len(capabilities) \in Nat /\ DOMAIN capabilities = 1..Len(capabilities)
  BY ListDomain
<1>2. Len(decisions) = Len(capabilities)
  BY <1>1
<1>3. denied = IF D # {} THEN Min(D) ELSE 0
  BY DEF SelectInSeq
<1>4. decisions[i].action = "deny"
  BY DeniedByRule
<1>5. denied \in D
  BY <1>1, <1>2, <1>3, <1>4, LeastPlace
<1>6. denied # 0 /\ decisions[denied].action = "deny"
  BY <1>1, <1>2, <1>5
<1>7. CASE blocked # 0
  <2>1. BlockedFor(call.facts[blocked]).action = "deny"
    BY <1>7, FirstBlocked, BlockedIsDenied
  <2> QED
    BY <1>7, <2>1 DEF EvaluateToolCall, DenyFor, Decision
<1>8. CASE blocked = 0
  BY <1>6, <1>8 DEF EvaluateToolCall, Combined, DenyFor, Decision
<1> QED
  BY <1>7, <1>8 DEF SelectInSeq

\* A call that is denied by a rule has a capability that a rule denies.
LEMMA DeniedByDenyRule ==
  ASSUME NEW rules, NEW call, NEW approvalHook,
         IsList(Distinct(call.capabilities)), IsFacts(call.facts),
         EvaluateToolCall(rules, call, approvalHook).action = "deny",
         EvaluateToolCall(rules, call, approvalHook).evidence[1].code = "policy.rule_deny"
  PROVE  /\ rules # Absent
         /\ \E i \in DOMAIN Distinct(call.capabilities) :
              FirstRule(rules, "deny", call, Distinct(call.capabilities)[i]) # 0
<1> DEFINE capabilities == Distinct(call.capabilities)
           blocked == SelectInSeq(call.facts, Blocked)
           decisions == [k \in DOMAIN capabilities |->
                           EvaluateCapability(rules, call, capabilities[k], approvalHook)]
           denied == SelectInSeq(decisions, LAMBDA d : d.action = "deny")
           D == {k \in 1..Len(decisions) : decisions[k].action = "deny"}
           answered == EvaluateToolCall(rules, call, approvalHook)
<1>1. Len(capabilities) \in Nat /\ DOMAIN capabilities = 1..Len(capabilities)
  BY ListDomain
<1>2. Len(decisions) = Len(capabilities)
  BY <1>1
<1>3. denied = IF D # {} THEN Min(D) ELSE 0
  BY DEF SelectInSeq
<1>4. denied # 0 => denied \in DOMAIN capabilities
  BY <1>1, <1>2, <1>3, LeastPlace
<1>5. rules # Absent
  BY DEF EvaluateToolCall, DenyFor, Decision
<1>6. blocked = 0
  <2> SUFFICES ASSUME blocked # 0 PROVE FALSE
    OBVIOUS
  <2>1. answered = BlockedFor(call.facts[blocked])
    BY <1>5 DEF EvaluateToolCall
  <2> QED
    BY <2>1, FirstBlocked, BlockedIsDenied
<1>7. denied # 0 /\ answered = decisions[denied]
  BY <1>5, <1>6 DEF EvaluateToolCall, Combined, DenyFor, Decision
<1>8. FirstRule(rules, "deny", call, capabilities[denied]) # 0
  BY <1>4, <1>7, DeniedByRule
<1> QED
  BY <1>4, <1>5, <1>7, <1>8

\* A deny rule that matches for some facts matches for more of them.
LEMMA DenyTakesMore ==
  ASSUME NEW rule, rule.action = "deny", NEW call, NEW other, NEW capability,
         other.tool = call.tool, ToSet(call.facts) \subseteq ToSet(other.facts),
         RuleMatches(rule, call, capability)
  PROVE  RuleMatches(rule, other, capability)
<1>1. ASSUME NEW kind \in FactKind PROVE MatcherMatches(kind, rule, other.facts)
  <2>1. MatcherMatches(kind, rule, call.facts)
    BY DEF RuleMatches
  <2> QED
    BY <2>1 DEF MatcherMatches
<1> QED
  BY <1>1 DEF RuleMatches

\* A call is allowed only if no fact of it is blocked and for each of its capabilities
\* an allow rule matches.
LEMMA AllowedByRules ==
  ASSUME NEW rules, NEW call, NEW approvalHook, rules = Absent \/ IsList(rules),
         IsList(call.capabilities), IsFacts(call.facts),
         EvaluateToolCall(rules, call, approvalHook).action = "allow"
  PROVE  /\ rules # Absent
         /\ \A fact \in ToSet(call.facts) : ~Blocked(fact)
         /\ \A capability \in ToSet(call.capabilities) : \E rule \in ToSet(rules) :
              rule.action = "allow" /\ RuleMatches(rule, call, capability)
<1> DEFINE capabilities == Distinct(call.capabilities)
           blocked == SelectInSeq(call.facts, Blocked)
           decision(i) == EvaluateCapability(rules, call, capabilities[i], approvalHook)
           decisions == [i \in DOMAIN capabilities |-> decision(i)]
           denied == SelectInSeq(decisions, LAMBDA d : d.action = "deny")
           D == {i \in 1..Len(decisions) : decisions[i].action = "deny"}
           B == {i \in 1..Len(call.facts) : Blocked(call.facts[i])}
           answered == EvaluateToolCall(rules, call, approvalHook)
<1>1. /\ Len(capabilities) \in Nat /\ DOMAIN capabilities = 1..Len(capabilities)
      /\ ToSet(capabilities) = ToSet(call.capabilities)
      /\ Len(call.facts) \in Nat /\ DOMAIN call.facts = 1..Len(call.facts)
  BY DistinctKeeps, ListDomain DEF IsFacts
<1>2. Len(decisions) = Len(capabilities)
  BY <1>1
<1>3. denied = IF D # {} THEN Min(D) ELSE 0
  BY DEF SelectInSeq
<1>4. blocked = IF B # {} THEN Min(B) ELSE 0
  BY DEF SelectInSeq
<1>5. rules # Absent
  BY DEF EvaluateToolCall, DenyFor, Decision
<1>6. blocked = 0
  <2> SUFFICES ASSUME blocked # 0 PROVE FALSE
    OBVIOUS
  <2>1. answered = BlockedFor(call.facts[blocked])
    BY <1>5 DEF EvaluateToolCall
  <2> QED
    BY <2>1, FirstBlocked, BlockedIsDenied
<1>7. B = {}
  <2>1. B # {} => Min(B) \in B
    BY <1>1, LeastPlace
  <2> HIDE DEF blocked
  <2>2. B # {} => Min(B) # 0
    BY <1>1, <2>1
  <2> QED
    BY <1>4, <1>6, <2>2
<1>8. D # {} => denied # 0 /\ denied \in D
  <2>1. D # {} => Min(D) \in D
    BY <1>1, <1>2, LeastPlace
  <2> HIDE DEF denied, decisions
  <2>2. D # {} => Min(D) # 0
    BY <1>1, <1>2, <2>1
  <2> QED
    BY <1>3, <2>1, <2>2
<1>9. D = {}
  <2> SUFFICES ASSUME D # {} PROVE FALSE
    OBVIOUS
  <2>1. denied # 0 /\ decisions[denied].action = "deny"
    BY <1>8
  <2> QED
    BY <1>5, <1>6, <2>1 DEF EvaluateToolCall, Combined, DenyFor, Decision
<1>10. \A d \in ToSet(decisions) : d.action # "approval_required"
  <2>1. denied = 0
    BY <1>3, <1>9
  <2>2. (\E d \in ToSet(decisions) : d.action = "approval_required")
          => answered.action \in {"deny", "approval_required"}
    BY <1>5, <1>6, <2>1 DEF EvaluateToolCall, Combined, DenyFor, Decision
  <2> QED
    BY <2>2
<1>11. ASSUME NEW capability \in ToSet(call.capabilities)
       PROVE  \E rule \in ToSet(rules) :
                rule.action = "allow" /\ RuleMatches(rule, call, capability)
  <2>1. PICK i \in DOMAIN capabilities : capability = capabilities[i]
    BY <1>1 DEF ToSet
  <2>2. decision(i).action \notin {"deny", "approval_required"}
    <3>1. decisions[i] = decision(i) /\ decisions[i] \in ToSet(decisions)
      BY DEF ToSet
    <3> HIDE DEF decisions, decision
    <3> QED
      BY <1>1, <1>2, <1>9, <1>10, <3>1
  <2>3. FirstRule(rules, "allow", call, capability) # 0
    BY <2>1, <2>2 DEF EvaluateCapability, Decision, DenyFor
  <2>4. Len(rules) \in Nat /\ DOMAIN rules = 1..Len(rules)
    BY <1>5, ListDomain
  <2>5. PICK k \in 1..Len(rules) : /\ rules[k].action = "allow"
                                   /\ RuleMatches(rules[k], call, capability)
    BY <2>3, <2>4, FirstFound
  <2> QED
    BY <2>4, <2>5 DEF ToSet
<1>12. \A fact \in ToSet(call.facts) : ~Blocked(fact)
  <2> HIDE DEF blocked
  <2> QED
    BY <1>1, <1>7 DEF ToSet
<1> QED
  BY <1>5, <1>11, <1>12

-----------------------------------------------------------------------------
(* Folds over a list, and the elements of one that are in a set.           *)

\* What holds of 0 and passes from each number to the next holds up to any number.
LEMMA Climb ==
  ASSUME NEW n \in Nat, NEW S, 0 \in S,
         \A k \in 0..n - 1 : k \in S => k + 1 \in S
  PROVE  \A k \in 0..n : k \in S
<1> DEFINE Wrong == {k \in 0..n : k \notin S}
<1> SUFFICES ASSUME Wrong # {} PROVE FALSE
  OBVIOUS
<1> Wrong \in SUBSET Nat
  OBVIOUS
<1>1. PICK k \in Wrong : \A other \in Wrong : k <= other
  BY LeastNumber
<1>2. k # 0 /\ k - 1 \in 0..n - 1 /\ k - 1 \in 0..n /\ (k - 1) + 1 = k /\ ~(k <= k - 1)
  BY <1>1
<1>3. k - 1 \in S
  BY <1>1, <1>2
<1> QED
  BY <1>1, <1>2, <1>3

\* A set of places has a greatest one.
LEMMA GreatestPlace ==
  ASSUME NEW n \in Nat, NEW I \in SUBSET (1..n), I # {}
  PROVE  Max(I) \in I /\ \A i \in I : i <= Max(I)
<1> DEFINE from == {n - i : i \in I}
<1> \A i \in I : i \in 1..n /\ n - i \in Nat
  OBVIOUS
<1>1. from \in SUBSET Nat /\ from # {}
  OBVIOUS
<1>2. PICK d \in from : \A other \in from : d <= other
  BY <1>1, LeastNumber
<1>3. PICK m \in I : d = n - m
  OBVIOUS
<1>4. ASSUME NEW i \in I PROVE m >= i
  <2>1. d <= n - i /\ i \in 1..n /\ m \in 1..n
    BY <1>2
  <2> QED
    BY <1>3, <2>1
<1>5. \E x \in I : \A y \in I : x >= y
  BY <1>4
<1>6. Max(I) \in I /\ \A y \in I : Max(I) >= y
  BY <1>5 DEF Max
<1> QED
  BY <1>6

\* Without it, a set of places lies below.
LEMMA WithoutGreatest ==
  ASSUME NEW k \in Nat, NEW I \in SUBSET (1..k + 1), I # {}
  PROVE  I \ {Max(I)} \in SUBSET (1..k)
<1> k + 1 \in Nat
  OBVIOUS
<1>1. Max(I) \in I /\ \A i \in I : i <= Max(I)
  BY GreatestPlace
<1>2. ASSUME NEW i \in I \ {Max(I)} PROVE i \in 1..k
  <2>1. i \in 1..k + 1 /\ Max(I) \in 1..k + 1 /\ i <= Max(I) /\ i # Max(I)
    BY <1>1
  <2> QED
    BY <2>1
<1> QED
  BY <1>2

\* The greatest of the first places is the last of them.
LEMMA GreatestOfPrefix ==
  ASSUME NEW k \in Nat
  PROVE  Max(1..k + 1) = k + 1 /\ (1..k + 1) \ {k + 1} = 1..k
<1> k + 1 \in Nat /\ 1..k + 1 # {} /\ 1..k + 1 \in SUBSET (1..k + 1) /\ k + 1 \in 1..k + 1
  OBVIOUS
<1>1. Max(1..k + 1) \in 1..k + 1 /\ \A i \in 1..k + 1 : i <= Max(1..k + 1)
  BY GreatestPlace
<1>2. k + 1 <= Max(1..k + 1)
  BY <1>1
<1> QED
  BY <1>1, <1>2

\* FoldLeft is a function on the sets of places, each without its greatest one.
FoldsBy(g, n, base, Step) ==
  \A I \in SUBSET (1..n) :
    g[I] = IF I = {} THEN base ELSE Step[<<g[I \ {Max(I)}], Max(I)>>]

\* There is such a function when the step is typed.
LEMMA FoldExists ==
  ASSUME NEW n \in Nat, NEW Acc, NEW base \in Acc, NEW Step \in [Acc \X (1..n) -> Acc]
  PROVE  \E g \in [SUBSET (1..n) -> Acc] : FoldsBy(g, n, base, Step)
<1> DEFINE next(g, I) == IF I = {} THEN base ELSE Step[<<g[I \ {Max(I)}], Max(I)>>]
           Until(k) == \E g \in [SUBSET (1..k) -> Acc] :
                         \A I \in SUBSET (1..k) : g[I] = next(g, I)
           Reached == {k \in 0..n : Until(k)}
<1>1. Until(0)
  <2> DEFINE g == [I \in SUBSET (1..0) |-> base]
  <2>1. g \in [SUBSET (1..0) -> Acc] /\ \A I \in SUBSET (1..0) : g[I] = next(g, I)
    OBVIOUS
  <2> QED
    BY <2>1
<1>2. ASSUME NEW k \in 0..n - 1, Until(k) PROVE Until(k + 1)
  <2>1. PICK g \in [SUBSET (1..k) -> Acc] : \A I \in SUBSET (1..k) : g[I] = next(g, I)
    BY <1>2
  <2> DEFINE f == [I \in SUBSET (1..k + 1) |-> next(g, I)]
  <2> k \in Nat /\ k + 1 \in Nat /\ k + 1 \in 1..n
    OBVIOUS
  <2>2. ASSUME NEW I \in SUBSET (1..k + 1), I # {}
        PROVE  I \ {Max(I)} \in SUBSET (1..k) /\ Max(I) \in 1..n
    <3>1. Max(I) \in I
      BY <2>2, GreatestPlace
    <3>2. I \ {Max(I)} \in SUBSET (1..k)
      BY <2>2, WithoutGreatest
    <3>3. \A i \in 1..k + 1 : i \in 1..n
      OBVIOUS
    <3> QED
      BY <3>1, <3>2, <3>3
  <2>3. \A I \in SUBSET (1..k) : I \in SUBSET (1..k + 1) /\ f[I] = g[I]
    <3> HIDE DEF next
    <3> QED
      BY <2>1
  <2>4. ASSUME NEW I \in SUBSET (1..k + 1) PROVE next(g, I) = next(f, I) /\ next(g, I) \in Acc
    <3>1. CASE I = {}
      BY <3>1
    <3>2. CASE I # {}
      <4> I \ {Max(I)} \in SUBSET (1..k) /\ Max(I) \in 1..n
        BY <2>2, <3>2
      <4>1. g[I \ {Max(I)}] \in Acc /\ f[I \ {Max(I)}] = g[I \ {Max(I)}]
        BY <2>3
      <4> HIDE DEF f
      <4>2. Step[<<g[I \ {Max(I)}], Max(I)>>] \in Acc
        BY <4>1
      <4> QED
        BY <3>2, <4>1, <4>2
    <3> QED
      BY <3>1, <3>2
  <2>5. f \in [SUBSET (1..k + 1) -> Acc] /\ \A I \in SUBSET (1..k + 1) : f[I] = next(f, I)
    <3> HIDE DEF next
    <3> QED
      BY <2>4
  <2> QED
    BY <2>5
<1> HIDE DEF Until
<1>3. \A k \in 0..n : k \in Reached
  <2>1. 0 \in Reached
    BY <1>1
  <2>2. \A k \in 0..n - 1 : k \in Reached => k + 1 \in Reached
    BY <1>2
  <2> HIDE DEF Reached
  <2> QED
    BY <2>1, <2>2, Climb
<1>4. Until(n)
  BY <1>3
<1> QED
  BY <1>4 DEF Until, FoldsBy

\* What is given as a fold takes a step at each place.
TakesSteps(fold, n, Acc, base, Step) ==
  /\ n \in Nat /\ base \in Acc /\ Step \in [Acc \X (1..n) -> Acc]
  /\ fold[{}] = base
  /\ \A I \in SUBSET (1..n) :
       I # {} /\ fold[I \ {Max(I)}] \in Acc => fold[I] = Step[<<fold[I \ {Max(I)}], Max(I)>>]

Runs(run, n, base, Step) ==
  run[0] = base /\ \A k \in 0..n - 1 : run[k + 1] = Step[<<run[k], k + 1>>]

\* It is reached in as many steps as there are places.
LEMMA FoldSteps ==
  ASSUME NEW n, NEW Acc, NEW base, NEW Step, NEW fold, TakesSteps(fold, n, Acc, base, Step)
  PROVE  \E run \in [0..n -> Acc] : Runs(run, n, base, Step) /\ run[n] = fold[1..n]
<1> DEFINE run == [k \in 0..n |-> fold[1..k]]
           Typed == {k \in 0..n : fold[1..k] \in Acc}
<1> n \in Nat /\ base \in Acc /\ Step \in [Acc \X (1..n) -> Acc]
  BY DEF TakesSteps
<1>1. 1..0 = {} /\ fold[{}] = base
  BY DEF TakesSteps
<1>2. ASSUME NEW k \in 0..n - 1, fold[1..k] \in Acc
      PROVE  fold[1..k + 1] = Step[<<fold[1..k], k + 1>>] /\ fold[1..k + 1] \in Acc
  <2>1. k \in Nat /\ k + 1 \in 1..n /\ 1..k + 1 \in SUBSET (1..n) /\ k + 1 \in 1..k + 1
    OBVIOUS
  <2> Max(1..k + 1) = k + 1 /\ (1..k + 1) \ {k + 1} = 1..k
    BY <2>1, GreatestOfPrefix
  <2>2. fold[1..k + 1] = Step[<<fold[1..k], k + 1>>]
    BY <1>2, <2>1 DEF TakesSteps
  <2> QED
    BY <1>2, <2>1, <2>2
<1>3. \A k \in 0..n : k \in Typed
  <2>1. 0 \in Typed
    BY <1>1
  <2>2. ASSUME NEW k \in 0..n - 1, k \in Typed PROVE k + 1 \in Typed
    <3>1. k + 1 \in 0..n /\ fold[1..k] \in Acc
      BY <2>2
    <3> QED
      BY <1>2, <3>1
  <2> HIDE DEF Typed
  <2> QED
    BY <2>1, <2>2, Climb
<1>4. run \in [0..n -> Acc]
  BY <1>3
<1>5. run[0] = base /\ run[n] = fold[1..n]
  BY <1>1
<1>6. \A k \in 0..n - 1 : run[k + 1] = Step[<<run[k], k + 1>>]
  <2> SUFFICES ASSUME NEW k \in 0..n - 1 PROVE run[k + 1] = Step[<<run[k], k + 1>>]
    OBVIOUS
  <2>1. k \in 0..n /\ k + 1 \in 0..n /\ fold[1..k] \in Acc
    BY <1>3
  <2> QED
    BY <1>2, <2>1
<1> HIDE DEF run
<1> QED
  BY <1>4, <1>5, <1>6 DEF Runs

\* Only goes through a list and keeps or leaves one element at a time.
LEMMA OnlySteps ==
  ASSUME NEW s, IsList(s), NEW S
  PROVE  \E run \in [0..Len(s) -> Seq(ToSet(s))] :
           /\ run[0] = <<>> /\ run[Len(s)] = Only(s, S)
           /\ \A k \in 0..Len(s) - 1 :
                run[k + 1] = IF s[k + 1] \in S THEN Append(run[k], s[k + 1]) ELSE run[k]
<1> DEFINE n == Len(s)
           Acc == Seq(ToSet(s))
           keep(kept, e) == IF e \in S THEN Append(kept, e) ELSE kept
           next(f, I) == IF I = {} THEN <<>> ELSE keep(f[I \ {Max(I)}], s[Max(I)])
           Step == [at \in Acc \X (1..n) |-> keep(at[1], s[at[2]])]
           fold == CHOOSE f : f = [I \in SUBSET (1..n) |-> next(f, I)]
<1>1. n \in Nat /\ DOMAIN s = 1..n /\ <<>> \in Acc
  BY ListDomain
<1>2. Only(s, S) = fold[1..n]
  <2>1. Only(s, S) = (CHOOSE f : f = [I \in SUBSET DOMAIN s |-> next(f, I)])[DOMAIN s]
    BY DEF Only, FoldLeft, MapThenFoldSet
  <2> QED
    BY <1>1, <2>1
<1>3. \A kept \in Acc, i \in 1..n : keep(kept, s[i]) \in Acc
  BY <1>1 DEF ToSet
<1> HIDE DEF Acc, fold, keep
<1>4. Step \in [Acc \X (1..n) -> Acc]
  BY <1>3
<1>5. \A kept \in Acc, i \in 1..n : Step[<<kept, i>>] = keep(kept, s[i])
  OBVIOUS
<1> HIDE DEF Step
<1>6. \A I \in SUBSET (1..n) : I # {} => Max(I) \in 1..n /\ I \ {Max(I)} \in SUBSET (1..n)
  BY <1>1, GreatestPlace
<1>7. fold = [I \in SUBSET (1..n) |-> next(fold, I)]
  <2>1. PICK g \in [SUBSET (1..n) -> Acc] : FoldsBy(g, n, <<>>, Step)
    BY <1>1, <1>4, FoldExists
  <2>2. \A I \in SUBSET (1..n) : g[I] = next(g, I)
    BY <1>5, <1>6, <2>1 DEF FoldsBy
  <2> HIDE DEF next
  <2>3. g = [I \in SUBSET (1..n) |-> next(g, I)]
    BY <2>2
  <2> QED
    BY <2>3 DEF fold
<1>8. \A I \in SUBSET (1..n) : fold[I] = next(fold, I)
  <2> HIDE DEF next
  <2> QED
    BY <1>7
<1>9. TakesSteps(fold, n, Acc, <<>>, Step)
  BY <1>1, <1>4, <1>5, <1>6, <1>8 DEF TakesSteps
<1>10. PICK run \in [0..n -> Acc] : Runs(run, n, <<>>, Step) /\ run[n] = fold[1..n]
  BY <1>9, FoldSteps
<1>11. \A k \in 0..n - 1 : run[k + 1] = keep(run[k], s[k + 1])
  <2> SUFFICES ASSUME NEW k \in 0..n - 1 PROVE run[k + 1] = keep(run[k], s[k + 1])
    OBVIOUS
  <2>1. k \in 0..n /\ k + 1 \in 1..n /\ run[k] \in Acc
    BY <1>1
  <2> QED
    BY <1>5, <1>10, <2>1 DEF Runs
<1> QED
  BY <1>2, <1>10, <1>11 DEF Acc, keep, Runs

\* Only keeps the elements that are in the set, each at a place after those before it,
\* and leaves a list alone when all of them are.
LEMMA OnlyKeeps ==
  ASSUME NEW s, IsList(s), NEW S
  PROVE  /\ IsList(Only(s, S)) /\ ToSet(Only(s, S)) = ToSet(s) \cap S
         /\ \E place \in [DOMAIN Only(s, S) -> DOMAIN s] :
              /\ \A i \in DOMAIN Only(s, S) : Only(s, S)[i] = s[place[i]]
              /\ \A i, j \in DOMAIN Only(s, S) : i < j => place[i] < place[j]
         /\ ToSet(s) \subseteq S => Only(s, S) = s
<1> DEFINE n == Len(s)
           T == ToSet(s)
<1>1. n \in Nat /\ DOMAIN s = 1..n /\ s \in Seq(T)
  BY ListDomain
<1> HIDE DEF n, T
<1>2. PICK run \in [0..n -> Seq(T)] :
        /\ run[0] = <<>> /\ run[n] = Only(s, S)
        /\ \A k \in 0..n - 1 :
             run[k + 1] = IF s[k + 1] \in S THEN Append(run[k], s[k + 1]) ELSE run[k]
  BY OnlySteps DEF n, T
<1> DEFINE Placed(k) == \E place \in [1..Len(run[k]) -> 1..k] :
                          /\ \A i \in 1..Len(run[k]) : run[k][i] = s[place[i]]
                          /\ \A i, j \in 1..Len(run[k]) : i < j => place[i] < place[j]
           Kept(k) == \A i \in 1..k : s[i] \in S => \E j \in 1..Len(run[k]) : run[k][j] = s[i]
           Chosen(k) == \A i \in 1..Len(run[k]) : run[k][i] \in S
           Same(k) == T \subseteq S =>
                        Len(run[k]) = k /\ \A i \in 1..k : run[k][i] = s[i]
           Good == {k \in 0..n : Placed(k) /\ Kept(k) /\ Chosen(k) /\ Same(k)}
<1>3. 0 \in Good
  <2>1. Len(run[0]) = 0 /\ 1..0 = {}
    BY <1>2
  <2>2. Placed(0)
    <3>1. [i \in 1..0 |-> 0] \in [1..Len(run[0]) -> 1..0]
      BY <2>1
    <3> QED
      BY <2>1, <3>1
  <2> QED
    BY <1>1, <2>1, <2>2
<1>4. ASSUME NEW k \in 0..n - 1, k \in Good PROVE k + 1 \in Good
  <2> DEFINE r == run[k]
             m == Len(r)
  <2>1. /\ k \in Nat /\ k + 1 \in 0..n /\ k + 1 \in 1..n /\ k + 1 \in 1..k + 1
        /\ 1..k + 1 = (1..k) \cup {k + 1}
    BY <1>1
  <2>2. r \in Seq(T) /\ m \in Nat /\ s[k + 1] \in T
    <3>1. r \in Seq(T)
      BY <1>1, <1>2
    <3>2. s[k + 1] \in T
      BY <1>1, <2>1
    <3> QED
      BY <3>1, <3>2
  <2>3. Placed(k) /\ Kept(k) /\ Chosen(k) /\ Same(k)
    BY <1>4
  <2>4. CASE s[k + 1] \notin S
    <3>1. run[k + 1] = r
      BY <1>2, <2>4
    <3>2. Placed(k + 1)
      <4>1. PICK place \in [1..m -> 1..k] :
              /\ \A i \in 1..m : r[i] = s[place[i]]
              /\ \A i, j \in 1..m : i < j => place[i] < place[j]
        BY <2>3
      <4>2. place \in [1..m -> 1..k + 1]
        BY <2>1
      <4> QED
        BY <3>1, <4>1, <4>2
    <3>3. Kept(k + 1)
      BY <2>1, <2>3, <2>4, <3>1
    <3>4. Chosen(k + 1)
      BY <2>3, <3>1
    <3>5. Same(k + 1)
      BY <2>2, <2>4
    <3> HIDE DEF Placed, Kept, Chosen, Same
    <3> QED
      BY <2>1, <3>2, <3>3, <3>4, <3>5
  <2>5. CASE s[k + 1] \in S
    <3> DEFINE t == run[k + 1]
    <3>1. t = Append(r, s[k + 1])
      BY <1>2, <2>5
    <3> HIDE DEF r
    <3>2. /\ Len(t) = m + 1 /\ t[m + 1] = s[k + 1] /\ 1..m + 1 = (1..m) \cup {m + 1}
          /\ \A i \in 1..m : t[i] = r[i]
      BY <2>2, <3>1
    <3> HIDE DEF t, m
    <3>3. Placed(k + 1)
      <4>1. PICK place \in [1..m -> 1..k] :
              /\ \A i \in 1..m : r[i] = s[place[i]]
              /\ \A i, j \in 1..m : i < j => place[i] < place[j]
        BY <2>3 DEF r, m
      <4> DEFINE more == [i \in 1..m + 1 |-> IF i = m + 1 THEN k + 1 ELSE place[i]]
      <4>2. \A i \in 1..m : i # m + 1 /\ more[i] = place[i] /\ place[i] \in 1..k
        BY <2>2
      <4>3. more[m + 1] = k + 1
        BY <2>2
      <4>4. more \in [1..m + 1 -> 1..k + 1]
        BY <2>1, <2>2, <3>2, <4>2
      <4> HIDE DEF more
      <4>5. \A i \in 1..m + 1 : t[i] = s[more[i]]
        BY <3>2, <4>1, <4>2, <4>3
      <4>6. ASSUME NEW i \in 1..m + 1, NEW j \in 1..m + 1, i < j PROVE more[i] < more[j]
        <5>1. i \in 1..m
          BY <2>2, <4>6
        <5>2. CASE j = m + 1
          BY <2>1, <4>2, <4>3, <5>1, <5>2
        <5>3. CASE j \in 1..m
          BY <4>1, <4>2, <4>6, <5>1, <5>3
        <5> QED
          BY <3>2, <5>2, <5>3
      <4> QED
        BY <3>2, <4>4, <4>5, <4>6 DEF t
    <3>4. Kept(k + 1)
      <4> SUFFICES ASSUME NEW i \in 1..k + 1, s[i] \in S
                   PROVE  \E j \in 1..m + 1 : t[j] = s[i]
        BY <3>2 DEF t
      <4>1. CASE i = k + 1
        BY <2>2, <3>2, <4>1
      <4>2. CASE i \in 1..k
        <5>1. PICK j \in 1..m : r[j] = s[i]
          BY <2>3, <4>2 DEF r, m
        <5> QED
          BY <3>2, <5>1
      <4> QED
        BY <2>1, <4>1, <4>2
    <3>5. Chosen(k + 1)
      <4>1. \A i \in 1..m : r[i] \in S
        BY <2>3 DEF r, m
      <4> QED
        BY <2>5, <3>2, <4>1 DEF t
    <3>6. Same(k + 1)
      <4> SUFFICES ASSUME T \subseteq S
                   PROVE  Len(t) = k + 1 /\ \A i \in 1..k + 1 : t[i] = s[i]
        BY DEF t
      <4>1. m = k /\ \A i \in 1..k : r[i] = s[i]
        BY <2>3 DEF r, m
      <4> QED
        BY <2>1, <3>2, <4>1
    <3> HIDE DEF Placed, Kept, Chosen, Same
    <3> QED
      BY <2>1, <3>3, <3>4, <3>5, <3>6
  <2> QED
    BY <2>4, <2>5
<1>5. n \in Good
  <2> HIDE DEF Good
  <2>1. \A k \in 0..n : k \in Good
    BY <1>1, <1>3, <1>4, Climb
  <2> QED
    BY <1>1, <2>1
<1> DEFINE kept == Only(s, S)
<1>6. kept \in Seq(T) /\ Len(kept) \in Nat /\ DOMAIN kept = 1..Len(kept) /\ kept = run[n]
  BY <1>1, <1>2
<1> HIDE DEF kept
<1>7. /\ \E place \in [1..Len(kept) -> 1..n] :
            /\ \A i \in 1..Len(kept) : kept[i] = s[place[i]]
            /\ \A i, j \in 1..Len(kept) : i < j => place[i] < place[j]
      /\ \A i \in 1..n : s[i] \in S => \E j \in 1..Len(kept) : kept[j] = s[i]
      /\ \A i \in 1..Len(kept) : kept[i] \in S
      /\ T \subseteq S => Len(kept) = n /\ \A i \in 1..n : kept[i] = s[i]
  BY <1>5, <1>6
<1>8. IsList(kept)
  <2>1. kept \in Seq(ToSet(kept))
    BY <1>6 DEF ToSet
  <2> QED
    BY <2>1 DEF IsList
<1>9. ToSet(kept) = T \cap S
  <2>1. \A i \in 1..Len(kept) : kept[i] \in T
    BY <1>6
  <2>2. \A e \in ToSet(kept) : e \in T /\ e \in S
    BY <1>6, <1>7, <2>1 DEF ToSet
  <2>3. ASSUME NEW e \in T, e \in S PROVE e \in ToSet(kept)
    <3>1. PICK i \in 1..n : s[i] = e
      BY <1>1, <2>3 DEF T, ToSet
    <3>2. PICK j \in 1..Len(kept) : kept[j] = e
      BY <1>7, <2>3, <3>1
    <3> QED
      BY <1>6, <3>2 DEF ToSet
  <2> QED
    BY <2>2, <2>3
<1>10. T \subseteq S => kept = s
  <2> SUFFICES ASSUME T \subseteq S PROVE kept = s
    OBVIOUS
  <2>1. Len(kept) = n /\ \A i \in 1..n : kept[i] = s[i]
    BY <1>7
  <2>2. Len(s) = n
    BY DEF n
  <2> QED
    BY <1>1, <1>6, <2>1, <2>2, SeqEqual
<1> QED
  BY <1>1, <1>6, <1>7, <1>8, <1>9, <1>10 DEF kept, T

-----------------------------------------------------------------------------
(* What is left of metadata and of a tool when something is taken out.     *)

\* What is left of v, given what is left of its parts.
Sanitized(f, v) ==
  CASE v.json = "array" -> [v EXCEPT !.items = [i \in DOMAIN v.items |-> f[v.items[i]]]]
    [] v.json = "record" ->
         LET kept == Only(v.fields, {e \in ToSet(v.fields) : e.key \notin MetadataRedactionKeys})
         IN  [v EXCEPT !.fields = [i \in DOMAIN kept |->
                [key |-> kept[i].key, value |-> f[kept[i].value]]]]
    [] OTHER -> v

KeptFields(v) == Only(v.fields, {e \in ToSet(v.fields) : e.key \notin MetadataRedactionKeys})

\* The fields that are kept are fields of the record.
LEMMA FieldsAreKept ==
  ASSUME NEW v \in Json, v.json = "record"
  PROVE  /\ IsList(KeptFields(v))
         /\ \A i \in DOMAIN KeptFields(v) : /\ KeptFields(v)[i].key \notin MetadataRedactionKeys
                                           /\ KeptFields(v)[i].value \in Parts(v)
<1> DEFINE S == {e \in ToSet(v.fields) : e.key \notin MetadataRedactionKeys}
<1>1. IsList(v.fields)
  BY JsonAssumption
<1>2. IsList(Only(v.fields, S)) /\ ToSet(Only(v.fields, S)) = ToSet(v.fields) \cap S
  <2> HIDE DEF S
  <2> QED
    BY <1>1, OnlyKeeps
<1>3. KeptFields(v) = Only(v.fields, S)
  BY DEF KeptFields
<1> HIDE DEF S
<1>4. \A i \in DOMAIN KeptFields(v) : KeptFields(v)[i] \in ToSet(v.fields) \cap S
  BY <1>2, <1>3 DEF ToSet
<1>5. \A field \in ToSet(v.fields) : field.value \in Parts(v)
  BY DEF Parts
<1> QED
  BY <1>2, <1>3, <1>4, <1>5 DEF S

\* What is left of a value is determined by what is left of its parts.
LEMMA SanitizedOfParts ==
  ASSUME NEW v \in Json, NEW f, NEW g, \A w \in Parts(v) : f[w] = g[w]
  PROVE  Sanitized(f, v) = Sanitized(g, v)
<1>1. CASE v.json = "array"
  <2>1. \A i \in DOMAIN v.items : v.items[i] \in Parts(v)
    BY <1>1 DEF Parts, ToSet
  <2>2. [i \in DOMAIN v.items |-> f[v.items[i]]] = [i \in DOMAIN v.items |-> g[v.items[i]]]
    BY <2>1
  <2> QED
    BY <1>1, <2>2 DEF Sanitized
<1>2. CASE v.json = "record"
  <2> DEFINE kept == KeptFields(v)
  <2>1. \A i \in DOMAIN kept : kept[i].value \in Parts(v)
    BY <1>2, FieldsAreKept
  <2> HIDE DEF kept
  <2>2. [i \in DOMAIN kept |-> [key |-> kept[i].key, value |-> f[kept[i].value]]]
          = [i \in DOMAIN kept |-> [key |-> kept[i].key, value |-> g[kept[i].value]]]
    BY <2>1
  <2>3. \A h : Sanitized(h, v)
               = [v EXCEPT !.fields = [i \in DOMAIN kept |->
                    [key |-> kept[i].key, value |-> h[kept[i].value]]]]
    BY <1>2 DEF Sanitized, kept, KeptFields
  <2> QED
    BY <2>2, <2>3
<1>3. CASE v.json \notin {"array", "record"}
  BY <1>3 DEF Sanitized
<1> QED
  BY <1>1, <1>2, <1>3

\* That is the definition of SanitizedMetadata unfolded once.
LEMMA SanitizedUnfolds ==
  ASSUME NEW v \in Json
  PROVE  SanitizedMetadata[v] = Sanitized(SanitizedMetadata, v)
<1> DEFINE Until(k, f) == f = [w \in Shallower(k) |-> Sanitized(f, w)]
           Missing == {k \in Nat : ~\E f : Until(k, f)}
           upto(k) == CHOOSE f : Until(k, f)
           all == [w \in Json |-> upto(Nesting[w] + 1)[w]]
<1>1. \E f : Until(0, f)
  <2>1. Shallower(0) = {}
    BY NestingOfParts DEF Shallower
  <2>2. [w \in {} |-> 0] = [w \in {} |-> Sanitized([u \in {} |-> 0], w)]
    OBVIOUS
  <2> QED
    BY <2>1, <2>2
<1>2. ASSUME NEW k \in Nat, \E g : Until(k, g) PROVE \E f : Until(k + 1, f)
  <2>1. PICK g : Until(k, g)
    BY <1>2
  <2> DEFINE f == [w \in Shallower(k + 1) |-> Sanitized(g, w)]
  <2>2. \A w \in Shallower(k) : w \in Shallower(k + 1)
    BY NestingOfParts DEF Shallower
  <2>3. \A w \in Shallower(k) : f[w] = g[w]
    BY <2>1, <2>2
  <2>4. \A w \in Shallower(k + 1) : \A u \in Parts(w) : u \in Shallower(k)
    BY NestingOfParts DEF Shallower
  <2> HIDE DEF f
  <2>5. ASSUME NEW w \in Shallower(k + 1) PROVE Sanitized(f, w) = Sanitized(g, w)
    BY <2>3, <2>4, SanitizedOfParts DEF Shallower
  <2>6. f = [w \in Shallower(k + 1) |-> Sanitized(f, w)]
    BY <2>5 DEF f
  <2> QED
    BY <2>6
<1> HIDE DEF Until
<1>3. Missing = {}
  <2> SUFFICES ASSUME Missing # {} PROVE FALSE
    OBVIOUS
  <2>1. PICK k \in Missing : \A other \in Missing : k <= other
    BY LeastNumber
  <2>2. k # 0 /\ k - 1 \in Nat /\ (k - 1) + 1 = k
    BY <1>1, <2>1
  <2>3. \E g : Until(k - 1, g)
    BY <2>1, <2>2
  <2> QED
    BY <1>2, <2>1, <2>2, <2>3
<1>4. \A k \in Nat : Until(k, upto(k))
  BY <1>3
<1> HIDE DEF upto
<1>5. ASSUME NEW k \in Nat, NEW w \in Shallower(k) PROVE upto(k)[w] = Sanitized(upto(k), w)
  BY <1>4, <1>5 DEF Until
<1>6. ASSUME NEW j \in Nat, NEW k \in Nat
      PROVE  \A w \in Shallower(j) \cap Shallower(k) : upto(j)[w] = upto(k)[w]
  <2> DEFINE Wrong == {w \in Shallower(j) \cap Shallower(k) : upto(j)[w] # upto(k)[w]}
             depths == {Nesting[w] : w \in Wrong}
  <2> SUFFICES ASSUME Wrong # {} PROVE FALSE
    OBVIOUS
  <2>1. depths \in SUBSET Nat /\ depths # {}
    BY NestingOfParts DEF Shallower
  <2>2. PICK d \in depths : \A other \in depths : d <= other
    BY <2>1, LeastNumber
  <2>3. PICK w \in Wrong : d = Nesting[w]
    OBVIOUS
  <2>4. \A u \in Parts(w) : u \in Shallower(j) \cap Shallower(k) /\ u \notin Wrong
    <3>1. w \in Json /\ Nesting[w] < j /\ Nesting[w] < k
      BY DEF Shallower
    <3> SUFFICES ASSUME NEW u \in Parts(w)
                 PROVE  u \in Shallower(j) \cap Shallower(k) /\ u \notin Wrong
      OBVIOUS
    <3>2. u \in Json /\ Nesting[u] \in Nat /\ Nesting[w] \in Nat /\ Nesting[u] < Nesting[w]
      BY <3>1, NestingOfParts
    <3>3. u \in Shallower(j) \cap Shallower(k)
      BY <3>1, <3>2 DEF Shallower
    <3>4. ~(d <= Nesting[u])
      BY <2>3, <3>2
    <3> QED
      BY <2>2, <3>3, <3>4
  <2>5. Sanitized(upto(j), w) = Sanitized(upto(k), w)
    BY <2>4, SanitizedOfParts DEF Shallower
  <2> QED
    BY <1>5, <2>5
<1>7. ASSUME NEW w \in Json PROVE all[w] = Sanitized(all, w)
  <2>1. Nesting[w] + 1 \in Nat /\ w \in Shallower(Nesting[w] + 1)
    BY NestingOfParts DEF Shallower
  <2>2. all[w] = Sanitized(upto(Nesting[w] + 1), w)
    BY <1>5, <2>1
  <2>3. ASSUME NEW u \in Parts(w) PROVE upto(Nesting[w] + 1)[u] = all[u]
    <3>1. /\ u \in Json /\ Nesting[u] + 1 \in Nat
          /\ u \in Shallower(Nesting[w] + 1) \cap Shallower(Nesting[u] + 1)
      BY NestingOfParts DEF Shallower
    <3> QED
      BY <1>6, <2>1, <3>1
  <2> HIDE DEF all
  <2> QED
    BY <2>2, <2>3, SanitizedOfParts
<1>8. all = [w \in Json |-> Sanitized(all, w)]
  <2>1. \A w \in Json : all[w] = Sanitized(all, w)
    BY <1>7
  <2>2. all = [w \in Json |-> all[w]]
    OBVIOUS
  <2> HIDE DEF all
  <2> QED
    BY <2>1, <2>2
<1> HIDE DEF all
<1>9. SanitizedMetadata = CHOOSE f : f = [w \in Json |-> Sanitized(f, w)]
  BY DEF SanitizedMetadata, Sanitized
<1>10. SanitizedMetadata = [w \in Json |-> Sanitized(SanitizedMetadata, w)]
  BY <1>8, <1>9
<1> QED
  BY <1>10

\* What is left of an array or a record.
LEMMA SanitizedArray ==
  ASSUME NEW v \in Json, v.json = "array"
  PROVE  SanitizedMetadata[v]
           = [json |-> "array", items |-> [i \in DOMAIN v.items |-> SanitizedMetadata[v.items[i]]]]
<1> DEFINE items == [i \in DOMAIN v.items |-> SanitizedMetadata[v.items[i]]]
<1>1. SanitizedMetadata[v] = [v EXCEPT !.items = items]
  BY SanitizedUnfolds DEF Sanitized
<1>2. v = [json |-> "array", items |-> v.items]
  BY JsonAssumption
<1> HIDE DEF items
<1>3. [[json |-> "array", items |-> v.items] EXCEPT !.items = items]
        = [json |-> "array", items |-> items]
  OBVIOUS
<1> QED
  BY <1>1, <1>2, <1>3 DEF items

\* The same of a record.
LEMMA SanitizedRecord ==
  ASSUME NEW v \in Json, v.json = "record"
  PROVE  SanitizedMetadata[v]
           = [json |-> "record",
              fields |-> [i \in DOMAIN KeptFields(v) |->
                            [key |-> KeptFields(v)[i].key,
                             value |-> SanitizedMetadata[KeptFields(v)[i].value]]]]
<1> DEFINE fields == [i \in DOMAIN KeptFields(v) |->
                        [key |-> KeptFields(v)[i].key,
                         value |-> SanitizedMetadata[KeptFields(v)[i].value]]]
<1>1. SanitizedMetadata[v] = [v EXCEPT !.fields = fields]
  BY SanitizedUnfolds DEF Sanitized, KeptFields
<1>2. v = [json |-> "record", fields |-> v.fields]
  BY JsonAssumption
<1> HIDE DEF fields
<1>3. [[json |-> "record", fields |-> v.fields] EXCEPT !.fields = fields]
        = [json |-> "record", fields |-> fields]
  OBVIOUS
<1> QED
  BY <1>1, <1>2, <1>3 DEF fields

\* Of what is left of a value there is nothing more to take out, for that holds of its
\* parts.
LEMMA SanitizedTwice ==
  ASSUME NEW v \in Json
  PROVE  SanitizedMetadata[SanitizedMetadata[v]] = SanitizedMetadata[v]
<1> DEFINE S == SanitizedMetadata
           Wrong == {w \in Json : S[S[w]] # S[w]}
           depths == {Nesting[w] : w \in Wrong}
<1> HIDE DEF S
<1> SUFFICES ASSUME Wrong # {} PROVE FALSE
  BY DEF S
<1>1. depths \in SUBSET Nat /\ depths # {}
  BY NestingOfParts
<1>2. PICK d \in depths : \A other \in depths : d <= other
  BY <1>1, LeastNumber
<1>3. PICK w \in Wrong : d = Nesting[w]
  OBVIOUS
<1>4. ASSUME NEW u \in Parts(w) PROVE S[S[u]] = S[u]
  <2>1. /\ u \in Json /\ Nesting[u] \in Nat /\ Nesting[w] \in Nat
        /\ Nesting[u] < Nesting[w]
    BY NestingOfParts
  <2>2. u \notin Wrong
    BY <1>2, <1>3, <2>1
  <2> QED
    BY <2>1, <2>2
<1>5. S[w] \in Json
  BY MetadataAssumption DEF S
<1>6. CASE w.json = "array"
  <2> DEFINE items == [i \in DOMAIN w.items |-> S[w.items[i]]]
             again == [i \in DOMAIN items |-> S[items[i]]]
  <2>1. S[w] = [json |-> "array", items |-> items]
    BY <1>6, SanitizedArray DEF S
  <2>2. \A i \in DOMAIN w.items : w.items[i] \in Parts(w)
    BY <1>6 DEF Parts, ToSet
  <2>3. again = items
    BY <1>4, <2>2
  <2> HIDE DEF items
  <2>4. S[w].json = "array" /\ S[w].items = items
    BY <2>1
  <2>5. S[S[w]] = [json |-> "array", items |-> again]
    BY <1>5, <2>4, SanitizedArray DEF S
  <2> HIDE DEF again
  <2> QED
    BY <2>1, <2>3, <2>5
<1>7. CASE w.json = "record"
  <2> DEFINE kept == KeptFields(w)
             fields == [i \in DOMAIN kept |-> [key |-> kept[i].key, value |-> S[kept[i].value]]]
             again == [i \in DOMAIN fields |-> [key |-> fields[i].key,
                                                value |-> S[fields[i].value]]]
             clean == {e \in ToSet(fields) : e.key \notin MetadataRedactionKeys}
  <2>1. S[w] = [json |-> "record", fields |-> fields]
    BY <1>7, SanitizedRecord DEF S
  <2>2. /\ IsList(kept)
        /\ \A i \in DOMAIN kept :
             kept[i].key \notin MetadataRedactionKeys /\ kept[i].value \in Parts(w)
    BY <1>7, FieldsAreKept
  <2> HIDE DEF kept
  <2>3. IsList(fields) /\ DOMAIN fields = DOMAIN kept
    BY <2>2, MappedList
  <2>4. again = fields
    BY <1>4, <2>2
  <2>5. ToSet(fields) \subseteq clean
    BY <2>2, <2>3 DEF ToSet
  <2> HIDE DEF fields
  <2>6. KeptFields(S[w]) = fields
    <3>1. S[w].fields = fields
      BY <2>1
    <3>2. KeptFields(S[w]) = Only(fields, clean)
      BY <3>1 DEF KeptFields
    <3> HIDE DEF clean
    <3> QED
      BY <2>3, <2>5, <3>2, OnlyKeeps
  <2>7. S[w].json = "record"
    BY <2>1
  <2>8. S[S[w]] = [json |-> "record", fields |-> again]
    BY <1>5, <2>6, <2>7, SanitizedRecord DEF S
  <2> HIDE DEF again
  <2> QED
    BY <2>1, <2>4, <2>8
<1>8. CASE w.json \notin {"array", "record"}
  <2>1. S[w] = w
    BY <1>8, SanitizedUnfolds DEF S, Sanitized
  <2> QED
    BY <2>1
<1> QED
  BY <1>6, <1>7, <1>8

\* A field that was copied once is copied again as it is.
LEMMA RecordFieldTwice ==
  ASSUME NEW value \in Json \cup {Absent}
  PROVE  /\ RecordField(value) \in Json \cup {Absent}
         /\ RecordField(RecordField(value)) = RecordField(value)
<1>1. CASE value = Absent \/ value.json # "record"
  BY <1>1 DEF RecordField
<1>2. CASE value # Absent /\ value.json = "record"
  <2>1. RecordField(value) = SanitizedMetadata[value] /\ value \in Json
    BY <1>2 DEF RecordField
  <2>2. SanitizedMetadata[value] \in Json
    BY <2>1, MetadataAssumption
  <2>3. SanitizedMetadata[value].json = "record"
    <3>1. \E fields : SanitizedMetadata[value] = [json |-> "record", fields |-> fields]
      BY <1>2, <2>1, SanitizedRecord
    <3> QED
      BY <3>1
  <2>4. SanitizedMetadata[SanitizedMetadata[value]] = SanitizedMetadata[value]
    BY <2>1, SanitizedTwice
  <2> QED
    BY <2>1, <2>2, <2>3, <2>4 DEF RecordField
<1> QED
  BY <1>1, <1>2

\* A descriptor that is shown, field by field.
LEMMA DescriptorFields ==
  ASSUME NEW tool, IsTool(tool)
  PROVE  VisibleDescriptor(tool)
           = [field \in ToolField |->
                CASE field \in {"description", "title"} -> TextField(tool[field])
                  [] field \in {"inputSchema", "outputSchema", "annotations"} ->
                       RecordField(tool[field])
                  [] field = "extra" -> {}
                  [] OTHER -> tool[field]]
<1> DEFINE t == [field \in ToolField |-> tool[field]]
           d == [field \in ToolField |->
                   CASE field \in {"description", "title"} -> TextField(tool[field])
                     [] field \in {"inputSchema", "outputSchema", "annotations"} ->
                          RecordField(tool[field])
                     [] field = "extra" -> {}
                     [] OTHER -> tool[field]]
<1>1. tool = t
  BY DEF IsTool
<1>2. VisibleDescriptor(t) = d
  BY DEF VisibleDescriptor, ToolField
<1> QED
  BY <1>1, <1>2

\* A descriptor that was shown is shown again as it is.
LEMMA DescriptorTwice ==
  ASSUME NEW tool, IsTool(tool)
  PROVE  /\ IsTool(VisibleDescriptor(tool))
         /\ VisibleDescriptor(VisibleDescriptor(tool)) = VisibleDescriptor(tool)
         /\ VisibleDescriptor(tool).name = tool.name
         /\ VisibleDescriptor(tool).keywords = tool.keywords
         /\ VisibleDescriptor(tool).description = TextField(tool.description)
         /\ \A field \in {"inputSchema", "outputSchema", "annotations"} :
              VisibleDescriptor(tool)[field] = RecordField(tool[field])
<1> DEFINE d == VisibleDescriptor(tool)
<1>1. \A field \in {"inputSchema", "outputSchema", "annotations"} :
        tool[field] \in Json \cup {Absent}
  BY DEF IsTool
<1>2. d = [field \in ToolField |->
             CASE field \in {"description", "title"} -> TextField(tool[field])
               [] field \in {"inputSchema", "outputSchema", "annotations"} ->
                    RecordField(tool[field])
               [] field = "extra" -> {}
               [] OTHER -> tool[field]]
  BY DescriptorFields
<1> HIDE DEF d
<1>3. /\ d.name = tool.name /\ d.keywords = tool.keywords /\ d.extra = {}
      /\ d.description = TextField(tool.description) /\ d.title = TextField(tool.title)
      /\ d.inputSchema = RecordField(tool.inputSchema)
      /\ d.outputSchema = RecordField(tool.outputSchema)
      /\ d.annotations = RecordField(tool.annotations)
  BY <1>2 DEF ToolField
<1>4. \A field \in {"inputSchema", "outputSchema", "annotations"} :
        d[field] = RecordField(tool[field])
  BY <1>3
<1>5. IsTool(d)
  <2>1. \A field \in {"inputSchema", "outputSchema", "annotations"} :
          d[field] \in Json \cup {Absent}
    BY <1>1, <1>4, RecordFieldTwice
  <2>2. d = [field \in ToolField |-> d[field]]
    BY <1>2
  <2> QED
    BY <2>1, <2>2 DEF IsTool
<1>6. VisibleDescriptor(d) = d
  <2> DEFINE again == [field \in ToolField |->
                         CASE field \in {"description", "title"} -> TextField(d[field])
                           [] field \in {"inputSchema", "outputSchema", "annotations"} ->
                                RecordField(d[field])
                           [] field = "extra" -> {}
                           [] OTHER -> d[field]]
  <2>1. VisibleDescriptor(d) = again
    BY <1>5, DescriptorFields
  <2>2. \A field \in {"inputSchema", "outputSchema", "annotations"} :
          RecordField(d[field]) = d[field]
    BY <1>1, <1>4, RecordFieldTwice
  <2>3. \A text : TextField(TextField(text)) = TextField(text)
    BY DEF TextField
  <2>4. \A field \in {"description", "title"} : TextField(d[field]) = d[field]
    BY <1>3, <2>3
  <2>5. \A field \in ToolField : again[field] = d[field]
    BY <1>3, <2>2, <2>4 DEF ToolField
  <2>6. d = [field \in ToolField |-> d[field]]
    BY <1>5 DEF IsTool
  <2> HIDE DEF again
  <2>7. again = [field \in ToolField |-> again[field]]
    BY DEF again
  <2> QED
    BY <2>1, <2>5, <2>6, <2>7
<1> QED
  BY <1>3, <1>4, <1>5, <1>6 DEF d

\* What a tool needs is read from its keywords and its description.
LEMMA ClassifiedAlike ==
  ASSUME NEW tool, IsTool(tool), NEW other, IsTool(other), other.keywords = tool.keywords,
         TextField(other.description) = TextField(tool.description)
  PROVE  Classify([other EXCEPT !.description = TextField(@)], <<>>)
           = Classify([tool EXCEPT !.description = TextField(@)], <<>>)
<1> DEFINE one == [tool EXCEPT !.description = TextField(@)]
           two == [other EXCEPT !.description = TextField(@)]
<1>1. /\ tool = [field \in ToolField |-> tool[field]]
      /\ other = [field \in ToolField |-> other[field]]
  BY DEF IsTool
<1>2. /\ one.keywords = tool.keywords /\ one.description = TextField(tool.description)
      /\ two.keywords = other.keywords /\ two.description = TextField(other.description)
  BY <1>1 DEF ToolField
<1> HIDE DEF one, two
<1>3. Mentions(one) = Mentions(two)
  BY <1>2 DEF Mentions
<1>4. Classify(one, <<>>) = Classify(two, <<>>)
  BY <1>3 DEF Classify
<1> QED
  BY <1>4 DEF one, two

\* The tools that are shown: their names are all different, and showing them again shows
\* the same.
LEMMA VisibleToolsTwice ==
  ASSUME NEW tools, IsList(tools), NEW rules,
         \A tool \in ToSet(tools) : tool = Malformed \/ IsTool(tool),
         Malformed \notin ToSet(VisibleTools(tools, rules))
  PROVE  LET visible == VisibleTools(tools, rules)
         IN  /\ IsList(visible) /\ VisibleTools(visible, rules) = visible
             /\ IsInjective([i \in DOMAIN visible |-> visible[i].name])
             /\ \A i \in DOMAIN visible : \E tool \in ToSet(tools) :
                  tool # Malformed /\ visible[i] = VisibleDescriptor(tool)
<1> DEFINE shown(tool, all) ==
             /\ tool # Malformed
             /\ tool.name \notin DuplicateNames(all)
             /\ Covered(rules, tool.name,
                        Classify([tool EXCEPT !.description = TextField(@)], <<>>))
           kept == Only(tools, {tool \in ToSet(tools) : shown(tool, tools)})
           visible == [i \in DOMAIN kept |-> VisibleDescriptor(kept[i])]
           again == Only(visible, {tool \in ToSet(visible) : shown(tool, visible)})
<1>1. /\ VisibleTools(tools, rules) = visible
      /\ VisibleTools(visible, rules) = [i \in DOMAIN again |-> VisibleDescriptor(again[i])]
  BY DEF VisibleTools
<1>2. /\ IsList(kept)
      /\ ToSet(kept) = ToSet(tools) \cap {tool \in ToSet(tools) : shown(tool, tools)}
      /\ \E place \in [DOMAIN kept -> DOMAIN tools] :
           /\ \A i \in DOMAIN kept : kept[i] = tools[place[i]]
           /\ \A i, j \in DOMAIN kept : i < j => place[i] < place[j]
  <2> DEFINE S == {tool \in ToSet(tools) : shown(tool, tools)}
  <2> HIDE DEF S
  <2>1. /\ IsList(Only(tools, S)) /\ ToSet(Only(tools, S)) = ToSet(tools) \cap S
        /\ \E place \in [DOMAIN Only(tools, S) -> DOMAIN tools] :
             /\ \A i \in DOMAIN Only(tools, S) : Only(tools, S)[i] = tools[place[i]]
             /\ \A i, j \in DOMAIN Only(tools, S) : i < j => place[i] < place[j]
    BY OnlyKeeps
  <2> QED
    BY <2>1 DEF S
<1> HIDE DEF kept
<1>3. IsList(visible) /\ DOMAIN visible = DOMAIN kept
  BY <1>2, MappedList
<1>4. ASSUME NEW i \in DOMAIN kept
      PROVE  /\ kept[i] \in ToSet(tools) /\ shown(kept[i], tools)
             /\ kept[i] # Malformed /\ IsTool(kept[i]) /\ visible[i] = VisibleDescriptor(kept[i])
             /\ visible[i] # Malformed
  <2>1. kept[i] \in ToSet(kept)
    BY DEF ToSet
  <2>2. kept[i] \in ToSet(tools) /\ shown(kept[i], tools)
    BY <1>2, <2>1
  <2> HIDE DEF shown
  <2>3. kept[i] # Malformed
    BY <2>2 DEF shown
  <2>4. visible[i] # Malformed
    BY <1>1, <1>3 DEF ToSet
  <2> QED
    BY <2>2, <2>3, <2>4
<1> HIDE DEF visible, shown
<1>5. \A i \in DOMAIN kept : visible[i].name = kept[i].name
  BY <1>4, DescriptorTwice
<1>6. ASSUME NEW i \in DOMAIN kept, NEW j \in DOMAIN kept, i # j
      PROVE  visible[i].name # visible[j].name
  <2> SUFFICES ASSUME kept[i].name = kept[j].name PROVE FALSE
    BY <1>5
  <2>1. PICK place \in [DOMAIN kept -> DOMAIN tools] :
          /\ \A k \in DOMAIN kept : kept[k] = tools[place[k]]
          /\ \A k, l \in DOMAIN kept : k < l => place[k] < place[l]
    BY <1>2
  <2>2. place[i] # place[j]
    <3>1. i \in Nat /\ j \in Nat /\ place[i] \in Nat /\ place[j] \in Nat
      BY <1>2, ListDomain
    <3>2. i < j \/ j < i
      BY <1>6, <3>1
    <3> QED
      BY <2>1, <3>1, <3>2
  <2>3. /\ place[i] \in DOMAIN tools /\ place[j] \in DOMAIN tools \ {place[i]}
        /\ tools[place[i]] = kept[i] /\ tools[place[j]] = kept[j]
    BY <2>1, <2>2
  <2>4. kept[i].name \in DuplicateNames(tools)
    BY <1>4, <2>3 DEF DuplicateNames
  <2> QED
    BY <1>4, <2>4 DEF shown
<1>7. IsInjective([i \in DOMAIN visible |-> visible[i].name])
  BY <1>3, <1>6 DEF IsInjective
<1>8. DuplicateNames(visible) = {}
  BY <1>3, <1>6 DEF DuplicateNames
<1>9. ASSUME NEW i \in DOMAIN kept PROVE shown(visible[i], visible)
  <2>1. /\ IsTool(kept[i]) /\ IsTool(visible[i]) /\ visible[i].name = kept[i].name
        /\ visible[i].keywords = kept[i].keywords
        /\ visible[i].description = TextField(kept[i].description)
    BY <1>4, DescriptorTwice
  <2>2. TextField(visible[i].description) = TextField(kept[i].description)
    BY <2>1 DEF TextField
  <2>3. Classify([visible[i] EXCEPT !.description = TextField(@)], <<>>)
          = Classify([kept[i] EXCEPT !.description = TextField(@)], <<>>)
    BY <2>1, <2>2, ClassifiedAlike
  <2>4. shown(kept[i], tools) /\ visible[i] # Malformed
    BY <1>4
  <2> QED
    BY <1>8, <2>1, <2>3, <2>4 DEF shown
<1>10. again = visible
  <2> DEFINE S == {tool \in ToSet(visible) : shown(tool, visible)}
  <2>1. ToSet(visible) \subseteq S
    BY <1>3, <1>9 DEF ToSet
  <2> HIDE DEF S
  <2>2. Only(visible, S) = visible
    BY <1>3, <2>1, OnlyKeeps
  <2> QED
    BY <2>2 DEF S
<1> HIDE DEF again
<1>11. [i \in DOMAIN again |-> VisibleDescriptor(again[i])] = visible
  <2>1. \A i \in DOMAIN visible : VisibleDescriptor(visible[i]) = visible[i]
    BY <1>3, <1>4, DescriptorTwice
  <2>2. visible = [i \in DOMAIN visible |-> visible[i]]
    BY DEF visible
  <2> QED
    BY <1>10, <2>1, <2>2
<1>12. \A i \in DOMAIN visible : \E tool \in ToSet(tools) :
         tool # Malformed /\ visible[i] = VisibleDescriptor(tool)
  BY <1>3, <1>4
<1> QED
  BY <1>1, <1>3, <1>7, <1>11, <1>12

-----------------------------------------------------------------------------
(* Lists flattened step by step, and the pieces of a text between its line   *)
(* ends.                                                                   *)

\* Lists are flattened one after another.
LEMMA FlattenSteps ==
  ASSUME NEW lists, IsList(lists), \A i \in DOMAIN lists : IsList(lists[i])
  PROVE  \E run : /\ run[0] = <<>> /\ run[Len(lists)] = FlattenSeq(lists)
                  /\ \A k \in 0..Len(lists) : IsList(run[k])
                  /\ \A k \in 0..Len(lists) - 1 : run[k + 1] = run[k] \o lists[k + 1]
<1> DEFINE n == Len(lists)
           next(f, i) == IF i = 1 THEN lists[i] ELSE f[i - 1] \o lists[i]
           flat == CHOOSE f : f = [i \in 1..n |-> next(f, i)]
           run == [k \in 0..n |-> IF k = 0 THEN <<>> ELSE flat[k]]
<1>1. n \in Nat /\ DOMAIN lists = 1..n /\ IsList(<<>>)
  BY ListDomain DEF IsList
<1>2. flat = [i \in 1..n |-> next(flat, i)]
  <2> DEFINE Exists(k) == \E f : f = [i \in 1..k |-> next(f, i)]
             There == {k \in 0..n : Exists(k)}
  <2>1. 0 \in There
    <3>1. [i \in 1..0 |-> 0] = [i \in 1..0 |-> next([j \in 1..0 |-> 0], i)]
      OBVIOUS
    <3> HIDE DEF next
    <3>2. Exists(0)
      BY <3>1
    <3> HIDE DEF Exists
    <3> QED
      BY <1>1, <3>2
  <2>2. ASSUME NEW k \in 0..n - 1, k \in There PROVE k + 1 \in There
    <3>1. PICK g : g = [i \in 1..k |-> next(g, i)]
      BY <2>2
    <3> DEFINE f == [i \in 1..k + 1 |-> IF i <= k THEN g[i] ELSE next(g, k + 1)]
    <3>2. \A i \in 1..k : f[i] = g[i]
      BY <1>1
    <3>3. k + 1 \in 0..n /\ k \in Nat
      BY <1>1
    <3>4. f[k + 1] = next(g, k + 1)
      BY <3>3
    <3> HIDE DEF next
    <3>5. \A i \in 1..k : g[i] = next(g, i)
      BY <3>1
    <3>6. \A i \in 1..k + 1 : next(f, i) = next(g, i)
      BY <3>2, <3>3 DEF next
    <3>7. \A i \in 1..k + 1 : f[i] = next(f, i)
      <4> HIDE DEF f
      <4> QED
        BY <3>2, <3>3, <3>4, <3>5, <3>6
    <3>8. f = [i \in 1..k + 1 |-> next(f, i)]
      BY <3>7
    <3> QED
      BY <3>3, <3>8
  <2>3. Exists(n)
    <3> HIDE DEF Exists
    <3>1. \A k \in 0..n : k \in There
      <4> HIDE DEF There
      <4> QED
        BY <1>1, <2>1, <2>2, Climb
    <3> QED
      BY <1>1, <3>1
  <2> QED
    BY <2>3
<1> HIDE DEF flat
<1>3. \A k \in 1..n : flat[k] = next(flat, k)
  <2> HIDE DEF next
  <2> QED
    BY <1>2
<1>4. run[0] = <<>> /\ \A k \in 1..n : run[k] = flat[k]
  BY <1>1
<1>5. run[n] = FlattenSeq(lists)
  <2>1. CASE n = 0
    <3>1. lists = <<>> /\ FlattenSeq(lists) = lists
      BY <1>1, <2>1, ListDomain DEF FlattenSeq
    <3> QED
      BY <1>4, <2>1, <3>1
  <2>2. CASE n # 0
    <3>1. FlattenSeq(lists) = flat[n]
      BY <2>2 DEF FlattenSeq, flat
    <3>2. n \in 1..n
      BY <1>1, <2>2
    <3> QED
      BY <1>4, <3>1, <3>2
  <2> QED
    BY <2>1, <2>2
<1> HIDE DEF run
<1> DEFINE Good(k) == /\ IsList(run[k])
                      /\ k < n => run[k + 1] = run[k] \o lists[k + 1]
           There == {k \in 0..n : Good(k)}
<1>6. \A k \in 0..n : IsList(run[k]) /\ k < n => run[k + 1] = run[k] \o lists[k + 1]
  <2> SUFFICES ASSUME NEW k \in 0..n, IsList(run[k]), k < n
               PROVE  run[k + 1] = run[k] \o lists[k + 1]
    OBVIOUS
  <2>1. k \in Nat /\ k + 1 \in 1..n /\ (k + 1) - 1 = k
    BY <1>1
  <2>2. run[k + 1] = next(flat, k + 1)
    <3> HIDE DEF next
    <3> QED
      BY <1>3, <1>4, <2>1
  <2>3. CASE k = 0
    <3>1. run[k + 1] = lists[1] /\ IsList(lists[1]) /\ lists[1] = lists[k + 1]
      BY <1>1, <2>1, <2>2, <2>3
    <3>2. run[k] = <<>> /\ lists[1] \in Seq(ToSet(lists[1]))
      BY <1>4, <2>3, <3>1, ListDomain
    <3>3. <<>> \o lists[1] = lists[1]
      BY <3>2
    <3> QED
      BY <3>1, <3>2, <3>3
  <2>4. CASE k # 0
    <3>1. k \in 1..n
      BY <2>1, <2>4
    <3>2. next(flat, k + 1) = flat[(k + 1) - 1] \o lists[k + 1]
      <4>1. k + 1 # 1
        BY <2>1, <2>4
      <4> QED
        BY <4>1, Zenon
    <3>3. flat[(k + 1) - 1] = run[k]
      BY <1>4, <2>1, <3>1
    <3> QED
      BY <2>2, <3>2, <3>3
  <2> QED
    BY <2>3, <2>4
<1>7. 0 \in There
  <2>1. 0 \in 0..n /\ IsList(run[0])
    BY <1>1, <1>4
  <2> QED
    BY <1>6, <2>1
<1>8. ASSUME NEW k \in 0..n - 1, k \in There PROVE k + 1 \in There
  <2>1. k + 1 \in 0..n /\ k \in 0..n /\ k < n /\ k + 1 \in DOMAIN lists
    BY <1>1
  <2>2. run[k + 1] = run[k] \o lists[k + 1] /\ IsList(run[k])
    BY <1>8, <2>1
  <2>3. IsList(run[k + 1])
    BY <2>1, <2>2, ListConcat
  <2> QED
    BY <1>6, <2>1, <2>3
<1>9. \A k \in 0..n : k \in There
  <2> HIDE DEF There
  <2> QED
    BY <1>1, <1>7, <1>8, Climb
<1>10. \A k \in 0..n - 1 : k \in 0..n /\ k < n
  BY <1>1
<1> QED
  BY <1>4, <1>5, <1>9, <1>10

NoText == [text |-> <<>>, ended |-> FALSE]

\* A character is added to the pieces of a text.
WithCharacter(pieces, c) ==
  IF c = LF
  THEN Append([pieces EXCEPT ![Len(pieces)].ended = TRUE], NoText)
  ELSE [pieces EXCEPT ![Len(pieces)].text = Append(@, c)]

Pieces(C) == Seq([text : Seq(C), ended : BOOLEAN]) \ {<<>>}

\* What becomes of the pieces: those before the last stay as they are.
LEMMA CharacterAdded ==
  ASSUME NEW C, NEW pieces \in Pieces(C), NEW c \in C
  PROVE  LET m == Len(pieces)
             more == WithCharacter(pieces, c)
         IN  /\ m \in Nat \ {0} /\ DOMAIN pieces = 1..m /\ more \in Pieces(C)
             /\ \A i \in 1..m - 1 : more[i] = pieces[i]
             /\ c = LF => /\ Len(more) = m + 1 /\ more[m + 1] = NoText
                          /\ more[m].ended = TRUE /\ more[m].text = pieces[m].text
             /\ c # LF => /\ Len(more) = m
                          /\ more[m].ended = pieces[m].ended
                          /\ more[m].text = Append(pieces[m].text, c)
<1> DEFINE P == [text : Seq(C), ended : BOOLEAN]
           m == Len(pieces)
           more == WithCharacter(pieces, c)
<1>1. pieces \in Seq(P) /\ m \in Nat \ {0} /\ DOMAIN pieces = 1..m /\ pieces[m] \in P
  <2>1. pieces \in Seq(P) /\ pieces # <<>>
    BY DEF Pieces
  <2> HIDE DEF P
  <2>2. m \in Nat \ {0}
    BY <2>1, EmptySeq
  <2> QED
    BY <2>1, <2>2
<1>2. NoText \in P
  BY DEF NoText
<1> HIDE DEF m
<1>3. CASE c = LF
  <2> DEFINE last == [pieces[m] EXCEPT !.ended = TRUE]
             ended == [i \in 1..m |-> IF i = m THEN last ELSE pieces[i]]
  <2>1. last \in P /\ last.ended = TRUE /\ last.text = pieces[m].text
    BY <1>1
  <2>2. more = Append(ended, NoText)
    BY <1>1, <1>3 DEF WithCharacter, m
  <2> HIDE DEF last, P
  <2>3. ended \in Seq(P) /\ Len(ended) = m
    <3>1. ended \in [1..m -> P]
      BY <1>1, <2>1
    <3> HIDE DEF ended
    <3> QED
      BY <1>1, <3>1
  <2>4. ended[m] = last /\ \A i \in 1..m - 1 : ended[i] = pieces[i]
    <3>1. m \in 1..m /\ \A i \in 1..m - 1 : i \in 1..m /\ i # m
      BY <1>1
    <3> QED
      BY <3>1
  <2> HIDE DEF ended, more
  <2>5. /\ more \in Seq(P) /\ Len(more) = m + 1 /\ more[m + 1] = NoText
        /\ \A i \in 1..m : more[i] = ended[i]
    BY <1>1, <1>2, <2>2, <2>3
  <2>6. more \in Pieces(C)
    <3>1. more # <<>>
      BY <1>1, <2>5
    <3> QED
      BY <2>5, <3>1 DEF Pieces, P
  <2>7. /\ \A i \in 1..m - 1 : more[i] = pieces[i]
        /\ more[m].ended = TRUE /\ more[m].text = pieces[m].text
    BY <1>1, <2>1, <2>4, <2>5
  <2> QED
    BY <1>1, <1>3, <2>5, <2>6, <2>7 DEF more, m
<1>4. CASE c # LF
  <2> DEFINE last == [pieces[m] EXCEPT !.text = Append(@, c)]
  <2>1. /\ last \in P /\ last.ended = pieces[m].ended
        /\ last.text = Append(pieces[m].text, c)
    <3>1. Append(pieces[m].text, c) \in Seq(C)
      BY <1>1
    <3> QED
      BY <1>1, <3>1
  <2>2. more = [i \in 1..m |-> IF i = m THEN last ELSE pieces[i]]
    BY <1>1, <1>4 DEF WithCharacter, m
  <2> HIDE DEF last, P, more
  <2>3. more \in Seq(P) /\ Len(more) = m
    <3>1. more \in [1..m -> P]
      BY <1>1, <2>1, <2>2
    <3> QED
      BY <1>1, <3>1
  <2>4. more[m] = last /\ \A i \in 1..m - 1 : more[i] = pieces[i]
    <3> DEFINE other == [i \in 1..m |-> IF i = m THEN last ELSE pieces[i]]
    <3>1. m \in 1..m /\ \A i \in 1..m - 1 : i \in 1..m /\ i # m
      BY <1>1
    <3>2. other[m] = last /\ \A i \in 1..m - 1 : other[i] = pieces[i]
      BY <3>1
    <3> QED
      BY <2>2, <3>2
  <2>5. more \in Pieces(C)
    <3>1. more # <<>>
      BY <1>1, <2>3
    <3> QED
      BY <2>3, <3>1 DEF Pieces, P
  <2> QED
    BY <1>1, <1>4, <2>1, <2>3, <2>4, <2>5 DEF more, m
<1> QED
  BY <1>3, <1>4

\* The fragments of a text are made of one character after another.
LEMMA FragmentsSteps ==
  ASSUME NEW text, IsList(text)
  PROVE  \E run \in [0..Len(text) -> Pieces(ToSet(text))] :
           /\ run[0] = <<NoText>> /\ run[Len(text)] = Fragments(text)
           /\ \A k \in 0..Len(text) - 1 : run[k + 1] = WithCharacter(run[k], text[k + 1])
<1> DEFINE n == Len(text)
           Acc == Pieces(ToSet(text))
           base == <<NoText>>
           next(f, I) == IF I = {} THEN base ELSE WithCharacter(f[I \ {Max(I)}], text[Max(I)])
           Step == [at \in Acc \X (1..n) |-> WithCharacter(at[1], text[at[2]])]
           fold == CHOOSE f : f = [I \in SUBSET (1..n) |-> next(f, I)]
<1>1. n \in Nat /\ DOMAIN text = 1..n /\ base \in Acc
  <2>1. NoText \in [text : Seq(ToSet(text)), ended : BOOLEAN]
    BY DEF NoText
  <2>2. base \in Seq([text : Seq(ToSet(text)), ended : BOOLEAN]) /\ base # <<>>
    BY <2>1
  <2> QED
    BY <2>2, ListDomain DEF Pieces
<1>2. Fragments(text) = fold[1..n]
  <2>1. Fragments(text)
          = (CHOOSE f : f = [I \in SUBSET DOMAIN text |-> next(f, I)])[DOMAIN text]
    BY DEF Fragments, FoldLeft, MapThenFoldSet, WithCharacter, NoText
  <2> QED
    BY <1>1, <2>1
<1>3. \A pieces \in Acc, i \in 1..n : WithCharacter(pieces, text[i]) \in Acc
  <2>1. \A i \in 1..n : text[i] \in ToSet(text)
    BY <1>1 DEF ToSet
  <2> QED
    BY <2>1, CharacterAdded
<1> HIDE DEF Acc, fold, base
<1>4. Step \in [Acc \X (1..n) -> Acc]
  BY <1>3
<1>5. \A pieces \in Acc, i \in 1..n : Step[<<pieces, i>>] = WithCharacter(pieces, text[i])
  OBVIOUS
<1> HIDE DEF Step
<1>6. \A I \in SUBSET (1..n) : I # {} => Max(I) \in 1..n /\ I \ {Max(I)} \in SUBSET (1..n)
  BY <1>1, GreatestPlace
<1>7. fold = [I \in SUBSET (1..n) |-> next(fold, I)]
  <2>1. PICK g \in [SUBSET (1..n) -> Acc] : FoldsBy(g, n, base, Step)
    BY <1>1, <1>4, FoldExists
  <2>2. \A I \in SUBSET (1..n) : g[I] = next(g, I)
    BY <1>5, <1>6, <2>1 DEF FoldsBy
  <2> HIDE DEF next
  <2>3. g = [I \in SUBSET (1..n) |-> next(g, I)]
    BY <2>2
  <2> QED
    BY <2>3 DEF fold
<1>8. \A I \in SUBSET (1..n) : fold[I] = next(fold, I)
  <2> HIDE DEF next
  <2> QED
    BY <1>7
<1>9. TakesSteps(fold, n, Acc, base, Step)
  BY <1>1, <1>4, <1>5, <1>6, <1>8 DEF TakesSteps
<1>10. PICK run \in [0..n -> Acc] : Runs(run, n, base, Step) /\ run[n] = fold[1..n]
  BY <1>9, FoldSteps
<1>11. \A k \in 0..n - 1 : run[k + 1] = WithCharacter(run[k], text[k + 1])
  <2> SUFFICES ASSUME NEW k \in 0..n - 1
               PROVE  run[k + 1] = WithCharacter(run[k], text[k + 1])
    OBVIOUS
  <2>1. k \in 0..n /\ k + 1 \in 1..n /\ run[k] \in Acc
    BY <1>1
  <2> QED
    BY <1>5, <1>10, <2>1 DEF Runs
<1> QED
  BY <1>2, <1>10, <1>11 DEF Acc, base, Runs

\* A piece lies behind the place `from` of a text, up to the place `to`.
PieceAt(piece, text, from, to, ended) ==
  /\ piece.ended = ended
  /\ to = from + Len(piece.text) + (IF ended THEN 1 ELSE 0)
  /\ \A j \in 1..Len(piece.text) : piece.text[j] = text[from + j] /\ piece.text[j] # LF
  /\ ended => text[to] = LF

\* Pieces cover the first k places of a text, and all but the last are ended.
Covers(pieces, text, k) ==
  \E at \in [0..Len(pieces) -> 0..k] :
    /\ at[0] = 0 /\ at[Len(pieces)] = k
    /\ \A i \in 1..Len(pieces) : PieceAt(pieces[i], text, at[i - 1], at[i], i < Len(pieces))

\* The pieces of a text cover the text and one more character after that is added.
LEMMA CharacterCovers ==
  ASSUME NEW text, IsList(text), NEW k \in 0..Len(text) - 1,
         NEW pieces \in Pieces(ToSet(text)), Covers(pieces, text, k)
  PROVE  Covers(WithCharacter(pieces, text[k + 1]), text, k + 1)
<1> DEFINE n == Len(text)
           c == text[k + 1]
           m == Len(pieces)
           more == WithCharacter(pieces, c)
<1>1. n \in Nat /\ DOMAIN text = 1..n /\ k \in Nat /\ k + 1 \in 1..n /\ c \in ToSet(text)
  <2>1. n \in Nat /\ DOMAIN text = 1..n
    BY ListDomain
  <2> HIDE DEF n
  <2>2. k \in Nat /\ k + 1 \in 1..n
    BY <2>1 DEF n
  <2> QED
    BY <2>1, <2>2 DEF ToSet
<1> HIDE DEF c, m, n
<1>2. /\ m \in Nat \ {0} /\ DOMAIN pieces = 1..m /\ more \in Pieces(ToSet(text))
      /\ \A i \in 1..m - 1 : more[i] = pieces[i]
      /\ c = LF => /\ Len(more) = m + 1 /\ more[m + 1] = NoText
                   /\ more[m].ended = TRUE /\ more[m].text = pieces[m].text
      /\ c # LF => /\ Len(more) = m
                   /\ more[m].ended = pieces[m].ended
                   /\ more[m].text = Append(pieces[m].text, c)
  BY <1>1, CharacterAdded DEF m
<1>3. PICK at \in [0..m -> 0..k] :
        /\ at[0] = 0 /\ at[m] = k
        /\ \A i \in 1..m : PieceAt(pieces[i], text, at[i - 1], at[i], i < m)
  BY DEF Covers, m
<1>4. /\ m \in 1..m /\ ~(m < m) /\ m - 1 \in 0..m /\ at[m - 1] \in Nat /\ at[m - 1] <= k
      /\ \A i \in 1..m - 1 :
           i \in 1..m /\ i # m /\ i < m /\ i - 1 \in 0..m /\ i \in 0..m /\ i - 1 < m
  BY <1>1, <1>2, <1>3
<1>5. /\ pieces[m].text \in Seq(ToSet(text)) /\ Len(pieces[m].text) \in Nat
      /\ PieceAt(pieces[m], text, at[m - 1], k, FALSE)
  <2>1. pieces[m] \in [text : Seq(ToSet(text)), ended : BOOLEAN]
    <3> DEFINE P == [text : Seq(ToSet(text)), ended : BOOLEAN]
    <3>1. pieces \in Seq(P)
      BY DEF Pieces
    <3> HIDE DEF P
    <3>2. Len(pieces) \in 1..Len(pieces)
      BY <1>2 DEF m
    <3>3. pieces[Len(pieces)] \in P
      BY <3>1, <3>2, ElementOfSeq
    <3> QED
      BY <3>3 DEF P, m
  <2>2. PieceAt(pieces[m], text, at[m - 1], at[m], m < m)
    BY <1>3, <1>4
  <2>3. (m < m) = FALSE
    BY <1>4
  <2> QED
    <3>1. pieces[m].text \in Seq(ToSet(text))
      BY <2>1
    <3>2. PieceAt(pieces[m], text, at[m - 1], k, FALSE)
      BY <1>3, <2>2, <2>3
    <3> QED
      BY <3>1, <3>2, LenProperties
<1>6. k = at[m - 1] + Len(pieces[m].text) /\ pieces[m].ended = FALSE
  BY <1>1, <1>4, <1>5 DEF PieceAt
<1> HIDE DEF more
<1> DEFINE then == [i \in 0..Len(more) |-> IF i < m THEN at[i] ELSE k + 1]
<1>7. /\ then \in [0..Len(more) -> 0..k + 1]
      /\ then[0] = 0 /\ then[Len(more)] = k + 1 /\ then[m] = k + 1
      /\ \A i \in 0..m - 1 : then[i] = at[i]
  <2>1. Len(more) \in {m, m + 1} /\ m \in 0..Len(more) /\ Len(more) \in 0..Len(more)
    BY <1>2
  <2>2. \A i \in 0..m - 1 : i \in 0..Len(more) /\ i < m /\ i \in 0..m
    BY <1>2, <2>1
  <2>3. \A i \in 0..Len(more) : then[i] = IF i < m THEN at[i] ELSE k + 1
    OBVIOUS
  <2>4. \A i \in 0..Len(more) : then[i] \in 0..k + 1
    <3> SUFFICES ASSUME NEW i \in 0..Len(more) PROVE then[i] \in 0..k + 1
      OBVIOUS
    <3>1. CASE i < m
      <4>1. i \in 0..m
        BY <1>2, <2>1, <3>1
      <4>2. at[i] \in 0..k
        BY <1>3, <4>1
      <4> QED
        BY <1>1, <2>3, <3>1, <4>2
    <3>2. CASE ~(i < m)
      BY <1>1, <2>3, <3>2
    <3> QED
      BY <3>1, <3>2
  <2>5. then \in [0..Len(more) -> 0..k + 1]
    BY <2>4
  <2>6. 0 \in 0..m - 1 /\ ~(m < m) /\ ~(Len(more) < m)
    BY <1>2, <2>1
  <2> HIDE DEF then
  <2> QED
    BY <1>3, <2>1, <2>2, <2>3, <2>5, <2>6
<1> HIDE DEF then
<1>8. \A i \in 1..m - 1 :
        PieceAt(more[i], text, then[i - 1], then[i], i < Len(more))
  <2> SUFFICES ASSUME NEW i \in 1..m - 1
               PROVE  PieceAt(more[i], text, then[i - 1], then[i], i < Len(more))
    OBVIOUS
  <2>1. PieceAt(pieces[i], text, at[i - 1], at[i], i < m)
    BY <1>3, <1>4
  <2>2. i - 1 \in 0..m - 1 /\ i \in 0..m - 1 /\ (i < m) = TRUE /\ (i < Len(more)) = TRUE
    BY <1>2
  <2>3. more[i] = pieces[i] /\ then[i - 1] = at[i - 1] /\ then[i] = at[i]
    BY <1>2, <1>7, <2>2
  <2> QED
    BY <2>1, <2>2, <2>3
<1>9. then[m - 1] = at[m - 1]
  BY <1>2, <1>7
<1>10. CASE c = LF
  <2>1. Len(more) = m + 1 /\ (m < m + 1) = TRUE /\ (m + 1 < m + 1) = FALSE /\ (m + 1) - 1 = m
    BY <1>2, <1>10
  <2>2. PieceAt(more[m], text, then[m - 1], then[m], TRUE)
    <3>1. more[m].ended = TRUE /\ more[m].text = pieces[m].text
      BY <1>2, <1>10
    <3>2. text[k + 1] = LF
      BY <1>10 DEF c
    <3> QED
      BY <1>1, <1>5, <1>6, <1>7, <1>9, <3>1, <3>2 DEF PieceAt
  <2>3. PieceAt(more[m + 1], text, then[m], then[m + 1], FALSE)
    <3>1. more[m + 1] = NoText /\ then[m + 1] = k + 1
      BY <1>2, <1>7, <1>10, <2>1
    <3>2. NoText.text = <<>> /\ NoText.ended = FALSE /\ Len(<<>>) = 0 /\ 1..0 = {}
      BY DEF NoText
    <3> QED
      BY <1>1, <1>7, <3>1, <3>2 DEF PieceAt
  <2>4. \A i \in 1..m + 1 : i \in 1..m - 1 \/ i = m \/ i = m + 1
    BY <1>2
  <2>5. \A i \in 1..Len(more) : PieceAt(more[i], text, then[i - 1], then[i], i < Len(more))
    BY <1>8, <2>1, <2>2, <2>3, <2>4
  <2> QED
    BY <1>7, <2>5 DEF Covers, more, c
<1>11. CASE c # LF
  <2>1. Len(more) = m /\ (m < m) = FALSE
    BY <1>2, <1>11
  <2>2. PieceAt(more[m], text, then[m - 1], then[m], FALSE)
    <3> DEFINE t == pieces[m].text
    <3>1. more[m].ended = FALSE /\ more[m].text = Append(t, c)
      BY <1>2, <1>6, <1>11
    <3>2. Len(Append(t, c)) = Len(t) + 1 /\ Append(t, c)[Len(t) + 1] = c
          /\ \A j \in 1..Len(t) : Append(t, c)[j] = t[j]
      BY <1>1, <1>5, AppendProperties
    <3>3. \A j \in 1..Len(t) : t[j] = text[at[m - 1] + j] /\ t[j] # LF
      BY <1>5 DEF PieceAt
    <3>4. Len(t) \in Nat /\ at[m - 1] + (Len(t) + 1) = k + 1
      BY <1>1, <1>4, <1>5, <1>6
    <3>5. text[at[m - 1] + (Len(t) + 1)] = c
      BY <3>4 DEF c
    <3> HIDE DEF t
    <3>6. \A j \in 1..Len(t) + 1 :
            Append(t, c)[j] = text[at[m - 1] + j] /\ Append(t, c)[j] # LF
      <4>1. \A j \in 1..Len(t) + 1 : j \in 1..Len(t) \/ j = Len(t) + 1
        BY <3>4
      <4> QED
        BY <1>11, <3>2, <3>3, <3>5, <4>1
    <3>7. k + 1 = at[m - 1] + Len(Append(t, c)) + 0
      BY <1>4, <3>2, <3>4
    <3> QED
      BY <1>7, <1>9, <3>1, <3>2, <3>6, <3>7 DEF PieceAt
  <2>3. \A i \in 1..m : i \in 1..m - 1 \/ i = m
    BY <1>2
  <2>4. \A i \in 1..Len(more) : PieceAt(more[i], text, then[i - 1], then[i], i < Len(more))
    BY <1>8, <2>1, <2>2, <2>3
  <2> QED
    BY <1>7, <2>4 DEF Covers, more, c
<1> QED
  BY <1>10, <1>11

\* The fragments of a text cover it.
LEMMA FragmentsCover ==
  ASSUME NEW text, IsList(text)
  PROVE  /\ Fragments(text) \in Pieces(ToSet(text))
         /\ Covers(Fragments(text), text, Len(text))
<1> DEFINE n == Len(text)
<1>1. n \in Nat
  BY ListDomain
<1>2. PICK run \in [0..n -> Pieces(ToSet(text))] :
        /\ run[0] = <<NoText>> /\ run[n] = Fragments(text)
        /\ \A k \in 0..n - 1 : run[k + 1] = WithCharacter(run[k], text[k + 1])
  BY FragmentsSteps
<1> DEFINE There == {k \in 0..n : Covers(run[k], text, k)}
<1>3. 0 \in There
  <2> DEFINE at == [i \in 0..1 |-> 0]
  <2>1. Len(run[0]) = 1 /\ run[0][1] = NoText /\ 1..1 = {1} /\ 1 - 1 = 0 /\ (1 < 1) = FALSE
    BY <1>2
  <2>2. at \in [0..1 -> 0..0] /\ at[0] = 0 /\ at[1] = 0
    OBVIOUS
  <2> HIDE DEF at
  <2>3. PieceAt(NoText, text, 0, 0, FALSE)
    <3>1. NoText.text = <<>> /\ NoText.ended = FALSE /\ Len(<<>>) = 0 /\ 1..0 = {}
      BY DEF NoText
    <3> QED
      BY <3>1 DEF PieceAt
  <2>4. Covers(run[0], text, 0)
    BY <2>1, <2>2, <2>3 DEF Covers
  <2> QED
    BY <1>1, <2>4
<1>4. ASSUME NEW k \in 0..n - 1, k \in There PROVE k + 1 \in There
  <2>1. k \in 0..n /\ k + 1 \in 0..n
    BY <1>1
  <2>2. Covers(WithCharacter(run[k], text[k + 1]), text, k + 1)
    BY <1>2, <1>4, <2>1, CharacterCovers
  <2> QED
    BY <1>2, <2>1, <2>2
<1>5. n \in There
  <2> HIDE DEF There
  <2>1. \A k \in 0..n : k \in There
    BY <1>1, <1>3, <1>4, Climb
  <2> QED
    BY <1>1, <2>1
<1> QED
  BY <1>1, <1>2, <1>5
=============================================================================
