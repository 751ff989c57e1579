-------------------------- MODULE Operators_proofs --------------------------
(***************************************************************************)
(* What the operators of the models give, for every argument: lemmas the   *)
(* proofs about the state machines rest on.                                *)
(*                                                                         *)
(* First, induction and recursion over finite sets and over numbers, and   *)
(* sums. Induction is over a set of sets or of numbers, so that it needs   *)
(* no operator for the hypothesis. A recursive function is a choice among  *)
(* those that satisfy its equation: that there is one is shown first.      *)
(* SumFunctionOnSet adds up in an order of its own that no caller knows:   *)
(* the lemmas say that the order makes no difference. Then, the operators  *)
(* of FlowGraph, for any graph.                                            *)
(***************************************************************************)
EXTENDS FlowGraph, Integers, Functions, FiniteSetTheorems, FunctionTheorems, TLAPS

\* What holds of the empty set, and of a set when it holds of every set with
\* one member less, holds of every finite set.
LEMMA SetInduction ==
  ASSUME NEW S, IsFiniteSet(S), NEW Good,
         {} \in Good,
         \A T \in SUBSET S : T # {} /\ (\A x \in T : T \ {x} \in Good) => T \in Good
  PROVE  \A T \in SUBSET S : T \in Good
<1> DEFINE Bad == {T \in SUBSET S : T \notin Good}
<1> SUFFICES ASSUME Bad # {} PROVE FALSE
  OBVIOUS
<1>1. Bad \subseteq FiniteSubsetsOf(S)
  BY FS_Subset DEF FiniteSubsetsOf
<1>2. PICK T \in Bad : \A U \in Bad : ~ (<<U, T>> \in StrictSubsetOrdering(S))
  <2> HIDE DEF Bad
  <2> QED BY <1>1, FS_StrictSubsetOrderingWellFounded, WFMin
<1>3. T # {}
  OBVIOUS
<1>4. ASSUME NEW x \in T PROVE T \ {x} \in Good
  <2>1. <<T \ {x}, T>> \in StrictSubsetOrdering(S)
    BY <1>4 DEF StrictSubsetOrdering
  <2> QED BY <1>2, <2>1
<1> QED BY <1>3, <1>4

\* What holds of 0, and of every number up to n when it holds of the number
\* before it, holds of all numbers up to n.
LEMMA UpToInduction ==
  ASSUME NEW n \in Nat, NEW Good, 0 \in Good,
         \A i \in 1 .. n : i - 1 \in Good => i \in Good
  PROVE  \A i \in 0 .. n : i \in Good
<1> DEFINE Bad == {i \in 0 .. n : i \notin Good}
<1> SUFFICES ASSUME Bad # {} PROVE FALSE
  OBVIOUS
<1>1. Bad \subseteq Nat
  OBVIOUS
<1>2. PICK i \in Bad : \A j \in Bad : ~ (<<j, i>> \in OpToRel(<, Nat))
  <2> HIDE DEF Bad
  <2> QED BY <1>1, NatLessThanWellFounded, WFMin, Zenon
<1>3. \A j \in Bad : ~ (j < i)
  <2>1. \A j \in Nat : j < i => <<j, i>> \in OpToRel(<, Nat)
    <3>1. i \in Nat
      OBVIOUS
    <3> QED BY <3>1, Zenon DEF OpToRel
  <2> HIDE DEF Bad
  <2> QED BY <1>1, <1>2, <2>1
<1>4. i \in 1 .. n
  OBVIOUS
<1>5. i - 1 \in 0 .. n /\ i - 1 < i
  BY <1>4
<1>6. i - 1 \notin Bad
  <2> HIDE DEF Bad
  <2> QED BY <1>3, <1>5
<1> QED BY <1>4, <1>5, <1>6

\* f starts with base, and each next value comes of the one before by Step.
Iterates(f, n, X, base, Step) ==
  /\ f \in [0 .. n -> X]
  /\ f[0] = base
  /\ \A i \in 1 .. n : f[i] = Step[<<i, f[i - 1]>>]

\* The functions that recursive definitions over the numbers up to n choose.
LEMMA UpToRecursion ==
  ASSUME NEW n \in Nat, NEW X, NEW base \in X, NEW Step \in [(1 .. n) \X X -> X]
  PROVE  \E f : Iterates(f, n, X, base, Step)
<1> DEFINE Next(f)    == [i \in 0 .. n |-> IF i = 0 THEN base ELSE Step[<<i, f[i - 1]>>]]
           UpTo(f, k) == \A i \in 0 .. k : f[i] = Next(f)[i]
           Good       == {k \in 0 .. n : \E f \in [0 .. n -> X] : UpTo(f, k)}
<1>1. ASSUME NEW f \in [0 .. n -> X] PROVE Next(f) \in [0 .. n -> X]
  <2>1. ASSUME NEW i \in 0 .. n, i # 0 PROVE Step[<<i, f[i - 1]>>] \in X
    <3>1. i \in 1 .. n /\ i - 1 \in 0 .. n
      BY <2>1
    <3> QED BY <3>1
  <2> QED BY <2>1
<1>2. 0 \in Good
  <2>1. [i \in 0 .. n |-> base] \in [0 .. n -> X]
    OBVIOUS
  <2>2. UpTo([i \in 0 .. n |-> base], 0)
    OBVIOUS
  <2>3. 0 \in 0 .. n
    OBVIOUS
  <2> QED BY <2>1, <2>2, <2>3
<1>3. ASSUME NEW k \in 1 .. n, k - 1 \in Good PROVE k \in Good
  <2>1. PICK f \in [0 .. n -> X] : UpTo(f, k - 1)
    BY <1>3
  <2>2. ASSUME NEW i \in 0 .. k PROVE Next(f)[i] = Next(Next(f))[i]
    <3>1. CASE i = 0
      BY <3>1
    <3>2. CASE i # 0
      <4>1. i - 1 \in 0 .. k - 1 /\ i \in 0 .. n
        BY <3>2
      <4>2. f[i - 1] = Next(f)[i - 1]
        BY <2>1, <4>1
      <4>3. \A h : Next(h)[i] = Step[<<i, h[i - 1]>>]
        BY <3>2, <4>1
      <4> HIDE DEF Next
      <4> QED BY <4>2, <4>3
    <3> QED BY <3>1, <3>2
  <2>3. UpTo(Next(f), k)
    BY <2>2
  <2>4. Next(f) \in [0 .. n -> X] /\ k \in 0 .. n
    BY <1>1
  <2> HIDE DEF Next, UpTo
  <2> QED BY <2>3, <2>4
<1>4. n \in Good
  <2>1. n \in 0 .. n
    OBVIOUS
  <2> HIDE DEF Good
  <2> QED BY <1>2, <1>3, <2>1, UpToInduction
<1>5. PICK f \in [0 .. n -> X] : UpTo(f, n)
  BY <1>4
<1>6. \A i \in 0 .. n : f[i] = Next(f)[i]
  BY <1>5
<1>7. f[0] = base
  <2>1. 0 \in 0 .. n
    OBVIOUS
  <2> QED BY <1>6, <2>1
<1>8. \A i \in 1 .. n : f[i] = Step[<<i, f[i - 1]>>]
  BY <1>6
<1> QED BY <1>7, <1>8 DEF Iterates

\* The same, in the form a recursive definition has.
Unrolls(f, n, base, Step) ==
  f = [i \in 0 .. n |-> IF i = 0 THEN base ELSE Step[<<i, f[i - 1]>>]]

LEMMA RecursionExists ==
  ASSUME NEW n \in Nat, NEW X, NEW base \in X, NEW Step \in [(1 .. n) \X X -> X]
  PROVE  \E f \in [0 .. n -> X] : Unrolls(f, n, base, Step)
<1>1. PICK f : Iterates(f, n, X, base, Step)
  BY UpToRecursion
<1>2. f \in [0 .. n -> X] /\ f[0] = base /\ \A i \in 1 .. n : f[i] = Step[<<i, f[i - 1]>>]
  BY <1>1 DEF Iterates
<1>3. \A i \in 0 .. n : f[i] = IF i = 0 THEN base ELSE Step[<<i, f[i - 1]>>]
  <2>1. \A i \in 0 .. n : i # 0 => i \in 1 .. n
    OBVIOUS
  <2> QED BY <1>2, <2>1
<1>4. Unrolls(f, n, base, Step)
  BY <1>2, <1>3 DEF Unrolls
<1> QED BY <1>2, <1>4

LEMMA StaysUpTo ==
  ASSUME NEW n \in Nat, NEW X, NEW f, f[0] \in X,
         \A i \in 1 .. n : f[i - 1] \in X => f[i] \in X
  PROVE  \A i \in 0 .. n : f[i] \in X
<1> DEFINE Good == {i \in 0 .. n : f[i] \in X}
<1>1. 0 \in Good
  OBVIOUS
<1>2. \A i \in 1 .. n : i - 1 \in Good => i \in Good
  <2>1. \A i \in 1 .. n : i \in 0 .. n
    OBVIOUS
  <2> QED BY <2>1
<1>3. \A i \in 0 .. n : i \in Good
  <2> HIDE DEF Good
  <2> QED BY <1>1, <1>2, UpToInduction
<1> QED BY <1>3

-----------------------------------------------------------------------------
(* Sums *)

Picked(s) == CHOOSE x \in s : TRUE

\* g adds up the values of f over every subset of S.
Adds(g, f, S) ==
  g = [s \in SUBSET S |-> IF s = {} THEN 0 ELSE f[Picked(s)] + g[s \ {Picked(s)}]]

Integral(f, S) == \A x \in S : f[x] \in Int

LEMMA PickedIsMember == ASSUME NEW s, s # {} PROVE Picked(s) \in s
  BY DEF Picked

LEMMA SumIsChosen ==
  ASSUME NEW f, NEW S
  PROVE  SumFunctionOnSet(f, S) = (CHOOSE g : Adds(g, f, S))[S]
  BY DEF SumFunctionOnSet, FoldFunctionOnSet, MapThenFoldSet, Adds, Picked

\* A function that adds up the subsets up to a size extends to the next size.
LEMMA AddsExists ==
  ASSUME NEW S, IsFiniteSet(S), NEW f, Integral(f, S)
  PROVE  \E g : Adds(g, f, S)
<1> DEFINE Next(g) == [s \in SUBSET S |-> IF s = {} THEN 0
                                          ELSE f[Picked(s)] + g[s \ {Picked(s)}]]
           UpTo(g, T) == \A s \in SUBSET S : Cardinality(s) <= Cardinality(T) => g[s] = Next(g)[s]
           Good == {T \in SUBSET S : \E g \in [SUBSET S -> Int] : UpTo(g, T)}
<1>1. \A s \in SUBSET S : IsFiniteSet(s) /\ Cardinality(s) \in Nat
  BY FS_Subset, FS_CardinalityType
<1>2. ASSUME NEW g \in [SUBSET S -> Int] PROVE Next(g) \in [SUBSET S -> Int]
  <2>1. \A s \in SUBSET S : s # {} => Picked(s) \in S /\ s \ {Picked(s)} \in SUBSET S
    BY PickedIsMember
  <2> QED BY <2>1 DEF Integral
<1>3. {} \in Good
  <2> DEFINE z == [s \in SUBSET S |-> 0]
  <2>1. z \in [SUBSET S -> Int]
    OBVIOUS
  <2>2. \A s \in SUBSET S : Cardinality(s) <= Cardinality({}) => s = {}
    BY <1>1, FS_EmptySet
  <2>3. UpTo(z, {})
    BY <2>2
  <2> QED BY <2>1, <2>3
<1>4. ASSUME NEW T \in SUBSET S, T # {}, \A x \in T : T \ {x} \in Good
      PROVE  T \in Good
  <2>1. PICK x \in T : TRUE
    BY <1>4
  <2>2. PICK g \in [SUBSET S -> Int] : UpTo(g, T \ {x})
    BY <1>4, <2>1
  <2>3. Cardinality(T \ {x}) = Cardinality(T) - 1
    BY <1>1, FS_RemoveElement
  <2>4. ASSUME NEW s \in SUBSET S, Cardinality(s) <= Cardinality(T)
        PROVE  Next(g)[s] = Next(Next(g))[s]
    <3>1. CASE s = {}
      BY <3>1
    <3>2. CASE s # {}
      <4>1. Picked(s) \in s
        BY <3>2, PickedIsMember
      <4> DEFINE r == s \ {Picked(s)}
      <4>2. r \in SUBSET S /\ Cardinality(r) <= Cardinality(T \ {x})
        BY <1>1, <2>3, <2>4, <4>1, FS_RemoveElement
      <4>3. g[r] = Next(g)[r]
        BY <2>2, <4>2
      <4>4. \A h : Next(h)[s] = f[Picked(s)] + h[r]
        BY <3>2
      <4> HIDE DEF Next, r
      <4> QED BY <4>3, <4>4
    <3> QED BY <3>1, <3>2
  <2>5. UpTo(Next(g), T)
    BY <2>4
  <2>6. Next(g) \in [SUBSET S -> Int]
    BY <1>2
  <2> HIDE DEF Next, UpTo
  <2> QED BY <2>5, <2>6
<1>5. S \in Good
  <2> HIDE DEF Good
  <2>1. \A T \in SUBSET S : T # {} /\ (\A x \in T : T \ {x} \in Good) => T \in Good
    BY <1>4
  <2>2. \A T \in SUBSET S : T \in Good
    BY <1>3, <2>1, SetInduction
  <2> QED BY <2>2
<1>6. PICK g \in [SUBSET S -> Int] : UpTo(g, S)
  BY <1>5
<1>7. \A s \in SUBSET S : g[s] = Next(g)[s]
  BY <1>1, <1>6, FS_Subset
<1>8. g = Next(g)
  <2>1. Next(g) \in [SUBSET S -> Int]
    BY <1>2
  <2> HIDE DEF Next
  <2> QED BY <1>7, <2>1
<1> QED BY <1>8 DEF Adds

\* Any member may be taken first.
LEMMA AddsInAnyOrder ==
  ASSUME NEW S, IsFiniteSet(S), NEW f, Integral(f, S), NEW g, Adds(g, f, S)
  PROVE  /\ g[{}] = 0
         /\ \A s \in SUBSET S : /\ g[s] \in Int
                                /\ \A x \in s : g[s] = f[x] + g[s \ {x}]
<1> DEFINE Any(s) == \A x \in s : g[s \ {x}] \in Int /\ g[s] = f[x] + g[s \ {x}]
           Good   == {s \in SUBSET S : g[s] \in Int /\ Any(s)}
<1>1. /\ g[{}] = 0
      /\ \A s \in SUBSET S : s # {} => g[s] = f[Picked(s)] + g[s \ {Picked(s)}]
  <2>1. {} \in SUBSET S
    OBVIOUS
  <2>2. \A s \in SUBSET S : g[s] = IF s = {} THEN 0 ELSE f[Picked(s)] + g[s \ {Picked(s)}]
    BY DEF Adds
  <2> QED BY <2>1, <2>2
<1>2. {} \in Good
  BY <1>1
<1>3. ASSUME NEW s \in SUBSET S, s # {}, \A x \in s : s \ {x} \in Good
      PROVE  s \in Good
  <2> DEFINE c == Picked(s)
  <2>1. c \in s
    BY <1>3, PickedIsMember
  <2>2. g[s] = f[c] + g[s \ {c}]
    BY <1>1, <1>3
  <2>3. \A x \in s : f[x] \in Int /\ g[s \ {x}] \in Int
    BY <1>3 DEF Integral
  <2> HIDE DEF c
  <2>4. ASSUME NEW x \in s, x # c PROVE g[s] = f[x] + g[s \ {x}]
    <3> DEFINE r == s \ {c, x}
    <3>1. (s \ {c}) \ {x} = r /\ (s \ {x}) \ {c} = r
      OBVIOUS
    <3>2. Any(s \ {c}) /\ Any(s \ {x})
      BY <1>3, <2>1
    <3>3. x \in s \ {c} /\ c \in s \ {x}
      BY <2>1, <2>4
    <3>4. g[r] \in Int /\ g[s \ {c}] = f[x] + g[r] /\ g[s \ {x}] = f[c] + g[r]
      <4> HIDE DEF r
      <4> QED BY <3>1, <3>2, <3>3
    <3> HIDE DEF r
    <3> QED BY <2>1, <2>2, <2>3, <3>4
  <2>5. g[s] \in Int
    BY <2>1, <2>2, <2>3
  <2>6. Any(s)
    BY <2>2, <2>3, <2>4
  <2> QED BY <2>5, <2>6
<1>4. \A s \in SUBSET S : s \in Good
  <2> HIDE DEF Good
  <2> QED BY <1>2, <1>3, SetInduction
<1> QED BY <1>1, <1>4

\* The order is the same for any two functions and any two sets, so a sum
\* depends on the values at its members only.
LEMMA AddsAgree ==
  ASSUME NEW S, IsFiniteSet(S), NEW f, NEW g, Adds(g, f, S),
         NEW T, NEW k, NEW h, Adds(h, k, T),
         S \subseteq T, \A x \in S : f[x] = k[x]
  PROVE  g[S] = h[S]
<1> DEFINE Good == {s \in SUBSET S : g[s] = h[s]}
<1>1. /\ \A s \in SUBSET S : g[s] = IF s = {} THEN 0 ELSE f[Picked(s)] + g[s \ {Picked(s)}]
      /\ \A s \in SUBSET T : h[s] = IF s = {} THEN 0 ELSE k[Picked(s)] + h[s \ {Picked(s)}]
  BY DEF Adds
<1>2. \A s \in SUBSET S : s \in SUBSET T
  OBVIOUS
<1>3. {} \in Good
  <2>1. {} \in SUBSET S /\ {} \in SUBSET T
    OBVIOUS
  <2> QED BY <1>1, <2>1
<1>4. ASSUME NEW s \in SUBSET S, s # {}, \A x \in s : s \ {x} \in Good
      PROVE  s \in Good
  <2>1. Picked(s) \in s
    BY <1>4, PickedIsMember
  <2>2. g[s] = f[Picked(s)] + g[s \ {Picked(s)}] /\ h[s] = k[Picked(s)] + h[s \ {Picked(s)}]
    BY <1>1, <1>2, <1>4
  <2>3. g[s \ {Picked(s)}] = h[s \ {Picked(s)}] /\ f[Picked(s)] = k[Picked(s)]
    BY <1>4, <2>1
  <2>4. g[s] = h[s]
    BY <2>2, <2>3
  <2> QED BY <2>4
<1>5. \A s \in SUBSET S : s \in Good
  <2> HIDE DEF Good
  <2> QED BY <1>3, <1>4, SetInduction
<1> QED BY <1>5

LEMMA SumAdds ==
  ASSUME NEW S, IsFiniteSet(S), NEW f, Integral(f, S)
  PROVE  \E g : Adds(g, f, S) /\ SumFunctionOnSet(f, S) = g[S]
<1>1. Adds(CHOOSE g : Adds(g, f, S), f, S)
  BY AddsExists
<1> QED BY <1>1, SumIsChosen

-----------------------------------------------------------------------------
(* What the proofs about the components cite. *)

LEMMA SumOfNone == ASSUME NEW f PROVE SumFunctionOnSet(f, {}) = 0
<1>1. Integral(f, {})
  BY DEF Integral
<1>2. PICK g : Adds(g, f, {}) /\ SumFunctionOnSet(f, {}) = g[{}]
  BY <1>1, SumAdds, FS_EmptySet
<1> QED BY <1>1, <1>2, AddsInAnyOrder, FS_EmptySet

\* Any member may be taken out.
LEMMA SumTakesOut ==
  ASSUME NEW S, IsFiniteSet(S), NEW f, Integral(f, S), NEW x \in S
  PROVE  SumFunctionOnSet(f, S) = f[x] + SumFunctionOnSet(f, S \ {x})
<1> DEFINE T == S \ {x}
<1>1. PICK g : Adds(g, f, S) /\ SumFunctionOnSet(f, S) = g[S]
  BY SumAdds
<1>2. IsFiniteSet(T) /\ Integral(f, T) /\ T \subseteq S
  BY FS_RemoveElement DEF Integral
<1>3. PICK h : Adds(h, f, T) /\ SumFunctionOnSet(f, T) = h[T]
  <2> HIDE DEF T
  <2> QED BY <1>2, SumAdds
<1>4. h[T] = g[T]
  <2> HIDE DEF T
  <2> QED BY <1>1, <1>2, <1>3, AddsAgree
<1>5. g[S] = f[x] + g[T]
  <2>1. S \in SUBSET S
    OBVIOUS
  <2> QED BY <1>1, <2>1, AddsInAnyOrder
<1> QED BY <1>1, <1>3, <1>4, <1>5

LEMMA SumIsInt ==
  ASSUME NEW S, IsFiniteSet(S), NEW f, Integral(f, S)
  PROVE  SumFunctionOnSet(f, S) \in Int
<1>1. PICK g : Adds(g, f, S) /\ SumFunctionOnSet(f, S) = g[S]
  BY SumAdds
<1>2. S \in SUBSET S
  OBVIOUS
<1> QED BY <1>1, <1>2, AddsInAnyOrder

\* A sum depends on the values at its members only.
LEMMA SumOfSame ==
  ASSUME NEW S, IsFiniteSet(S), NEW f, Integral(f, S), NEW k, \A x \in S : k[x] = f[x]
  PROVE  SumFunctionOnSet(k, S) = SumFunctionOnSet(f, S)
<1>1. PICK g : Adds(g, f, S) /\ SumFunctionOnSet(f, S) = g[S]
  BY SumAdds
<1>2. Integral(k, S)
  BY DEF Integral
<1>3. PICK h : Adds(h, k, S) /\ SumFunctionOnSet(k, S) = h[S]
  BY <1>2, SumAdds
<1>4. g[S] = h[S]
  BY <1>1, <1>3, AddsAgree
<1> QED BY <1>1, <1>3, <1>4

\* Sums add up member by member.
LEMMA SumOfSums ==
  ASSUME NEW S, IsFiniteSet(S), NEW f, Integral(f, S), NEW k, Integral(k, S),
         NEW h, \A x \in S : h[x] = f[x] + k[x]
  PROVE  SumFunctionOnSet(h, S) = SumFunctionOnSet(f, S) + SumFunctionOnSet(k, S)
<1> DEFINE Good == {T \in SUBSET S :
                      SumFunctionOnSet(h, T) = SumFunctionOnSet(f, T) + SumFunctionOnSet(k, T)}
<1>1. {} \in Good
  BY SumOfNone
<1>2. ASSUME NEW T \in SUBSET S, T # {}, \A x \in T : T \ {x} \in Good
      PROVE  T \in Good
  <2>1. PICK x \in T : TRUE
    BY <1>2
  <2>2. IsFiniteSet(T) /\ IsFiniteSet(T \ {x})
    BY FS_Subset
  <2>3. /\ Integral(f, T) /\ Integral(k, T) /\ Integral(h, T)
        /\ Integral(f, T \ {x}) /\ Integral(k, T \ {x})
    BY DEF Integral
  <2>4. /\ SumFunctionOnSet(f, T) = f[x] + SumFunctionOnSet(f, T \ {x})
        /\ SumFunctionOnSet(k, T) = k[x] + SumFunctionOnSet(k, T \ {x})
        /\ SumFunctionOnSet(h, T) = h[x] + SumFunctionOnSet(h, T \ {x})
    BY <2>2, <2>3, SumTakesOut
  <2>5. SumFunctionOnSet(f, T \ {x}) \in Int /\ SumFunctionOnSet(k, T \ {x}) \in Int
    BY <2>2, <2>3, SumIsInt
  <2>6. SumFunctionOnSet(h, T \ {x})
          = SumFunctionOnSet(f, T \ {x}) + SumFunctionOnSet(k, T \ {x})
    BY <1>2
  <2>7. f[x] \in Int /\ k[x] \in Int /\ h[x] = f[x] + k[x]
    BY DEF Integral
  <2>8. SumFunctionOnSet(h, T) = SumFunctionOnSet(f, T) + SumFunctionOnSet(k, T)
    BY <2>4, <2>5, <2>6, <2>7
  <2> QED BY <2>8
<1>3. \A T \in SUBSET S : T \in Good
  <2> HIDE DEF Good
  <2> QED BY <1>1, <1>2, SetInduction
<1> QED BY <1>3

\* Members of value zero do not count.
LEMMA SumOverSupport ==
  ASSUME NEW S, IsFiniteSet(S), NEW f, Integral(f, S), NEW R \in SUBSET S,
         \A x \in S \ R : f[x] = 0
  PROVE  SumFunctionOnSet(f, S) = SumFunctionOnSet(f, R)
<1> DEFINE Good == {T \in SUBSET (S \ R) :
                      SumFunctionOnSet(f, R \cup T) = SumFunctionOnSet(f, R)}
<1>1. {} \in Good
  BY Zenon
<1>2. ASSUME NEW T \in SUBSET (S \ R), T # {}, \A x \in T : T \ {x} \in Good
      PROVE  T \in Good
  <2>1. PICK x \in T : TRUE
    BY <1>2
  <2>2. IsFiniteSet(R \cup T) /\ Integral(f, R \cup T) /\ x \in R \cup T
    BY <2>1, FS_Subset DEF Integral
  <2>3. SumFunctionOnSet(f, R \cup T) = f[x] + SumFunctionOnSet(f, (R \cup T) \ {x})
    BY <2>2, SumTakesOut
  <2>4. (R \cup T) \ {x} = R \cup (T \ {x}) /\ f[x] = 0
    OBVIOUS
  <2>5. SumFunctionOnSet(f, R \cup (T \ {x})) = SumFunctionOnSet(f, R)
    BY <1>2
  <2>6. SumFunctionOnSet(f, R) \in Int
    <3>1. IsFiniteSet(R) /\ Integral(f, R)
      BY FS_Subset DEF Integral
    <3> QED BY <3>1, SumIsInt
  <2>7. SumFunctionOnSet(f, (R \cup T) \ {x}) = SumFunctionOnSet(f, R)
    BY <2>4, <2>5
  <2>8. SumFunctionOnSet(f, R \cup T) = SumFunctionOnSet(f, R)
    BY <2>3, <2>4, <2>6, <2>7
  <2> QED BY <2>8
<1>3. \A T \in SUBSET (S \ R) : T \in Good
  <2> DEFINE D == S \ R
  <2>1. IsFiniteSet(D)
    BY FS_Difference
  <2>2. \A T \in SUBSET D : T # {} /\ (\A x \in T : T \ {x} \in Good) => T \in Good
    BY <1>2
  <2>3. \A T \in SUBSET D : T \in Good
    <3> HIDE DEF Good, D
    <3> QED BY <1>1, <2>1, <2>2, SetInduction
  <2> QED BY <2>3
<1>4. R \cup (S \ R) = S
  OBVIOUS
<1>5. S \ R \in Good
  BY <1>3
<1> QED BY <1>4, <1>5

\* A set may be summed up in two parts.
LEMMA SumOfParts ==
  ASSUME NEW S, IsFiniteSet(S), NEW f, Integral(f, S), NEW R \in SUBSET S
  PROVE  SumFunctionOnSet(f, S) = SumFunctionOnSet(f, R) + SumFunctionOnSet(f, S \ R)
<1> DEFINE Q    == S \ R
           Good == {T \in SUBSET Q : SumFunctionOnSet(f, R \cup T)
                                       = SumFunctionOnSet(f, R) + SumFunctionOnSet(f, T)}
<1>1. SumFunctionOnSet(f, R) \in Int
  <2>1. IsFiniteSet(R) /\ Integral(f, R)
    BY FS_Subset DEF Integral
  <2> QED BY <2>1, SumIsInt
<1>2. {} \in Good
  <2>1. R \cup {} = R
    OBVIOUS
  <2> QED BY <1>1, <2>1, SumOfNone
<1>3. ASSUME NEW T \in SUBSET Q, T # {}, \A x \in T : T \ {x} \in Good
      PROVE  T \in Good
  <2>1. PICK x \in T : TRUE
    BY <1>3
  <2>2. /\ IsFiniteSet(R \cup T) /\ Integral(f, R \cup T) /\ x \in R \cup T
        /\ IsFiniteSet(T) /\ Integral(f, T)
        /\ IsFiniteSet(T \ {x}) /\ Integral(f, T \ {x})
    BY <2>1, FS_Subset DEF Integral
  <2>3. /\ SumFunctionOnSet(f, R \cup T) = f[x] + SumFunctionOnSet(f, (R \cup T) \ {x})
        /\ SumFunctionOnSet(f, T) = f[x] + SumFunctionOnSet(f, T \ {x})
    BY <2>1, <2>2, SumTakesOut
  <2>4. (R \cup T) \ {x} = R \cup (T \ {x})
    OBVIOUS
  <2>5. SumFunctionOnSet(f, R \cup (T \ {x}))
          = SumFunctionOnSet(f, R) + SumFunctionOnSet(f, T \ {x})
    BY <1>3
  <2>6. SumFunctionOnSet(f, T \ {x}) \in Int /\ f[x] \in Int
    BY <2>2, SumIsInt DEF Integral
  <2>7. SumFunctionOnSet(f, (R \cup T) \ {x})
          = SumFunctionOnSet(f, R) + SumFunctionOnSet(f, T \ {x})
    BY <2>4, <2>5
  <2>8. SumFunctionOnSet(f, R \cup T) = SumFunctionOnSet(f, R) + SumFunctionOnSet(f, T)
    BY <1>1, <2>3, <2>6, <2>7
  <2> QED BY <2>8
<1>4. IsFiniteSet(Q)
  BY FS_Difference
<1>5. Q \in Good
  <2>1. \A T \in SUBSET Q : T \in Good
    <3> HIDE DEF Good, Q
    <3> QED BY <1>2, <1>3, <1>4, SetInduction
  <2> QED BY <2>1
<1>6. R \cup Q = S
  OBVIOUS
<1>7. SumFunctionOnSet(f, R \cup Q) = SumFunctionOnSet(f, R) + SumFunctionOnSet(f, Q)
  BY <1>5
<1> QED BY <1>6, <1>7

\* A table of whole numbers, by rows F and by columns G, with their sums.
AddsBothWays(F, G, S, T, rows, cols) ==
  /\ \A x \in S, y \in T : F[x][y] \in Int /\ G[y][x] = F[x][y]
  /\ \A x \in S : rows[x] = SumFunctionOnSet(F[x], T)
  /\ \A y \in T : cols[y] = SumFunctionOnSet(G[y], S)

\* The rows and the columns add up to the same.
LEMMA SumOfTable ==
  ASSUME NEW S, IsFiniteSet(S), NEW T, IsFiniteSet(T),
         NEW F, NEW G, NEW rows, NEW cols, AddsBothWays(F, G, S, T, rows, cols)
  PROVE  SumFunctionOnSet(rows, S) = SumFunctionOnSet(cols, T)
<1> USE DEF AddsBothWays
<1> DEFINE Part(U) == [y \in T |-> SumFunctionOnSet(G[y], U)]
           Good    == {U \in SUBSET S : SumFunctionOnSet(rows, U)
                                          = SumFunctionOnSet(Part(U), T)}
<1>1. \A U \in SUBSET S : IsFiniteSet(U)
  BY FS_Subset
<1>2. ASSUME NEW U \in SUBSET S
      PROVE  Integral(rows, U) /\ Integral(Part(U), T)
             /\ \A y \in T : Integral(G[y], U)
  <2>1. \A x \in U : Integral(F[x], T)
    BY DEF Integral
  <2>2. \A x \in U : rows[x] \in Int
    BY <2>1, SumIsInt
  <2>3. \A y \in T : Integral(G[y], U)
    BY DEF Integral
  <2>4. \A y \in T : SumFunctionOnSet(G[y], U) \in Int
    BY <1>1, <2>3, SumIsInt
  <2> QED BY <2>2, <2>3, <2>4 DEF Integral
<1>3. {} \in Good
  <2>1. \A y \in T : Part({})[y] = 0
    BY SumOfNone
  <2>2. Integral(Part({}), T)
    BY <2>1 DEF Integral
  <2>3. {} \in SUBSET T /\ \A y \in T \ {} : Part({})[y] = 0
    BY <2>1
  <2> DEFINE none == Part({})
  <2>4. SumFunctionOnSet(none, T) = SumFunctionOnSet(none, {})
    <3> HIDE DEF none
    <3> QED BY <2>2, <2>3, SumOverSupport DEF none
  <2>5. SumFunctionOnSet(none, {}) = 0 /\ SumFunctionOnSet(rows, {}) = 0
    BY SumOfNone
  <2>6. SumFunctionOnSet(rows, {}) = SumFunctionOnSet(Part({}), T)
    BY <2>4, <2>5
  <2> QED BY <2>6
<1>4. ASSUME NEW U \in SUBSET S, U # {}, \A x \in U : U \ {x} \in Good
      PROVE  U \in Good
  <2>1. PICK x \in U : TRUE
    BY <1>4
  <2> DEFINE V   == U \ {x}
             now == Part(U)
             was == Part(V)
  <2>2. V \in SUBSET S /\ V \in Good
    BY <1>4, <2>1
  <2>3. SumFunctionOnSet(rows, U) = rows[x] + SumFunctionOnSet(rows, V)
    BY <1>1, <1>2, <2>1, SumTakesOut
  <2>4. SumFunctionOnSet(rows, V) = SumFunctionOnSet(was, T)
    BY <2>2
  <2>5. rows[x] = SumFunctionOnSet(F[x], T) /\ Integral(F[x], T)
    BY DEF Integral
  <2>6. ASSUME NEW y \in T PROVE now[y] = F[x][y] + was[y]
    <3>1. IsFiniteSet(U) /\ Integral(G[y], U)
      BY <1>1, <1>2
    <3>2. SumFunctionOnSet(G[y], U) = G[y][x] + SumFunctionOnSet(G[y], V)
      BY <2>1, <3>1, SumTakesOut
    <3>3. G[y][x] = F[x][y]
      OBVIOUS
    <3> QED BY <3>2, <3>3
  <2>7. Integral(was, T)
    BY <1>2, <2>2
  <2>8. SumFunctionOnSet(now, T) = SumFunctionOnSet(F[x], T) + SumFunctionOnSet(was, T)
    <3> HIDE DEF now, was
    <3> QED BY <2>5, <2>6, <2>7, SumOfSums
  <2>9. SumFunctionOnSet(rows, U) = SumFunctionOnSet(now, T)
    BY <2>3, <2>4, <2>5, <2>8
  <2> QED BY <2>9
<1>5. S \in Good
  <2>1. \A U \in SUBSET S : U \in Good
    <3> HIDE DEF Good
    <3> QED BY <1>3, <1>4, SetInduction
  <2> QED BY <2>1
<1>6. \A y \in T : cols[y] = Part(S)[y]
  OBVIOUS
<1>7. SumFunctionOnSet(cols, T) = SumFunctionOnSet(Part(S), T)
  <2>1. Integral(Part(S), T)
    BY <1>2
  <2> HIDE DEF Part
  <2> QED BY <1>6, <2>1, SumOfSame
<1>8. SumFunctionOnSet(rows, S) = SumFunctionOnSet(Part(S), T)
  BY <1>5
<1> QED BY <1>7, <1>8

LEMMA SumIsNat ==
  ASSUME NEW S, IsFiniteSet(S), NEW f, \A x \in S : f[x] \in Nat
  PROVE  SumFunctionOnSet(f, S) \in Nat
<1> DEFINE Good == {T \in SUBSET S : SumFunctionOnSet(f, T) \in Nat}
<1>1. {} \in Good
  BY SumOfNone
<1>2. ASSUME NEW T \in SUBSET S, T # {}, \A x \in T : T \ {x} \in Good
      PROVE  T \in Good
  <2>1. PICK x \in T : TRUE
    BY <1>2
  <2>2. IsFiniteSet(T) /\ Integral(f, T)
    BY FS_Subset DEF Integral
  <2>3. SumFunctionOnSet(f, T) = f[x] + SumFunctionOnSet(f, T \ {x})
    BY <2>2, SumTakesOut
  <2>4. f[x] \in Nat /\ SumFunctionOnSet(f, T \ {x}) \in Nat
    BY <1>2
  <2>5. SumFunctionOnSet(f, T) \in Nat
    BY <2>3, <2>4
  <2> QED BY <2>5
<1>3. \A T \in SUBSET S : T \in Good
  <2> HIDE DEF Good
  <2> QED BY <1>1, <1>2, SetInduction
<1> QED BY <1>3

LEMMA SumIsMonotone ==
  ASSUME NEW S, IsFiniteSet(S), NEW f, Integral(f, S), NEW h, Integral(h, S),
         \A x \in S : f[x] <= h[x]
  PROVE  SumFunctionOnSet(f, S) <= SumFunctionOnSet(h, S)
<1> DEFINE Good == {T \in SUBSET S : SumFunctionOnSet(f, T) <= SumFunctionOnSet(h, T)}
<1>1. {} \in Good
  BY SumOfNone
<1>2. ASSUME NEW T \in SUBSET S, T # {}, \A x \in T : T \ {x} \in Good
      PROVE  T \in Good
  <2>1. PICK x \in T : TRUE
    BY <1>2
  <2>2. /\ IsFiniteSet(T) /\ Integral(f, T) /\ Integral(h, T)
        /\ IsFiniteSet(T \ {x}) /\ Integral(f, T \ {x}) /\ Integral(h, T \ {x})
    BY FS_Subset DEF Integral
  <2>3. /\ SumFunctionOnSet(f, T) = f[x] + SumFunctionOnSet(f, T \ {x})
        /\ SumFunctionOnSet(h, T) = h[x] + SumFunctionOnSet(h, T \ {x})
    BY <2>2, SumTakesOut
  <2>4. /\ SumFunctionOnSet(f, T \ {x}) \in Int /\ SumFunctionOnSet(h, T \ {x}) \in Int
        /\ f[x] \in Int /\ h[x] \in Int /\ f[x] <= h[x]
    BY <2>2, SumIsInt DEF Integral
  <2>5. SumFunctionOnSet(f, T \ {x}) <= SumFunctionOnSet(h, T \ {x})
    BY <1>2
  <2>6. SumFunctionOnSet(f, T) <= SumFunctionOnSet(h, T)
    BY <2>3, <2>4, <2>5
  <2> QED BY <2>6
<1>3. \A T \in SUBSET S : T \in Good
  <2> HIDE DEF Good
  <2> QED BY <1>1, <1>2, SetInduction
<1> QED BY <1>3

\* Some of what is not negative is no more than all of it.
LEMMA SumOfSome ==
  ASSUME NEW S, IsFiniteSet(S), NEW f, \A x \in S : f[x] \in Nat, NEW R \in SUBSET S
  PROVE  SumFunctionOnSet(f, R) <= SumFunctionOnSet(f, S)
<1>1. IsFiniteSet(R) /\ IsFiniteSet(S \ R) /\ Integral(f, S)
  BY FS_Subset, FS_Difference DEF Integral
<1>2. SumFunctionOnSet(f, S) = SumFunctionOnSet(f, R) + SumFunctionOnSet(f, S \ R)
  BY <1>1, SumOfParts
<1>3. SumFunctionOnSet(f, R) \in Nat /\ SumFunctionOnSet(f, S \ R) \in Nat
  BY <1>1, SumIsNat
<1> QED BY <1>2, <1>3

LEMMA SumOfMultiple ==
  ASSUME NEW S, IsFiniteSet(S), NEW f, Integral(f, S), NEW c \in Int,
         NEW h, \A x \in S : h[x] = c * f[x]
  PROVE  SumFunctionOnSet(h, S) = c * SumFunctionOnSet(f, S)
<1> DEFINE Good == {T \in SUBSET S : SumFunctionOnSet(h, T) = c * SumFunctionOnSet(f, T)}
<1>1. {} \in Good
  BY SumOfNone
<1>2. ASSUME NEW T \in SUBSET S, T # {}, \A x \in T : T \ {x} \in Good
      PROVE  T \in Good
  <2>1. PICK x \in T : TRUE
    BY <1>2
  <2>2. \A y \in S : f[y] \in Int /\ h[y] \in Int
    BY DEF Integral
  <2>3. /\ IsFiniteSet(T) /\ Integral(f, T) /\ Integral(h, T)
        /\ IsFiniteSet(T \ {x}) /\ Integral(f, T \ {x})
    BY <2>2, FS_Subset DEF Integral
  <2> DEFINE rest == SumFunctionOnSet(f, T \ {x})
  <2>4. /\ SumFunctionOnSet(f, T) = f[x] + rest
        /\ SumFunctionOnSet(h, T) = h[x] + SumFunctionOnSet(h, T \ {x})
    BY <2>3, SumTakesOut
  <2>5. rest \in Int /\ f[x] \in Int /\ h[x] = c * f[x]
    BY <2>2, <2>3, SumIsInt
  <2>6. SumFunctionOnSet(h, T \ {x}) = c * rest
    BY <1>2
  <2>7. c * f[x] + c * rest = c * (f[x] + rest)
    <3> HIDE DEF rest
    <3> QED BY <2>5
  <2>8. SumFunctionOnSet(h, T) = c * SumFunctionOnSet(f, T)
    BY <2>4, <2>5, <2>6, <2>7
  <2> QED BY <2>8
<1>3. \A T \in SUBSET S : T \in Good
  <2> HIDE DEF Good
  <2> QED BY <1>1, <1>2, SetInduction
<1> QED BY <1>3

-----------------------------------------------------------------------------
(* Shares, rounded down. *)

LEMMA Quotient ==
  ASSUME NEW a \in Nat, NEW b \in Nat, b > 0
  PROVE  a \div b \in Nat /\ b * (a \div b) <= a
  OBVIOUS

LEMMA ProductIsNat == ASSUME NEW a \in Nat, NEW b \in Nat PROVE a * b \in Nat
  OBVIOUS

LEMMA ProductsAgree == ASSUME NEW a \in Int, NEW b \in Int PROVE a * b = b * a
  OBVIOUS

LEMMA Cancels ==
  ASSUME NEW a \in Int, NEW b \in Int, NEW c \in Nat, c > 0, c * a <= c * b
  PROVE  a <= b
  OBVIOUS

LEMMA GrowsWithFactor ==
  ASSUME NEW a \in Nat, NEW b \in Nat, NEW c \in Nat, a <= b
  PROVE  c * a <= c * b
  OBVIOUS

\* When an amount is shared out to scale, no more is given than there is.
LEMMA SharesFit ==
  ASSUME NEW S, IsFiniteSet(S), NEW f, \A x \in S : f[x] \in Nat,
         NEW amount \in Nat, NEW whole \in Nat, whole > 0, SumFunctionOnSet(f, S) <= whole,
         NEW h, \A x \in S : h[x] = (amount * f[x]) \div whole
  PROVE  /\ \A x \in S : h[x] \in Nat
         /\ SumFunctionOnSet(h, S) <= amount
<1> DEFINE F == [x \in S |-> amount * f[x]]
           H == [x \in S |-> whole * h[x]]
<1>1. ASSUME NEW x \in S PROVE h[x] \in Nat /\ F[x] \in Nat /\ H[x] \in Nat /\ H[x] <= F[x]
  <2>1. F[x] = amount * f[x] /\ F[x] \in Nat
    BY ProductIsNat
  <2>2. h[x] = F[x] \div whole
    BY <2>1
  <2> HIDE DEF F
  <2>3. h[x] \in Nat /\ whole * h[x] <= F[x]
    BY <2>1, <2>2, Quotient
  <2> QED BY <2>1, <2>3, ProductIsNat
<1>2. Integral(F, S) /\ Integral(H, S) /\ Integral(h, S) /\ Integral(f, S)
  <2> HIDE DEF F, H
  <2> QED BY <1>1 DEF Integral
<1> DEFINE sumF == SumFunctionOnSet(f, S)
           sumH == SumFunctionOnSet(h, S)
<1>3. SumFunctionOnSet(H, S) <= SumFunctionOnSet(F, S)
  <2> HIDE DEF F, H
  <2> QED BY <1>1, <1>2, SumIsMonotone
<1>4. SumFunctionOnSet(H, S) = whole * sumH
  <2>1. \A x \in S : H[x] = whole * h[x]
    OBVIOUS
  <2> HIDE DEF H
  <2> QED BY <1>2, <2>1, SumOfMultiple
<1>5. SumFunctionOnSet(F, S) = amount * sumF
  <2>1. \A x \in S : F[x] = amount * f[x]
    OBVIOUS
  <2> HIDE DEF F
  <2> QED BY <1>2, <2>1, SumOfMultiple
<1>6. sumF \in Nat /\ sumF <= whole /\ sumH \in Int
  BY <1>2, SumIsNat, SumIsInt
<1> HIDE DEF sumF, sumH, F, H
<1>7. amount * sumF <= amount * whole
  BY <1>6, GrowsWithFactor
<1>8. whole * sumH <= whole * amount
  BY <1>3, <1>4, <1>5, <1>6, <1>7, ProductsAgree
<1>9. sumH <= amount
  BY <1>6, <1>8, Cancels
<1> QED BY <1>1, <1>9 DEF sumH

Keyed(S, key, y) == {x \in S : key[x] = y}

\* Told apart by their keys, the members of some groups are no more than all.
LEMMA SumOfGroups ==
  ASSUME NEW S, IsFiniteSet(S), NEW f, \A x \in S : f[x] \in Nat, NEW T, IsFiniteSet(T), NEW key,
         NEW h, \A y \in T : h[y] = SumFunctionOnSet(f, Keyed(S, key, y))
  PROVE  /\ \A y \in T : h[y] \in Nat
         /\ SumFunctionOnSet(h, T) <= SumFunctionOnSet(f, S)
<1> DEFINE In(U) == {x \in S : key[x] \in U}
           Of(y) == {x \in S : key[x] = y}
           Good  == {U \in SUBSET T : SumFunctionOnSet(h, U) = SumFunctionOnSet(f, In(U))}
<1>1. ASSUME NEW R \in SUBSET S
      PROVE  IsFiniteSet(R) /\ Integral(f, R) /\ SumFunctionOnSet(f, R) \in Nat
  <2>1. IsFiniteSet(R) /\ \A x \in R : f[x] \in Nat
    BY FS_Subset
  <2> QED BY <2>1, SumIsNat DEF Integral
<1>2. \A y \in T : h[y] \in Nat
  <2>1. \A y : Of(y) \in SUBSET S
    OBVIOUS
  <2>2. \A y \in T : h[y] = SumFunctionOnSet(f, Of(y))
    BY DEF Keyed
  <2> HIDE DEF Of
  <2> QED BY <1>1, <2>1, <2>2
<1>3. {} \in Good
  <2>1. In({}) = {}
    OBVIOUS
  <2>2. SumFunctionOnSet(h, {}) = 0 /\ SumFunctionOnSet(f, {}) = 0
    BY SumOfNone
  <2> HIDE DEF In
  <2> QED BY <2>1, <2>2
<1>4. ASSUME NEW U \in SUBSET T, U # {}, \A y \in U : U \ {y} \in Good
      PROVE  U \in Good
  <2>1. PICK y \in U : TRUE
    BY <1>4
  <2> DEFINE V == U \ {y}
  <2>2. IsFiniteSet(U) /\ Integral(h, U)
    BY <1>2, FS_Subset DEF Integral
  <2>3. SumFunctionOnSet(h, U) = h[y] + SumFunctionOnSet(h, V)
    BY <2>1, <2>2, SumTakesOut
  <2>4. In(U) \in SUBSET S /\ In(V) \in SUBSET In(U) /\ In(U) \ In(V) = Of(y)
    OBVIOUS
  <2>5. SumFunctionOnSet(f, In(U))
          = SumFunctionOnSet(f, In(V)) + SumFunctionOnSet(f, In(U) \ In(V))
    <3>1. IsFiniteSet(In(U)) /\ Integral(f, In(U))
      BY <1>1, <2>4
    <3> HIDE DEF In, V
    <3> QED BY <2>4, <3>1, SumOfParts
  <2>6. SumFunctionOnSet(h, V) = SumFunctionOnSet(f, In(V))
    BY <1>4, <2>1
  <2>7. h[y] = SumFunctionOnSet(f, Of(y)) /\ h[y] \in Nat
    BY <1>2 DEF Keyed
  <2>8. SumFunctionOnSet(f, In(V)) \in Nat
    <3>1. In(V) \in SUBSET S
      OBVIOUS
    <3> HIDE DEF In, V
    <3> QED BY <1>1, <3>1
  <2>9. SumFunctionOnSet(h, U) = SumFunctionOnSet(f, In(U))
    <3>1. SumFunctionOnSet(f, In(U) \ In(V)) = h[y]
      <4>1. In(U) \ In(V) = Of(y)
        BY <2>4
      <4> HIDE DEF In, Of, V
      <4> QED BY <2>7, <4>1
    <3>2. SumFunctionOnSet(f, In(U)) = SumFunctionOnSet(h, V) + h[y]
      <4> HIDE DEF In, V
      <4> QED BY <2>5, <2>6, <3>1
    <3>3. SumFunctionOnSet(h, V) \in Nat
      <4> HIDE DEF In, V
      <4> QED BY <2>6, <2>8
    <3> HIDE DEF In, V
    <3> QED BY <2>3, <2>7, <3>2, <3>3
  <2> QED BY <2>9
<1>5. T \in Good
  <2>1. \A U \in SUBSET T : U \in Good
    <3> HIDE DEF Good
    <3> QED BY <1>3, <1>4, SetInduction
  <2> QED BY <2>1
<1>6. SumFunctionOnSet(f, In(T)) <= SumFunctionOnSet(f, S)
  <2>1. In(T) \in SUBSET S
    OBVIOUS
  <2> HIDE DEF In
  <2> QED BY <2>1, SumOfSome
<1> QED BY <1>2, <1>5, <1>6

IsRowOf(h, m, s, T) == \A t \in T : m[<<s, t>>] = h[t]

\* The pairs whose first member is s may be summed up by their second.
LEMMA SumOfRow ==
  ASSUME NEW s, NEW T, IsFiniteSet(T), NEW h, Integral(h, T), NEW m, IsRowOf(h, m, s, T)
  PROVE  SumFunctionOnSet(m, {s} \X T) = SumFunctionOnSet(h, T)
<1> USE DEF IsRowOf
<1> DEFINE Good == {U \in SUBSET T : SumFunctionOnSet(m, {s} \X U) = SumFunctionOnSet(h, U)}
<1>1. {} \in Good
  <2>1. {s} \X {} = {}
    OBVIOUS
  <2> QED BY <2>1, SumOfNone
<1>2. ASSUME NEW U \in SUBSET T, U # {}, \A y \in U : U \ {y} \in Good
      PROVE  U \in Good
  <2>1. PICK y \in U : TRUE
    BY <1>2
  <2>2. IsFiniteSet(U) /\ Integral(h, U)
    BY FS_Subset DEF Integral
  <2>3. IsFiniteSet({s} \X U)
    BY <2>2, FS_Singleton, FS_Product
  <2>4. Integral(m, {s} \X U) /\ m[<<s, y>>] = h[y]
    BY <2>1 DEF Integral
  <2>5. <<s, y>> \in {s} \X U /\ ({s} \X U) \ {<<s, y>>} = {s} \X (U \ {y})
    BY <2>1
  <2>6. SumFunctionOnSet(m, {s} \X U) = m[<<s, y>>] + SumFunctionOnSet(m, ({s} \X U) \ {<<s, y>>})
    <3> DEFINE R == {s} \X U
               p == <<s, y>>
    <3> HIDE DEF R, p
    <3> QED BY <2>3, <2>4, <2>5, SumTakesOut DEF R, p
  <2>7. SumFunctionOnSet(h, U) = h[y] + SumFunctionOnSet(h, U \ {y})
    BY <2>1, <2>2, SumTakesOut
  <2>8. SumFunctionOnSet(m, {s} \X (U \ {y})) = SumFunctionOnSet(h, U \ {y})
    BY <1>2, <2>1
  <2>9. SumFunctionOnSet(m, {s} \X U) = SumFunctionOnSet(h, U)
    BY <2>4, <2>5, <2>6, <2>7, <2>8
  <2> QED BY <2>9
<1>3. T \in Good
  <2>1. \A U \in SUBSET T : U \in Good
    <3> HIDE DEF Good
    <3> QED BY <1>1, <1>2, SetInduction
  <2> QED BY <2>1
<1> QED BY <1>3

\* A part of an amount is no more than the amount.
LEMMA PartFits ==
  ASSUME NEW a \in Nat, NEW b \in Nat, NEW c \in Nat, c > 0, b <= c
  PROVE  (a * b) \div c \in Nat /\ (a * b) \div c <= a
<1>1. a * b \in Nat /\ a * b <= a * c
  BY ProductIsNat, GrowsWithFactor
<1> DEFINE q == (a * b) \div c
<1>2. q \in Nat /\ c * q <= a * b
  <2> DEFINE p == a * b
  <2> HIDE DEF p
  <2> QED BY <1>1, Quotient DEF p
<1> HIDE DEF q
<1>3. c * q <= c * a
  <2>1. a * c = c * a /\ c * a \in Nat /\ c * q \in Nat
    BY <1>2, ProductsAgree, ProductIsNat
  <2> DEFINE x == c * q
             y == a * b
             z == a * c
  <2>2. x <= y /\ y <= z /\ x \in Nat /\ y \in Nat /\ z \in Nat
    BY <1>1, <1>2, <2>1
  <2>3. x <= z
    <3> HIDE DEF x, y, z
    <3> QED BY <2>2
  <2> QED BY <2>1, <2>3
<1>4. q <= a
  BY <1>2, <1>3, Cancels
<1> QED BY <1>2, <1>4 DEF q

-----------------------------------------------------------------------------
(* Orders and ways on a graph.                                               *)

StrictOrder(before, S) ==
  /\ \A d, e \in S : d # e => <<d, e>> \in before \/ <<e, d>> \in before
  /\ \A d, e \in S : ~(<<d, e>> \in before /\ <<e, d>> \in before)
  /\ \A c, d, e \in S : <<c, d>> \in before /\ <<d, e>> \in before => <<c, e>> \in before

\* A finite set, put in order, is a sequence that has each member once.
LEMMA OrderedByFacts ==
  ASSUME NEW S, IsFiniteSet(S), NEW before, StrictOrder(before, S)
  PROVE  /\ Cardinality(S) \in Nat
         /\ OrderedBy(S, before) \in [1 .. Cardinality(S) -> S]
         /\ \A e \in S : \E i \in 1 .. Cardinality(S) : OrderedBy(S, before)[i] = e
         /\ \A i, j \in 1 .. Cardinality(S) :
              OrderedBy(S, before)[i] = OrderedBy(S, before)[j] => i = j
<1> DEFINE n        == Cardinality(S)
           Below(e) == {d \in S : <<d, e>> \in before}
           rank     == [e \in S |-> Cardinality(Below(e)) + 1]
           order    == OrderedBy(S, before)
<1>1. n \in Nat
  BY FS_CardinalityType
<1>2. \A e \in S : IsFiniteSet(Below(e)) /\ Cardinality(Below(e)) \in Nat
  BY FS_Subset, FS_CardinalityType
<1>3. ASSUME NEW e \in S PROVE rank[e] \in 1 .. n
  <2>1. Below(e) \subseteq S \ {e}
    BY DEF StrictOrder
  <2>2. IsFiniteSet(S \ {e}) /\ Cardinality(S \ {e}) = n - 1
    BY FS_RemoveElement
  <2>3. Below(e) \in SUBSET (S \ {e})
    BY <2>1
  <2>4. Cardinality(Below(e)) <= n - 1
    <3> HIDE DEF Below
    <3> QED BY <2>2, <2>3, FS_Subset
  <2> QED BY <1>1, <1>2, <2>4
<1>4. ASSUME NEW d \in S, NEW e \in S, <<d, e>> \in before PROVE rank[d] < rank[e]
  <2>1. d \notin Below(d)
    BY DEF StrictOrder
  <2>2. Below(d) \cup {d} \subseteq Below(e)
    BY <1>4 DEF StrictOrder
  <2>3. Cardinality(Below(d) \cup {d}) = Cardinality(Below(d)) + 1
    BY <1>2, <2>1, FS_AddElement
  <2>4. Cardinality(Below(d) \cup {d}) <= Cardinality(Below(e))
    BY <1>2, <2>2, FS_Subset
  <2>5. /\ rank[d] = Cardinality(Below(d)) + 1 /\ rank[e] = Cardinality(Below(e)) + 1
        /\ Cardinality(Below(d)) \in Nat /\ Cardinality(Below(e)) \in Nat
    BY <1>2
  <2> HIDE DEF rank, Below
  <2> QED BY <2>3, <2>4, <2>5
<1>5. \A d, e \in S : rank[d] = rank[e] => d = e
  <2> SUFFICES ASSUME NEW d \in S, NEW e \in S, d # e PROVE rank[d] # rank[e]
    OBVIOUS
  <2>1. rank[d] \in 1 .. n /\ rank[e] \in 1 .. n
    BY <1>3
  <2>2. <<d, e>> \in before \/ <<e, d>> \in before
    BY DEF StrictOrder
  <2>3. rank[d] < rank[e] \/ rank[e] < rank[d]
    BY <1>4, <2>2
  <2> QED BY <1>1, <2>1, <2>3
<1>6. rank \in [S -> 1 .. n]
  BY <1>3
<1>7. rank \in Injection(S, 1 .. n)
  BY <1>5, <1>6, Fun_IsInj
<1>8. IsFiniteSet(1 .. n) /\ Cardinality(1 .. n) = n
  BY <1>1, FS_Interval
<1>9. rank \in Surjection(S, 1 .. n)
  BY <1>7, <1>8, FS_Injection
<1>10. \A i \in 1 .. n : \E e \in S : rank[e] = i
  BY <1>9 DEF Surjection
<1>11. ASSUME NEW i \in 1 .. n PROVE order[i] \in S /\ rank[order[i]] = i
  <2>1. PICK e \in S : rank[e] = i
    BY <1>10
  <2>2. Cardinality(Below(e)) = i - 1
    BY <1>1, <1>2, <2>1
  <2>3. order[i] = CHOOSE c \in S : Cardinality(Below(c)) = i - 1
    BY DEF OrderedBy
  <2>4. order[i] \in S /\ Cardinality(Below(order[i])) = i - 1
    BY <2>2, <2>3
  <2> QED BY <1>1, <2>4
<1>12. order \in [1 .. n -> S]
  <2> DEFINE At(i) == CHOOSE e \in S : Cardinality({d \in S : <<d, e>> \in before}) = i - 1
  <2>1. order = [i \in 1 .. n |-> At(i)]
    BY DEF OrderedBy
  <2>2. \A i \in 1 .. n : order[i] = At(i)
    BY <2>1
  <2> HIDE DEF At, order
  <2> QED BY <1>11, <2>1, <2>2
<1> HIDE DEF rank, order
<1>13. \A e \in S : \E i \in 1 .. n : order[i] = e
  BY <1>3, <1>5, <1>11
<1>14. \A i, j \in 1 .. n : order[i] = order[j] => i = j
  <2> SUFFICES ASSUME NEW i \in 1 .. n, NEW j \in 1 .. n, order[i] = order[j] PROVE i = j
    OBVIOUS
  <2>1. rank[order[i]] = i /\ rank[order[j]] = j
    BY <1>11
  <2> QED BY <2>1
<1> QED BY <1>1, <1>12, <1>13, <1>14 DEF order

\* Identifiers are numbers, so InOrder has each member of a set once.
LEMMA InOrderFacts ==
  ASSUME NEW S, IsFiniteSet(S), S \subseteq Nat
  PROVE  /\ DOMAIN InOrder(S) = 1 .. Cardinality(S)
         /\ Cardinality(S) \in Nat
         /\ InOrder(S) \in [1 .. Cardinality(S) -> S]
         /\ {InOrder(S)[i] : i \in DOMAIN InOrder(S)} = S
         /\ \A i, j \in DOMAIN InOrder(S) : InOrder(S)[i] = InOrder(S)[j] => i = j
<1> DEFINE less == {p \in S \X S : p[1] < p[2]}
<1>1. StrictOrder(less, S)
  <2>1. \A d, e \in S : <<d, e>> \in less <=> d < e
    OBVIOUS
  <2>2. \A d, e \in S : d \in Nat /\ e \in Nat
    OBVIOUS
  <2> HIDE DEF less
  <2> QED BY <2>1, <2>2 DEF StrictOrder
<1>2. InOrder(S) = OrderedBy(S, less)
  BY DEF InOrder
<1> HIDE DEF less
<1> DEFINE n == Cardinality(S)
           q == InOrder(S)
<1>3. /\ n \in Nat
      /\ q \in [1 .. n -> S]
      /\ \A e \in S : \E i \in 1 .. n : q[i] = e
      /\ \A i, j \in 1 .. n : q[i] = q[j] => i = j
  BY <1>1, <1>2, OrderedByFacts
<1> HIDE DEF q, n
<1>4. DOMAIN q = 1 .. n
  BY <1>3
<1>5. {q[i] : i \in DOMAIN q} \subseteq S
  BY <1>3
<1>6. S \subseteq {q[i] : i \in DOMAIN q}
  BY <1>3
<1>7. /\ DOMAIN q = 1 .. n /\ n \in Nat /\ q \in [1 .. n -> S]
      /\ {q[i] : i \in DOMAIN q} = S
      /\ \A i, j \in DOMAIN q : q[i] = q[j] => i = j
  BY <1>3, <1>4, <1>5, <1>6
<1> QED BY <1>7 DEF q, n

Beyond(links, seen) == seen \cup {l[2] : l \in {k \in links : k[1] \in seen}}

\* The rounds of the search.
Searches(seen, links, sources) ==
  /\ ReachableFrom(links, sources) = seen[Cardinality(links)]
  /\ seen[0] = sources
  /\ \A i \in 1 .. Cardinality(links) : seen[i] = Beyond(links, seen[i - 1])

LEMMA SearchFacts ==
  ASSUME NEW links, IsFiniteSet(links), NEW sources
  PROVE  Cardinality(links) \in Nat /\ \E seen : Searches(seen, links, sources)
<1> DEFINE n        == Cardinality(links)
           C        == sources \cup {l[2] : l \in links}
           X        == SUBSET C
           Do(s)    == Beyond(links, s)
           Step     == [p \in (1 .. n) \X X |-> Do(p[2])]
           Finds(f) == f = [round \in 0 .. n |-> IF round = 0 THEN sources ELSE Do(f[round - 1])]
           seen     == CHOOSE f : Finds(f)
<1>1. n \in Nat
  BY FS_CardinalityType
<1>2. sources \in X /\ \A s \in X : Do(s) \in X
  BY DEF Beyond
<1>3. \E f : Finds(f)
  <2>1. Step \in [(1 .. n) \X X -> X]
    <3> HIDE DEF Do, X, n
    <3> QED BY <1>2
  <2>2. PICK f \in [0 .. n -> X] : Unrolls(f, n, sources, Step)
    <3> HIDE DEF Step, X, n
    <3> QED BY <1>1, <1>2, <2>1, RecursionExists
  <2>3. \A i \in 0 .. n : i # 0 => Step[<<i, f[i - 1]>>] = Do(f[i - 1])
    <3>1. \A i \in 0 .. n : i # 0 => i \in 1 .. n /\ f[i - 1] \in X
      <4> HIDE DEF X, n
      <4> QED BY <1>1, <2>2
    <3> HIDE DEF Do, X, n
    <3> QED BY <3>1
  <2>4. Finds(f)
    <3> HIDE DEF Do, X, n, Step
    <3> QED BY <2>2, <2>3 DEF Unrolls
  <2> QED BY <2>4
<1>4. seen = [round \in 0 .. n |-> IF round = 0 THEN sources ELSE Do(seen[round - 1])]
  <2>1. Finds(seen)
    <3> HIDE DEF Finds
    <3> QED BY <1>3
  <2> QED BY <2>1
<1>5. ReachableFrom(links, sources) = seen[n]
  BY DEF ReachableFrom, Beyond
<1>6. seen[0] = sources /\ \A i \in 1 .. n : seen[i] = Do(seen[i - 1])
  <2>1. 0 \in 0 .. n /\ \A i \in 1 .. n : i \in 0 .. n /\ i # 0
    BY <1>1
  <2> HIDE DEF Do, n, seen
  <2> QED BY <1>4, <2>1
<1>7. Searches(seen, links, sources)
  <2> HIDE DEF seen
  <2> QED BY <1>5, <1>6 DEF Searches
<1> QED BY <1>1, <1>7

\* The search goes along links only: what it finds is in every set that has the
\* sources and that no link leaves.
LEMMA ReachedStaysIn ==
  ASSUME NEW links, IsFiniteSet(links), NEW sources, NEW C, sources \subseteq C,
         \A l \in links : l[1] \in C => l[2] \in C
  PROVE  ReachableFrom(links, sources) \subseteq C
<1> DEFINE n == Cardinality(links)
           X == SUBSET C
<1>1. PICK seen : Searches(seen, links, sources)
  BY SearchFacts
<1>2. n \in Nat
  BY SearchFacts
<1>3. seen[0] \in X /\ \A i \in 1 .. n : seen[i - 1] \in X => seen[i] \in X
  <2>1. \A s \in X : Beyond(links, s) \in X
    BY DEF Beyond
  <2>2. sources \in X
    OBVIOUS
  <2> HIDE DEF X
  <2> QED BY <1>1, <2>1, <2>2 DEF Searches
<1>4. seen[n] \in X
  <2>1. n \in 0 .. n
    BY <1>2
  <2> HIDE DEF X, n
  <2> QED BY <1>2, <1>3, <2>1, StaysUpTo
<1> QED BY <1>1, <1>4 DEF Searches

\* The search misses nothing: it finds the sources, and no link leaves what it
\* has found. As long as one does, each round reaches another link's end.
LEMMA ReachedIsClosed ==
  ASSUME NEW links, IsFiniteSet(links), NEW sources
  PROVE  /\ sources \subseteq ReachableFrom(links, sources)
         /\ \A l \in links : l[1] \in ReachableFrom(links, sources) =>
                             l[2] \in ReachableFrom(links, sources)
<1> DEFINE n         == Cardinality(links)
           Closed(s) == \A l \in links : l[1] \in s => l[2] \in s
           Into(s)   == {l \in links : l[2] \in s}
<1>1. PICK seen : Searches(seen, links, sources)
  BY SearchFacts
<1>2. n \in Nat
  BY SearchFacts
<1>3. \A s : IsFiniteSet(Into(s)) /\ Cardinality(Into(s)) \in Nat
  <2>1. \A s : Into(s) \subseteq links
    OBVIOUS
  <2> HIDE DEF Into
  <2> QED BY <2>1, FS_Subset, FS_CardinalityType
<1>4. \A i \in 1 .. n : seen[i] = Beyond(links, seen[i - 1])
  BY <1>1 DEF Searches
<1> DEFINE Good == {i \in 0 .. n : /\ sources \subseteq seen[i]
                                   /\ Closed(seen[i]) \/ Cardinality(Into(seen[i])) >= i}
<1>5. 0 \in Good
  <2>1. seen[0] = sources /\ 0 \in 0 .. n
    BY <1>1, <1>2 DEF Searches
  <2>2. Cardinality(Into(seen[0])) \in Nat
    BY <1>3
  <2>3. Cardinality(Into(seen[0])) >= 0
    <3> HIDE DEF Into
    <3> QED BY <2>2
  <2> HIDE DEF Closed, Into
  <2> QED BY <2>1, <2>3
<1>6. ASSUME NEW i \in 1 .. n, i - 1 \in Good PROVE i \in Good
  <2> DEFINE was == seen[i - 1]
             is  == seen[i]
  <2>1. is = Beyond(links, was) /\ i \in 0 .. n
    BY <1>2, <1>4
  <2>2. sources \subseteq is
    BY <1>6, <2>1 DEF Beyond
  <2>3. CASE Closed(was)
    <3>1. is = was
      BY <2>1, <2>3 DEF Beyond
    <3> QED BY <2>1, <2>2, <2>3, <3>1
  <2>4. CASE ~Closed(was)
    <3>1. PICK l \in links : l[1] \in was /\ l[2] \notin was
      BY <2>4
    <3>2. Into(was) \cup {l} \subseteq Into(is) /\ l \notin Into(was)
      BY <2>1, <3>1 DEF Beyond
    <3>3. Cardinality(Into(was)) >= i - 1
      BY <1>6, <2>4
    <3>4. Cardinality(Into(was) \cup {l}) = Cardinality(Into(was)) + 1
      <4>1. IsFiniteSet(Into(was))
        BY <1>3
      <4> HIDE DEF Into, was
      <4> QED BY <3>2, <4>1, FS_AddElement
    <3>5. Cardinality(Into(was) \cup {l}) <= Cardinality(Into(is))
      <4>1. IsFiniteSet(Into(is))
        BY <1>3
      <4> HIDE DEF Into, is, was
      <4> QED BY <3>2, <4>1, FS_Subset
    <3>6. Cardinality(Into(is)) >= i
      <4>1. Cardinality(Into(was)) \in Nat /\ Cardinality(Into(is)) \in Nat
        BY <1>3
      <4> HIDE DEF Into, was, is
      <4> QED BY <3>3, <3>4, <3>5, <4>1
    <3> HIDE DEF Into, Closed
    <3> QED BY <2>1, <2>2, <3>6
  <2> QED BY <2>3, <2>4
<1>7. n \in Good
  <2>1. n \in 0 .. n
    BY <1>2
  <2> HIDE DEF Good
  <2> QED BY <1>2, <1>5, <1>6, <2>1, UpToInduction
<1>8. Closed(seen[n])
  <2> SUFFICES ASSUME Cardinality(Into(seen[n])) >= n PROVE Closed(seen[n])
    BY <1>7
  <2>1. Into(seen[n]) \subseteq links
    OBVIOUS
  <2>2. Cardinality(Into(seen[n])) = n
    <3>1. Cardinality(Into(seen[n])) <= n
      BY <2>1, FS_Subset
    <3>2. Cardinality(Into(seen[n])) \in Nat
      BY <1>3
    <3> HIDE DEF Into
    <3> QED BY <1>2, <3>1, <3>2
  <2>3. Into(seen[n]) = links
    <3> HIDE DEF Into
    <3> QED BY <2>1, <2>2, FS_Subset
  <2> QED BY <2>3
<1>9. ReachableFrom(links, sources) = seen[n] /\ sources \subseteq seen[n]
  BY <1>1, <1>7 DEF Searches
<1> QED BY <1>8, <1>9

-----------------------------------------------------------------------------
(* Finite sets of numbers *)

LEMMA MaxFacts ==
  ASSUME NEW S \in SUBSET Int, IsFiniteSet(S), S # {}
  PROVE  Max(S) \in S /\ \A y \in S : y <= Max(S)
<1> DEFINE Good == {T \in SUBSET S : T = {} \/ \E x \in T : \A y \in T : x >= y}
<1>1. {} \in Good
  OBVIOUS
<1>2. ASSUME NEW T \in SUBSET S, T # {}, \A x \in T : T \ {x} \in Good
      PROVE  T \in Good
  <2>1. PICK x \in T : TRUE
    BY <1>2
  <2>2. CASE T \ {x} = {}
    <3>1. T = {x} /\ x \in Int
      BY <2>2
    <3> QED BY <3>1
  <2>3. CASE T \ {x} # {}
    <3>1. PICK z \in T \ {x} : \A y \in T \ {x} : z >= y
      BY <1>2, <2>3
    <3>2. \A y \in T : y \in Int
      OBVIOUS
    <3> DEFINE top == IF x >= z THEN x ELSE z
    <3>3. top \in T
      OBVIOUS
    <3>4. ASSUME NEW y \in T PROVE top >= y
      <4>1. x \in Int /\ y \in Int /\ z \in Int
        BY <3>2
      <4>2. y = x \/ z >= y
        BY <3>1
      <4> QED BY <4>1, <4>2
    <3> HIDE DEF top
    <3> QED BY <3>3, <3>4
  <2> QED BY <2>2, <2>3
<1>3. S \in Good
  <2>1. \A T \in SUBSET S : T \in Good
    <3> HIDE DEF Good
    <3> QED BY <1>1, <1>2, SetInduction
  <2> QED BY <2>1
<1>4. \E x \in S : \A y \in S : x >= y
  BY <1>3
<1>5. Max(S) \in S /\ \A y \in S : Max(S) >= y
  BY <1>4 DEF Max
<1>6. \A y \in S : y \in Int /\ Max(S) \in Int
  BY <1>5
<1> QED BY <1>5, <1>6

LEMMA MinFacts ==
  ASSUME NEW S \in SUBSET Int, IsFiniteSet(S), S # {}
  PROVE  Min(S) \in S /\ \A y \in S : Min(S) <= y
<1> DEFINE Good == {T \in SUBSET S : T = {} \/ \E x \in T : \A y \in T : x <= y}
<1>1. {} \in Good
  OBVIOUS
<1>2. ASSUME NEW T \in SUBSET S, T # {}, \A x \in T : T \ {x} \in Good
      PROVE  T \in Good
  <2>1. PICK x \in T : TRUE
    BY <1>2
  <2>2. CASE T \ {x} = {}
    <3>1. T = {x} /\ x \in Int
      BY <2>2
    <3> QED BY <3>1
  <2>3. CASE T \ {x} # {}
    <3>1. PICK z \in T \ {x} : \A y \in T \ {x} : z <= y
      BY <1>2, <2>3
    <3>2. \A y \in T : y \in Int
      OBVIOUS
    <3> DEFINE least == IF x <= z THEN x ELSE z
    <3>3. least \in T
      OBVIOUS
    <3>4. ASSUME NEW y \in T PROVE least <= y
      <4>1. x \in Int /\ y \in Int /\ z \in Int
        BY <3>2
      <4>2. y = x \/ z <= y
        BY <3>1
      <4> QED BY <4>1, <4>2
    <3> HIDE DEF least
    <3> QED BY <3>3, <3>4
  <2> QED BY <2>2, <2>3
<1>3. S \in Good
  <2>1. \A T \in SUBSET S : T \in Good
    <3> HIDE DEF Good
    <3> QED BY <1>1, <1>2, SetInduction
  <2> QED BY <2>1
<1>4. \E x \in S : \A y \in S : x <= y
  BY <1>3
<1> QED BY <1>4 DEF Min

LEMMA PairIsFinite == ASSUME NEW a, NEW b PROVE IsFiniteSet({a, b})
<1>1. IsFiniteSet({a}) /\ {a} \cup {b} = {a, b}
  BY FS_Singleton
<1>2. IsFiniteSet({a} \cup {b})
  BY <1>1, FS_AddElement
<1> QED BY <1>1, <1>2

\* The values of a function at finitely many places are finitely many.
LEMMA FiniteImage ==
  ASSUME NEW S, IsFiniteSet(S), NEW f
  PROVE  IsFiniteSet({f[x] : x \in S})
<1> DEFINE values(T) == {f[x] : x \in T}
           Good      == {T \in SUBSET S : IsFiniteSet(values(T))}
<1>1. {} \in Good
  <2>1. values({}) = {}
    OBVIOUS
  <2>2. IsFiniteSet(values({}))
    BY <2>1, FS_EmptySet
  <2> QED BY <2>2
<1>2. ASSUME NEW T \in SUBSET S, T # {}, \A x \in T : T \ {x} \in Good
      PROVE  T \in Good
  <2>1. PICK x \in T : TRUE
    BY <1>2
  <2> DEFINE rest == values(T \ {x})
  <2>2. IsFiniteSet(rest)
    BY <1>2
  <2>3. values(T) = rest \cup {f[x]}
    BY <2>1
  <2>4. IsFiniteSet(rest \cup {f[x]})
    <3> HIDE DEF rest
    <3> QED BY <2>2, FS_AddElement
  <2> QED BY <2>3, <2>4
<1>3. S \in Good
  <2>1. \A T \in SUBSET S : T \in Good
    <3> HIDE DEF Good
    <3> QED BY <1>1, <1>2, SetInduction
  <2> QED BY <2>1
<1> QED BY <1>3

-----------------------------------------------------------------------------
(* A finite graph *)

FiniteGraph(g) == IsFiniteSet(DOMAIN g.node) /\ IsFiniteSet(DOMAIN g.edge)

LEMMA GraphFacts ==
  ASSUME NEW g, FiniteGraph(g)
  PROVE  /\ IsFiniteSet(EnabledNodes(g)) /\ IsFiniteSet(ActiveEdges(g)) /\ IsFiniteSet(Arcs(g))
         /\ \A arc \in Arcs(g) : From(g, arc) \in EnabledNodes(g) /\ To(g, arc) \in EnabledNodes(g)
<1>1. IsFiniteSet(EnabledNodes(g)) /\ IsFiniteSet(ActiveEdges(g))
  <2>1. EnabledNodes(g) \subseteq DOMAIN g.node
    BY DEF EnabledNodes
  <2>2. ActiveEdges(g) \subseteq DOMAIN g.edge
    BY DEF ActiveEdges, EnabledEdges
  <2> QED BY <2>1, <2>2, FS_Subset DEF FiniteGraph
<1>2. IsFiniteSet(Directions)
  BY PairIsFinite DEF Directions
<1>3. IsFiniteSet(Arcs(g))
  BY <1>1, <1>2, FS_Product DEF Arcs
<1>4. \A arc \in Arcs(g) : From(g, arc) \in EnabledNodes(g) /\ To(g, arc) \in EnabledNodes(g)
  BY DEF Arcs, From, To, ActiveEdges, Ends
<1> QED BY <1>1, <1>3, <1>4

LEMMA LinksAreFinite ==
  ASSUME NEW g, FiniteGraph(g), NEW x \in SUBSET Arcs(g)
  PROVE  IsFiniteSet(Links(g, x)) /\ IsFiniteSet(Backwards(Links(g, x)))
<1> DEFINE nodes == EnabledNodes(g)
<1>1. IsFiniteSet(nodes) /\ IsFiniteSet(nodes \X nodes)
  BY GraphFacts, FS_Product
<1>2. Links(g, x) \subseteq nodes \X nodes
  BY GraphFacts DEF Links
<1>3. Backwards(Links(g, x)) \subseteq nodes \X nodes
  BY <1>2 DEF Backwards
<1> HIDE DEF nodes
<1> QED BY <1>1, <1>2, <1>3, FS_Subset
=============================================================================
