---------------------------- MODULE SumTheorems ----------------------------
(***************************************************************************)
(* What the sums of the contract's records (SumFunctionOnSet of the        *)
(* community modules) amount to, for finite sets of any size.  The         *)
(* induction is over subsets: a property that fails for some subset of a   *)
(* finite set fails for a smallest one.                                    *)
(***************************************************************************)
EXTENDS FiniteSetsExt, FiniteSetTheorems, TLAPS

(* The sum as SumFunctionOnSet computes it: element by element, in the     *)
(* order of CHOOSE.                                                        *)
Pick(s) == CHOOSE x \in s : TRUE
Step(f, S, i) == [s \in SUBSET S |-> IF s = {} THEN 0 ELSE f[Pick(s)] + i[s \ {Pick(s)}]]
Iter(f, S) == CHOOSE i : i = Step(f, S, i)

(* SumFunctionOnSet is that computation at the whole set.                  *)
LEMMA SumUnfold ==
  ASSUME NEW f, NEW S PROVE SumFunctionOnSet(f, S) = Iter(f, S)[S]
  BY DEF SumFunctionOnSet, FoldFunctionOnSet, MapThenFoldSet, Iter, Step, Pick

(* A nonempty set has the element that is picked.                          *)
LEMMA PickFacts ==
  ASSUME NEW s, s # {} PROVE Pick(s) \in s
  BY DEF Pick

(* Among subsets of a finite set there is a smallest one.                  *)
LEMMA SmallestSubset ==
  ASSUME NEW S, IsFiniteSet(S), NEW B \in SUBSET SUBSET S, B # {}
  PROVE  \E T \in B : \A U \in B : U \subseteq T => U = T
  <1> DEFINE R == StrictSubsetOrdering(S)
  <1>1. IsWellFoundedOn(R, FiniteSubsetsOf(S))
    BY FS_StrictSubsetOrderingWellFounded
  <1>2. B \subseteq FiniteSubsetsOf(S)
    BY FS_Subset DEF FiniteSubsetsOf
  <1>3. PICK T \in B : \A U \in B : ~(<<U, T>> \in R)
    BY <1>1, <1>2, WFMin
  <1>4. \A U \in B : U \subseteq T /\ U # T => <<U, T>> \in R
    BY <1>2, <1>3 DEF StrictSubsetOrdering
  <1>5. \A U \in B : U \subseteq T => U = T
    BY <1>3, <1>4, Zenon
  <1> QED
    BY <1>3, <1>5

(* A nonempty set of numbers has a smallest one.                           *)
LEMMA SmallestNumber ==
  ASSUME NEW B \in SUBSET Nat, B # {}
  PROVE  \E n \in B : \A m \in B : n =< m
  <1> DEFINE R == {ss \in Nat \X Nat : ss[1] < ss[2]}
  <1>1. IsWellFoundedOn(R, Nat)
    BY NatLessThanWellFounded, Zenon DEF OpToRel
  <1>2. \A x, y \in Nat : y < x => <<y, x>> \in R
    OBVIOUS
  <1> HIDE DEF R
  <1>3. PICK n \in B : \A m \in B : ~(<<m, n>> \in R)
    BY <1>1, WFMin
  <1>4. n \in Nat /\ \A m \in B : m \in Nat /\ ~(m < n)
    BY <1>2, <1>3
  <1>5. \A m \in B : n =< m
    BY <1>4
  <1> QED
    BY <1>3, <1>5

(* The computation exists for a finite set: sets of up to n elements are   *)
(* summed up from those of up to n - 1.                                    *)
LEMMA IterExists ==
  ASSUME NEW f, NEW S, IsFiniteSet(S)
  PROVE  \E i : i = Step(f, S, i)
  <1> DEFINE Upto(n) == {s \in SUBSET S : Cardinality(s) =< n}
             Part(n, i) == [s \in Upto(n) |-> IF s = {} THEN 0 ELSE f[Pick(s)] + i[s \ {Pick(s)}]]
             Bad == {n \in Nat : ~\E i : i = Part(n, i)}
  <1>1. \A s \in SUBSET S : IsFiniteSet(s) /\ Cardinality(s) \in Nat /\ Cardinality(s) =< Cardinality(S)
    BY FS_Subset, FS_CardinalityType
  <1>2. Bad = {}
    <2> SUFFICES ASSUME Bad # {} PROVE FALSE
      OBVIOUS
    <2>1. PICK n \in Bad : \A m \in Bad : n =< m
      BY SmallestNumber
    <2>2. n # 0
      <3>1. ASSUME n = 0 PROVE FALSE
        <4> DEFINE z == [s \in Upto(0) |-> 0]
        <4>1. \A s \in Upto(0) : s = {}
          BY <1>1, FS_EmptySet
        <4>2. z = Part(0, z)
          BY <4>1
        <4> QED
          BY <2>1, <3>1, <4>2
      <3> QED
        BY <3>1
    <2>3. n - 1 \in Nat /\ n - 1 \notin Bad
      <3>1. n \in Nat
        BY <2>1
      <3> HIDE DEF Bad
      <3> QED
        BY <2>1, <2>2, <3>1
    <2>4. PICK h : h = Part(n - 1, h)
      BY <2>3
    <2> DEFINE g == [s \in Upto(n) |-> IF s = {} THEN 0 ELSE f[Pick(s)] + h[s \ {Pick(s)}]]
    <2>5. ASSUME NEW s \in Upto(n), s # {}
          PROVE  g[s \ {Pick(s)}] = h[s \ {Pick(s)}]
      <3> DEFINE t == s \ {Pick(s)}
      <3>1. t \in SUBSET S /\ Cardinality(t) = Cardinality(s) - 1
        BY <1>1, <2>5, PickFacts, FS_RemoveElement
      <3>2. t \in Upto(n - 1) /\ t \in Upto(n)
        BY <1>1, <2>1, <3>1
      <3> HIDE DEF t
      <3>3. h[t] = IF t = {} THEN 0 ELSE f[Pick(t)] + h[t \ {Pick(t)}]
        BY <2>4, <3>2
      <3>4. g[t] = IF t = {} THEN 0 ELSE f[Pick(t)] + h[t \ {Pick(t)}]
        BY <3>2
      <3> QED
        BY <3>3, <3>4 DEF t
    <2>6. g = Part(n, g)
      BY <2>5
    <2> QED
      BY <2>1, <2>6
  <1>3. PICK i : i = Part(Cardinality(S), i)
    BY <1>1, <1>2
  <1>4. Upto(Cardinality(S)) = SUBSET S
    BY <1>1
  <1> QED
    BY <1>3, <1>4 DEF Step

(* What the computation gives for each subset.                             *)
LEMMA IterStep ==
  ASSUME NEW f, NEW S, IsFiniteSet(S), NEW s \in SUBSET S
  PROVE  Iter(f, S)[s] = IF s = {} THEN 0 ELSE f[Pick(s)] + Iter(f, S)[s \ {Pick(s)}]
  <1>1. Iter(f, S) = Step(f, S, Iter(f, S))
    BY IterExists DEF Iter
  <1> QED
    BY <1>1 DEF Step

(* It gives the same for two functions where they agree, and for two sets  *)
(* where they overlap.                                                     *)
LEMMA IterAgrees ==
  ASSUME NEW f, NEW g, NEW S, NEW T, IsFiniteSet(S), T \subseteq S, \A x \in T : f[x] = g[x]
  PROVE  \A s \in SUBSET T : Iter(f, S)[s] = Iter(g, T)[s]
  <1> DEFINE Bad == {s \in SUBSET T : Iter(f, S)[s] # Iter(g, T)[s]}
  <1>0. IsFiniteSet(T)
    BY FS_Subset
  <1> SUFFICES ASSUME Bad # {} PROVE FALSE
    OBVIOUS
  <1>1. PICK s \in Bad : \A u \in Bad : u \subseteq s => u = s
    <2>1. Bad \in SUBSET SUBSET T
      OBVIOUS
    <2> HIDE DEF Bad
    <2> QED
      BY <1>0, <2>1, SmallestSubset
  <1>2. s # {}
    <2>1. Iter(f, S)[{}] = 0 /\ Iter(g, T)[{}] = 0
      BY <1>0, IterStep
    <2>2. {} \notin Bad
      BY <2>1
    <2> HIDE DEF Bad
    <2> QED
      BY <1>1, <2>2
  <1> DEFINE c == Pick(s)
             t == s \ {c}
  <1>3. c \in s /\ t \subseteq s /\ t # s /\ t \in SUBSET T
    BY <1>1, <1>2, PickFacts
  <1>4. Iter(f, S)[t] = Iter(g, T)[t]
    BY <1>1, <1>3
  <1>5. Iter(f, S)[s] = f[c] + Iter(f, S)[t] /\ Iter(g, T)[s] = g[c] + Iter(g, T)[t]
    <2>1. s \in SUBSET S /\ s \in SUBSET T
      BY <1>1
    <2> HIDE DEF Bad
    <2>2. Iter(f, S)[s] = f[c] + Iter(f, S)[t]
      <3>1. \A u \in SUBSET S : Iter(f, S)[u] = IF u = {} THEN 0 ELSE f[Pick(u)] + Iter(f, S)[u \ {Pick(u)}]
        BY IterStep
      <3>2. Iter(f, S)[s] = IF s = {} THEN 0 ELSE f[c] + Iter(f, S)[t]
        BY <2>1, <3>1, Zenon
      <3> QED
        BY <1>2, <3>2
    <2>3. Iter(g, T)[s] = g[c] + Iter(g, T)[t]
      BY <1>0, <1>2, <2>1, IterStep
    <2> QED
      BY <2>2, <2>3
  <1>6. f[c] = g[c]
    BY <1>1, <1>3
  <1> QED
    BY <1>1, <1>4, <1>5, <1>6

-----------------------------------------------------------------------------
(* Sums *)

(* The sum over nothing.                                                   *)
LEMMA SumEmpty == ASSUME NEW f PROVE SumFunctionOnSet(f, {}) = 0
  BY SumUnfold, IterStep, FS_EmptySet

(* The sum is that of the picked element and the rest.                     *)
LEMMA SumPick ==
  ASSUME NEW f, NEW S, IsFiniteSet(S), S # {}
  PROVE  SumFunctionOnSet(f, S) = f[Pick(S)] + SumFunctionOnSet(f, S \ {Pick(S)})
  <1> DEFINE T == S \ {Pick(S)}
  <1>1. Iter(f, S)[S] = f[Pick(S)] + Iter(f, S)[T]
    BY IterStep
  <1>2. Iter(f, S)[T] = Iter(f, T)[T]
    <2>1. \A s \in SUBSET T : Iter(f, S)[s] = Iter(f, T)[s]
      BY IterAgrees
    <2> QED
      BY <2>1
  <1> QED
    BY <1>1, <1>2, SumUnfold

(* Functions that agree on a set have the same sum over it.                *)
LEMMA SumAgrees ==
  ASSUME NEW f, NEW g, NEW S, IsFiniteSet(S), \A x \in S : f[x] = g[x]
  PROVE  SumFunctionOnSet(f, S) = SumFunctionOnSet(g, S)
  <1>1. \A s \in SUBSET S : Iter(f, S)[s] = Iter(g, S)[s]
    BY IterAgrees
  <1> QED
    BY <1>1, SumUnfold

(* A sum of integers is an integer.                                        *)
LEMMA SumType ==
  ASSUME NEW f, NEW S, IsFiniteSet(S), \A x \in S : f[x] \in Int
  PROVE  SumFunctionOnSet(f, S) \in Int
  <1> DEFINE Bad == {s \in SUBSET S : SumFunctionOnSet(f, s) \notin Int}
  <1> SUFFICES ASSUME Bad # {} PROVE FALSE
    OBVIOUS
  <1>1. PICK s \in Bad : \A u \in Bad : u \subseteq s => u = s
    <2>1. Bad \in SUBSET SUBSET S
      OBVIOUS
    <2> HIDE DEF Bad
    <2> QED
      BY <2>1, SmallestSubset
  <1>2. s # {} /\ IsFiniteSet(s)
    <2>1. SumFunctionOnSet(f, {}) = 0
      BY SumEmpty
    <2>2. s # {}
      <3>1. {} \notin Bad
        BY <2>1
      <3> HIDE DEF Bad
      <3> QED
        BY <1>1, <3>1
    <2>3. IsFiniteSet(s)
      BY <1>1, FS_Subset
    <2> QED
      BY <2>2, <2>3
  <1> DEFINE t == s \ {Pick(s)}
  <1>3. Pick(s) \in s /\ t \subseteq s /\ t # s /\ t \in SUBSET S
    BY <1>1, <1>2, PickFacts
  <1>4. SumFunctionOnSet(f, t) \in Int
    BY <1>1, <1>3
  <1>5. SumFunctionOnSet(f, s) = f[Pick(s)] + SumFunctionOnSet(f, t)
    BY <1>2, SumPick
  <1>6. f[Pick(s)] \in Int
    BY <1>1, <1>3
  <1> QED
    BY <1>1, <1>4, <1>5, <1>6

(* A sum of naturals is a natural.                                         *)
LEMMA SumNat ==
  ASSUME NEW f, NEW S, IsFiniteSet(S), \A x \in S : f[x] \in Nat
  PROVE  SumFunctionOnSet(f, S) \in Nat
  <1> DEFINE Bad == {s \in SUBSET S : SumFunctionOnSet(f, s) \notin Nat}
  <1> SUFFICES ASSUME Bad # {} PROVE FALSE
    OBVIOUS
  <1>1. PICK s \in Bad : \A u \in Bad : u \subseteq s => u = s
    <2>1. Bad \in SUBSET SUBSET S
      OBVIOUS
    <2> HIDE DEF Bad
    <2> QED
      BY <2>1, SmallestSubset
  <1>2. s # {} /\ IsFiniteSet(s)
    <2>1. SumFunctionOnSet(f, {}) = 0
      BY SumEmpty
    <2>2. s # {}
      <3>1. {} \notin Bad
        BY <2>1
      <3> HIDE DEF Bad
      <3> QED
        BY <1>1, <3>1
    <2>3. IsFiniteSet(s)
      BY <1>1, FS_Subset
    <2> QED
      BY <2>2, <2>3
  <1> DEFINE t == s \ {Pick(s)}
  <1>3. Pick(s) \in s /\ t \subseteq s /\ t # s /\ t \in SUBSET S
    BY <1>1, <1>2, PickFacts
  <1>4. SumFunctionOnSet(f, t) \in Nat
    BY <1>1, <1>3
  <1>5. SumFunctionOnSet(f, s) = f[Pick(s)] + SumFunctionOnSet(f, t)
    BY <1>2, SumPick
  <1>6. f[Pick(s)] \in Nat
    BY <1>1, <1>3
  <1> QED
    BY <1>1, <1>4, <1>5, <1>6

(* Any element may be taken out first.                                     *)
LEMMA SumRemove ==
  ASSUME NEW f, NEW S, IsFiniteSet(S), \A y \in S : f[y] \in Int, NEW x \in S
  PROVE  SumFunctionOnSet(f, S) = f[x] + SumFunctionOnSet(f, S \ {x})
  <1> DEFINE Good(s, y) == SumFunctionOnSet(f, s) = f[y] + SumFunctionOnSet(f, s \ {y})
             Bad == {s \in SUBSET S : \E y \in s : ~Good(s, y)}
  <1> SUFFICES ASSUME Bad # {} PROVE FALSE
    OBVIOUS
  <1>1. PICK s \in Bad : \A u \in Bad : u \subseteq s => u = s
    <2>1. Bad \in SUBSET SUBSET S
      OBVIOUS
    <2> HIDE DEF Bad
    <2> QED
      BY <2>1, SmallestSubset
  <1>2. PICK y \in s : ~Good(s, y)
    BY <1>1
  <1> DEFINE c == Pick(s)
  <1>3. IsFiniteSet(s) /\ s # {} /\ c \in s /\ s \in SUBSET S
    BY <1>1, <1>2, FS_Subset, PickFacts
  <1>4. SumFunctionOnSet(f, s) = f[c] + SumFunctionOnSet(f, s \ {c})
    BY <1>3, SumPick
  <1> HIDE DEF c
  <1>5. c # y
    BY <1>2, <1>4
  <1>6. s \ {c} \notin Bad /\ s \ {y} \notin Bad
    BY <1>1, <1>2, <1>3
  <1>7. Good(s \ {c}, y) /\ Good(s \ {y}, c)
    <2>1. s \ {c} \in SUBSET S /\ s \ {y} \in SUBSET S /\ y \in s \ {c} /\ c \in s \ {y}
      BY <1>2, <1>3, <1>5
    <2> HIDE DEF Good
    <2> QED
      BY <1>6, <2>1
  <1>8. (s \ {c}) \ {y} = (s \ {y}) \ {c}
    OBVIOUS
  <1> DEFINE r == SumFunctionOnSet(f, (s \ {c}) \ {y})
  <1>9. r \in Int /\ f[c] \in Int /\ f[y] \in Int
    <2>1. IsFiniteSet((s \ {c}) \ {y}) /\ (s \ {c}) \ {y} \subseteq S
      BY <1>3, FS_Subset
    <2> QED
      BY <1>2, <1>3, <2>1, SumType
  <1>10. /\ SumFunctionOnSet(f, s) = f[c] + (f[y] + r)
         /\ SumFunctionOnSet(f, s \ {y}) = f[c] + r
    BY <1>4, <1>7, <1>8
  <1> HIDE DEF r
  <1> QED
    BY <1>2, <1>9, <1>10

(* A new element adds its value.                                           *)
LEMMA SumAdd ==
  ASSUME NEW f, NEW S, IsFiniteSet(S), NEW x, x \notin S, \A y \in S \cup {x} : f[y] \in Int
  PROVE  SumFunctionOnSet(f, S \cup {x}) = f[x] + SumFunctionOnSet(f, S)
  <1>1. IsFiniteSet(S \cup {x}) /\ x \in S \cup {x} /\ (S \cup {x}) \ {x} = S
    BY FS_AddElement
  <1> QED
    BY <1>1, SumRemove

(* A change in one place changes the sum by as much.                       *)
LEMMA SumChange ==
  ASSUME NEW f, NEW g, NEW S, IsFiniteSet(S), NEW x \in S,
         \A y \in S : f[y] \in Int /\ g[y] \in Int,
         \A y \in S \ {x} : g[y] = f[y]
  PROVE  SumFunctionOnSet(g, S) = SumFunctionOnSet(f, S) + (g[x] - f[x])
  <1> DEFINE T == S \ {x}
  <1>1. IsFiniteSet(T)
    BY FS_Subset
  <1>2. SumFunctionOnSet(g, T) = SumFunctionOnSet(f, T)
    BY <1>1, SumAgrees
  <1>3. SumFunctionOnSet(g, S) = g[x] + SumFunctionOnSet(g, T)
    BY SumRemove
  <1>4. SumFunctionOnSet(f, S) = f[x] + SumFunctionOnSet(f, T)
    BY SumRemove
  <1>5. SumFunctionOnSet(f, T) \in Int
    BY <1>1, SumType
  <1> HIDE DEF T
  <1> QED
    BY <1>2, <1>3, <1>4, <1>5

(* A sum over two parts is the sum of their sums.                          *)
LEMMA SumSplit ==
  ASSUME NEW f, NEW S, IsFiniteSet(S), NEW T, T \subseteq S, \A y \in S : f[y] \in Int
  PROVE  SumFunctionOnSet(f, S) = SumFunctionOnSet(f, T) + SumFunctionOnSet(f, S \ T)
  <1> DEFINE Good(u) == SumFunctionOnSet(f, u \cup (S \ T)) = SumFunctionOnSet(f, u) + SumFunctionOnSet(f, S \ T)
             Bad == {u \in SUBSET T : ~Good(u)}
  <1>0. IsFiniteSet(T) /\ IsFiniteSet(S \ T) /\ SumFunctionOnSet(f, S \ T) \in Int
    <2>1. IsFiniteSet(T) /\ IsFiniteSet(S \ T)
      BY FS_Subset
    <2> QED
      BY <2>1, SumType
  <1>1. Bad = {}
    <2> SUFFICES ASSUME Bad # {} PROVE FALSE
      OBVIOUS
    <2>1. PICK u \in Bad : \A v \in Bad : v \subseteq u => v = u
      <3>1. Bad \in SUBSET SUBSET T
        OBVIOUS
      <3> HIDE DEF Bad
      <3> QED
        BY <1>0, <3>1, SmallestSubset
    <2>2. u \in SUBSET T /\ ~Good(u)
      BY <2>1
    <2>3. u # {}
      <3>1. SumFunctionOnSet(f, {}) = 0 /\ {} \cup (S \ T) = S \ T
        BY SumEmpty
      <3>2. Good({})
        BY <1>0, <3>1
      <3> HIDE DEF Good
      <3> QED
        BY <2>2, <3>2
    <2>4. PICK x : x \in u
      BY <2>3
    <2> DEFINE w == u \ {x}
    <2>5. w \in SUBSET T /\ w \subseteq u /\ w # u
      BY <2>2, <2>4
    <2>6. Good(w)
      <3> HIDE DEF Good
      <3> QED
        BY <2>1, <2>5
    <2>7. IsFiniteSet(u) /\ IsFiniteSet(w) /\ IsFiniteSet(u \cup (S \ T))
      BY <2>2, <2>5, FS_Subset
    <2>8. SumFunctionOnSet(f, u) = f[x] + SumFunctionOnSet(f, w)
      BY <2>2, <2>4, <2>7, SumRemove
    <2>9. SumFunctionOnSet(f, u \cup (S \ T)) = f[x] + SumFunctionOnSet(f, w \cup (S \ T))
      <3>1. (u \cup (S \ T)) \ {x} = w \cup (S \ T) /\ x \in u \cup (S \ T)
        BY <2>2, <2>4
      <3>2. \A y \in u \cup (S \ T) : f[y] \in Int
        BY <2>2
      <3> QED
        BY <2>7, <3>1, <3>2, SumRemove
    <2>10. SumFunctionOnSet(f, w) \in Int /\ f[x] \in Int
      <3>1. \A y \in w : f[y] \in Int
        BY <2>2
      <3> QED
        BY <2>2, <2>4, <2>7, <3>1, SumType
    <2> QED
      BY <1>0, <2>2, <2>6, <2>8, <2>9, <2>10
  <1>2. T \cup (S \ T) = S
    OBVIOUS
  <1>3. Good(T)
    <2> HIDE DEF Good
    <2> QED
      BY <1>1
  <1> QED
    BY <1>2, <1>3

(* A sum of zeros.                                                         *)
LEMMA SumZero ==
  ASSUME NEW f, NEW S, IsFiniteSet(S), \A x \in S : f[x] = 0
  PROVE  SumFunctionOnSet(f, S) = 0
  <1> DEFINE Bad == {s \in SUBSET S : SumFunctionOnSet(f, s) # 0}
  <1> SUFFICES ASSUME Bad # {} PROVE FALSE
    OBVIOUS
  <1>1. PICK s \in Bad : \A u \in Bad : u \subseteq s => u = s
    <2>1. Bad \in SUBSET SUBSET S
      OBVIOUS
    <2> HIDE DEF Bad
    <2> QED
      BY <2>1, SmallestSubset
  <1>2. s # {} /\ IsFiniteSet(s)
    <2>1. {} \notin Bad
      BY SumEmpty
    <2>2. IsFiniteSet(s)
      BY <1>1, FS_Subset
    <2> HIDE DEF Bad
    <2> QED
      BY <1>1, <2>1, <2>2
  <1> DEFINE t == s \ {Pick(s)}
  <1>3. Pick(s) \in s /\ t \subseteq s /\ t # s /\ t \in SUBSET S
    BY <1>1, <1>2, PickFacts
  <1>4. SumFunctionOnSet(f, t) = 0
    BY <1>1, <1>3
  <1>5. SumFunctionOnSet(f, s) = f[Pick(s)] + SumFunctionOnSet(f, t)
    BY <1>2, SumPick
  <1> QED
    BY <1>1, <1>3, <1>4, <1>5

(* Larger terms have a larger sum.                                         *)
LEMMA SumMonotone ==
  ASSUME NEW f, NEW g, NEW S, IsFiniteSet(S),
         \A x \in S : f[x] \in Int /\ g[x] \in Int /\ f[x] =< g[x]
  PROVE  SumFunctionOnSet(f, S) =< SumFunctionOnSet(g, S)
  <1> DEFINE Good(s) == SumFunctionOnSet(f, s) =< SumFunctionOnSet(g, s)
             Bad == {s \in SUBSET S : ~Good(s)}
  <1> SUFFICES ASSUME Bad # {} PROVE FALSE
    OBVIOUS
  <1>1. PICK s \in Bad : \A u \in Bad : u \subseteq s => u = s
    <2>1. Bad \in SUBSET SUBSET S
      OBVIOUS
    <2> HIDE DEF Bad
    <2> QED
      BY <2>1, SmallestSubset
  <1>2. s \in SUBSET S /\ ~Good(s) /\ IsFiniteSet(s)
    BY <1>1, FS_Subset
  <1>3. s # {}
    <2>1. Good({})
      BY SumEmpty
    <2> HIDE DEF Good
    <2> QED
      BY <1>2, <2>1
  <1> DEFINE t == s \ {Pick(s)}
  <1>4. Pick(s) \in s /\ t \subseteq s /\ t # s /\ t \in SUBSET S /\ IsFiniteSet(t)
    BY <1>2, <1>3, PickFacts, FS_Subset
  <1>5. Good(t)
    <2> HIDE DEF Good
    <2> QED
      BY <1>1, <1>4
  <1>6. /\ SumFunctionOnSet(f, s) = f[Pick(s)] + SumFunctionOnSet(f, t)
        /\ SumFunctionOnSet(g, s) = g[Pick(s)] + SumFunctionOnSet(g, t)
    BY <1>2, <1>3, SumPick
  <1>7. SumFunctionOnSet(f, t) \in Int /\ SumFunctionOnSet(g, t) \in Int
    <2>1. \A x \in t : f[x] \in Int /\ g[x] \in Int
      BY <1>4
    <2> QED
      BY <1>4, <2>1, SumType
  <1>8. PICK a \in Int, b \in Int, c \in Int, d \in Int :
          /\ a = f[Pick(s)] /\ b = SumFunctionOnSet(f, t)
          /\ c = g[Pick(s)] /\ d = SumFunctionOnSet(g, t)
    BY <1>2, <1>4, <1>7
  <1>9. a =< c /\ b =< d
    BY <1>2, <1>4, <1>5, <1>8
  <1>10. a + b =< c + d
    BY <1>9
  <1> QED
    BY <1>2, <1>6, <1>8, <1>10

(* A common factor comes out of a sum.                                     *)
LEMMA SumScaled ==
  ASSUME NEW f, NEW g, NEW S, IsFiniteSet(S), NEW k \in Int,
         \A x \in S : f[x] \in Int /\ g[x] \in Int /\ g[x] = f[x] * k
  PROVE  SumFunctionOnSet(g, S) = SumFunctionOnSet(f, S) * k
  <1> DEFINE Good(s) == SumFunctionOnSet(g, s) = SumFunctionOnSet(f, s) * k
             Bad == {s \in SUBSET S : ~Good(s)}
  <1> SUFFICES ASSUME Bad # {} PROVE FALSE
    OBVIOUS
  <1>1. PICK s \in Bad : \A u \in Bad : u \subseteq s => u = s
    <2>1. Bad \in SUBSET SUBSET S
      OBVIOUS
    <2> HIDE DEF Bad
    <2> QED
      BY <2>1, SmallestSubset
  <1>2. s \in SUBSET S /\ ~Good(s) /\ IsFiniteSet(s)
    BY <1>1, FS_Subset
  <1>3. s # {}
    <2>1. Good({})
      BY SumEmpty
    <2> HIDE DEF Good
    <2> QED
      BY <1>2, <2>1
  <1> DEFINE t == s \ {Pick(s)}
  <1>4. Pick(s) \in s /\ t \subseteq s /\ t # s /\ t \in SUBSET S /\ IsFiniteSet(t)
    BY <1>2, <1>3, PickFacts, FS_Subset
  <1>5. Good(t)
    <2> HIDE DEF Good
    <2> QED
      BY <1>1, <1>4
  <1>6. /\ SumFunctionOnSet(f, s) = f[Pick(s)] + SumFunctionOnSet(f, t)
        /\ SumFunctionOnSet(g, s) = g[Pick(s)] + SumFunctionOnSet(g, t)
    BY <1>2, <1>3, SumPick
  <1>7. SumFunctionOnSet(f, t) \in Int /\ SumFunctionOnSet(g, t) \in Int
    <2>1. \A x \in t : f[x] \in Int /\ g[x] \in Int
      BY <1>4
    <2> QED
      BY <1>4, <2>1, SumType
  <1>8. PICK a \in Int, b \in Int, c \in Int, d \in Int :
          /\ a = f[Pick(s)] /\ b = SumFunctionOnSet(f, t)
          /\ c = g[Pick(s)] /\ d = SumFunctionOnSet(g, t)
    BY <1>2, <1>4, <1>7
  <1>9. c = a * k /\ d = b * k
    BY <1>2, <1>4, <1>5, <1>8
  <1>10. (a + b) * k = a * k + b * k
    OBVIOUS
  <1> QED
    BY <1>2, <1>6, <1>8, <1>9, <1>10
=============================================================================
