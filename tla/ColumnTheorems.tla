--------------------------- MODULE ColumnTheorems ---------------------------
(***************************************************************************)
(* What the operators on columns compute, for any table.                   *)
(*   SumFunctionOnSet (community module Functions), the sum of a function  *)
(* over a finite set, whatever order the elements are taken in.  The       *)
(* operator is a recursive function on the subsets of the set; that the    *)
(* recursion has a solution, and only one, is shown first, by the least    *)
(* cardinality of a set for which it would fail.                           *)
(*   Kept (Columns), the rows a loop copies, by the same argument on the   *)
(* number of rows it has passed.                                           *)
(*   The lists threaded through the rows (Columns): how they change when a *)
(* row is added, leaves one list and joins another, or when all are        *)
(* threaded again.                                                         *)
(***************************************************************************)
EXTENDS Columns, Functions, FiniteSetTheorems, WellFoundedInduction, TLAPS

Some(s) == CHOOSE x \in s : TRUE

\* One step of the recursion, and the recursive function itself.
SumBody(f, it, s) == IF s = {} THEN 0 ELSE f[Some(s)] + it[s \ {Some(s)}]
Iter(f, S) == CHOOSE it : it = [s \in SUBSET S |-> SumBody(f, it, s)]

\* The subsets of at most n elements.
Below(S, n) == {s \in SUBSET S : Cardinality(s) <= n}

\* A non-empty set of naturals has a least element.
LEMMA LeastNatural ==
  ASSUME NEW T, T \subseteq Nat, T # {}
  PROVE  \E x \in T : \A y \in T : x <= y
<1> DEFINE R == OpToRel(<, Nat)
<1>1. \E x \in T : \A y \in T : ~ (<<y, x>> \in R)
  <2> HIDE DEF R
  <2>1. IsWellFoundedOn(R, Nat)
    BY NatLessThanWellFounded DEF R
  <2> QED  BY <2>1, WFMin
<1>2. \A x, y \in Nat : (<<y, x>> \in R) <=> y < x
  BY DEF OpToRel
<1> HIDE DEF R
<1>3. PICK x \in T : \A y \in T : ~ (<<y, x>> \in R)
  BY <1>1
<1>4. ASSUME NEW y \in T  PROVE x <= y
  <2>1. x \in Nat /\ y \in Nat
    OBVIOUS
  <2>2. ~ (y < x)
    BY <1>2, <1>3, <2>1
  <2> QED  BY <2>1, <2>2
<1> QED  BY <1>4

\* SumFunctionOnSet is that recursive function, taken at the whole set.
LEMMA SumUnfold ==
  ASSUME NEW f, NEW S
  PROVE  SumFunctionOnSet(f, S) = Iter(f, S)[S]
  BY DEF SumFunctionOnSet, FoldFunctionOnSet, MapThenFoldSet, Iter, SumBody, Some

\* A chosen element belongs to the set, and without it the set is smaller.
LEMMA SomeLess ==
  ASSUME NEW s, IsFiniteSet(s), s # {}
  PROVE  /\ Some(s) \in s
         /\ IsFiniteSet(s \ {Some(s)})
         /\ Cardinality(s) \in Nat /\ Cardinality(s \ {Some(s)}) = Cardinality(s) - 1
<1>1. Some(s) \in s
  BY DEF Some
<1> QED  BY <1>1, FS_RemoveElement, FS_CardinalityType

\* The recursion can be solved up to any cardinality.
LEMMA SolvedBelow ==
  ASSUME NEW f, NEW S, IsFiniteSet(S), NEW n \in Nat
  PROVE  \E it : it = [s \in Below(S, n) |-> SumBody(f, it, s)]
<1> DEFINE Solved(m) == \E it : it = [s \in Below(S, m) |-> SumBody(f, it, s)]
           T == {m \in Nat : ~Solved(m)}
<1> SUFFICES ASSUME T # {}  PROVE FALSE
  OBVIOUS
<1>1. PICK m \in T : \A y \in T : m <= y
  <2> HIDE DEF Solved
  <2> QED  BY LeastNatural
<1>2. m \in Nat /\ ~Solved(m)
  OBVIOUS
<1>3. \A s \in SUBSET S : IsFiniteSet(s) /\ Cardinality(s) \in Nat /\ (Cardinality(s) = 0 => s = {})
  BY FS_Subset, FS_CardinalityType, FS_EmptySet
<1>4. CASE m = 0
  <2> DEFINE it == [s \in Below(S, 0) |-> 0]
  <2>1. \A s \in Below(S, 0) : s = {}
    BY <1>3 DEF Below
  <2>2. it = [s \in Below(S, 0) |-> SumBody(f, it, s)]
    BY <2>1 DEF SumBody
  <2> QED  BY <1>2, <1>4, <2>2
<1>5. CASE m # 0
  <2>1. m - 1 \in Nat /\ Solved(m - 1)
    <3>1. m - 1 \in Nat /\ ~(m <= m - 1)
      BY <1>2, <1>5
    <3> HIDE DEF Solved
    <3> QED  BY <1>1, <3>1
  <2>2. PICK h : h = [s \in Below(S, m - 1) |-> SumBody(f, h, s)]
    BY <2>1
  <2> DEFINE it == [s \in Below(S, m) |-> SumBody(f, h, s)]
  <2>3. ASSUME NEW s \in Below(S, m), s # {}
        PROVE  it[s \ {Some(s)}] = h[s \ {Some(s)}]
    <3>1. s \ {Some(s)} \in Below(S, m - 1) /\ s \ {Some(s)} \in Below(S, m)
      <4>1. s \in SUBSET S /\ Cardinality(s) <= m /\ IsFiniteSet(s)
        BY <1>3 DEF Below
      <4>2. Cardinality(s \ {Some(s)}) = Cardinality(s) - 1 /\ Cardinality(s) \in Nat
        BY <2>3, <4>1, SomeLess
      <4>3. Cardinality(s \ {Some(s)}) <= m - 1 /\ Cardinality(s \ {Some(s)}) <= m
        BY <1>2, <4>1, <4>2
      <4> QED  BY <4>1, <4>3 DEF Below
    <3>2. it[s \ {Some(s)}] = SumBody(f, h, s \ {Some(s)})
      BY <3>1
    <3>3. h[s \ {Some(s)}] = SumBody(f, h, s \ {Some(s)})
      BY <2>2, <3>1
    <3> QED  BY <3>2, <3>3
  <2>4. \A s \in Below(S, m) : SumBody(f, h, s) = SumBody(f, it, s)
    <3> HIDE DEF it
    <3> QED  BY <2>3 DEF SumBody
  <2>5. it = [s \in Below(S, m) |-> SumBody(f, it, s)]
    BY <2>4
  <2> QED  BY <1>2, <2>5
<1> QED  BY <1>4, <1>5

\* For a finite set the recursive function is what its definition says.
LEMMA IterSolves ==
  ASSUME NEW f, NEW S, IsFiniteSet(S)
  PROVE  \A s \in SUBSET S : Iter(f, S)[s] = SumBody(f, Iter(f, S), s)
<1>1. Cardinality(S) \in Nat /\ \A s \in SUBSET S : Cardinality(s) <= Cardinality(S)
  BY FS_CardinalityType, FS_Subset
<1>2. Below(S, Cardinality(S)) = SUBSET S
  BY <1>1 DEF Below
<1>3. \E it : it = [s \in SUBSET S |-> SumBody(f, it, s)]
  <2>1. PICK it : it = [s \in Below(S, Cardinality(S)) |-> SumBody(f, it, s)]
    BY <1>1, SolvedBelow
  <2>2. it = [s \in SUBSET S |-> SumBody(f, it, s)]
    BY <1>2, <2>1
  <2> QED  BY <2>2
<1>4. Iter(f, S) = [s \in SUBSET S |-> SumBody(f, Iter(f, S), s)]
  BY <1>3 DEF Iter
<1> DEFINE it == Iter(f, S)
<1>5. it = [s \in SUBSET S |-> SumBody(f, it, s)]
  BY <1>4
<1> HIDE DEF it
<1>6. \A s \in SUBSET S : it[s] = SumBody(f, it, s)
  BY <1>5
<1> QED  BY <1>6 DEF it

\* Its value at a subset depends on that subset alone.
LEMMA IterAgree ==
  ASSUME NEW S, IsFiniteSet(S), NEW T, IsFiniteSet(T), NEW f, NEW g,
         \A x \in S \cap T : f[x] = g[x]
  PROVE  \A s \in SUBSET (S \cap T) : Iter(f, S)[s] = Iter(g, T)[s]
<1> DEFINE Bad == {s \in SUBSET (S \cap T) : Iter(f, S)[s] # Iter(g, T)[s]}
           Sizes == {Cardinality(s) : s \in Bad}
<1> SUFFICES ASSUME Bad # {}  PROVE FALSE
  OBVIOUS
<1>1. \A s \in SUBSET (S \cap T) : IsFiniteSet(s) /\ Cardinality(s) \in Nat
  BY FS_Subset, FS_CardinalityType
<1>2. PICK s \in Bad : \A r \in Bad : Cardinality(s) <= Cardinality(r)
  <2>1. Sizes \subseteq Nat /\ Sizes # {}
    BY <1>1
  <2>2. PICK n \in Sizes : \A m \in Sizes : n <= m
    <3> HIDE DEF Sizes
    <3> QED  BY <2>1, LeastNatural
  <2> QED  BY <2>2
<1>3. s \in SUBSET (S \cap T) /\ s \in SUBSET S /\ s \in SUBSET T /\ Iter(f, S)[s] # Iter(g, T)[s]
  OBVIOUS
<1>4. Iter(f, S)[s] = SumBody(f, Iter(f, S), s) /\ Iter(g, T)[s] = SumBody(g, Iter(g, T), s)
  BY <1>3, IterSolves
<1>5. s # {}
  BY <1>3, <1>4 DEF SumBody
<1> DEFINE r == s \ {Some(s)}
<1>6. Some(s) \in s /\ Cardinality(r) = Cardinality(s) - 1 /\ Cardinality(s) \in Nat
  BY <1>1, <1>3, <1>5, SomeLess
<1>7. r \in SUBSET (S \cap T) /\ r \notin Bad
  <2>1. r \in SUBSET (S \cap T)
    BY <1>3
  <2>2. ~(Cardinality(s) <= Cardinality(r))
    BY <1>6
  <2> HIDE DEF Bad, r
  <2> QED  BY <1>2, <2>1, <2>2
<1>8. Iter(f, S)[r] = Iter(g, T)[r] /\ f[Some(s)] = g[Some(s)]
  BY <1>3, <1>6, <1>7
<1> QED  BY <1>3, <1>4, <1>5, <1>8 DEF SumBody

-----------------------------------------------------------------------------
\* The sum over no element is zero.
LEMMA SumEmpty ==
  ASSUME NEW f
  PROVE  SumFunctionOnSet(f, {}) = 0
<1>1. IsFiniteSet({})
  BY FS_EmptySet
<1>2. Iter(f, {})[{}] = SumBody(f, Iter(f, {}), {})
  <2>1. {} \in SUBSET {}
    OBVIOUS
  <2> QED  BY <1>1, <2>1, IterSolves
<1> QED  BY <1>2, SumUnfold DEF SumBody

\* Functions that agree on a set have the same sum over it.
LEMMA SumAgree ==
  ASSUME NEW S, IsFiniteSet(S), NEW f, NEW g, \A x \in S : f[x] = g[x]
  PROVE  SumFunctionOnSet(f, S) = SumFunctionOnSet(g, S)
<1>1. S \in SUBSET (S \cap S)
  OBVIOUS
<1> QED  BY <1>1, IterAgree, SumUnfold

\* A sum is its chosen element and the sum over the others.
LEMMA SumSome ==
  ASSUME NEW f, NEW S, IsFiniteSet(S), S # {}
  PROVE  SumFunctionOnSet(f, S) = f[Some(S)] + SumFunctionOnSet(f, S \ {Some(S)})
<1> DEFINE R == S \ {Some(S)}
<1>1. Iter(f, S)[S] = f[Some(S)] + Iter(f, S)[R]
  <2>1. S \in SUBSET S
    OBVIOUS
  <2>2. Iter(f, S)[S] = SumBody(f, Iter(f, S), S)
    BY <2>1, IterSolves
  <2> QED  BY <2>2 DEF SumBody
<1>2. IsFiniteSet(R) /\ R \in SUBSET (S \cap R)
  BY FS_RemoveElement
<1>3. Iter(f, S)[R] = Iter(f, R)[R]
  <2> HIDE DEF R
  <2> QED  BY <1>2, IterAgree
<1>4. SumFunctionOnSet(f, R) = Iter(f, R)[R]
  BY SumUnfold
<1> QED  BY <1>1, <1>3, <1>4, SumUnfold

\* Integers have an integer sum.
LEMMA SumInt ==
  ASSUME NEW f, NEW S, IsFiniteSet(S), \A x \in S : f[x] \in Int
  PROVE  SumFunctionOnSet(f, S) \in Int
<1> DEFINE Bad == {s \in SUBSET S : SumFunctionOnSet(f, s) \notin Int}
           Sizes == {Cardinality(s) : s \in Bad}
<1> SUFFICES ASSUME Bad # {}  PROVE FALSE
  OBVIOUS
<1>1. \A s \in SUBSET S : IsFiniteSet(s) /\ Cardinality(s) \in Nat
  BY FS_Subset, FS_CardinalityType
<1>2. PICK s \in Bad : \A r \in Bad : Cardinality(s) <= Cardinality(r)
  <2>1. Sizes \subseteq Nat /\ Sizes # {}
    BY <1>1
  <2>2. PICK n \in Sizes : \A m \in Sizes : n <= m
    <3> HIDE DEF Sizes
    <3> QED  BY <2>1, LeastNatural
  <2> QED  BY <2>2
<1>3. s \in SUBSET S /\ SumFunctionOnSet(f, s) \notin Int
  OBVIOUS
<1>4. s # {}
  BY <1>3, SumEmpty
<1> DEFINE r == s \ {Some(s)}
<1>5. Some(s) \in s /\ Cardinality(r) = Cardinality(s) - 1 /\ Cardinality(s) \in Nat
  BY <1>1, <1>3, <1>4, SomeLess
<1>6. SumFunctionOnSet(f, s) = f[Some(s)] + SumFunctionOnSet(f, r)
  BY <1>1, <1>3, <1>4, SumSome
<1>7. SumFunctionOnSet(f, r) \in Int
  <2>1. r \in SUBSET S /\ ~(Cardinality(s) <= Cardinality(r))
    BY <1>3, <1>5
  <2> HIDE DEF r
  <2> QED  BY <1>2, <2>1
<1> QED  BY <1>3, <1>5, <1>6, <1>7

\* The order does not matter: a sum is any of its elements and the sum over the others.
LEMMA SumRemove ==
  ASSUME NEW f, NEW S, IsFiniteSet(S), \A x \in S : f[x] \in Int
  PROVE  \A x \in S : SumFunctionOnSet(f, S) = f[x] + SumFunctionOnSet(f, S \ {x})
<1> DEFINE Any(s) == \A x \in s : SumFunctionOnSet(f, s) = f[x] + SumFunctionOnSet(f, s \ {x})
           Bad == {s \in SUBSET S : ~Any(s)}
           Sizes == {Cardinality(s) : s \in Bad}
<1> SUFFICES ASSUME Bad # {}  PROVE FALSE
  OBVIOUS
<1>1. \A s \in SUBSET S : IsFiniteSet(s) /\ Cardinality(s) \in Nat /\ SumFunctionOnSet(f, s) \in Int
  <2>1. ASSUME NEW s \in SUBSET S  PROVE IsFiniteSet(s) /\ Cardinality(s) \in Nat
    BY FS_Subset, FS_CardinalityType
  <2>2. ASSUME NEW s \in SUBSET S  PROVE SumFunctionOnSet(f, s) \in Int
    BY <2>1, SumInt
  <2> QED  BY <2>1, <2>2
<1>2. PICK s \in Bad : \A r \in Bad : Cardinality(s) <= Cardinality(r)
  <2> HIDE DEF Any
  <2>1. Sizes \subseteq Nat /\ Sizes # {}
    BY <1>1
  <2>2. PICK n \in Sizes : \A m \in Sizes : n <= m
    <3> HIDE DEF Sizes
    <3> QED  BY <2>1, LeastNatural
  <2> QED  BY <2>2
<1>3. s \in SUBSET S /\ ~Any(s)
  OBVIOUS
<1>4. PICK x \in s : SumFunctionOnSet(f, s) # f[x] + SumFunctionOnSet(f, s \ {x})
  BY <1>3
<1> DEFINE c == Some(s)
<1>5. c \in s /\ Cardinality(s) \in Nat /\ IsFiniteSet(s)
  BY <1>1, <1>3, <1>4, SomeLess
<1>6. SumFunctionOnSet(f, s) = f[c] + SumFunctionOnSet(f, s \ {c})
  BY <1>1, <1>3, <1>4, SumSome
<1> HIDE DEF c
<1>7. c # x
  BY <1>4, <1>6
<1>8. ASSUME NEW y \in s  PROVE Any(s \ {y})
  <2>1. s \ {y} \in SUBSET S /\ Cardinality(s \ {y}) = Cardinality(s) - 1
    BY <1>3, <1>5, <1>8, FS_RemoveElement
  <2>2. ~(Cardinality(s) <= Cardinality(s \ {y}))
    BY <1>5, <2>1
  <2> HIDE DEF Any
  <2> QED  BY <1>2, <2>1, <2>2
<1>9. SumFunctionOnSet(f, s \ {c}) = f[x] + SumFunctionOnSet(f, (s \ {c}) \ {x})
  BY <1>5, <1>7, <1>8
<1>10. SumFunctionOnSet(f, s \ {x}) = f[c] + SumFunctionOnSet(f, (s \ {x}) \ {c})
  BY <1>5, <1>7, <1>8
<1>11. SumFunctionOnSet(f, (s \ {c}) \ {x}) = SumFunctionOnSet(f, (s \ {x}) \ {c})
  <2>1. (s \ {c}) \ {x} = (s \ {x}) \ {c}
    OBVIOUS
  <2> QED  BY <2>1, Zenon
<1>12. f[x] \in Int /\ f[c] \in Int /\ SumFunctionOnSet(f, (s \ {x}) \ {c}) \in Int
  BY <1>1, <1>3, <1>5
<1> QED  BY <1>4, <1>6, <1>9, <1>10, <1>11, <1>12

\* One element more.
LEMMA SumAdd ==
  ASSUME NEW f, NEW S, IsFiniteSet(S), NEW x, x \notin S, f[x] \in Int, \A y \in S : f[y] \in Int
  PROVE  SumFunctionOnSet(f, S \cup {x}) = SumFunctionOnSet(f, S) + f[x]
<1>1. IsFiniteSet(S \cup {x}) /\ (S \cup {x}) \ {x} = S
  BY FS_AddElement
<1>2. SumFunctionOnSet(f, S \cup {x}) = f[x] + SumFunctionOnSet(f, (S \cup {x}) \ {x})
  BY <1>1, SumRemove
<1>3. SumFunctionOnSet(f, S \cup {x}) = f[x] + SumFunctionOnSet(f, S)
  BY <1>1, <1>2, Zenon
<1>4. SumFunctionOnSet(f, S) \in Int
  BY SumInt
<1> QED  BY <1>3, <1>4

\* The sum over a set is the sum over a part of it and the sum over the rest.
LEMMA SumSplit ==
  ASSUME NEW f, NEW S, IsFiniteSet(S), \A x \in S : f[x] \in Int, NEW P \in SUBSET S
  PROVE  SumFunctionOnSet(f, S) = SumFunctionOnSet(f, P) + SumFunctionOnSet(f, S \ P)
<1> DEFINE Splits(s) == SumFunctionOnSet(f, S) = SumFunctionOnSet(f, s) + SumFunctionOnSet(f, S \ s)
           Bad == {s \in SUBSET S : ~Splits(s)}
           Sizes == {Cardinality(s) : s \in Bad}
<1> SUFFICES ASSUME Bad # {}  PROVE FALSE
  OBVIOUS
<1>1. \A s \in SUBSET S : IsFiniteSet(s) /\ Cardinality(s) \in Nat /\ SumFunctionOnSet(f, s) \in Int
  <2>1. ASSUME NEW s \in SUBSET S  PROVE IsFiniteSet(s) /\ Cardinality(s) \in Nat
    BY FS_Subset, FS_CardinalityType
  <2>2. ASSUME NEW s \in SUBSET S  PROVE SumFunctionOnSet(f, s) \in Int
    BY <2>1, SumInt
  <2> QED  BY <2>1, <2>2
<1>2. PICK s \in Bad : \A r \in Bad : Cardinality(s) <= Cardinality(r)
  <2> HIDE DEF Splits
  <2>1. Sizes \subseteq Nat /\ Sizes # {}
    BY <1>1
  <2>2. PICK n \in Sizes : \A m \in Sizes : n <= m
    <3> HIDE DEF Sizes
    <3> QED  BY <2>1, LeastNatural
  <2> QED  BY <2>2
<1>3. s \in SUBSET S /\ ~Splits(s)
  OBVIOUS
<1>4. s # {}
  <2>1. ASSUME s = {}  PROVE FALSE
    <3>1. SumFunctionOnSet(f, s) = 0 /\ S \ s = S /\ SumFunctionOnSet(f, S) \in Int
      BY <1>1, <2>1, SumEmpty
    <3> QED  BY <1>3, <3>1
  <2> QED  BY <2>1
<1>5. PICK x \in s : TRUE
  BY <1>4
<1>6. /\ s \ {x} \in SUBSET S /\ Cardinality(s \ {x}) = Cardinality(s) - 1 /\ Cardinality(s) \in Nat
      /\ S \ s \in SUBSET S /\ S \ (s \ {x}) \in SUBSET S
  BY <1>1, <1>3, <1>5, FS_RemoveElement
<1>7. Splits(s \ {x})
  <2>1. ~(Cardinality(s) <= Cardinality(s \ {x}))
    BY <1>6
  <2> HIDE DEF Splits
  <2> QED  BY <1>2, <1>6, <2>1
<1>8. SumFunctionOnSet(f, s) = f[x] + SumFunctionOnSet(f, s \ {x})
  BY <1>1, <1>3, <1>5, SumRemove
<1>9. SumFunctionOnSet(f, S \ (s \ {x})) = SumFunctionOnSet(f, S \ s) + f[x]
  <2>1. S \ (s \ {x}) = (S \ s) \cup {x} /\ x \notin S \ s /\ f[x] \in Int /\ x \in S
    BY <1>3, <1>5
  <2>2. IsFiniteSet(S \ s) /\ \A y \in S \ s : f[y] \in Int
    BY <1>1, <1>6
  <2> QED  BY <2>1, <2>2, SumAdd
<1>10. /\ f[x] \in Int /\ SumFunctionOnSet(f, s \ {x}) \in Int /\ SumFunctionOnSet(f, S \ s) \in Int
       /\ SumFunctionOnSet(f, S) \in Int
  <2>1. x \in S /\ S \in SUBSET S
    BY <1>3, <1>5
  <2> QED  BY <1>1, <1>6, <2>1
<1> QED  BY <1>3, <1>7, <1>8, <1>9, <1>10

-----------------------------------------------------------------------------
(* Kept, as a function of the number of elements the loop has passed. *)

KeptBody(f, n, seq, keep) ==
  CASE n = 0 -> <<>>
    [] n # 0 /\ n \in keep -> Append(f[n - 1], seq[n])
    [] OTHER -> f[n - 1]
KeptUpto(seq, keep, m) == CHOOSE f : f = [n \in 0 .. m |-> KeptBody(f, n, seq, keep)]

\* The recursion of Kept has a solution.
LEMMA KeptSolves ==
  ASSUME NEW seq, NEW keep, NEW m \in Nat
  PROVE  KeptUpto(seq, keep, m) = [n \in 0 .. m |-> KeptBody(KeptUpto(seq, keep, m), n, seq, keep)]
<1> DEFINE Solved(x) == \E f : f = [n \in 0 .. x |-> KeptBody(f, n, seq, keep)]
<1> SUFFICES ASSUME ~Solved(m) PROVE FALSE
  BY DEF KeptUpto
<1>1. PICK x \in {y \in Nat : ~Solved(y)} : \A y \in {y \in Nat : ~Solved(y)} : x <= y
  <2>1. {y \in Nat : ~Solved(y)} # {} /\ {y \in Nat : ~Solved(y)} \subseteq Nat
    OBVIOUS
  <2> HIDE DEF Solved
  <2> QED  BY <2>1, LeastNatural
<1>2. x \in Nat /\ ~Solved(x)
  OBVIOUS
<1>3. CASE x = 0
  <2> DEFINE f == [n \in 0 .. 0 |-> <<>>]
  <2>1. f = [n \in 0 .. x |-> KeptBody(f, n, seq, keep)]
    BY <1>3 DEF KeptBody
  <2> QED  BY <1>2, <2>1
<1>4. CASE x # 0
  <2>1. x - 1 \in Nat /\ ~(x <= x - 1)
    BY <1>2, <1>4
  <2>2. Solved(x - 1)
    <3> HIDE DEF Solved
    <3> QED  BY <1>1, <2>1
  <2>3. PICK g : g = [n \in 0 .. x - 1 |-> KeptBody(g, n, seq, keep)]
    BY <2>2
  <2> DEFINE f == [n \in 0 .. x |-> KeptBody(g, n, seq, keep)]
  <2>4. ASSUME NEW n \in 0 .. x, n # 0 PROVE f[n - 1] = g[n - 1]
    <3>1. n - 1 \in 0 .. x - 1 /\ n - 1 \in 0 .. x
      BY <2>4, <1>2
    <3>2. g[n - 1] = KeptBody(g, n - 1, seq, keep)
      BY <2>3, <3>1
    <3> QED  BY <3>1, <3>2
  <2>5. \A n \in 0 .. x : KeptBody(g, n, seq, keep) = KeptBody(f, n, seq, keep)
    BY <2>4 DEF KeptBody
  <2>6. f = [n \in 0 .. x |-> KeptBody(f, n, seq, keep)]
    BY <2>5
  <2> QED  BY <1>2, <2>6
<1> QED  BY <1>3, <1>4

Injective(q, D) == \A a, b \in D : q[a] = q[b] => a = b

\* q holds the elements of seq at the positions in keep up to n, each once.
KeptOK(S, q, n, seq, keep) ==
  /\ q \in Seq(S)
  /\ Len(q) = Cardinality(keep \cap (1 .. n))
  /\ \A i \in keep \cap (1 .. n) : \E j \in 1 .. Len(q) : q[j] = seq[i]
  /\ \A j \in 1 .. Len(q) : \E i \in keep \cap (1 .. n) : q[j] = seq[i]
  /\ Injective(seq, keep) => Injective(q, 1 .. Len(q))

\* One pass of the loop of Kept that copies its element.
LEMMA KeptAppend ==
  ASSUME NEW S, NEW q, NEW n \in Nat, NEW seq, NEW keep, n # 0, n \in keep, seq[n] \in S,
         KeptOK(S, q, n - 1, seq, keep)
  PROVE  KeptOK(S, Append(q, seq[n]), n, seq, keep)
<1>1. keep \cap (1 .. n) = (keep \cap (1 .. n - 1)) \cup {n} /\ n \notin keep \cap (1 .. n - 1)
  OBVIOUS
<1>2. PICK r : r = Append(q, seq[n])
  OBVIOUS
<1>3. q \in Seq(S) /\ Len(q) \in Nat
  BY DEF KeptOK
<1>4. r \in Seq(S) /\ Len(r) = Len(q) + 1 /\ r[Len(q) + 1] = seq[n] /\ \A j \in 1 .. Len(q) : r[j] = q[j]
  BY <1>2, <1>3
<1>5. Len(r) = Cardinality(keep \cap (1 .. n))
  <2>1. IsFiniteSet(keep \cap (1 .. n - 1))
    <3>1. IsFiniteSet(1 .. n - 1)
      BY FS_Interval
    <3> QED  BY <3>1, FS_Intersection
  <2>2. Cardinality((keep \cap (1 .. n - 1)) \cup {n}) = Cardinality(keep \cap (1 .. n - 1)) + 1
    BY <1>1, <2>1, FS_AddElement
  <2> QED  BY <1>1, <1>4, <2>2 DEF KeptOK
<1>6. \A i \in keep \cap (1 .. n) : \E j \in 1 .. Len(r) : r[j] = seq[i]
  <2>1. \A j \in 1 .. Len(q) : j \in 1 .. Len(r)
    BY <1>3, <1>4
  <2>2. Len(q) + 1 \in 1 .. Len(r)
    BY <1>3, <1>4
  <2> QED  BY <1>1, <1>4, <2>1, <2>2 DEF KeptOK
<1>7. \A j \in 1 .. Len(r) : j \in 1 .. Len(q) \/ j = Len(q) + 1
  BY <1>3, <1>4
<1>8. \A j \in 1 .. Len(r) : \E i \in keep \cap (1 .. n) : r[j] = seq[i]
  BY <1>1, <1>4, <1>7 DEF KeptOK
<1>9. ASSUME Injective(seq, keep) PROVE Injective(r, 1 .. Len(r))
  <2>1. \A j \in 1 .. Len(q) : q[j] # seq[n]
    <3>1. ASSUME NEW j \in 1 .. Len(q), q[j] = seq[n] PROVE FALSE
      <4>1. PICK i \in keep \cap (1 .. n - 1) : q[j] = seq[i]
        BY DEF KeptOK
      <4>2. i = n
        BY <1>9, <3>1, <4>1 DEF Injective
      <4> QED  BY <1>1, <4>2
    <3> QED  BY <3>1
  <2>2. Injective(q, 1 .. Len(q))
    BY <1>9 DEF KeptOK
  <2>3. ASSUME NEW a \in 1 .. Len(r), NEW b \in 1 .. Len(r), r[a] = r[b] PROVE a = b
    <3>1. CASE a \in 1 .. Len(q) /\ b \in 1 .. Len(q)
      BY <1>4, <2>2, <2>3, <3>1 DEF Injective
    <3>2. CASE a \in 1 .. Len(q) /\ b = Len(q) + 1
      BY <1>4, <2>1, <2>3, <3>2
    <3>3. CASE a = Len(q) + 1 /\ b \in 1 .. Len(q)
      BY <1>4, <2>1, <2>3, <3>3
    <3> QED  BY <1>7, <3>1, <3>2, <3>3
  <2> QED  BY <2>3 DEF Injective
<1> QED  BY <1>2, <1>4, <1>5, <1>6, <1>8, <1>9 DEF KeptOK

\* Kept copies the elements at the positions in keep, each once and in order.
LEMMA KeptHolds ==
  ASSUME NEW S, NEW seq \in Seq(S), NEW keep \in SUBSET (1 .. Len(seq))
  PROVE  KeptOK(S, Kept(seq, keep), Len(seq), seq, keep)
<1> DEFINE f == KeptUpto(seq, keep, Len(seq))
<1>1. Len(seq) \in Nat /\ f = [n \in 0 .. Len(seq) |-> KeptBody(f, n, seq, keep)]
  BY KeptSolves
<1>2. Kept(seq, keep) = f[Len(seq)]
  BY DEF Kept, KeptUpto, KeptBody
<1> HIDE DEF f
<1> DEFINE Bad == {n \in Nat : n <= Len(seq) /\ ~KeptOK(S, f[n], n, seq, keep)}
<1> SUFFICES ASSUME Bad # {} PROVE FALSE
  BY <1>1, <1>2
<1>3. PICK x \in Bad : \A y \in Bad : x <= y
  <2>1. Bad \subseteq Nat
    OBVIOUS
  <2> HIDE DEF Bad
  <2> QED  BY <2>1, LeastNatural
<1>4. x \in Nat /\ x <= Len(seq) /\ ~KeptOK(S, f[x], x, seq, keep)
  OBVIOUS
<1>5. f[x] = KeptBody(f, x, seq, keep)
  BY <1>1, <1>4
<1>6. CASE x = 0
  <2>1. f[x] = <<>>
    BY <1>5, <1>6 DEF KeptBody
  <2>2. keep \cap (1 .. x) = {} /\ <<>> \in Seq(S) /\ Len(<<>>) = 0 /\ 1 .. Len(<<>>) = {}
    BY <1>6
  <2>3. KeptOK(S, f[x], x, seq, keep)
    BY <2>1, <2>2, FS_EmptySet DEF KeptOK, Injective
  <2> QED  BY <1>4, <2>3
<1>7. CASE x # 0
  <2>1. x - 1 \in Nat /\ x - 1 <= Len(seq) /\ ~(x <= x - 1)
    BY <1>1, <1>4, <1>7
  <2>2. KeptOK(S, f[x - 1], x - 1, seq, keep)
    BY <1>3, <2>1
  <2>3. CASE x \in keep
    <3>1. f[x] = Append(f[x - 1], seq[x])
      BY <1>5, <1>7, <2>3 DEF KeptBody
    <3>2. seq[x] \in S
      BY <2>3
    <3>3. KeptOK(S, f[x], x, seq, keep)
      BY <1>4, <1>7, <2>2, <2>3, <3>1, <3>2, KeptAppend
    <3> QED  BY <1>4, <3>3
  <2>4. CASE x \notin keep
    <3>1. f[x] = f[x - 1]
      BY <1>5, <1>7, <2>4 DEF KeptBody
    <3>2. keep \cap (1 .. x) = keep \cap (1 .. x - 1)
      BY <1>4, <1>7, <2>4
    <3> QED  BY <1>4, <2>2, <3>1, <3>2 DEF KeptOK
  <2> QED  BY <2>3, <2>4
<1> QED  BY <1>6, <1>7

\* A loop that copies everything leaves the sequence as it is.
LEMMA KeptAll ==
  ASSUME NEW S, NEW seq \in Seq(S)
  PROVE  Kept(seq, DOMAIN seq) = seq
<1>0. PICK keep : keep = DOMAIN seq
  OBVIOUS
<1> DEFINE f == KeptUpto(seq, keep, Len(seq))
<1>1. Len(seq) \in Nat /\ f = [n \in 0 .. Len(seq) |-> KeptBody(f, n, seq, keep)]
  BY KeptSolves
<1>2. Kept(seq, keep) = f[Len(seq)]
  BY DEF Kept, KeptUpto, KeptBody
<1> HIDE DEF f
<1> DEFINE Prefix(n) == f[n] = [i \in 1 .. n |-> seq[i]]
           Bad == {n \in Nat : n <= Len(seq) /\ ~Prefix(n)}
<1> SUFFICES ASSUME Bad # {} PROVE FALSE
  <2>1. Prefix(Len(seq))
    <3>1. Len(seq) \in Nat /\ Len(seq) <= Len(seq)
      BY <1>1
    <3> HIDE DEF Prefix
    <3> QED  BY <3>1
  <2>2. seq = [i \in 1 .. Len(seq) |-> seq[i]]
    OBVIOUS
  <2> QED  BY <1>0, <1>2, <2>1, <2>2
<1>3. PICK x \in Bad : \A y \in Bad : x <= y
  <2>1. Bad \subseteq Nat
    OBVIOUS
  <2> HIDE DEF Bad
  <2> QED  BY <2>1, LeastNatural
<1>4. x \in Nat /\ x <= Len(seq) /\ ~Prefix(x)
  OBVIOUS
<1>5. f[x] = KeptBody(f, x, seq, keep)
  BY <1>1, <1>4
<1>6. CASE x = 0
  <2>1. f[x] = <<>>
    BY <1>5, <1>6 DEF KeptBody
  <2>2. Prefix(x)
    BY <1>6, <2>1
  <2> QED  BY <1>4, <2>2
<1>7. CASE x # 0
  <2>1. x - 1 \in Nat /\ x - 1 <= Len(seq) /\ ~(x <= x - 1) /\ x \in keep
    BY <1>0, <1>1, <1>4, <1>7
  <2>2. Prefix(x - 1)
    BY <1>3, <2>1
  <2>3. f[x] = Append(f[x - 1], seq[x])
    BY <1>5, <1>7, <2>1 DEF KeptBody
  <2>4. PICK p : p = [i \in 1 .. x - 1 |-> seq[i]]
    OBVIOUS
  <2>5. \A i \in 1 .. x - 1 : seq[i] \in S
    BY <1>1, <1>4
  <2>6. p \in Seq(S) /\ Len(p) = x - 1
    <3>1. p \in [1 .. x - 1 -> S]
      BY <2>4, <2>5
    <3> QED  BY <2>1, <3>1
  <2>7. Append(p, seq[x]) = [i \in 1 .. x |-> seq[i]]
    BY <1>4, <1>7, <2>4, <2>6
  <2> QED  BY <1>4, <2>2, <2>3, <2>4, <2>7
<1> QED  BY <1>6, <1>7

-----------------------------------------------------------------------------
(* Lists threaded through the rows D of a table by the links nx, from the    *)
(* heads fst of the accounts A; own says whose each row is, a row on no list *)
(* belonging to nobody of A.                                                 *)

Owned(own, a) == {i \in DOMAIN own : own[i] = a}

\* Each list has rows of its account only and all of them: a walk that leaves one
\* out would not be one.  No two links lead to the same row.
Threaded(A, D, fst, nx, own) ==
  /\ Nil \notin D /\ own = [i \in D |-> own[i]]
  /\ fst \in [A -> D \cup {Nil}] /\ nx \in [D -> D \cup {Nil}]
  /\ \A a \in A : fst[a] # Nil => own[fst[a]] = a
  /\ \A i \in D : own[i] \in A /\ nx[i] # Nil => own[nx[i]] = own[i]
  /\ \A a \in A, S \in SUBSET D : Closed(S, fst[a], nx, Nil) => Owned(own, a) \subseteq S
  /\ \A i, j \in D : own[i] \in A /\ own[j] \in A /\ nx[i] = nx[j] => i = j \/ nx[i] = Nil
  /\ \A a \in A, j \in D : own[j] \in A /\ nx[j] = fst[a] => fst[a] = Nil

\* A walk from the head of an account comes by its rows and by no others.
LEMMA WalkedIsOwned ==
  ASSUME NEW A, NEW D, NEW fst, NEW nx, NEW own, Threaded(A, D, fst, nx, own), NEW a \in A
  PROVE  Walked(fst[a], nx, Nil) = Owned(own, a)
<1>1. DOMAIN nx = D /\ DOMAIN own = D /\ Owned(own, a) \in SUBSET D
  BY DEF Threaded, Owned
<1>2. Closed(Owned(own, a), fst[a], nx, Nil)
  <2>1. fst[a] # Nil => fst[a] \in Owned(own, a)
    BY <1>1 DEF Threaded, Owned
  <2>2. ASSUME NEW j \in Owned(own, a), nx[j] # Nil  PROVE nx[j] \in Owned(own, a)
    BY <1>1, <2>2 DEF Threaded, Owned
  <2> QED  BY <2>1, <2>2 DEF Closed
<1>3. \A S \in SUBSET D : Closed(S, fst[a], nx, Nil) => Owned(own, a) \subseteq S
  BY DEF Threaded
<1>4. \A i : i \in Walked(fst[a], nx, Nil) <=> i \in Owned(own, a)
  BY <1>1, <1>2, <1>3 DEF Walked
<1> QED  BY <1>4, Zenon

\* A walk stopped at a row is closed but for that row.
LEMMA WalkedClosed ==
  ASSUME NEW D, NEW nx \in [D -> D \cup {Nil}], NEW start \in D \cup {Nil}, NEW stop
  PROVE  Closed(Walked(start, nx, stop), start, nx, stop)
<1>1. DOMAIN nx = D
  OBVIOUS
<1>2. start # Nil => start \in Walked(start, nx, stop)
  BY <1>1 DEF Walked, Closed
<1>3. ASSUME NEW j \in Walked(start, nx, stop) \ {stop}, nx[j] # Nil
      PROVE  nx[j] \in Walked(start, nx, stop)
  <2>1. j \in D /\ nx[j] \in D
    BY <1>1, <1>3 DEF Walked
  <2>2. ASSUME NEW S \in SUBSET D, Closed(S, start, nx, stop)  PROVE nx[j] \in S
    <3>1. j \in S
      BY <1>1, <2>2 DEF Walked
    <3> QED  BY <1>3, <2>2, <3>1 DEF Closed
  <2> QED  BY <1>1, <2>1, <2>2 DEF Walked
<1> QED  BY <1>2, <1>3 DEF Closed

\* A row that is nobody's is pushed on the list of an account.
LEMMA ListPush ==
  ASSUME NEW A, NEW D, NEW fst, NEW nx, NEW own, Threaded(A, D, fst, nx, own),
         NEW r \in D, own[r] \notin A, NEW b \in A
  PROVE  Threaded(A, D, [fst EXCEPT ![b] = r], [nx EXCEPT ![r] = fst[b]], [own EXCEPT ![r] = b])
<1>1. PICK f, n, o : /\ f = [fst EXCEPT ![b] = r] /\ n = [nx EXCEPT ![r] = fst[b]]
                     /\ o = [own EXCEPT ![r] = b]
  OBVIOUS
<1>2. /\ Nil \notin D /\ own = [i \in D |-> own[i]]
      /\ fst \in [A -> D \cup {Nil}] /\ nx \in [D -> D \cup {Nil}]
      /\ \A a \in A : fst[a] # Nil => own[fst[a]] = a
      /\ \A i \in D : own[i] \in A /\ nx[i] # Nil => own[nx[i]] = own[i]
      /\ \A i, j \in D : own[i] \in A /\ own[j] \in A /\ nx[i] = nx[j] => i = j \/ nx[i] = Nil
      /\ \A a \in A, j \in D : own[j] \in A /\ nx[j] = fst[a] => fst[a] = Nil
  BY DEF Threaded
<1>3. /\ f \in [A -> D \cup {Nil}] /\ n \in [D -> D \cup {Nil}] /\ o = [i \in D |-> o[i]]
      /\ f[b] = r /\ n[r] = fst[b] /\ o[r] = b
      /\ \A a \in A : a # b => f[a] = fst[a]
      /\ \A i \in D : i # r => n[i] = nx[i] /\ o[i] = own[i]
  BY <1>1, <1>2
<1>4. /\ \A a \in A : fst[a] # r
      /\ \A i \in D : own[i] \in A => nx[i] # r
  BY <1>2
<1>5. ASSUME NEW a \in A, f[a] # Nil  PROVE o[f[a]] = a
  <2>1. CASE a = b
    BY <1>3, <2>1
  <2>2. CASE a # b
    <3>1. f[a] = fst[a] /\ fst[a] # Nil
      BY <1>3, <1>5, <2>2
    <3>2. fst[a] \in D /\ own[fst[a]] = a
      BY <1>2, <3>1
    <3>3. o[fst[a]] = own[fst[a]]
      BY <1>3, <1>4, <3>2
    <3> QED  BY <3>1, <3>2, <3>3
  <2> QED  BY <2>1, <2>2
<1>6. ASSUME NEW i \in D, o[i] \in A, n[i] # Nil  PROVE o[n[i]] = o[i]
  <2>1. CASE i = r
    BY <1>2, <1>3, <1>4, <1>6, <2>1
  <2>2. CASE i # r
    BY <1>2, <1>3, <1>4, <1>6, <2>2
  <2> QED  BY <2>1, <2>2
<1>7. ASSUME NEW a \in A, NEW S \in SUBSET D, Closed(S, f[a], n, Nil)
      PROVE  Owned(o, a) \subseteq S
  <2> DEFINE T == {j \in S : own[j] \in A}
  <2>1. T \in SUBSET D /\ r \notin T
    OBVIOUS
  <2>2. \A j \in T : nx[j] # Nil => nx[j] \in T
    BY <1>2, <1>3, <1>7, <2>1 DEF Closed
  <2>3. fst[a] # Nil => fst[a] \in T
    <3>1. CASE a = b
      BY <1>2, <1>3, <1>4, <1>7, <3>1 DEF Closed
    <3>2. CASE a # b
      BY <1>2, <1>3, <1>7, <3>2 DEF Closed
    <3> QED  BY <3>1, <3>2
  <2>4. Closed(T, fst[a], nx, Nil)
    BY <2>2, <2>3 DEF Closed
  <2>5. Owned(own, a) \subseteq T
    BY <2>1, <2>4 DEF Threaded
  <2>6. a = b => r \in S
    BY <1>2, <1>3, <1>7 DEF Closed
  <2>7. DOMAIN o = D /\ DOMAIN own = D
    BY <1>2, <1>3
  <2>8. ASSUME NEW i \in Owned(o, a)  PROVE i \in S
    <3>1. i \in D /\ o[i] = a
      BY <2>7 DEF Owned
    <3>2. CASE i = r
      BY <1>3, <2>6, <3>1, <3>2
    <3>3. CASE i # r
      <4>1. i \in Owned(own, a)
        BY <1>3, <2>7, <3>1, <3>3 DEF Owned
      <4> QED  BY <2>5, <4>1
    <3> QED  BY <3>2, <3>3
  <2> QED  BY <2>8
<1>8. ASSUME NEW i \in D, NEW j \in D, o[i] \in A, o[j] \in A, n[i] = n[j]
      PROVE  i = j \/ n[i] = Nil
  <2>1. CASE i # r /\ j # r
    BY <1>2, <1>3, <1>8, <2>1
  <2>2. CASE i = r /\ j # r
    <3>1. own[j] \in A /\ nx[j] = fst[b] /\ n[i] = fst[b]
      BY <1>3, <1>8, <2>2
    <3> QED  BY <1>2, <3>1
  <2>3. CASE i # r /\ j = r
    BY <1>2, <1>3, <1>8, <2>3
  <2> QED  BY <2>1, <2>2, <2>3
<1>9. ASSUME NEW a \in A, NEW j \in D, o[j] \in A, n[j] = f[a]  PROVE f[a] = Nil
  <2>1. CASE j = r
    <3>1. fst[b] = f[a]
      BY <1>3, <1>9, <2>1
    <3>2. a # b
      BY <1>3, <1>4, <3>1
    <3>3. fst[b] = fst[a]
      BY <1>3, <3>1, <3>2
    <3> QED  BY <1>2, <3>1, <3>2, <3>3
  <2>2. CASE j # r
    BY <1>2, <1>3, <1>4, <1>9, <2>2
  <2> QED  BY <2>1, <2>2
<1>10. Threaded(A, D, f, n, o)
  BY <1>2, <1>3, <1>5, <1>6, <1>7, <1>8, <1>9 DEF Threaded
<1> QED  BY <1>1, <1>10

\* A row is added that is on no list yet.
LEMMA ListExtend ==
  ASSUME NEW A, NEW D, NEW fst, NEW nx, NEW own, Threaded(A, D, fst, nx, own),
         NEW m, m \notin D, m # Nil, NEW n \in [D \cup {m} -> D \cup {m, Nil}], NEW o,
         o = [i \in D \cup {m} |-> o[i]], o[m] \notin A, \A i \in D : n[i] = nx[i] /\ o[i] = own[i]
  PROVE  Threaded(A, D \cup {m}, fst, n, o)
<1>2. /\ Nil \notin D /\ own = [i \in D |-> own[i]]
      /\ fst \in [A -> D \cup {Nil}] /\ nx \in [D -> D \cup {Nil}]
      /\ \A a \in A : fst[a] # Nil => own[fst[a]] = a
      /\ \A i \in D : own[i] \in A /\ nx[i] # Nil => own[nx[i]] = own[i]
      /\ \A i, j \in D : own[i] \in A /\ own[j] \in A /\ nx[i] = nx[j] => i = j \/ nx[i] = Nil
      /\ \A a \in A, j \in D : own[j] \in A /\ nx[j] = fst[a] => fst[a] = Nil
  BY DEF Threaded
<1>3. fst \in [A -> (D \cup {m}) \cup {Nil}] /\ n \in [D \cup {m} -> (D \cup {m}) \cup {Nil}]
  <2>1. D \cup {m, Nil} = (D \cup {m}) \cup {Nil}
    OBVIOUS
  <2> QED  BY <1>2, <2>1
<1>4. \A a \in A : fst[a] # Nil => fst[a] \in D /\ o[fst[a]] = a
  BY <1>2
<1>5. \A i \in D : nx[i] # Nil => nx[i] \in D
  BY <1>2
<1>6. \A i \in D \cup {m} : o[i] \in A /\ n[i] # Nil => o[n[i]] = o[i]
  BY <1>2, <1>5
<1>7. ASSUME NEW a \in A, NEW S \in SUBSET (D \cup {m}), Closed(S, fst[a], n, Nil)
      PROVE  Owned(o, a) \subseteq S
  <2>1. S \cap D \in SUBSET D
    OBVIOUS
  <2>2. \A j \in S \cap D : nx[j] # Nil => nx[j] \in S \cap D
    BY <1>2, <1>5, <1>7 DEF Closed
  <2>3. Closed(S \cap D, fst[a], nx, Nil)
    BY <1>4, <1>7, <2>2 DEF Closed
  <2>4. Owned(own, a) \subseteq S \cap D
    BY <2>1, <2>3 DEF Threaded
  <2>5. DOMAIN o = D \cup {m} /\ DOMAIN own = D
    BY <1>2
  <2>6. Owned(o, a) \subseteq Owned(own, a)
    BY <2>5 DEF Owned
  <2> QED  BY <2>4, <2>6
<1>8. \A i, j \in D \cup {m} : o[i] \in A /\ o[j] \in A /\ n[i] = n[j] => i = j \/ n[i] = Nil
  BY <1>2
<1>9. \A a \in A, j \in D \cup {m} : o[j] \in A /\ n[j] = fst[a] => fst[a] = Nil
  BY <1>2
<1>10. Nil \notin D \cup {m}
  BY <1>2
<1> QED  BY <1>3, <1>4, <1>6, <1>7, <1>8, <1>9, <1>10 DEF Threaded

\* The first row of a list leaves it.
LEMMA ListDropFirst ==
  ASSUME NEW A, NEW D, NEW fst, NEW nx, NEW own, Threaded(A, D, fst, nx, own),
         NEW a \in A, NEW r \in D, own[r] = a, fst[a] = r, NEW x, x \notin A
  PROVE  Threaded(A, D, [fst EXCEPT ![a] = nx[r]], nx, [own EXCEPT ![r] = x])
<1>1. PICK f, o : f = [fst EXCEPT ![a] = nx[r]] /\ o = [own EXCEPT ![r] = x]
  OBVIOUS
<1>2. /\ Nil \notin D /\ own = [i \in D |-> own[i]]
      /\ fst \in [A -> D \cup {Nil}] /\ nx \in [D -> D \cup {Nil}]
      /\ \A c \in A : fst[c] # Nil => own[fst[c]] = c
      /\ \A i \in D : own[i] \in A /\ nx[i] # Nil => own[nx[i]] = own[i]
      /\ \A i, j \in D : own[i] \in A /\ own[j] \in A /\ nx[i] = nx[j] => i = j \/ nx[i] = Nil
      /\ \A c \in A, j \in D : own[j] \in A /\ nx[j] = fst[c] => fst[c] = Nil
  BY DEF Threaded
<1>3. /\ f \in [A -> D \cup {Nil}] /\ o = [i \in D |-> o[i]]
      /\ f[a] = nx[r] /\ o[r] = x
      /\ \A c \in A : c # a => f[c] = fst[c]
      /\ \A i \in D : i # r => o[i] = own[i]
  BY <1>1, <1>2
<1>4. /\ \A c \in A : c # a => fst[c] # r
      /\ \A i \in D : own[i] \in A => nx[i] # r
  BY <1>2
<1>5. \A c \in A : f[c] # Nil => o[f[c]] = c
  <2>1. nx[r] # Nil => nx[r] \in D /\ nx[r] # r /\ own[nx[r]] = a
    BY <1>2, <1>4
  <2> QED  BY <1>2, <1>3, <1>4, <2>1
<1>6. ASSUME NEW i \in D, o[i] \in A, nx[i] # Nil  PROVE o[nx[i]] = o[i]
  <2>1. i # r /\ o[i] = own[i]
    BY <1>3, <1>6
  <2>2. nx[i] \in D /\ nx[i] # r /\ own[nx[i]] = own[i]
    BY <1>2, <1>4, <1>6, <2>1
  <2> QED  BY <1>3, <2>1, <2>2
<1>7. ASSUME NEW c \in A, NEW S \in SUBSET D, Closed(S, f[c], nx, Nil)
      PROVE  Owned(o, c) \subseteq S
  <2>1. Closed(IF c = a THEN S \cup {r} ELSE S, fst[c], nx, Nil)
    <3>1. CASE c = a
      <4>1. Closed(S \cup {r}, fst[c], nx, Nil)
        BY <1>3, <1>7, <3>1 DEF Closed
      <4> QED  BY <3>1, <4>1
    <3>2. CASE c # a
      BY <1>3, <1>7, <3>2
    <3> QED  BY <3>1, <3>2
  <2>2. Owned(own, c) \subseteq IF c = a THEN S \cup {r} ELSE S
    <3>1. (IF c = a THEN S \cup {r} ELSE S) \in SUBSET D
      OBVIOUS
    <3> QED  BY <2>1, <3>1 DEF Threaded
  <2>3. DOMAIN o = D /\ DOMAIN own = D
    BY <1>2, <1>3
  <2>4. ASSUME NEW i \in Owned(o, c)  PROVE i \in S
    <3>1. i \in D /\ o[i] = c /\ i # r
      BY <1>3, <2>3 DEF Owned
    <3>2. i \in Owned(own, c)
      BY <1>3, <2>3, <3>1 DEF Owned
    <3> QED  BY <2>2, <3>1, <3>2
  <2> QED  BY <2>4
<1>8. \A i, j \in D : o[i] \in A /\ o[j] \in A /\ nx[i] = nx[j] => i = j \/ nx[i] = Nil
  BY <1>2, <1>3
<1>9. ASSUME NEW c \in A, NEW j \in D, o[j] \in A, nx[j] = f[c]  PROVE f[c] = Nil
  <2>1. j # r /\ own[j] \in A
    BY <1>3, <1>9
  <2>2. CASE c = a
    BY <1>2, <1>3, <1>9, <2>1, <2>2
  <2>3. CASE c # a
    BY <1>2, <1>3, <1>9, <2>1, <2>3
  <2> QED  BY <2>2, <2>3
<1>10. Threaded(A, D, f, nx, o)
  BY <1>2, <1>3, <1>5, <1>6, <1>7, <1>8, <1>9 DEF Threaded
<1> QED  BY <1>1, <1>10

\* A row leaves its list: the one before it, p, leads to the one after it.
LEMMA ListDropLater ==
  ASSUME NEW A, NEW D, NEW fst, NEW nx, NEW own, Threaded(A, D, fst, nx, own),
         NEW a \in A, NEW r \in D, own[r] = a, NEW p \in D, own[p] \in A, p # r, nx[p] = r,
         NEW x, x \notin A
  PROVE  Threaded(A, D, fst, [nx EXCEPT ![p] = nx[r]], [own EXCEPT ![r] = x])
<1>1. PICK n, o : n = [nx EXCEPT ![p] = nx[r]] /\ o = [own EXCEPT ![r] = x]
  OBVIOUS
<1>2. /\ Nil \notin D /\ own = [i \in D |-> own[i]]
      /\ fst \in [A -> D \cup {Nil}] /\ nx \in [D -> D \cup {Nil}]
      /\ \A c \in A : fst[c] # Nil => own[fst[c]] = c
      /\ \A i \in D : own[i] \in A /\ nx[i] # Nil => own[nx[i]] = own[i]
      /\ \A i, j \in D : own[i] \in A /\ own[j] \in A /\ nx[i] = nx[j] => i = j \/ nx[i] = Nil
      /\ \A c \in A, j \in D : own[j] \in A /\ nx[j] = fst[c] => fst[c] = Nil
  BY DEF Threaded
<1>3. /\ n \in [D -> D \cup {Nil}] /\ o = [i \in D |-> o[i]]
      /\ n[p] = nx[r] /\ o[r] = x
      /\ \A i \in D : i # p => n[i] = nx[i]
      /\ \A i \in D : i # r => o[i] = own[i]
  BY <1>1, <1>2
<1>4. /\ own[p] = a /\ nx[r] # r
      /\ \A c \in A : fst[c] # r
      /\ \A i \in D : own[i] \in A /\ i # p => nx[i] # r
  BY <1>2
<1>5. ASSUME NEW c \in A, fst[c] # Nil  PROVE o[fst[c]] = c
  <2>1. fst[c] \in D /\ fst[c] # r /\ own[fst[c]] = c
    BY <1>2, <1>4, <1>5
  <2> QED  BY <1>3, <2>1
<1>6. ASSUME NEW i \in D, o[i] \in A, n[i] # Nil  PROVE o[n[i]] = o[i]
  <2>1. i # r /\ own[i] \in A /\ o[i] = own[i]
    BY <1>3, <1>6
  <2>2. CASE i = p
    BY <1>2, <1>3, <1>4, <1>6, <2>1, <2>2
  <2>3. CASE i # p
    BY <1>2, <1>3, <1>4, <1>6, <2>1, <2>3
  <2> QED  BY <2>2, <2>3
<1>7. ASSUME NEW c \in A, NEW S \in SUBSET D, Closed(S, fst[c], n, Nil)
      PROVE  Owned(o, c) \subseteq S
  <2>1. Owned(own, c) \subseteq S \cup {r}
    <3>1. CASE p \in S
      <4>1. \A j \in S \cup {r} : nx[j] # Nil => nx[j] \in S \cup {r}
        BY <1>2, <1>3, <1>7, <3>1 DEF Closed
      <4>2. Closed(S \cup {r}, fst[c], nx, Nil)
        BY <1>7, <4>1 DEF Closed
      <4>3. S \cup {r} \in SUBSET D
        OBVIOUS
      <4> QED  BY <4>2, <4>3 DEF Threaded
    <3>2. CASE p \notin S
      <4>1. Closed(S, fst[c], nx, Nil)
        BY <1>3, <1>7, <3>2 DEF Closed
      <4>2. Owned(own, c) \subseteq S
        BY <4>1 DEF Threaded
      <4> QED  BY <4>2
    <3> QED  BY <3>1, <3>2
  <2>3. DOMAIN o = D /\ DOMAIN own = D
    BY <1>2, <1>3
  <2>4. ASSUME NEW i \in Owned(o, c)  PROVE i \in S
    <3>1. i \in D /\ o[i] = c /\ i # r
      BY <1>3, <2>3 DEF Owned
    <3>2. i \in Owned(own, c)
      BY <1>3, <2>3, <3>1 DEF Owned
    <3> QED  BY <2>1, <3>1, <3>2
  <2> QED  BY <2>4
<1>8. ASSUME NEW i \in D, NEW j \in D, o[i] \in A, o[j] \in A, n[i] = n[j]
      PROVE  i = j \/ n[i] = Nil
  <2>1. i # r /\ j # r /\ own[i] \in A /\ own[j] \in A
    BY <1>3, <1>8
  <2>2. CASE i # p /\ j # p
    BY <1>2, <1>3, <1>8, <2>1, <2>2
  <2>3. CASE i = p /\ j # p
    <3>1. nx[r] = nx[j] /\ n[i] = nx[r]
      BY <1>3, <1>8, <2>3
    <3> QED  BY <1>2, <2>1, <3>1
  <2>4. CASE i # p /\ j = p
    <3>1. nx[i] = nx[r] /\ n[i] = nx[i]
      BY <1>3, <1>8, <2>4
    <3> QED  BY <1>2, <2>1, <3>1
  <2> QED  BY <2>2, <2>3, <2>4
<1>9. ASSUME NEW c \in A, NEW j \in D, o[j] \in A, n[j] = fst[c]  PROVE fst[c] = Nil
  <2>1. j # r /\ own[j] \in A
    BY <1>3, <1>9
  <2>2. CASE j = p
    BY <1>2, <1>3, <1>9, <2>2
  <2>3. CASE j # p
    BY <1>2, <1>3, <1>9, <2>1, <2>3
  <2> QED  BY <2>2, <2>3
<1>10. Threaded(A, D, fst, n, o)
  BY <1>2, <1>3, <1>5, <1>6, <1>7, <1>8, <1>9 DEF Threaded
<1> QED  BY <1>1, <1>10

\* The walk of unlink_trade finds the row before r, unless r is the first: without
\* one, the walk would be a list without r.
LEMMA RowBefore ==
  ASSUME NEW A, NEW D, NEW fst, NEW nx, NEW own, Threaded(A, D, fst, nx, own),
         NEW a \in A, NEW r \in D, own[r] = a, fst[a] # r, \A i \in D : own[i] \in A
  PROVE  \E p \in D : /\ p # r /\ nx[p] = r
                      /\ {q \in Walked(fst[a], nx, r) \ {r} : nx[q] = r} = {p}
<1> DEFINE W == Walked(fst[a], nx, r)
           B == {q \in W \ {r} : nx[q] = r}
<1>1. /\ Nil \notin D /\ fst \in [A -> D \cup {Nil}] /\ nx \in [D -> D \cup {Nil}]
      /\ \A i, j \in D : nx[i] = nx[j] => i = j \/ nx[i] = Nil
  BY DEF Threaded
<1>2. W \in SUBSET D
  BY <1>1 DEF Walked
<1>3. Closed(W, fst[a], nx, r)
  BY <1>1, WalkedClosed
<1>4. ASSUME B = {}  PROVE FALSE
  <2>1. W \ {r} \in SUBSET D
    BY <1>2
  <2>2. Closed(W \ {r}, fst[a], nx, Nil)
    <3> HIDE DEF W
    <3> QED  BY <1>3, <1>4 DEF Closed
  <2>3. Owned(own, a) \subseteq W \ {r}
    BY <2>1, <2>2 DEF Threaded
  <2>4. r \in Owned(own, a)
    BY DEF Owned, Threaded
  <2> QED  BY <2>3, <2>4
<1>5. PICK p \in B : TRUE
  BY <1>4
<1>6. p \in D /\ p # r /\ nx[p] = r
  BY <1>2
<1>7. \A q : q \in B <=> q = p
  BY <1>1, <1>2, <1>6
<1>8. B = {p}
  <2> HIDE DEF B
  <2> QED  BY <1>7, Zenon
<1> QED  BY <1>6, <1>8

-----------------------------------------------------------------------------
\* The next row of an account is later than i, and no later one comes before it.
LEMMA NextOfIs ==
  ASSUME NEW m \in Nat, NEW own, DOMAIN own = 1 .. m, NEW a, NEW i \in Nat
  PROVE  /\ NextOf(own, a, i) = Nil => \A j \in 1 .. m : j > i => own[j] # a
         /\ NextOf(own, a, i) # Nil =>
              /\ NextOf(own, a, i) \in 1 .. m /\ NextOf(own, a, i) > i
              /\ own[NextOf(own, a, i)] = a
              /\ \A j \in 1 .. m : j > i /\ own[j] = a => NextOf(own, a, i) <= j
         /\ NextOf(own, a, i) \in (1 .. m) \cup {Nil}
<1> DEFINE later == {j \in 1 .. m : j > i /\ own[j] = a}
<1>1. NextOf(own, a, i) = IF later = {} THEN Nil ELSE Min(later)
  BY DEF NextOf
<1>2. CASE later = {}
  BY <1>1, <1>2 DEF Nil
<1>3. CASE later # {}
  <2>1. later \subseteq Nat
    OBVIOUS
  <2>2. \E x \in later : \A y \in later : x <= y
    <3> HIDE DEF later
    <3> QED  BY <1>3, <2>1, LeastNatural
  <2>3. Min(later) \in later /\ \A y \in later : Min(later) <= y
    <3> HIDE DEF later
    <3> QED  BY <2>2 DEF Min
  <2>4. PICK x : x = Min(later)
    OBVIOUS
  <2>5. x \in 1 .. m /\ x > i /\ own[x] = a /\ x # Nil /\ \A j \in 1 .. m : j > i /\ own[j] = a => x <= j
    BY <2>3, <2>4 DEF Nil
  <2>6. NextOf(own, a, i) = x
    BY <1>1, <1>3, <2>4
  <2> QED  BY <2>5, <2>6
<1> QED  BY <1>2, <1>3

\* The lists that close_and_compact_trades threads again from the last row to the
\* first are lists of all rows.
LEMMA ListsRethreaded ==
  ASSUME NEW A, NEW m \in Nat, NEW own \in [1 .. m -> A]
  PROVE  Threaded(A, 1 .. m, [a \in A |-> NextOf(own, a, 0)],
                  [i \in 1 .. m |-> NextOf(own, own[i], i)], own)
<1>1. PICK f, n : f = [a \in A |-> NextOf(own, a, 0)] /\ n = [i \in 1 .. m |-> NextOf(own, own[i], i)]
  OBVIOUS
<1>2. DOMAIN own = 1 .. m /\ \A i \in 1 .. m : own[i] \in A
  OBVIOUS
<1>3. ASSUME NEW a \in A
      PROVE  /\ f[a] = Nil => \A j \in 1 .. m : own[j] # a
             /\ f[a] # Nil => /\ f[a] \in 1 .. m /\ own[f[a]] = a
                              /\ \A j \in 1 .. m : own[j] = a => f[a] <= j
             /\ f[a] \in (1 .. m) \cup {Nil}
  <2>1. f[a] = NextOf(own, a, 0) /\ \A j \in 1 .. m : j > 0
    BY <1>1
  <2> QED  BY <1>2, <2>1, NextOfIs
<1>4. ASSUME NEW i \in 1 .. m
      PROVE  /\ n[i] = Nil => \A j \in 1 .. m : j > i => own[j] # own[i]
             /\ n[i] # Nil => /\ n[i] \in 1 .. m /\ n[i] > i /\ own[n[i]] = own[i]
                              /\ \A j \in 1 .. m : j > i /\ own[j] = own[i] => n[i] <= j
             /\ n[i] \in (1 .. m) \cup {Nil}
  <2>1. n[i] = NextOf(own, own[i], i) /\ i \in Nat
    BY <1>1
  <2> QED  BY <1>2, <2>1, NextOfIs
<1>5. /\ Nil \notin 1 .. m /\ own = [i \in 1 .. m |-> own[i]]
      /\ f \in [A -> (1 .. m) \cup {Nil}] /\ n \in [1 .. m -> (1 .. m) \cup {Nil}]
  <2>1. Nil \notin 1 .. m
    BY DEF Nil
  <2> QED  BY <1>1, <1>3, <1>4, <2>1
<1>6. ASSUME NEW a \in A, NEW S \in SUBSET (1 .. m), Closed(S, f[a], n, Nil)
      PROVE  Owned(own, a) \subseteq S
  <2> DEFINE missing == {i \in 1 .. m : own[i] = a /\ i \notin S}
  <2> SUFFICES ASSUME missing # {}  PROVE FALSE
    BY <1>2 DEF Owned
  <2>1. PICK b \in missing : \A y \in missing : b <= y
    <3>1. missing \subseteq Nat
      OBVIOUS
    <3> HIDE DEF missing
    <3> QED  BY <3>1, LeastNatural
  <2>2. b \in 1 .. m /\ own[b] = a /\ b \notin S
    OBVIOUS
  <2> DEFINE gaps == {g \in 1 .. m : b - g \in 1 .. m /\ own[b - g] = a}
  <2>3. CASE gaps = {}
    <3>1. \A j \in 1 .. m : own[j] = a => b <= j
      <4>1. ASSUME NEW j \in 1 .. m, own[j] = a, ~(b <= j)  PROVE FALSE
        <5>1. b - j \in 1 .. m /\ b - (b - j) = j
          BY <2>2, <4>1
        <5>2. b - j \in gaps
          BY <4>1, <5>1
        <5> QED  BY <2>3, <5>2
      <4> QED  BY <4>1
    <3>2. f[a] # Nil /\ f[a] <= b /\ f[a] \in 1 .. m /\ own[f[a]] = a
      BY <1>3, <2>2
    <3>3. f[a] = b
      BY <2>2, <3>1, <3>2
    <3> QED  BY <1>6, <2>2, <3>2, <3>3 DEF Closed
  <2>4. CASE gaps # {}
    <3>1. PICK g \in gaps : \A y \in gaps : g <= y
      <4>1. gaps \subseteq Nat
        OBVIOUS
      <4> HIDE DEF gaps
      <4> QED  BY <2>4, <4>1, LeastNatural
    <3>2. PICK h : h = b - g
      OBVIOUS
    <3>3. h \in 1 .. m /\ own[h] = a /\ h < b /\ g = b - h /\ g \in 1 .. m
      BY <2>2, <3>1, <3>2
    <3>4. h \in S
      <4>1. h \notin missing
        <5>1. ~(b <= h)
          BY <2>2, <3>3
        <5> HIDE DEF missing
        <5> QED  BY <2>1, <5>1
      <4> QED  BY <3>3, <4>1
    <3>5. n[h] # Nil /\ n[h] \in 1 .. m /\ n[h] > h /\ own[n[h]] = a /\ n[h] <= b
      BY <1>4, <2>2, <3>3
    <3>6. PICK c : c = n[h]
      OBVIOUS
    <3>7. c = b
      <4> SUFFICES ASSUME c # b  PROVE FALSE
        OBVIOUS
      <4>1. c \in 1 .. m /\ c > h /\ c < b /\ own[c] = a
        BY <2>2, <3>5, <3>6
      <4>2. b - c \in 1 .. m /\ b - (b - c) = c /\ b - c < g
        BY <2>2, <3>3, <4>1
      <4>3. b - c \in gaps
        BY <4>1, <4>2
      <4>4. ~(g <= b - c)
        BY <2>2, <3>3, <4>1, <4>2
      <4> QED  BY <3>1, <4>3, <4>4
    <3>8. n[h] \in S
      BY <1>5, <1>6, <3>4, <3>5 DEF Closed
    <3> QED  BY <2>2, <3>6, <3>7, <3>8
  <2> QED  BY <2>3, <2>4
<1>7. ASSUME NEW i \in 1 .. m, NEW j \in 1 .. m, n[i] = n[j], n[i] # Nil  PROVE i = j
  <2>1. n[i] > i /\ n[j] > j /\ own[i] = own[j] /\ n[i] \in 1 .. m
    BY <1>4, <1>7
  <2>2. ~(j > i) /\ ~(i > j)
    BY <1>4, <1>7, <2>1
  <2> QED  BY <2>2
<1>8. ASSUME NEW a \in A, NEW j \in 1 .. m, n[j] = f[a]  PROVE f[a] = Nil
  <2> SUFFICES ASSUME f[a] # Nil  PROVE FALSE
    OBVIOUS
  <2>1. own[j] = a /\ n[j] > j /\ n[j] \in 1 .. m /\ f[a] <= j
    BY <1>3, <1>4, <1>8
  <2> QED  BY <1>8, <2>1
<1>9. Threaded(A, 1 .. m, f, n, own)
  BY <1>3, <1>4, <1>5, <1>6, <1>7, <1>8 DEF Threaded
<1> QED  BY <1>1, <1>9
=============================================================================
