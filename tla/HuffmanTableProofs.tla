------------------------- MODULE HuffmanTableProofs -------------------------
(***************************************************************************)
(* Theorems about the lookup tables, for every width of a table and every  *)
(* list of lengths: powers of two, sums and reversed bits; the counting sort*)
(* and the canonical code; what the builders put where.                    *)
(***************************************************************************)
EXTENDS HuffmanTable, FiniteSetTheorems, TLAPS

---------------------------------------------------------------------------
(* Sums over finite sets.  A claim to prove by induction is given to the   *)
(* provers as a set, of numbers or of subsets, for which it holds.         *)

\* Induction, through the set of the numbers for which a claim holds.
LEMMA NatSetInduction ==
  ASSUME NEW S, 0 \in S, \A n \in Nat : n \in S => n + 1 \in S
  PROVE  \A n \in Nat : n \in S
<1> DEFINE P(n) == n \in S
<1>1. \A n \in Nat : P(n)
  <2> SUFFICES ASSUME NEW m \in Nat, ~P(m) PROVE FALSE
    OBVIOUS
  <2> DEFINE T == {k \in Nat : ~P(k)}
  <2>1. PICK x \in T : \A y \in Nat : <<y, x>> \in OpToRel(<, Nat) => y \notin T
    <3>1. T # {} /\ T \subseteq Nat
      OBVIOUS
    <3> HIDE DEF T
    <3> QED BY <3>1, NatLessThanWellFounded, WFMin
  <2>2. \A y \in Nat : y < x => y \notin T
    BY <2>1 DEF OpToRel
  <2>3. x # 0
    OBVIOUS
  <2>4. x - 1 \in Nat /\ x - 1 < x
    BY <2>3
  <2>5. P(x - 1)
    BY <2>2, <2>4
  <2> QED BY <2>4, <2>5
<1> QED BY <1>1


FunctionOfInts(f) == f \in [DOMAIN f -> Int] /\ IsFiniteSet(DOMAIN f)

Without(f, x) == [y \in DOMAIN f \ {x} |-> f[y]]

Chosen(s) == CHOOSE x \in s : TRUE

SumOf(f, iter, S) ==
  iter = [s \in SUBSET S |-> IF s = {} THEN 0
                             ELSE f[Chosen(s)] + iter[s \ {Chosen(s)}]]

\* The element a fold takes next.
LEMMA ChosenIsIn == ASSUME NEW s, s # {} PROVE Chosen(s) \in s
  BY DEF Chosen

\* What a sum is by its definition: the value of a recursive function on sets.
LEMMA SumIs == ASSUME NEW f PROVE SumFunction(f) = (CHOOSE iter : SumOf(f, iter, DOMAIN f))[DOMAIN f]
  BY DEF SumFunction, SumFunctionOnSet, FoldFunctionOnSet, MapThenFoldSet, SumOf, Chosen

\* Subsets of a finite set, and what one element less leaves.
LEMMA Smaller ==
  ASSUME NEW S, IsFiniteSet(S), NEW s \in SUBSET S
  PROVE  /\ IsFiniteSet(s) /\ Cardinality(s) \in Nat /\ Cardinality(s) <= Cardinality(S)
         /\ (Cardinality(s) = 0) <=> (s = {})
         /\ \A x \in s : /\ s \ {x} \in SUBSET S
                         /\ Cardinality(s \ {x}) = Cardinality(s) - 1
  <1>1. IsFiniteSet(s) /\ Cardinality(s) \in Nat /\ Cardinality(s) <= Cardinality(S)
    BY FS_Subset, FS_CardinalityType
  <1>2. (Cardinality(s) = 0) <=> (s = {})
    BY <1>1, FS_EmptySet
  <1>3. \A x \in s : Cardinality(s \ {x}) = Cardinality(s) - 1
    BY <1>1, FS_RemoveElement
  <1> QED
    BY <1>1, <1>2, <1>3

\* There is such a function ...
LEMMA SumExists ==
  ASSUME NEW f, NEW S, IsFiniteSet(S)
  PROVE  \E iter : SumOf(f, iter, S)
<1> DEFINE D(n) == {s \in SUBSET S : Cardinality(s) <= n}
           R(g, n) == g = [s \in D(n) |-> IF s = {} THEN 0 ELSE f[Chosen(s)] + g[s \ {Chosen(s)}]]
           N == {n \in Nat : \E g : R(g, n)}
<1>1. 0 \in N
  <2>1. \A s \in D(0) : s = {}
    <3> TAKE s \in D(0)
    <3> QED BY Smaller
  <2>2. R([s \in D(0) |-> 0], 0)
    BY <2>1
  <2> HIDE DEF R
  <2> QED BY <2>2
<1>2. ASSUME NEW n \in Nat, n \in N PROVE n + 1 \in N
  <2>1. PICK g : R(g, n)
    BY <1>2
  <2> DEFINE h == [s \in D(n + 1) |-> IF s = {} THEN 0 ELSE f[Chosen(s)] + g[s \ {Chosen(s)}]]
  <2>2. \A t \in D(n) : t \in D(n + 1)
    <3> TAKE t \in D(n)
    <3> QED BY Smaller
  <2>3. \A t \in D(n) : g[t] = (IF t = {} THEN 0 ELSE f[Chosen(t)] + g[t \ {Chosen(t)}])
    <3> HIDE DEF D
    <3> QED BY <2>1
  <2>4. \A t \in D(n) : h[t] = g[t]
    <3> HIDE DEF D
    <3> QED BY <2>2, <2>3
  <2>5. \A s \in D(n + 1) : s # {} => s \ {Chosen(s)} \in D(n)
    <3> TAKE s \in D(n + 1)
    <3> HAVE s # {}
    <3> QED BY Smaller, ChosenIsIn
  <2>6. R(h, n + 1)
    <3> HIDE DEF D
    <3> QED BY <2>4, <2>5
  <2> HIDE DEF R, h
  <2> QED BY <2>6
<1>3. Cardinality(S) \in N
  <2> HIDE DEF N
  <2> QED BY <1>1, <1>2, NatSetInduction, FS_CardinalityType
<1>4. D(Cardinality(S)) = SUBSET S
  BY Smaller
<1> QED
  BY <1>3, <1>4 DEF SumOf

\* ... and any two agree on the sets on which what they add up agrees.
LEMMA SumUnique ==
  ASSUME NEW S, IsFiniteSet(S), NEW T \in SUBSET S, NEW f, NEW g, \A x \in T : f[x] = g[x],
         NEW i, SumOf(f, i, S), NEW j, SumOf(g, j, T)
  PROVE  i[T] = j[T]
<1> DEFINE N == {n \in Nat : \A s \in SUBSET T : Cardinality(s) <= n => i[s] = j[s]}
<1>0. IsFiniteSet(T)
  BY FS_Subset
<1>s. \A s \in SUBSET T : s \in SUBSET S
  OBVIOUS
<1>i. \A s \in SUBSET T : i[s] = (IF s = {} THEN 0 ELSE f[Chosen(s)] + i[s \ {Chosen(s)}])
  BY <1>s DEF SumOf
<1>j. \A s \in SUBSET T : j[s] = (IF s = {} THEN 0 ELSE g[Chosen(s)] + j[s \ {Chosen(s)}])
  BY DEF SumOf
<1>1. 0 \in N
  <2>1. \A s \in SUBSET T : Cardinality(s) <= 0 => s = {}
    BY <1>0, Smaller
  <2> QED BY <2>1, <1>i, <1>j
<1>2. ASSUME NEW n \in Nat, n \in N PROVE n + 1 \in N
  <2> SUFFICES ASSUME NEW s \in SUBSET T, Cardinality(s) <= n + 1, s # {} PROVE i[s] = j[s]
    BY <1>i, <1>j
  <2>1. Chosen(s) \in s
    BY ChosenIsIn
  <2>2. s \ {Chosen(s)} \in SUBSET T /\ Cardinality(s \ {Chosen(s)}) <= n
    BY <2>1, <1>0, Smaller
  <2>3. i[s \ {Chosen(s)}] = j[s \ {Chosen(s)}]
    BY <1>2, <2>2
  <2>4. f[Chosen(s)] = g[Chosen(s)]
    BY <2>1
  <2> QED BY <2>3, <2>4, <1>i, <1>j
<1>3. Cardinality(T) \in N
  <2> HIDE DEF N
  <2> QED BY <1>0, <1>1, <1>2, NatSetInduction, FS_CardinalityType
<1> QED
  BY <1>0, <1>3, FS_CardinalityType

\* The sum of nothing.
LEMMA SumEmpty == ASSUME NEW f, DOMAIN f = {} PROVE SumFunction(f) = 0
  <1>1. \E iter : SumOf(f, iter, {})
    BY SumExists, FS_EmptySet
  <1> DEFINE i == CHOOSE iter : SumOf(f, iter, DOMAIN f)
  <1>2. SumOf(f, i, {})
    BY <1>1
  <1>3. i[{}] = 0
    <2> HIDE DEF i
    <2> QED BY <1>2 DEF SumOf
  <1> QED BY <1>3, SumIs

\* The sum, one element apart, the one that is chosen.
LEMMA SumChosen ==
  ASSUME NEW f, IsFiniteSet(DOMAIN f), DOMAIN f # {}
  PROVE  SumFunction(f) = f[Chosen(DOMAIN f)] + SumFunction(Without(f, Chosen(DOMAIN f)))
  <1> DEFINE S == DOMAIN f
             c == Chosen(S)
             g == Without(f, c)
             i == CHOOSE iter : SumOf(f, iter, DOMAIN f)
             j == CHOOSE iter : SumOf(g, iter, DOMAIN g)
  <1>1. DOMAIN g = S \ {c} /\ \A x \in S \ {c} : g[x] = f[x]
    BY DEF Without
  <1>2. c \in S /\ IsFiniteSet(S \ {c})
    BY ChosenIsIn, FS_Subset
  <1>3. SumOf(f, i, S) /\ SumOf(g, j, S \ {c})
    <2> HIDE DEF c, g
    <2> QED BY SumExists, <1>1, <1>2
  <1>4. i[S \ {c}] = j[S \ {c}]
    <2> HIDE DEF c, g, i, j
    <2> QED BY <1>1, <1>2, <1>3, SumUnique
  <1>5. i[S] = f[c] + i[S \ {c}]
    <2> HIDE DEF i, j
    <2> QED BY <1>3 DEF SumOf
  <1>6. SumFunction(f) = i[S] /\ SumFunction(g) = j[S \ {c}]
    <2> HIDE DEF c, g
    <2> QED BY <1>1, SumIs
  <1> QED BY <1>4, <1>5, <1>6

\* A function with one element less.
LEMMA WithoutIs ==
  ASSUME NEW f, FunctionOfInts(f), NEW x \in DOMAIN f
  PROVE  /\ FunctionOfInts(Without(f, x)) /\ DOMAIN Without(f, x) = DOMAIN f \ {x}
         /\ Cardinality(DOMAIN Without(f, x)) = Cardinality(DOMAIN f) - 1
         /\ Cardinality(DOMAIN f) \in Nat
         /\ \A y \in DOMAIN f \ {x} : Without(f, x)[y] = f[y] /\ f[y] \in Int
         /\ f[x] \in Int
  <1>1. DOMAIN Without(f, x) = DOMAIN f \ {x} /\ Without(f, x) \in [DOMAIN f \ {x} -> Int]
    BY DEF Without, FunctionOfInts
  <1>2. IsFiniteSet(DOMAIN f \ {x}) /\ Cardinality(DOMAIN f \ {x}) = Cardinality(DOMAIN f) - 1
        /\ Cardinality(DOMAIN f) \in Nat
    BY FS_RemoveElement, FS_CardinalityType DEF FunctionOfInts
  <1> QED BY <1>1, <1>2 DEF FunctionOfInts, Without

\* A sum of integers.
LEMMA SumType == ASSUME NEW f, FunctionOfInts(f) PROVE SumFunction(f) \in Int
<1> DEFINE N == {n \in Nat : \A g : FunctionOfInts(g) /\ Cardinality(DOMAIN g) = n => SumFunction(g) \in Int}
<1>1. 0 \in N
  BY SumEmpty, FS_EmptySet DEF FunctionOfInts
<1>2. ASSUME NEW n \in Nat, n \in N PROVE n + 1 \in N
  <2> SUFFICES ASSUME NEW g, FunctionOfInts(g), Cardinality(DOMAIN g) = n + 1 PROVE SumFunction(g) \in Int
    OBVIOUS
  <2>1. DOMAIN g # {}
    BY FS_EmptySet
  <2>2. Chosen(DOMAIN g) \in DOMAIN g
    BY <2>1, ChosenIsIn
  <2>5. FunctionOfInts(Without(g, Chosen(DOMAIN g)))
        /\ Cardinality(DOMAIN Without(g, Chosen(DOMAIN g))) = Cardinality(DOMAIN g) - 1
    BY <2>2, WithoutIs
  <2>6. Cardinality(DOMAIN Without(g, Chosen(DOMAIN g))) = n
    BY <2>5
  <2>3. SumFunction(Without(g, Chosen(DOMAIN g))) \in Int
    BY <1>2, <2>5, <2>6
  <2>4. g[Chosen(DOMAIN g)] \in Int
    BY <2>2, WithoutIs
  <2> QED BY <2>1, <2>3, <2>4, SumChosen DEF FunctionOfInts
<1>3. Cardinality(DOMAIN f) \in N
  <2> HIDE DEF N
  <2> QED BY <1>1, <1>2, NatSetInduction, FS_CardinalityType DEF FunctionOfInts
<1> QED BY <1>3

\* The sum, any one element apart.
LEMMA SumRemove ==
  ASSUME NEW f, FunctionOfInts(f), NEW x \in DOMAIN f
  PROVE  SumFunction(f) = f[x] + SumFunction(Without(f, x))
<1> DEFINE N == {n \in Nat : \A g : FunctionOfInts(g) /\ Cardinality(DOMAIN g) = n
                               => \A y \in DOMAIN g : SumFunction(g) = g[y] + SumFunction(Without(g, y))}
<1>1. 0 \in N
  <2> SUFFICES ASSUME NEW g, FunctionOfInts(g), Cardinality(DOMAIN g) = 0 PROVE DOMAIN g = {}
    OBVIOUS
  <2> QED BY FS_EmptySet DEF FunctionOfInts
<1>2. ASSUME NEW n \in Nat, n \in N PROVE n + 1 \in N
  <2> SUFFICES ASSUME NEW g, FunctionOfInts(g), Cardinality(DOMAIN g) = n + 1, NEW y \in DOMAIN g
               PROVE SumFunction(g) = g[y] + SumFunction(Without(g, y))
    OBVIOUS
  <2> DEFINE c == Chosen(DOMAIN g)
  <2>1. c \in DOMAIN g
    BY ChosenIsIn
  <2>2. SumFunction(g) = g[c] + SumFunction(Without(g, c))
    BY SumChosen DEF FunctionOfInts
  <2> HIDE DEF c
  <2>3. CASE y = c
    BY <2>2, <2>3
  <2>4. CASE y # c
    <3>1. /\ FunctionOfInts(Without(g, c)) /\ Cardinality(DOMAIN Without(g, c)) = n
          /\ y \in DOMAIN Without(g, c) /\ Without(g, c)[y] = g[y]
      <4>1. /\ FunctionOfInts(Without(g, c)) /\ Cardinality(DOMAIN Without(g, c)) = Cardinality(DOMAIN g) - 1
            /\ y \in DOMAIN Without(g, c) /\ Without(g, c)[y] = g[y]
        BY <2>1, <2>4, WithoutIs
      <4> QED BY <4>1
    <3>2. /\ FunctionOfInts(Without(g, y)) /\ Cardinality(DOMAIN Without(g, y)) = n
          /\ c \in DOMAIN Without(g, y) /\ Without(g, y)[c] = g[c]
      <4>1. /\ FunctionOfInts(Without(g, y)) /\ Cardinality(DOMAIN Without(g, y)) = Cardinality(DOMAIN g) - 1
            /\ c \in DOMAIN Without(g, y) /\ Without(g, y)[c] = g[c]
        BY <2>1, <2>4, WithoutIs
      <4> QED BY <4>1
    <3>3. SumFunction(Without(g, c)) = g[y] + SumFunction(Without(Without(g, c), y))
      BY <1>2, <3>1
    <3>4. SumFunction(Without(g, y)) = g[c] + SumFunction(Without(Without(g, y), c))
      BY <1>2, <3>2
    <3>5. Without(Without(g, c), y) = Without(Without(g, y), c)
      BY DEF Without
    <3>6. /\ SumFunction(Without(Without(g, y), c)) \in Int
          /\ g[c] \in Int /\ g[y] \in Int
      BY <2>1, <3>2, WithoutIs, SumType
    <3> QED BY <2>2, <3>3, <3>4, <3>5, <3>6
  <2> QED BY <2>3, <2>4
<1>3. Cardinality(DOMAIN f) \in N
  <2> HIDE DEF N
  <2> QED BY <1>1, <1>2, NatSetInduction, FS_CardinalityType DEF FunctionOfInts
<1> QED BY <1>3

\* Induction on finite sets, through the family of the sets for which a claim holds.
LEMMA SetInduction ==
  ASSUME NEW S, IsFiniteSet(S), NEW C, {} \in C,
         \A T \in SUBSET S : \A x \in S \ T : T \in C => T \cup {x} \in C
  PROVE  S \in C
<1> DEFINE N == {n \in Nat : \A T \in SUBSET S : Cardinality(T) = n => T \in C}
<1>1. 0 \in N
  BY Smaller
<1>2. ASSUME NEW n \in Nat, n \in N PROVE n + 1 \in N
  <2> SUFFICES ASSUME NEW T \in SUBSET S, Cardinality(T) = n + 1 PROVE T \in C
    OBVIOUS
  <2>1. T # {}
    BY Smaller
  <2>2. PICK x \in T : TRUE
    BY <2>1
  <2>3. Cardinality(T \ {x}) = Cardinality(T) - 1
    BY Smaller
  <2>4. Cardinality(T \ {x}) = n /\ T \ {x} \in SUBSET S
    BY <2>3
  <2>5. T \ {x} \in C /\ x \in S \ (T \ {x})
    BY <1>2, <2>4
  <2>6. (T \ {x}) \cup {x} \in C
    BY <2>4, <2>5
  <2>7. (T \ {x}) \cup {x} = T
    BY <2>2
  <2> QED BY <2>6, <2>7
<1>3. Cardinality(S) \in N
  <2> HIDE DEF N
  <2> QED BY <1>1, <1>2, NatSetInduction, FS_CardinalityType
<1> QED BY <1>3

\* A function on fewer elements.
LEMMA RestrictIs ==
  ASSUME NEW f, FunctionOfInts(f), NEW T \in SUBSET DOMAIN f
  PROVE  /\ FunctionOfInts(Restrict(f, T)) /\ DOMAIN Restrict(f, T) = T
         /\ \A x \in T : Restrict(f, T)[x] = f[x]
         /\ SumFunction(Restrict(f, T)) \in Int
  <1>1. FunctionOfInts(Restrict(f, T)) /\ DOMAIN Restrict(f, T) = T
    BY FS_Subset DEF Restrict, FunctionOfInts
  <1> QED BY <1>1, SumType DEF Restrict

\* One element more.
LEMMA SumAdd ==
  ASSUME NEW f, FunctionOfInts(f), NEW T \in SUBSET DOMAIN f, NEW x \in DOMAIN f \ T
  PROVE  SumFunction(Restrict(f, T \cup {x})) = SumFunction(Restrict(f, T)) + f[x]
  <1> DEFINE g == Restrict(f, T \cup {x})
  <1>1. FunctionOfInts(g) /\ DOMAIN g = T \cup {x} /\ g[x] = f[x] /\ f[x] \in Int
    BY RestrictIs DEF FunctionOfInts
  <1>2. Without(g, x) = Restrict(f, T)
    BY DEF Without, Restrict
  <1>3. SumFunction(Restrict(f, T)) \in Int
    BY RestrictIs
  <1> HIDE DEF g
  <1>4. SumFunction(g) = g[x] + SumFunction(Without(g, x))
    BY <1>1, SumRemove
  <1> QED BY <1>1, <1>2, <1>3, <1>4 DEF g

\* All elements.
LEMMA RestrictAll ==
  ASSUME NEW f, FunctionOfInts(f) PROVE Restrict(f, DOMAIN f) = f
  BY DEF Restrict, FunctionOfInts

\* No elements.
LEMMA SumNone == ASSUME NEW f PROVE SumFunction(Restrict(f, {})) = 0
  BY SumEmpty DEF Restrict

\* A sum in two parts.
LEMMA SumSplit ==
  ASSUME NEW f, FunctionOfInts(f), NEW A, NEW B, A \cup B = DOMAIN f, A \cap B = {}
  PROVE  SumFunction(f) = SumFunction(Restrict(f, A)) + SumFunction(Restrict(f, B))
<1> DEFINE C == {T \in SUBSET B : SumFunction(Restrict(f, A \cup T))
                                    = SumFunction(Restrict(f, A)) + SumFunction(Restrict(f, T))}
<1>1. {} \in C
  <2>1. A \cup {} = A /\ SumFunction(Restrict(f, A)) \in Int
    BY RestrictIs
  <2> QED BY <2>1, SumNone
<1>2. ASSUME NEW T \in SUBSET B, NEW x \in B \ T, T \in C PROVE T \cup {x} \in C
  <2>1. SumFunction(Restrict(f, T \cup {x})) = SumFunction(Restrict(f, T)) + f[x]
    BY SumAdd
  <2>2. x \in DOMAIN f \ (A \cup T)
    OBVIOUS
  <2>3. SumFunction(Restrict(f, (A \cup T) \cup {x})) = SumFunction(Restrict(f, A \cup T)) + f[x]
    BY <2>2, SumAdd
  <2>4. (A \cup T) \cup {x} = A \cup (T \cup {x})
    OBVIOUS
  <2>5. /\ SumFunction(Restrict(f, A)) \in Int /\ SumFunction(Restrict(f, T)) \in Int /\ f[x] \in Int
    BY RestrictIs DEF FunctionOfInts
  <2>6. T \cup {x} \in SUBSET B
    OBVIOUS
  <2>7. SumFunction(Restrict(f, A \cup (T \cup {x})))
          = SumFunction(Restrict(f, A)) + SumFunction(Restrict(f, T \cup {x}))
    <3>1. SumFunction(Restrict(f, A \cup T)) = SumFunction(Restrict(f, A)) + SumFunction(Restrict(f, T))
      BY <1>2
    <3>2. SumFunction(Restrict(f, A \cup (T \cup {x}))) = SumFunction(Restrict(f, A \cup T)) + f[x]
      BY <2>3, <2>4, Zenon
    <3>3. \A a, b, c \in Int : (a + b) + c = a + (b + c)
      OBVIOUS
    <3> QED BY <2>1, <2>5, <3>1, <3>2, <3>3
  <2> QED BY <2>6, <2>7
<1>3. B \in C
  <2>1. IsFiniteSet(B)
    BY FS_Subset DEF FunctionOfInts
  <2> HIDE DEF C
  <2> QED BY <1>1, <1>2, <2>1, SetInduction
<1> QED BY <1>3, RestrictAll

\* A sum of multiples.
LEMMA SumScale ==
  ASSUME NEW f, FunctionOfInts(f), NEW c \in Int
  PROVE  SumFunction([x \in DOMAIN f |-> c * f[x]]) = c * SumFunction(f)
<1> DEFINE g == [x \in DOMAIN f |-> c * f[x]]
<1>0. FunctionOfInts(g) /\ DOMAIN g = DOMAIN f
  BY DEF FunctionOfInts
<1> DEFINE C == {T \in SUBSET DOMAIN f : SumFunction(Restrict(g, T)) = c * SumFunction(Restrict(f, T))}
<1>1. {} \in C
  BY SumNone
<1>2. ASSUME NEW T \in SUBSET DOMAIN f, NEW x \in DOMAIN f \ T, T \in C PROVE T \cup {x} \in C
  <2>1. SumFunction(Restrict(f, T \cup {x})) = SumFunction(Restrict(f, T)) + f[x]
    BY SumAdd
  <2>3. SumFunction(Restrict(g, T \cup {x})) = SumFunction(Restrict(g, T)) + g[x]
    <3> HIDE DEF g
    <3> QED BY <1>0, SumAdd
  <2>4. g[x] = c * f[x]
    OBVIOUS
  <2>5. SumFunction(Restrict(f, T)) \in Int /\ f[x] \in Int
    BY RestrictIs DEF FunctionOfInts
  <2>6. \A a, b \in Int : c * a + c * b = c * (a + b)
    OBVIOUS
  <2> HIDE DEF g
  <2> QED BY <1>2, <2>1, <2>3, <2>4, <2>5, <2>6
<1>3. DOMAIN f \in C
  <2> HIDE DEF C
  <2> QED BY <1>1, <1>2, SetInduction DEF FunctionOfInts
<1> HIDE DEF g
<1> QED BY <1>0, <1>3, RestrictAll DEF g

\* A sum of equal numbers.
LEMMA SumConst ==
  ASSUME NEW S, IsFiniteSet(S), NEW c \in Int
  PROVE  SumFunction([x \in S |-> c]) = Cardinality(S) * c
<1> DEFINE g == [x \in S |-> c]
<1>0. FunctionOfInts(g) /\ DOMAIN g = S
  BY DEF FunctionOfInts
<1> DEFINE C == {T \in SUBSET S : SumFunction(Restrict(g, T)) = Cardinality(T) * c}
<1>1. {} \in C
  BY SumNone, FS_EmptySet
<1>2. ASSUME NEW T \in SUBSET S, NEW x \in S \ T, T \in C PROVE T \cup {x} \in C
  <2>3. SumFunction(Restrict(g, T \cup {x})) = SumFunction(Restrict(g, T)) + g[x]
    <3> HIDE DEF g
    <3> QED BY <1>0, SumAdd
  <2>4. g[x] = c
    OBVIOUS
  <2>5. Cardinality(T \cup {x}) = Cardinality(T) + 1 /\ Cardinality(T) \in Nat
    BY FS_AddElement, FS_Subset, FS_CardinalityType
  <2>6. \A a \in Nat : a * c + c = (a + 1) * c
    OBVIOUS
  <2> HIDE DEF g
  <2> QED BY <1>2, <2>3, <2>4, <2>5, <2>6
<1>3. S \in C
  <2> HIDE DEF C
  <2> QED BY <1>1, <1>2, SetInduction
<1> HIDE DEF g
<1> QED BY <1>0, <1>3, RestrictAll DEF g

\* A sum of natural numbers is one, and no less than any of them.
LEMMA SumNat ==
  ASSUME NEW f, NEW S, IsFiniteSet(S), f \in [S -> Nat]
  PROVE  /\ SumFunction(f) \in Nat
         /\ \A x \in S : SumFunction(f) >= f[x]
<1>0. FunctionOfInts(f) /\ DOMAIN f = S
  BY DEF FunctionOfInts
<1> DEFINE C == {T \in SUBSET S : /\ SumFunction(Restrict(f, T)) \in Nat
                                  /\ \A x \in T : SumFunction(Restrict(f, T)) >= f[x]}
<1>1. {} \in C
  BY SumNone
<1>2. ASSUME NEW T \in SUBSET S, NEW x \in S \ T, T \in C PROVE T \cup {x} \in C
  <2>3. SumFunction(Restrict(f, T \cup {x})) = SumFunction(Restrict(f, T)) + f[x]
    BY <1>0, SumAdd
  <2>4. f[x] \in Nat /\ \A y \in T : f[y] \in Nat
    OBVIOUS
  <2> QED BY <1>2, <2>3, <2>4
<1>3. S \in C
  <2> HIDE DEF C
  <2> QED BY <1>1, <1>2, SetInduction
<1> QED BY <1>0, <1>3, RestrictAll

\* A sum over a range, its last element apart.
LEMMA SumLast ==
  ASSUME NEW a \in Int, NEW n \in Int, a <= n + 1, NEW f, FunctionOfInts(f), DOMAIN f = a .. n + 1
  PROVE  SumFunction(f) = SumFunction([j \in a .. n |-> f[j]]) + f[n + 1]
  <1>1. n + 1 \in DOMAIN f \ (a .. n) /\ (a .. n) \cup {n + 1} = DOMAIN f
    OBVIOUS
  <1>2. SumFunction(Restrict(f, (a .. n) \cup {n + 1})) = SumFunction(Restrict(f, a .. n)) + f[n + 1]
    <2>1. a .. n \in SUBSET DOMAIN f
      OBVIOUS
    <2> QED BY <1>1, <2>1, SumAdd
  <1>3. Restrict(f, a .. n) = [j \in a .. n |-> f[j]]
    BY DEF Restrict
  <1>4. Restrict(f, (a .. n) \cup {n + 1}) = f
    BY <1>1, RestrictAll
  <1> QED BY <1>2, <1>3, <1>4

---------------------------------------------------------------------------
(* Powers of two, quotients and remainders.                                *)

\* The recursive function is the one its definition gives.
LEMMA PowIs == Pow2 = [n \in Nat |-> IF n = 0 THEN 1 ELSE 2 * Pow2[n - 1]]
<1> DEFINE G(g, n) == g = [i \in 0 .. n |-> IF i = 0 THEN 1 ELSE 2 * g[i - 1]]
           N == {n \in Nat : \E g : G(g, n)}
<1>1. 0 \in N
  <2>1. G([i \in 0 .. 0 |-> 1], 0)
    OBVIOUS
  <2> QED BY <2>1
<1>2. ASSUME NEW n \in Nat, n \in N PROVE n + 1 \in N
  <2>1. PICK g : G(g, n)
    BY <1>2
  <2> DEFINE h == [i \in 0 .. n + 1 |-> IF i = 0 THEN 1 ELSE 2 * g[i - 1]]
  <2>2. \A i \in 0 .. n : h[i] = g[i]
    BY <2>1
  <2>3. \A i \in 0 .. n + 1 : i # 0 => i - 1 \in 0 .. n
    OBVIOUS
  <2>4. G(h, n + 1)
    BY <2>2, <2>3
  <2> HIDE DEF G, h
  <2> QED BY <2>4
<1>3. \A n \in Nat : \E g : G(g, n)
  <2>1. \A n \in Nat : n \in N
    <3> HIDE DEF N
    <3> QED BY <1>1, <1>2, NatSetInduction
  <2> HIDE DEF G
  <2> QED BY <2>1
<1> DEFINE g(n) == CHOOSE g : G(g, n)
           f == [n \in Nat |-> g(n)[n]]
<1>4. \A n \in Nat : G(g(n), n)
  <2> HIDE DEF G
  <2> QED BY <1>3
<1>5. ASSUME NEW n \in Nat PROVE \A i \in Nat : i <= n => g(n)[i] = g(n + 1)[i]
  <2> DEFINE a == g(n)
             b == g(n + 1)
             M == {i \in Nat : i <= n => a[i] = b[i]}
  <2>1. G(a, n) /\ G(b, n + 1)
    <3> HIDE DEF G
    <3> QED BY <1>4
  <2> HIDE DEF a, b
  <2>2. 0 \in M
    BY <2>1
  <2>3. ASSUME NEW i \in Nat, i \in M PROVE i + 1 \in M
    <3> SUFFICES ASSUME i + 1 <= n PROVE a[i + 1] = b[i + 1]
      OBVIOUS
    <3>1. a[i + 1] = 2 * a[i] /\ b[i + 1] = 2 * b[i]
      BY <2>1
    <3> QED BY <2>3, <3>1
  <2>4. \A i \in Nat : i \in M
    <3> HIDE DEF M
    <3> QED BY <2>2, <2>3, NatSetInduction
  <2> QED BY <2>4 DEF a, b
<1>6. f = [n \in Nat |-> IF n = 0 THEN 1 ELSE 2 * f[n - 1]]
  <2> SUFFICES ASSUME NEW n \in Nat PROVE f[n] = IF n = 0 THEN 1 ELSE 2 * f[n - 1]
    OBVIOUS
  <2>1. g(n)[n] = IF n = 0 THEN 1 ELSE 2 * g(n)[n - 1]
    <3> DEFINE a == g(n)
    <3>1. G(a, n)
      <4> HIDE DEF G
      <4> QED BY <1>4
    <3> HIDE DEF a
    <3>2. a[n] = IF n = 0 THEN 1 ELSE 2 * a[n - 1]
      BY <3>1
    <3> QED BY <3>2 DEF a
  <2>2. n # 0 => g(n)[n - 1] = g(n - 1)[n - 1]
    <3> HAVE n # 0
    <3>1. n - 1 \in Nat /\ (n - 1) + 1 = n /\ n - 1 <= n - 1
      OBVIOUS
    <3> HIDE DEF g
    <3> QED BY <1>5, <3>1
  <2>3. n # 0 => n - 1 \in Nat
    OBVIOUS
  <2> HIDE DEF g
  <2> QED BY <2>1, <2>2, <2>3
<1> HIDE DEF f
<1> QED BY <1>6 DEF Pow2

\* The powers, one after the other.
LEMMA PowStep ==
  /\ Pow2[0] = 1
  /\ \A n \in Nat : Pow2[n + 1] = 2 * Pow2[n] /\ Pow2[n] \in Nat \ {0}
<1>1. Pow2[0] = 1
  BY PowIs
<1>2. \A n \in Nat : Pow2[n + 1] = 2 * Pow2[n]
  <2> TAKE n \in Nat
  <2>1. n + 1 \in Nat /\ n + 1 # 0 /\ (n + 1) - 1 = n
    OBVIOUS
  <2> QED BY <2>1, PowIs, Zenon
<1>3. \A n \in Nat : Pow2[n] \in Nat \ {0}
  <2> DEFINE N == {n \in Nat : Pow2[n] \in Nat \ {0}}
  <2>1. 0 \in N
    BY <1>1
  <2>2. ASSUME NEW n \in Nat, n \in N PROVE n + 1 \in N
    BY <2>2, <1>2
  <2> HIDE DEF N
  <2>3. \A n \in Nat : n \in N
    BY <2>1, <2>2, NatSetInduction
  <2> QED BY <2>3 DEF N
<1> QED BY <1>1, <1>2, <1>3

\* Powers are positive.
LEMMA PowNat == \A n \in Nat : Pow2[n] \in Nat \ {0} /\ Pow2[n] \in Nat /\ Pow2[n] \in Int /\ Pow2[n] >= 1
  <1> TAKE n \in Nat
  <1>1. Pow2[n] \in Nat \ {0}
    BY PowStep
  <1> QED BY <1>1

\* Powers of sums.
LEMMA PowSum == \A a, b \in Nat : Pow2[a + b] = Pow2[a] * Pow2[b]
<1> TAKE a \in Nat
<1> DEFINE N == {b \in Nat : Pow2[a + b] = Pow2[a] * Pow2[b]}
<1>1. 0 \in N
  BY PowStep
<1>2. ASSUME NEW n \in Nat, n \in N PROVE n + 1 \in N
  <2>1. Pow2[(a + n) + 1] = 2 * Pow2[a + n] /\ Pow2[n + 1] = 2 * Pow2[n]
    BY PowStep
  <2>2. Pow2[a + n] = Pow2[a] * Pow2[n] /\ a + (n + 1) = (a + n) + 1
    BY <1>2
  <2>3. \A x, y \in Nat : 2 * (x * y) = x * (2 * y)
    OBVIOUS
  <2>4. Pow2[a] \in Nat /\ Pow2[n] \in Nat
    BY PowStep
  <2> QED BY <2>1, <2>2, <2>3, <2>4
<1> HIDE DEF N
<1>3. \A n \in Nat : n \in N
  BY <1>1, <1>2, NatSetInduction
<1> QED BY <1>3 DEF N

\* Larger exponents, larger powers.
LEMMA PowGrows == \A a, b \in Nat : a <= b => Pow2[a] <= Pow2[b]
  <1> SUFFICES ASSUME NEW a \in Nat, NEW b \in Nat, a <= b PROVE Pow2[a] <= Pow2[b]
    OBVIOUS
  <1>1. b - a \in Nat /\ b = a + (b - a)
    OBVIOUS
  <1>2. Pow2[b] = Pow2[a] * Pow2[b - a]
    BY <1>1, PowSum
  <1>3. \A x \in Nat, y \in Nat \ {0} : x <= x * y
    OBVIOUS
  <1> QED BY <1>1, <1>2, <1>3, PowStep

\* ... strictly.
LEMMA PowGrowsStrictly == \A a, b \in Nat : a < b => Pow2[a] < Pow2[b]
  <1> SUFFICES ASSUME NEW a \in Nat, NEW b \in Nat, a < b PROVE Pow2[a] < Pow2[b]
    OBVIOUS
  <1>1. a + 1 \in Nat /\ a + 1 <= b
    OBVIOUS
  <1>2. Pow2[a + 1] <= Pow2[b] /\ Pow2[a + 1] = 2 * Pow2[a] /\ Pow2[a] \in Nat \ {0} /\ Pow2[b] \in Nat
    BY <1>1, PowGrows, PowStep
  <1> QED BY <1>2

---------------------------------------------------------------------------

\* Quotient and remainder.
LEMMA DivMod ==
  ASSUME NEW n \in Nat, NEW p \in Nat \ {0}
  PROVE  n = p * (n \div p) + (n % p) /\ n \div p \in Nat /\ n % p \in 0 .. p - 1
  OBVIOUS

\* There is one of each.
LEMMA DivUnique ==
  ASSUME NEW n \in Nat, NEW p \in Nat \ {0}, NEW q \in Int, NEW r \in 0 .. p - 1, n = p * q + r
  PROVE  q = n \div p /\ r = n % p
  OBVIOUS

\* Two divisions are one.
LEMMA DivDiv ==
  ASSUME NEW n \in Nat, NEW p \in Nat \ {0}, NEW q \in Nat \ {0}
  PROVE  (n \div p) \div q = n \div (p * q)
  OBVIOUS

---------------------------------------------------------------------------
(* Bits in the reverse order.                                              *)

\* A bit is 0 or 1.
LEMMA BitType == \A n, j \in Nat : Bit(n, j) \in 0 .. 1 /\ Bit(n, j) \in Nat /\ Bit(n, j) \in Int
  <1> SUFFICES ASSUME NEW n \in Nat, NEW j \in Nat PROVE Bit(n, j) \in 0 .. 1
    OBVIOUS
  <1>1. Pow2[j] \in Nat \ {0}
    BY PowStep
  <1>2. n \div Pow2[j] \in Nat
    BY <1>1, DivMod
  <1> QED BY <1>2 DEF Bit

\* The next bit of the number is the lowest of its reversal.
LEMMA ReversedStep ==
  ASSUME NEW n \in Nat, NEW w \in Nat
  PROVE  /\ Reversed(n, 0) = 0
         /\ Reversed(n, w + 1) = 2 * Reversed(n, w) + Bit(n, w)
         /\ Reversed(n, w) \in Int
<1>1. Reversed(n, 0) = 0
  <2>1. 0 .. 0 - 1 = {}
    OBVIOUS
  <2> QED BY <2>1, SumEmpty DEF Reversed
<1> DEFINE f == [j \in 0 .. w |-> Bit(n, j) * Pow2[w - j]]
           g == [j \in 0 .. w - 1 |-> Bit(n, j) * Pow2[w - 1 - j]]
<1>2. Reversed(n, w + 1) = SumFunction(f) /\ Reversed(n, w) = SumFunction(g)
  <2>1. (w + 1) - 1 = w
    OBVIOUS
  <2> QED BY <2>1 DEF Reversed
<1>3. FunctionOfInts(f) /\ DOMAIN f = 0 .. w
  <2>1. \A j \in 0 .. w : Bit(n, j) \in Int /\ Pow2[w - j] \in Int
    <3> TAKE j \in 0 .. w
    <3>1. w - j \in Nat /\ j \in Nat
      OBVIOUS
    <3> QED BY <3>1, BitType, PowNat
  <2>2. IsFiniteSet(0 .. w)
    BY FS_Interval
  <2> QED BY <2>1, <2>2 DEF FunctionOfInts
<1>4. FunctionOfInts(g) /\ DOMAIN g = 0 .. w - 1
  <2>1. \A j \in 0 .. w - 1 : Bit(n, j) \in Int /\ Pow2[w - 1 - j] \in Int
    <3> TAKE j \in 0 .. w - 1
    <3>1. w - 1 - j \in Nat /\ j \in Nat
      OBVIOUS
    <3> QED BY <3>1, BitType, PowNat
  <2>2. IsFiniteSet(0 .. w - 1)
    BY FS_Interval
  <2> QED BY <2>1, <2>2 DEF FunctionOfInts
<1>5. SumFunction(f) = SumFunction([j \in 0 .. w - 1 |-> f[j]]) + f[w]
  <2>1. (w - 1) + 1 = w /\ w - 1 \in Int /\ 0 \in Int /\ 0 <= (w - 1) + 1
    OBVIOUS
  <2> HIDE DEF f
  <2>2. DOMAIN f = 0 .. (w - 1) + 1
    BY <1>3, <2>1
  <2>3. SumFunction(f) = SumFunction([j \in 0 .. w - 1 |-> f[j]]) + f[(w - 1) + 1]
    BY <1>3, <2>1, <2>2, SumLast
  <2> QED BY <2>1, <2>3
<1>6. f[w] = Bit(n, w)
  <2>1. Pow2[w - w] = 1
    BY PowStep
  <2> QED BY <2>1, BitType
<1>7. [j \in 0 .. w - 1 |-> f[j]] = [j \in DOMAIN g |-> 2 * g[j]]
  <2> SUFFICES ASSUME NEW j \in 0 .. w - 1 PROVE f[j] = 2 * g[j]
    BY <1>4
  <2>1. w - j = (w - 1 - j) + 1 /\ w - 1 - j \in Nat
    OBVIOUS
  <2>2. Pow2[w - j] = 2 * Pow2[w - 1 - j] /\ Pow2[w - 1 - j] \in Int
    BY <2>1, PowStep
  <2>3. Bit(n, j) \in Int
    BY BitType
  <2>4. \A a, b \in Int : a * (2 * b) = 2 * (a * b)
    OBVIOUS
  <2> QED BY <2>2, <2>3, <2>4
<1>8. SumFunction([j \in DOMAIN g |-> 2 * g[j]]) = 2 * SumFunction(g) /\ SumFunction(g) \in Int
  <2> HIDE DEF g
  <2>1. 2 \in Int
    OBVIOUS
  <2>2. SumFunction([j \in DOMAIN g |-> 2 * g[j]]) = 2 * SumFunction(g)
    BY <1>4, <2>1, SumScale, Zenon
  <2> QED BY <1>4, <2>2, SumType
<1> HIDE DEF f, g
<1> QED BY <1>1, <1>2, <1>5, <1>6, <1>7, <1>8

\* The reversal of so many bits has no more.
LEMMA ReversedType ==
  ASSUME NEW n \in Nat
  PROVE  \A w \in Nat : Reversed(n, w) \in 0 .. Pow2[w] - 1 /\ Reversed(n, w) \in Nat
<1> DEFINE N == {w \in Nat : Reversed(n, w) \in 0 .. Pow2[w] - 1}
<1>1. 0 \in N
  BY ReversedStep, PowStep
<1>2. ASSUME NEW w \in Nat, w \in N PROVE w + 1 \in N
  <2>1. Reversed(n, w) \in 0 .. Pow2[w] - 1 /\ Pow2[w] \in Nat /\ Pow2[w + 1] = 2 * Pow2[w]
    BY <1>2, PowStep
  <2>2. Bit(n, w) \in 0 .. 1 /\ Reversed(n, w + 1) = 2 * Reversed(n, w) + Bit(n, w)
    BY ReversedStep, BitType
  <2> QED BY <2>1, <2>2
<1>3. \A w \in Nat : w \in N
  <2> HIDE DEF N
  <2> QED BY <1>1, <1>2, NatSetInduction
<1> QED BY <1>3, PowStep

\* The bits above the lowest ones are those of the quotient.
LEMMA BitAbove ==
  ASSUME NEW n \in Nat, NEW w \in Nat, NEW d \in Nat
  PROVE  Bit(n, w + d) = Bit(n \div Pow2[w], d)
  <1>1. Pow2[w] \in Nat \ {0} /\ Pow2[d] \in Nat \ {0} /\ Pow2[w + d] = Pow2[w] * Pow2[d]
    BY PowStep, PowSum
  <1>2. (n \div Pow2[w]) \div Pow2[d] = n \div (Pow2[w] * Pow2[d])
    BY <1>1, DivDiv
  <1> QED BY <1>1, <1>2 DEF Bit

\* The low bits, reversed, come first.
LEMMA ReversedSplit ==
  ASSUME NEW n \in Nat, NEW w \in Nat
  PROVE  \A d \in Nat : Reversed(n, w + d) = Pow2[d] * Reversed(n, w) + Reversed(n \div Pow2[w], d)
<1> DEFINE q == n \div Pow2[w]
           N == {d \in Nat : Reversed(n, w + d) = Pow2[d] * Reversed(n, w) + Reversed(q, d)}
<1>0. q \in Nat
  BY PowStep, DivMod
<1>1. 0 \in N
  <2> HIDE DEF q
  <2> QED BY <1>0, ReversedStep, PowStep
<1>2. ASSUME NEW d \in Nat, d \in N PROVE d + 1 \in N
  <2>1. Reversed(n, w + d) = Pow2[d] * Reversed(n, w) + Reversed(q, d)
    BY <1>2
  <2>2. Reversed(n, (w + d) + 1) = 2 * Reversed(n, w + d) + Bit(n, w + d)
    BY ReversedStep
  <2>3. Bit(n, w + d) = Bit(q, d) /\ Bit(q, d) \in Int
    <3>1. Bit(n, w + d) = Bit(q, d)
      BY BitAbove
    <3> HIDE DEF q
    <3> QED BY <1>0, <3>1, BitType
  <2> HIDE DEF q
  <2>4. Reversed(q, d + 1) = 2 * Reversed(q, d) + Bit(q, d)
    BY <1>0, ReversedStep
  <2>5. Pow2[d + 1] = 2 * Pow2[d] /\ Pow2[d] \in Int /\ Reversed(n, w) \in Int /\ Reversed(q, d) \in Int
    BY <1>0, PowStep, ReversedStep, SMTT(30)
  <2>6. \A p, r, s, b \in Int : 2 * (p * r + s) + b = (2 * p) * r + (2 * s + b)
    OBVIOUS
  <2>7. w + (d + 1) = (w + d) + 1
    OBVIOUS
  <2> QED BY <2>1, <2>2, <2>3, <2>4, <2>5, <2>6, <2>7
<1>3. \A d \in Nat : d \in N
  <2> HIDE DEF N
  <2> QED BY <1>1, <1>2, NatSetInduction
<1> QED BY <1>3

\* Zero is its own reversal.
LEMMA ReversedZero == \A w \in Nat : Reversed(0, w) = 0
<1> DEFINE N == {w \in Nat : Reversed(0, w) = 0}
<1>1. 0 \in N
  BY ReversedStep
<1>2. ASSUME NEW w \in Nat, w \in N PROVE w + 1 \in N
  <2>1. Bit(0, w) = 0
    BY PowStep, SMTT(30) DEF Bit
  <2> QED BY <1>2, <2>1, ReversedStep
<1>3. \A w \in Nat : w \in N
  <2> HIDE DEF N
  <2> QED BY <1>1, <1>2, NatSetInduction
<1> QED BY <1>3

\* Dividing by more than there is.
LEMMA DivSmall == ASSUME NEW p \in Nat \ {0}, NEW n \in 0 .. p - 1 PROVE n \div p = 0 /\ n % p = n
  OBVIOUS

\* The remainder in one bit more.
LEMMA OneBitMore ==
  ASSUME NEW n \in Nat, NEW w \in Nat
  PROVE  n % Pow2[w + 1] = Pow2[w] * Bit(n, w) + (n % Pow2[w])
  <1> DEFINE p == Pow2[w]
             q == n \div p
  <1>1. p \in Nat \ {0} /\ Pow2[w + 1] = 2 * p
    BY PowStep
  <1>2. n = p * q + (n % p) /\ q \in Nat /\ n % p \in 0 .. p - 1
    <2> HIDE DEF p
    <2> QED BY <1>1, DivMod
  <1>3. Bit(n, w) = q % 2
    BY DEF Bit
  <1>4. q = 2 * (q \div 2) + (q % 2) /\ q \div 2 \in Nat /\ q % 2 \in 0 .. 1
    <2> HIDE DEF q
    <2> QED BY <1>2
  <1> DEFINE h == q \div 2
             r == n % p
             b == q % 2
  <1>5. p * q = p * (2 * h) + p * b
    <2>1. \A x, y, z \in Int : x * (y + z) = x * y + x * z
      OBVIOUS
    <2>2. q = 2 * h + b /\ 2 * h \in Int /\ b \in Int
      <3> HIDE DEF q
      <3> QED BY <1>4
    <2> HIDE DEF p, q, h, b
    <2> QED BY <1>1, <2>1, <2>2
  <1>6. p * (2 * h) = (2 * p) * h
    BY <1>1, <1>4
  <1> HIDE DEF p, q, h, b, r
  <1>7. b = 0 \/ b = 1
    BY <1>4 DEF b
  <1>8. p * b + r \in 0 .. 2 * p - 1
    BY <1>1, <1>2, <1>7 DEF r
  <1>9. n = (2 * p) * h + (p * b + r)
    <2>1. p * b \in Int /\ p * (2 * h) \in Int /\ r \in Int
      BY <1>1, <1>2, <1>4, <1>7 DEF r, h
    <2>2. n = p * q + r
      BY <1>2 DEF r
    <2>3. n = ((2 * p) * h + p * b) + r
      BY <1>5, <1>6, <2>2
    <2>4. (2 * p) * h \in Int
      BY <1>6, <2>1
    <2> QED BY <2>1, <2>3, <2>4
  <1>10. h \in Int /\ 2 * p \in Nat \ {0}
    BY <1>1, <1>4 DEF h
  <1>11. p * b + r = n % (2 * p)
    BY <1>8, <1>9, <1>10, DivUnique
  <1>12. Bit(n, w) = b /\ n % Pow2[w] = r /\ Pow2[w] = p
    BY <1>3 DEF b, r, p
  <1> QED BY <1>1, <1>11, <1>12

\* Reversing twice gives the low bits back.
LEMMA ReversedTwice ==
  ASSUME NEW n \in Nat
  PROVE  \A w \in Nat : Reversed(Reversed(n, w), w) = n % Pow2[w]
<1> DEFINE N == {w \in Nat : Reversed(Reversed(n, w), w) = n % Pow2[w]}
<1>1. 0 \in N
  BY ReversedStep, PowStep
<1>2. ASSUME NEW w \in Nat, w \in N PROVE w + 1 \in N
  <2> DEFINE m == Reversed(n, w)
             k == 2 * m + Bit(n, w)
  <2>0. m \in Nat /\ Bit(n, w) \in 0 .. 1
    BY ReversedType, BitType
  <2>1. Reversed(n, w + 1) = k
    BY ReversedStep
  <2> HIDE DEF m
  <2>2. k \in Nat /\ k \div 2 = m /\ k % 2 = Bit(n, w)
    BY <2>0
  <2>3. Pow2[1] = 2
    BY PowStep
  <2> HIDE DEF k
  <2>4. Reversed(k, 1 + w) = Pow2[w] * Reversed(k, 1) + Reversed(m, w)
    <3>1. Reversed(k, 1 + w) = Pow2[w] * Reversed(k, 1) + Reversed(k \div Pow2[1], w)
      <4>1. 1 \in Nat /\ k \in Nat
        BY <2>2
      <4> QED BY <4>1, ReversedSplit, Zenon
    <3> QED BY <2>2, <2>3, <3>1
  <2>5. Reversed(k, 1) = k % 2
    <3>1. Bit(k, 0) = k % 2
      BY <2>2, PowStep DEF Bit
    <3>2. Reversed(k, 0 + 1) = 2 * Reversed(k, 0) + Bit(k, 0) /\ Reversed(k, 0) = 0
      BY <2>2, ReversedStep
    <3> QED BY <2>2, <3>1, <3>2
  <2>6. Reversed(m, w) = n % Pow2[w]
    BY <1>2 DEF m
  <2>7. 1 + w = w + 1
    OBVIOUS
  <2>8. Reversed(Reversed(n, w + 1), w + 1) = Pow2[w] * Bit(n, w) + (n % Pow2[w])
    BY <2>1, <2>2, <2>4, <2>5, <2>6, <2>7
  <2> QED BY <2>8, OneBitMore
<1>3. \A w \in Nat : w \in N
  <2> HIDE DEF N
  <2> QED BY <1>1, <1>2, NatSetInduction
<1> QED BY <1>3

\* Only the low bits count.
LEMMA ReversedLow ==
  ASSUME NEW n \in Nat, NEW w \in Nat
  PROVE  Reversed(n % Pow2[w], w) = Reversed(n, w)
  <1> DEFINE m == Reversed(n, w)
  <1>1. m \in 0 .. Pow2[w] - 1 /\ m \in Nat /\ Pow2[w] \in Nat \ {0}
    BY ReversedType, PowStep
  <1>2. Reversed(m, w) = n % Pow2[w]
    BY ReversedTwice
  <1> HIDE DEF m
  <1>3. Reversed(Reversed(m, w), w) = m % Pow2[w]
    BY <1>1, ReversedTwice
  <1>4. m % Pow2[w] = m
    BY <1>1, DivSmall
  <1> QED BY <1>2, <1>3, <1>4 DEF m

\* High bits first: of a number with d zeros at its end.
LEMMA ReversedShift ==
  ASSUME NEW k \in Nat, NEW d \in Nat, NEW b \in Nat
  PROVE  Reversed(k * Pow2[d], b + d) = Reversed(k, b)
  <1> DEFINE n == k * Pow2[d]
  <1>0. Pow2[d] \in Nat \ {0}
    BY PowStep
  <1>1. n \in Nat /\ n \div Pow2[d] = k /\ n % Pow2[d] = 0
    <2>1. n \in Nat /\ n = Pow2[d] * k + 0
      BY <1>0
    <2> HIDE DEF n
    <2>2. 0 \in 0 .. Pow2[d] - 1 /\ k \in Int
      BY <1>0
    <2> QED BY <1>0, <2>1, <2>2, DivUnique
  <1> HIDE DEF n
  <1>2. Reversed(n, d + b) = Pow2[b] * Reversed(n, d) + Reversed(k, b)
    BY <1>1, ReversedSplit
  <1>3. Reversed(n, d) = 0
    BY <1>1, ReversedLow, ReversedZero
  <1>4. Pow2[b] * 0 = 0 /\ Reversed(k, b) \in Int /\ d + b = b + d
    BY PowStep, ReversedStep, SMTT(30)
  <1> QED BY <1>2, <1>3, <1>4 DEF n

\* In d bits more: the reversal of a number of w bits has d zeros at its end.
LEMMA ReversedWide ==
  ASSUME NEW w \in Nat, NEW n \in 0 .. Pow2[w] - 1, NEW d \in Nat
  PROVE  Reversed(n, w + d) = Pow2[d] * Reversed(n, w)
  <1>1. Pow2[w] \in Nat \ {0} /\ Pow2[d] \in Nat \ {0} /\ n \in Nat
    BY PowStep
  <1>2. n \div Pow2[w] = 0
    BY <1>1, DivSmall
  <1>3. Reversed(n, w) \in Int
    BY <1>1, ReversedStep
  <1>4. Reversed(n, w + d) = Pow2[d] * Reversed(n, w) + Reversed(n \div Pow2[w], d)
    BY <1>1, ReversedSplit
  <1>5. Reversed(n \div Pow2[w], d) = 0
    BY <1>2, ReversedZero
  <1>6. Pow2[d] * Reversed(n, w) \in Int
    BY <1>1, <1>3
  <1> QED BY <1>4, <1>5, <1>6

---------------------------------------------------------------------------
(* Codes and keys: the code of a table that begins a key.                  *)

Counts(count, top) == \A b \in 1 .. top : count[b] \in Nat

\* The keys that begin with the code.
Covers(count, c, key) == KeyOf(count, c) <= key /\ key < KeyOf(count, c) + Pow2[RevBits - c[1]]

\* What is assumed of the constants, one by one.
LEMMA Widths ==
  /\ MaxLength \in Nat /\ RootBits \in Nat /\ RevBits \in Nat /\ CodeLengthBits \in Nat
  /\ MaxLength >= 1 /\ RootBits >= 3 /\ RevBits >= RootBits /\ CodeLengthBits >= 1
  /\ MaxLength - RootBits <= RevBits /\ RootBits < MaxLength
  /\ CodeLengthBits <= RevBits /\ CodeLengthBits <= MaxLength
  BY WidthsAssumption

\* The sum of the weights of the codes of lengths up to n.
Weighted(count, n, W) == SumFunction([b \in 1 .. n |-> count[b] * Pow2[W - b]])

\* The weight of the codes of one length more.
LEMMA WeightedStep ==
  ASSUME NEW W \in Nat, NEW top \in 0 .. W, NEW count, Counts(count, top), NEW b \in 0 .. top
  PROVE  /\ Weighted(count, 0, W) = 0
         /\ Weighted(count, b, W) \in Nat
         /\ b > 0 => /\ Weighted(count, b, W) = Weighted(count, b - 1, W) + count[b] * Pow2[W - b]
                     /\ count[b] \in Nat /\ Weighted(count, b - 1, W) \in Nat
<1>t. top \in Nat /\ b \in Nat /\ W \in Nat
  OBVIOUS
<1>1. Weighted(count, 0, W) = 0
  <2>1. 1 .. 0 = {}
    OBVIOUS
  <2> QED BY <2>1, SumEmpty DEF Weighted
<1> DEFINE F(n) == [j \in 1 .. n |-> count[j] * Pow2[W - j]]
<1>2. ASSUME NEW n \in 0 .. top PROVE F(n) \in [1 .. n -> Nat] /\ FunctionOfInts(F(n)) /\ DOMAIN F(n) = 1 .. n
  <2>1. \A j \in 1 .. n : count[j] * Pow2[W - j] \in Nat
    <3> TAKE j \in 1 .. n
    <3>1. W - j \in Nat /\ j \in 1 .. top
      BY <1>t
    <3>2. count[j] \in Nat /\ Pow2[W - j] \in Nat
      BY <3>1, PowNat DEF Counts
    <3> QED BY <3>2
  <2>2. IsFiniteSet(1 .. n)
    BY FS_Interval
  <2> QED BY <2>1, <2>2 DEF FunctionOfInts
<1>3. ASSUME NEW n \in 0 .. top PROVE Weighted(count, n, W) = SumFunction(F(n)) /\ Weighted(count, n, W) \in Nat
  <2>1. Weighted(count, n, W) = SumFunction(F(n))
    BY DEF Weighted
  <2>2. F(n) \in [1 .. n -> Nat] /\ IsFiniteSet(1 .. n)
    <3>1. n \in Int
      BY <1>t
    <3>2. IsFiniteSet(1 .. n)
      BY <3>1, FS_Interval
    <3> HIDE DEF F
    <3> QED BY <1>2, <3>2
  <2> HIDE DEF F
  <2> QED BY <2>1, <2>2, SumNat
<1>4. ASSUME b > 0 PROVE /\ Weighted(count, b, W) = Weighted(count, b - 1, W) + count[b] * Pow2[W - b]
                         /\ count[b] \in Nat /\ Weighted(count, b - 1, W) \in Nat
  <2>1. b - 1 \in 0 .. top /\ (b - 1) + 1 = b /\ 1 <= (b - 1) + 1 /\ b - 1 \in Int /\ b \in 1 .. top
    BY <1>4, <1>t
  <2> DEFINE f == F(b)
  <2>2. FunctionOfInts(f) /\ DOMAIN f = 1 .. (b - 1) + 1
    BY <1>2, <2>1
  <2>3. [j \in 1 .. b - 1 |-> f[j]] = F(b - 1)
    <3>1. \A j \in 1 .. b - 1 : j \in 1 .. b
      BY <1>t
    <3>2. \A j \in 1 .. b : f[j] = count[j] * Pow2[W - j]
      OBVIOUS
    <3> HIDE DEF f
    <3> QED BY <3>1, <3>2
  <2>4. f[b] = count[b] * Pow2[W - b]
    BY <2>1
  <2> HIDE DEF f
  <2>5. SumFunction(f) = SumFunction([j \in 1 .. b - 1 |-> f[j]]) + f[(b - 1) + 1]
    BY <2>1, <2>2, SumLast, SMTT(30)
  <2>6. Weighted(count, b, W) = SumFunction(f)
    BY <1>3 DEF f
  <2>7. Weighted(count, b - 1, W) = SumFunction(F(b - 1)) /\ Weighted(count, b - 1, W) \in Nat
    BY <1>3, <2>1
  <2>8. count[b] \in Nat
    BY <2>1 DEF Counts
  <2> HIDE DEF F
  <2> QED BY <2>1, <2>3, <2>4, <2>5, <2>6, <2>7, <2>8
<1> QED BY <1>1, <1>3, <1>4

\* The key after the codes of one length more.
LEMMA KeyAfterStep ==
  ASSUME NEW top \in 0 .. RevBits, NEW count, Counts(count, top), NEW b \in 0 .. top
  PROVE  /\ KeyAfter(count, 0) = 0
         /\ KeyAfter(count, b) \in Nat
         /\ b > 0 => /\ KeyAfter(count, b) = KeyAfter(count, b - 1) + count[b] * Pow2[RevBits - b]
                     /\ count[b] \in Nat /\ KeyAfter(count, b - 1) \in Nat
<1>1. RevBits \in Nat
  BY Widths
<1>2. \A n : KeyAfter(count, n) = Weighted(count, n, RevBits)
  BY DEF KeyAfter, Weighted
<1> QED BY <1>1, <1>2, WeightedStep

\* A code is a length and a place in the list of that length.
LEMMA CodeIs ==
  ASSUME NEW top \in 0 .. RevBits, NEW count, NEW c \in CodesUpTo(top, count)
  PROVE  /\ c[1] \in 1 .. top /\ c[2] \in 1 .. count[c[1]] /\ c = <<c[1], c[2]>>
         /\ c[1] \in Nat /\ RevBits - c[1] \in Nat /\ c[1] \in 0 .. top
  BY Widths DEF CodesUpTo

\* The keys of a code lie between the keys after the lengths before and after its own.
LEMMA KeyOfIs ==
  ASSUME NEW top \in 0 .. RevBits, NEW count, Counts(count, top), NEW c \in CodesUpTo(top, count)
  PROVE  /\ KeyOf(count, c) \in Nat
         /\ KeyAfter(count, c[1] - 1) \in Nat /\ KeyAfter(count, c[1] - 1) <= KeyOf(count, c)
         /\ KeyOf(count, c) + Pow2[RevBits - c[1]] <= KeyAfter(count, c[1])
         /\ KeyAfter(count, c[1]) \in Nat
  <1> DEFINE b == c[1]
             k == c[2]
             n == count[b]
             p == Pow2[RevBits - b]
             a == KeyAfter(count, b - 1)
  <1>1. b \in 1 .. top /\ b \in 0 .. top /\ k \in 1 .. n /\ b > 0 /\ p \in Nat \ {0}
    BY CodeIs, PowNat
  <1>2. n \in Nat /\ a \in Nat /\ KeyAfter(count, b) = a + n * p /\ KeyAfter(count, b) \in Nat
    BY <1>1, KeyAfterStep
  <1>3. KeyOf(count, c) = a + (k - 1) * p
    BY DEF KeyOf
  <1> HIDE DEF b, k, n, p, a
  <1>4. k - 1 \in Nat /\ n - k \in Nat
    BY <1>1, <1>2
  <1>5. (k - 1) * p \in Nat /\ (n - k) * p \in Nat
    BY <1>1, <1>4
  <1>6. n * p = (k - 1) * p + p + (n - k) * p
    BY <1>1, <1>2
  <1>7. a <= KeyOf(count, c) /\ KeyOf(count, c) \in Nat /\ KeyOf(count, c) + p <= KeyAfter(count, b)
    BY <1>1, <1>2, <1>3, <1>5, <1>6
  <1> QED BY <1>2, <1>7 DEF b, p, a

\* Longer codes have later keys.
LEMMA KeyAfterGrows ==
  ASSUME NEW top \in 0 .. RevBits, NEW count, Counts(count, top), NEW a \in 0 .. top
  PROVE  \A b \in 0 .. top : a <= b => KeyAfter(count, a) <= KeyAfter(count, b)
<1> DEFINE N == {d \in Nat : a + d <= top => KeyAfter(count, a) <= KeyAfter(count, a + d)}
<1>0. top \in Nat /\ a \in Nat
  BY Widths
<1>1. 0 \in N
  BY <1>0, KeyAfterStep
<1>2. ASSUME NEW d \in Nat, d \in N PROVE d + 1 \in N
  <2> SUFFICES ASSUME a + (d + 1) <= top PROVE KeyAfter(count, a) <= KeyAfter(count, a + (d + 1))
    OBVIOUS
  <2> DEFINE b == a + (d + 1)
  <2>1. b \in 0 .. top /\ b > 0 /\ b - 1 = a + d /\ RevBits - b \in Nat /\ a + d <= top
    BY <1>0, Widths
  <2>2. KeyAfter(count, b) = KeyAfter(count, b - 1) + count[b] * Pow2[RevBits - b]
        /\ count[b] \in Nat /\ KeyAfter(count, b - 1) \in Nat /\ KeyAfter(count, a) \in Nat
    BY <2>1, KeyAfterStep
  <2>3. count[b] * Pow2[RevBits - b] \in Nat
    BY <2>1, <2>2, PowNat
  <2>4. KeyAfter(count, a) <= KeyAfter(count, a + d)
    BY <1>2, <2>1
  <2> HIDE DEF b
  <2>5. KeyAfter(count, a) <= KeyAfter(count, b)
    BY <2>1, <2>2, <2>3, <2>4
  <2> QED BY <2>5 DEF b
<1>3. \A d \in Nat : d \in N
  <2> HIDE DEF N
  <2> QED BY <1>1, <1>2, NatSetInduction
<1>4. \A b \in 0 .. top : a <= b => b - a \in Nat /\ a + (b - a) = b
  BY <1>0
<1> QED BY <1>3, <1>4

\* The keys below those of the longer codes each begin with one code.
LEMMA SomeCodeCovers ==
  ASSUME NEW top \in 0 .. RevBits, NEW count, Counts(count, top),
         NEW key \in Nat, key < KeyAfter(count, top)
  PROVE  \E c \in CodesUpTo(top, count) : Covers(count, c, key)
<1> DEFINE N == {b \in Nat : b <= top /\ key < KeyAfter(count, b)
                              => \E c \in CodesUpTo(top, count) : Covers(count, c, key)}
<1>0. top \in Nat /\ RevBits \in Nat
  BY Widths
<1>1. 0 \in N
  BY <1>0, KeyAfterStep
<1>2. ASSUME NEW d \in Nat, d \in N PROVE d + 1 \in N
  <2> DEFINE b == d + 1
  <2> SUFFICES ASSUME b <= top, key < KeyAfter(count, b)
               PROVE  \E c \in CodesUpTo(top, count) : Covers(count, c, key)
    OBVIOUS
  <2>1. b \in 0 .. top /\ b > 0 /\ b - 1 = d /\ RevBits - b \in Nat /\ b \in 1 .. top
    BY <1>0
  <2>2. KeyAfter(count, b) = KeyAfter(count, d) + count[b] * Pow2[RevBits - b]
        /\ count[b] \in Nat /\ KeyAfter(count, d) \in Nat
    BY <2>1, KeyAfterStep
  <2>3. CASE key < KeyAfter(count, d)
    BY <1>2, <2>1, <2>3
  <2>4. CASE key >= KeyAfter(count, d)
    <3> DEFINE p == Pow2[RevBits - b]
               r == key - KeyAfter(count, d)
               q == r \div p
               c == <<b, q + 1>>
    <3>1. p \in Nat \ {0} /\ r \in Nat /\ r < count[b] * p
      BY <2>1, <2>2, <2>4, PowNat
    <3>2. r = p * q + (r % p) /\ q \in Nat /\ r % p \in 0 .. p - 1
      <4> HIDE DEF p, r
      <4> QED BY <3>1, DivMod
    <3>3. q * p <= r /\ r < q * p + p
      <4> HIDE DEF p, q, r
      <4>1. p * q = q * p /\ p * q \in Int
        BY <3>1, <3>2
      <4> QED BY <3>1, <3>2, <4>1
    <3>4. q < count[b]
      <4> HIDE DEF p, q, r
      <4> SUFFICES ASSUME q >= count[b] PROVE FALSE
        BY <3>2, <2>2
      <4>1. (q - count[b]) * p \in Nat
        BY <2>2, <3>1, <3>2
      <4>2. q * p = count[b] * p + (q - count[b]) * p
        BY <2>2, <3>1, <3>2
      <4>3. q * p >= count[b] * p
        <5>1. count[b] * p \in Int
          BY <2>2, <3>1
        <5> QED BY <4>1, <4>2, <5>1
      <4> QED BY <2>2, <3>1, <3>2, <3>3, <4>3
    <3>5. q + 1 \in 1 .. count[b]
      <4> HIDE DEF q
      <4> QED BY <2>2, <3>2, <3>4
    <3>6. c \in CodesUpTo(top, count)
      <4> HIDE DEF q
      <4> QED BY <2>1, <3>5 DEF CodesUpTo
    <3>7. KeyOf(count, c) = KeyAfter(count, d) + q * p
      <4> HIDE DEF q, p
      <4>1. (q + 1) - 1 = q /\ b - 1 = d
        BY <2>1, <3>2
      <4> QED BY <4>1 DEF KeyOf, p
    <3>8. Covers(count, c, key)
      <4>1. q * p \in Int
        <5> HIDE DEF q, p
        <5> QED BY <3>1, <3>2
      <4>2. KeyAfter(count, d) + r = key
        BY <2>2
      <4> HIDE DEF q, p, r
      <4>3. KeyOf(count, c) <= key /\ key < KeyOf(count, c) + p
        BY <2>2, <3>1, <3>3, <3>7, <4>1, <4>2
      <4> QED BY <4>3 DEF Covers, p
    <3> HIDE DEF c
    <3> QED BY <3>6, <3>8
  <2> HIDE DEF b
  <2> QED BY <2>2, <2>3, <2>4
<1>3. \A d \in Nat : d \in N
  <2> HIDE DEF N
  <2> QED BY <1>1, <1>2, NatSetInduction
<1> QED BY <1>0, <1>3

\* ... and no key with two.
LEMMA OneCodeCovers ==
  ASSUME NEW top \in 0 .. RevBits, NEW count, Counts(count, top), NEW key \in Nat,
         NEW c \in CodesUpTo(top, count), NEW d \in CodesUpTo(top, count),
         Covers(count, c, key), Covers(count, d, key)
  PROVE  c = d
<1>0. top \in Nat /\ RevBits \in Nat
  BY Widths
<1>1. ASSUME NEW x \in CodesUpTo(top, count), NEW y \in CodesUpTo(top, count),
             Covers(count, x, key), Covers(count, y, key), x[1] < y[1]
      PROVE  FALSE
  <2>1. x[1] \in 0 .. top /\ y[1] - 1 \in 0 .. top /\ x[1] <= y[1] - 1 /\ RevBits - x[1] \in Nat
        /\ y[1] \in Nat /\ x[1] \in Nat
    BY <1>0, <1>1, CodeIs
  <2>2. KeyAfter(count, x[1]) <= KeyAfter(count, y[1] - 1)
    BY <2>1, KeyAfterGrows
  <2>3. /\ KeyOf(count, x) + Pow2[RevBits - x[1]] <= KeyAfter(count, x[1])
        /\ KeyAfter(count, y[1] - 1) <= KeyOf(count, y)
        /\ KeyOf(count, x) \in Nat /\ KeyOf(count, y) \in Nat
        /\ KeyAfter(count, x[1]) \in Nat /\ KeyAfter(count, y[1] - 1) \in Nat
    BY KeyOfIs
  <2>4. key < KeyOf(count, x) + Pow2[RevBits - x[1]] /\ KeyOf(count, y) <= key /\ Pow2[RevBits - x[1]] \in Nat
    BY <1>1, <2>1, PowNat DEF Covers
  <2> QED BY <2>2, <2>3, <2>4
<1>2. ASSUME NEW x \in CodesUpTo(top, count), NEW y \in CodesUpTo(top, count),
             Covers(count, x, key), Covers(count, y, key), x[1] = y[1], x[2] < y[2]
      PROVE  FALSE
  <2> DEFINE p == Pow2[RevBits - x[1]]
             a == KeyAfter(count, x[1] - 1)
             j == x[2]
             k == y[2]
  <2>1. j \in Int /\ k \in Int /\ j < k /\ p \in Nat \ {0} /\ a \in Nat
    BY <1>2, CodeIs, KeyOfIs, PowNat
  <2>2. KeyOf(count, x) = a + (j - 1) * p /\ KeyOf(count, y) = a + (k - 1) * p
    BY <1>2 DEF KeyOf
  <2>3. key < KeyOf(count, x) + p /\ KeyOf(count, y) <= key
    BY <1>2 DEF Covers
  <2> HIDE DEF p, a, j, k
  <2>4. (k - 1) * p = (j - 1) * p + p + (k - j - 1) * p
    BY <2>1
  <2>5. k - j - 1 \in Nat
    BY <2>1
  <2>6. (k - j - 1) * p \in Nat /\ (j - 1) * p \in Int
    BY <2>1, <2>5
  <2> QED BY <2>1, <2>2, <2>3, <2>4, <2>6
<1>3. c[1] = d[1]
  <2>1. c[1] \in Int /\ d[1] \in Int
    BY CodeIs
  <2> QED BY <1>1, <2>1
<1>4. c[2] = d[2]
  <2>1. c[2] \in Int /\ d[2] \in Int
    BY CodeIs
  <2> QED BY <1>2, <1>3, <2>1
<1> QED BY <1>3, <1>4, CodeIs

\* Where the reversal of a key with b bits that count is an index's low bits.
LEMMA IndexHits ==
  ASSUME NEW R \in Nat, NEW b \in 0 .. R, NEW q \in 0 .. Pow2[b] - 1, NEW i \in Nat
  PROVE  /\ Reversed(q * Pow2[R - b], R) = Reversed(q, b)
         /\ (i % Pow2[b] = Reversed(q, b))
              <=> (q * Pow2[R - b] <= Reversed(i, R) /\ Reversed(i, R) < q * Pow2[R - b] + Pow2[R - b])
         /\ Reversed(q, b) \in 0 .. Pow2[b] - 1
  <1> DEFINE p == Pow2[R - b]
             v == Reversed(i, b)
             u == Reversed(i \div Pow2[b], R - b)
  <1>0. b \in Nat /\ R - b \in Nat /\ q \in Nat /\ b + (R - b) = R /\ Pow2[b] \in Nat \ {0} /\ p \in Nat \ {0}
    <2>1. b \in Nat /\ R - b \in Nat /\ b + (R - b) = R
      OBVIOUS
    <2>2. Pow2[b] \in Nat \ {0} /\ p \in Nat \ {0}
      BY <2>1, PowNat
    <2> QED BY <2>1, <2>2
  <1>1. Reversed(q * p, R) = Reversed(q, b)
    <2>1. Reversed(q * Pow2[R - b], b + (R - b)) = Reversed(q, b)
      BY <1>0, ReversedShift
    <2> QED BY <1>0, <2>1
  <1>2. Reversed(i, R) = p * v + u
    <2>1. Reversed(i, b + (R - b)) = p * v + u
      BY <1>0, ReversedSplit
    <2> QED BY <1>0, <2>1
  <1>3. v \in Nat /\ u \in 0 .. p - 1
    <2>1. i \div Pow2[b] \in Nat
      BY <1>0, DivMod
    <2> QED BY <1>0, <2>1, ReversedType
  <1>4. Reversed(v, b) = i % Pow2[b]
    BY <1>0, ReversedTwice
  <1>5. Reversed(Reversed(q, b), b) = q
    <2>1. Reversed(Reversed(q, b), b) = q % Pow2[b]
      BY <1>0, ReversedTwice
    <2>2. q % Pow2[b] = q
      BY <1>0, DivSmall
    <2> QED BY <2>1, <2>2
  <1>6. Reversed(i % Pow2[b], b) = v
    BY <1>0, ReversedLow
  <1>7. (i % Pow2[b] = Reversed(q, b)) <=> (v = q)
    BY <1>4, <1>5, <1>6
  <1>8. (v = q) <=> (q * p <= p * v + u /\ p * v + u < q * p + p)
    <2> HIDE DEF p, v, u
    <2>0. p * v \in Int /\ q * p \in Int
      BY <1>0, <1>3
    <2>1. ASSUME v = q PROVE q * p <= p * v + u /\ p * v + u < q * p + p
      <3>1. p * v = q * p
        BY <1>0, <1>3, <2>1
      <3> QED BY <1>0, <1>3, <2>0, <3>1
    <2>2. ASSUME v < q PROVE p * v + u < q * p
      <3>1. q * p = p * v + p + (q - v - 1) * p
        BY <1>0, <1>3
      <3>2. (q - v - 1) * p \in Nat
        BY <1>0, <1>3, <2>2
      <3> QED BY <1>0, <1>3, <2>0, <3>1, <3>2
    <2>3. ASSUME v > q PROVE p * v + u >= q * p + p
      <3>1. p * v = q * p + p + (v - q - 1) * p
        BY <1>0, <1>3
      <3>2. (v - q - 1) * p \in Nat
        BY <1>0, <1>3, <2>3
      <3> QED BY <1>0, <1>3, <2>0, <3>1, <3>2
    <2> QED BY <1>0, <1>3, <2>0, <2>1, <2>2, <2>3
  <1>9. Reversed(q, b) \in 0 .. Pow2[b] - 1
    BY <1>0, ReversedType
  <1> QED BY <1>1, <1>2, <1>7, <1>8, <1>9

\* The key after a length is a multiple of a code of that length.
LEMMA KeyAfterAligned ==
  ASSUME NEW top \in 0 .. RevBits, NEW count, Counts(count, top)
  PROVE  \A b \in 0 .. top : \E q \in Nat : KeyAfter(count, b) = q * Pow2[RevBits - b]
<1> DEFINE N == {b \in Nat : b <= top => \E q \in Nat : KeyAfter(count, b) = q * Pow2[RevBits - b]}
<1>0. top \in Nat /\ RevBits \in Nat
  BY Widths
<1>1. 0 \in N
  <2>1. KeyAfter(count, 0) = 0 * Pow2[RevBits - 0]
    BY <1>0, KeyAfterStep, PowNat
  <2> QED BY <2>1
<1>2. ASSUME NEW d \in Nat, d \in N PROVE d + 1 \in N
  <2> DEFINE b == d + 1
  <2> SUFFICES ASSUME b <= top PROVE \E q \in Nat : KeyAfter(count, b) = q * Pow2[RevBits - b]
    OBVIOUS
  <2>1. b \in 0 .. top /\ b > 0 /\ b - 1 = d /\ RevBits - b \in Nat /\ RevBits - d = (RevBits - b) + 1
    BY <1>0
  <2>2. KeyAfter(count, b) = KeyAfter(count, d) + count[b] * Pow2[RevBits - b]
        /\ count[b] \in Nat
    BY <2>1, KeyAfterStep
  <2>3. PICK q \in Nat : KeyAfter(count, d) = q * Pow2[RevBits - d]
    BY <1>2, <2>1
  <2> DEFINE p == Pow2[RevBits - b]
  <2>4. Pow2[RevBits - d] = 2 * p /\ p \in Nat
    BY <2>1, PowStep
  <2> HIDE DEF p
  <2>5. q * (2 * p) + count[b] * p = (2 * q + count[b]) * p
    BY <2>2, <2>4
  <2>6. 2 * q + count[b] \in Nat
    BY <2>2
  <2> HIDE DEF b
  <2> QED BY <2>2, <2>3, <2>4, <2>5, <2>6 DEF p
<1>3. \A d \in Nat : d \in N
  <2> HIDE DEF N
  <2> QED BY <1>1, <1>2, NatSetInduction
<1> QED BY <1>0, <1>3

\* The key of a code is a multiple of what it covers.
LEMMA KeyAligned ==
  ASSUME NEW top \in 0 .. RevBits, NEW count, Counts(count, top),
         KeyAfter(count, top) <= Pow2[RevBits], NEW c \in CodesUpTo(top, count)
  PROVE  \E q \in 0 .. Pow2[c[1]] - 1 : KeyOf(count, c) = q * Pow2[RevBits - c[1]]
  <1> DEFINE b == c[1]
             k == c[2] - 1
             p == Pow2[RevBits - b]
  <1>0. b \in 1 .. top /\ b - 1 \in 0 .. top /\ k \in Nat /\ RevBits - b \in Nat /\ b \in Nat
        /\ RevBits - (b - 1) = (RevBits - b) + 1 /\ b + (RevBits - b) = RevBits /\ b \in 0 .. top
    <2>1. b \in 1 .. top /\ c[2] \in 1 .. count[b] /\ RevBits - b \in Nat /\ b \in Nat /\ RevBits \in Nat
      BY CodeIs, Widths
    <2>2. count[b] \in Nat
      BY <2>1 DEF Counts
    <2> HIDE DEF b
    <2> QED BY <2>1, <2>2
  <1>1. PICK q \in Nat : KeyAfter(count, b - 1) = q * Pow2[RevBits - (b - 1)]
    BY <1>0, KeyAfterAligned
  <1>2. Pow2[RevBits - (b - 1)] = 2 * p /\ p \in Nat \ {0}
    BY <1>0, PowStep
  <1>3. KeyOf(count, c) = KeyAfter(count, b - 1) + k * p
    BY DEF KeyOf
  <1> DEFINE m == 2 * q + k
  <1>4. m \in Nat /\ KeyOf(count, c) = m * p
    <2> HIDE DEF b, k, p
    <2>1. q * (2 * p) + k * p = (2 * q + k) * p
      BY <1>0, <1>2
    <2> QED BY <1>0, <1>1, <1>2, <1>3, <2>1
  <1>5. m < Pow2[b]
    <2>1. Pow2[RevBits] = Pow2[b] * p /\ Pow2[b] \in Nat
      <3>1. Pow2[b + (RevBits - b)] = Pow2[b] * Pow2[RevBits - b]
        BY <1>0, PowSum
      <3> QED BY <1>0, <3>1, PowNat
    <2>2. KeyOf(count, c) + p <= KeyAfter(count, b) /\ KeyAfter(count, b) \in Nat
      BY KeyOfIs
    <2>3. KeyAfter(count, b) <= KeyAfter(count, top) /\ KeyAfter(count, top) \in Nat
      <3>1. top \in 0 .. top /\ b <= top
        BY <1>0, Widths
      <3> QED BY <1>0, <3>1, KeyAfterGrows, KeyAfterStep
    <2>4. Pow2[RevBits] \in Nat
      BY Widths, PowNat
    <2> HIDE DEF b, p, m
    <2> SUFFICES ASSUME m >= Pow2[b] PROVE FALSE
      BY <1>4, <2>1
    <2>5. m * p = Pow2[b] * p + (m - Pow2[b]) * p /\ (m - Pow2[b]) * p \in Nat /\ Pow2[b] * p \in Nat
      <3>1. m - Pow2[b] \in Nat
        BY <1>4, <2>1
      <3> QED BY <1>2, <1>4, <2>1, <3>1
    <2> QED BY <1>2, <1>4, <2>1, <2>2, <2>3, <2>4, <2>5
  <1>6. m \in 0 .. Pow2[b] - 1
    <2>1. Pow2[b] \in Nat
      BY <1>0, PowNat
    <2> HIDE DEF m, b
    <2> QED BY <1>4, <1>5, <2>1
  <1> HIDE DEF m
  <1> QED BY <1>4, <1>6

\* The entries of a table: each code that covers the key of an index is there.
LEMMA HitsAre ==
  ASSUME NEW top \in 0 .. RevBits, NEW count, Counts(count, top),
         KeyAfter(count, top) <= Pow2[RevBits], NEW c \in CodesUpTo(top, count), NEW i \in Nat
  PROVE  /\ (i % Pow2[c[1]] = ReverseBits(KeyOf(count, c))) <=> Covers(count, c, ReverseBits(i))
         /\ ReverseBits(KeyOf(count, c)) \in 0 .. Pow2[c[1]] - 1
  <1>1. PICK q \in 0 .. Pow2[c[1]] - 1 : KeyOf(count, c) = q * Pow2[RevBits - c[1]]
    BY KeyAligned
  <1>2. c[1] \in 0 .. RevBits /\ RevBits \in Nat
    BY CodeIs, Widths
  <1> QED BY <1>1, <1>2, IndexHits DEF ReverseBits, Covers

\* The entry of an index is that of the one code that covers the reversed index:
\* no code overwrites another's, whatever the order in which they are placed.
LEMMA RootTableIs ==
  ASSUME NEW top \in 0 .. RevBits, NEW count, Counts(count, top),
         KeyAfter(count, top) <= Pow2[RevBits], NEW symbolsOf, NEW i \in 0 .. Pow2[top] - 1
  PROVE  /\ DOMAIN RootTable(top, symbolsOf, count) = 0 .. Pow2[top] - 1
         /\ \A c \in CodesUpTo(top, count) :
              Covers(count, c, ReverseBits(i))
                => RootTable(top, symbolsOf, count)[i] = HuffmanCode(c[1], symbolsOf[c[1]][c[2]])
         /\ (\A c \in CodesUpTo(top, count) : ~Covers(count, c, ReverseBits(i)))
              => RootTable(top, symbolsOf, count)[i] = Unwritten
  <1> DEFINE Here == {c \in CodesUpTo(top, count) : i % Pow2[c[1]] = ReverseBits(KeyOf(count, c))}
             Later(c, d) == c[1] > d[1] \/ (c[1] = d[1] /\ c[2] >= d[2])
             Entry == CHOOSE c \in Here : \A d \in Here : Later(c, d)
  <1>0. i \in Nat /\ ReverseBits(i) \in Nat
    <2>1. i \in Nat
      BY Widths, PowNat
    <2> QED BY <2>1, Widths, ReversedType DEF ReverseBits
  <1>1. DOMAIN RootTable(top, symbolsOf, count) = 0 .. Pow2[top] - 1
    BY DEF RootTable
  <1>2. RootTable(top, symbolsOf, count)[i]
          = IF Here = {} THEN Unwritten ELSE HuffmanCode(Entry[1], symbolsOf[Entry[1]][Entry[2]])
    BY DEF RootTable
  <1>3. Here = {c \in CodesUpTo(top, count) : Covers(count, c, ReverseBits(i))}
    BY <1>0, HitsAre
  <1>4. ASSUME NEW c \in CodesUpTo(top, count), Covers(count, c, ReverseBits(i))
        PROVE  Here = {c} /\ Entry = c
    <2>1. Here = {c}
      <3> HIDE DEF Here
      <3> QED BY <1>0, <1>3, <1>4, OneCodeCovers
    <2>2. c[1] \in Int /\ c[2] \in Int
      BY CodeIs
    <2>3. Later(c, c)
      BY <2>2
    <2> HIDE DEF Here, Later
    <2> QED BY <2>1, <2>3
  <1> HIDE DEF Here, Entry
  <1> QED BY <1>1, <1>2, <1>3, <1>4

---------------------------------------------------------------------------
(* The counting sort by length.                                            *)

\* Numbers have a least.
LEMMA Least ==
  ASSUME NEW T, T \subseteq Nat, T # {}
  PROVE  \E x \in T : \A y \in T : x <= y
  <1>1. IsWellFoundedOn(OpToRel(<, Nat), Nat)
    BY NatLessThanWellFounded
  <1>2. PICK x \in T : \A y \in T : ~ (<<y, x>> \in OpToRel(<, Nat))
    BY <1>1, WFMin
  <1>3. \A y \in T : ~(y < x)
    BY <1>2 DEF OpToRel
  <1> QED
    BY <1>3

Above(S, s) == {t \in S : t > s}

Below(S, s) == {t \in S : t < s}

\* The others are above an element or below it.
LEMMA AboveOrBelow ==
  ASSUME NEW S \in SUBSET Nat, IsFiniteSet(S), NEW s \in S
  PROVE  /\ Cardinality(S) = Cardinality(Below(S, s)) + 1 + Cardinality(Above(S, s))
         /\ Cardinality(Below(S, s)) \in Nat /\ Cardinality(Above(S, s)) \in Nat /\ Cardinality(S) \in Nat
         /\ IsFiniteSet(Below(S, s)) /\ IsFiniteSet(Above(S, s))
  <1>1. /\ IsFiniteSet(Below(S, s)) /\ IsFiniteSet(Above(S, s))
        /\ Cardinality(Below(S, s)) \in Nat /\ Cardinality(Above(S, s)) \in Nat /\ Cardinality(S) \in Nat
    BY Smaller, FS_CardinalityType DEF Below, Above
  <1>2. S \ {s} = Below(S, s) \cup Above(S, s) /\ Below(S, s) \cap Above(S, s) = {}
    <2>1. ASSUME NEW t \in S PROVE (t # s) <=> (t < s \/ t > s)
      <3>1. t \in Nat /\ s \in Nat
        OBVIOUS
      <3> QED BY <3>1
    <2>2. ASSUME NEW t \in S PROVE ~(t < s /\ t > s)
      <3>1. t \in Nat /\ s \in Nat
        OBVIOUS
      <3> QED BY <3>1
    <2>3. ~(s < s) /\ ~(s > s)
      <3>1. s \in Nat
        OBVIOUS
      <3> QED BY <3>1
    <2> QED BY <2>1, <2>2, <2>3, Zenon DEF Below, Above
  <1>3. Cardinality(S \ {s}) = Cardinality(S) - 1
    BY FS_RemoveElement
  <1>4. Cardinality(S \ {s}) = Cardinality(Below(S, s)) + Cardinality(Above(S, s)) - 0
    <2>1. Cardinality(Below(S, s) \cup Above(S, s))
            = Cardinality(Below(S, s)) + Cardinality(Above(S, s)) - Cardinality(Below(S, s) \cap Above(S, s))
      BY <1>1, FS_Union, Zenon
    <2>2. Cardinality({}) = 0
      BY FS_EmptySet, Zenon
    <2> QED BY <1>2, <2>1, <2>2, Zenon
  <1> QED BY <1>1, <1>3, <1>4

\* No two elements have as many below them.
LEMMA SameRank ==
  ASSUME NEW S \in SUBSET Nat, IsFiniteSet(S), NEW s \in S, NEW t \in S,
         Cardinality(Below(S, s)) = Cardinality(Below(S, t))
  PROVE  s = t
<1>1. ASSUME NEW x \in S, NEW y \in S, x < y, Cardinality(Below(S, x)) = Cardinality(Below(S, y)) PROVE FALSE
  <2>1. Below(S, x) \in SUBSET Below(S, y) /\ x \in Below(S, y) /\ x \notin Below(S, x)
    <3>1. ASSUME NEW z \in S, z < x PROVE z < y
      <4>1. x \in Nat /\ y \in Nat /\ z \in Nat
        OBVIOUS
      <4> QED BY <1>1, <3>1, <4>1
    <3>2. ~(x < x)
      <4>1. x \in Nat
        OBVIOUS
      <4> QED BY <4>1
    <3> QED BY <1>1, <3>1, <3>2, Zenon DEF Below
  <2>2. IsFiniteSet(Below(S, y))
    BY AboveOrBelow
  <2>3. Below(S, y) = Below(S, x)
    BY <1>1, <2>1, <2>2, FS_Subset
  <2> QED BY <2>1, <2>3
<1> QED BY <1>1

\* For each number there is an element with as many above it.
LEMMA EveryRank ==
  ASSUME NEW S \in SUBSET Nat, IsFiniteSet(S), NEW k \in 0 .. Cardinality(S) - 1
  PROVE  \E s \in S : Cardinality(Above(S, s)) = k
<1> DEFINE N == {n \in Nat : \A T \in SUBSET S : Cardinality(T) = n
                               => \A j \in 0 .. n - 1 : \E s \in T : Cardinality(Above(T, s)) = j}
<1>1. 0 \in N
  OBVIOUS
<1>2. ASSUME NEW n \in Nat, n \in N PROVE n + 1 \in N
  <2> SUFFICES ASSUME NEW T \in SUBSET S, Cardinality(T) = n + 1, NEW j \in 0 .. n
               PROVE  \E s \in T : Cardinality(Above(T, s)) = j
    OBVIOUS
  <2>0. IsFiniteSet(T) /\ T # {} /\ T \subseteq Nat
    <3>1. IsFiniteSet(T)
      BY FS_Subset
    <3>2. T # {}
      BY <3>1, FS_EmptySet
    <3> QED BY <3>1, <3>2
  <2>1. PICK m \in T : \A y \in T : m <= y
    BY <2>0, Least
  <2>2. Above(T, m) = T \ {m}
    <3>1. ASSUME NEW t \in T PROVE (t # m) <=> t > m
      <4>1. m \in Nat /\ t \in Nat /\ m <= t
        BY <2>0, <2>1
      <4> QED BY <4>1
    <3> QED BY <3>1, Zenon DEF Above
  <2>3. Cardinality(T \ {m}) = n /\ T \ {m} \in SUBSET S
    <3>1. Cardinality(T \ {m}) = Cardinality(T) - 1
      BY <2>0, FS_RemoveElement
    <3> QED BY <3>1
  <2>4. CASE j = n
    BY <2>2, <2>3, <2>4
  <2>5. CASE j # n
    <3>1. j \in 0 .. n - 1
      BY <2>5
    <3>2. PICK s \in T \ {m} : Cardinality(Above(T \ {m}, s)) = j
      BY <1>2, <2>3, <3>1
    <3>3. Above(T \ {m}, s) = Above(T, s)
      BY <2>0, <2>1 DEF Above
    <3> QED BY <3>2, <3>3
  <2> QED BY <2>4, <2>5
<1>3. Cardinality(S) \in N
  <2>1. Cardinality(S) \in Nat
    BY FS_CardinalityType
  <2> HIDE DEF N
  <2> QED BY <1>1, <1>2, <2>1, NatSetInduction
<1> QED BY <1>3

---------------------------------------------------------------------------

\* The symbols of one length, of n symbols.
Group(lengths, n, b) == {x \in 0 .. n - 1 : lengths[x] = b}

\* symbolsOf lists the symbols of every length in turn, and count counts them.
Listing(lengths, n, count, symbolsOf, top) ==
  \A b \in 1 .. top :
    /\ count[b] = Cardinality(Group(lengths, n, b))
    /\ \A k \in 1 .. count[b] :
         /\ symbolsOf[b][k] \in Group(lengths, n, b)
         /\ Cardinality(Below(Group(lengths, n, b), symbolsOf[b][k])) = k - 1

\* The symbols of one length.
LEMMA GroupIs ==
  ASSUME NEW n \in Nat, NEW lengths, NEW b
  PROVE  /\ Group(lengths, n, b) \in SUBSET Nat /\ IsFiniteSet(Group(lengths, n, b))
         /\ Cardinality(Group(lengths, n, b)) \in Nat
  <1>1. Group(lengths, n, b) \in SUBSET (0 .. n - 1) /\ IsFiniteSet(0 .. n - 1)
    BY FS_Interval DEF Group
  <1> QED BY <1>1, FS_Subset, FS_CardinalityType

\* Sums over the first numbers of a list.
LEMMA PrefixSums ==
  ASSUME NEW top \in Nat, NEW f \in [1 .. top -> Nat], NEW b \in 0 .. top
  PROVE  LET S(n) == SumFunction([j \in 1 .. n |-> f[j]])
         IN  /\ S(0) = 0 /\ S(b) \in Nat
             /\ b > 0 => S(b) = S(b - 1) + f[b] /\ S(b - 1) \in Nat
<1> DEFINE F(n) == [j \in 1 .. n |-> f[j]]
<1>1. SumFunction(F(0)) = 0
  <2>1. 1 .. 0 = {}
    OBVIOUS
  <2> QED BY <2>1, SumEmpty
<1>2. ASSUME NEW n \in 0 .. top PROVE /\ F(n) \in [1 .. n -> Nat] /\ FunctionOfInts(F(n)) /\ DOMAIN F(n) = 1 .. n
                                      /\ IsFiniteSet(1 .. n)
  <2>1. \A j \in 1 .. n : f[j] \in Nat
    OBVIOUS
  <2>2. IsFiniteSet(1 .. n)
    BY FS_Interval
  <2> QED BY <2>1, <2>2 DEF FunctionOfInts
<1>3. ASSUME NEW n \in 0 .. top PROVE SumFunction(F(n)) \in Nat
  <2> DEFINE g == F(n)
  <2>1. g \in [1 .. n -> Nat] /\ IsFiniteSet(1 .. n)
    BY <1>2
  <2> HIDE DEF g
  <2>2. SumFunction(g) \in Nat
    BY <2>1, SumNat
  <2> QED BY <2>2 DEF g
<1>4. ASSUME b > 0 PROVE SumFunction(F(b)) = SumFunction(F(b - 1)) + f[b] /\ SumFunction(F(b - 1)) \in Nat
  <2>1. b - 1 \in 0 .. top /\ (b - 1) + 1 = b /\ 1 <= (b - 1) + 1 /\ b - 1 \in Int /\ b \in 1 .. top
    BY <1>4
  <2> DEFINE g == F(b)
  <2>2. FunctionOfInts(g) /\ DOMAIN g = 1 .. (b - 1) + 1
    BY <1>2, <2>1
  <2>3. [j \in 1 .. b - 1 |-> g[j]] = F(b - 1) /\ g[b] = f[b]
    <3>1. \A j \in 1 .. b - 1 : j \in 1 .. b
      OBVIOUS
    <3>2. \A j \in 1 .. b : g[j] = f[j]
      OBVIOUS
    <3>3. b \in 1 .. b
      BY <2>1
    <3> HIDE DEF g
    <3> QED BY <3>1, <3>2, <3>3
  <2> HIDE DEF g
  <2>4. SumFunction(g) = SumFunction([j \in 1 .. b - 1 |-> g[j]]) + g[(b - 1) + 1]
    <3>1. 1 \in Int
      OBVIOUS
    <3> QED BY <2>1, <2>2, <3>1, SumLast
  <2>5. SumFunction(F(b - 1)) \in Nat
    BY <1>3, <2>1
  <2>6. SumFunction(g) = SumFunction(F(b - 1)) + f[b]
    BY <2>1, <2>3, <2>4
  <2> QED BY <2>5, <2>6 DEF g
<1> QED BY <1>1, <1>3, <1>4

\* ... are larger for more of them.
LEMMA PrefixSumsGrow ==
  ASSUME NEW top \in Nat, NEW f \in [1 .. top -> Nat], NEW a \in 0 .. top
  PROVE  LET S(n) == SumFunction([j \in 1 .. n |-> f[j]])
         IN  \A b \in 0 .. top : a <= b => S(a) <= S(b)
<1> DEFINE S(n) == SumFunction([j \in 1 .. n |-> f[j]])
           N == {d \in Nat : a + d <= top => S(a) <= S(a + d)}
<1>0. \A b \in 0 .. top : S(b) \in Nat
  BY PrefixSums
<1>1. \A b \in 1 .. top : S(b) = S(b - 1) + f[b]
  <2> TAKE b \in 1 .. top
  <2>1. b \in 0 .. top /\ b > 0
    OBVIOUS
  <2> QED BY <2>1, PrefixSums
<1> HIDE DEF S
<1>2. 0 \in N
  BY <1>0
<1>3. ASSUME NEW d \in Nat, d \in N PROVE d + 1 \in N
  <2> SUFFICES ASSUME a + (d + 1) <= top PROVE S(a) <= S(a + (d + 1))
    OBVIOUS
  <2>1. a + (d + 1) \in 1 .. top /\ (a + (d + 1)) - 1 = a + d /\ a + d \in 0 .. top /\ a + d <= top
    OBVIOUS
  <2>2. S(a + (d + 1)) = S(a + d) + f[a + (d + 1)] /\ f[a + (d + 1)] \in Nat
    BY <1>1, <2>1
  <2>3. S(a + d) \in Nat /\ S(a) \in Nat /\ S(a) <= S(a + d)
    BY <1>0, <1>3, <2>1
  <2> QED BY <2>2, <2>3
<1>4. \A d \in Nat : d \in N
  <2> HIDE DEF N
  <2> QED BY <1>2, <1>3, NatSetInduction
<1>5. \A b \in 0 .. top : a <= b => b - a \in Nat /\ a + (b - a) = b
  OBVIOUS
<1>6. \A b \in 0 .. top : a <= b => S(a) <= S(b)
  BY <1>4, <1>5
<1> QED BY <1>6 DEF S

\* The counting sort of the code lengths.
LEMMA SamePlace ==
  ASSUME NEW u \in Nat, NEW C \in Nat, NEW B \in Nat, NEW k \in Nat, k >= 1, k <= B, u < C,
         NEW Sc \in Nat, NEW Sb \in Nat, NEW Tc \in Nat, NEW Tb \in Nat,
         Sc = Tc + C, Sb = Tb + B, Sc - 1 - u = Sb - 1 - (B - k)
  PROVE  ~(Sc <= Tb) /\ ~(Sb <= Tc) /\ (Sc = Sb => u = B - k)
  OBVIOUS

\* The counting sort lists the symbols of each length in their order.
LEMMA SortedIsListing ==
  ASSUME NEW n \in Nat, NEW lengths \in [0 .. n - 1 -> 0 .. CodeLengthBits], NEW count,
         \A b \in 1 .. CodeLengthBits : count[b] = Cardinality(Group(lengths, n, b))
  PROVE  Listing(lengths, n, count, SortedByLength(lengths, count, n), CodeLengthBits)
<1> DEFINE top == CodeLengthBits
           f == [b \in 1 .. top |-> count[b]]
           S(b) == SumFunction([j \in 1 .. b |-> f[j]])
           LastPlace(b) == SumFunction([j \in 1 .. b |-> count[j]]) - 1
           Place(s) == LastPlace(lengths[s]) - Cardinality({t \in s + 1 .. n - 1 : lengths[t] = lengths[s]})
           At(p) == {s \in 0 .. n - 1 : lengths[s] # 0 /\ Place(s) = p}
           G(b) == Group(lengths, n, b)
<1>0. top \in Nat /\ top >= 1
  BY Widths
<1>1. \A b \in 1 .. top : count[b] \in Nat /\ G(b) \in SUBSET Nat /\ IsFiniteSet(G(b))
  BY GroupIs
<1>2. f \in [1 .. top -> Nat]
  BY <1>1
<1>3. \A b \in 0 .. top : LastPlace(b) = S(b) - 1 /\ S(b) \in Nat
  <2> TAKE b \in 0 .. top
  <2>1. [j \in 1 .. b |-> f[j]] = [j \in 1 .. b |-> count[j]]
    <3>1. \A j \in 1 .. b : j \in 1 .. top
      BY <1>0
    <3> QED BY <3>1
  <2>2. S(b) \in Nat
    <3> HIDE DEF f, top
    <3> QED BY <1>0, <1>2, PrefixSums
  <2>3. LastPlace(b) = S(b) - 1
    BY <2>1
  <2> HIDE DEF S, LastPlace
  <2> QED BY <2>2, <2>3
<1>4. \A b \in 1 .. top : S(b) = S(b - 1) + count[b] /\ b - 1 \in 0 .. top /\ b \in 0 .. top
  <2> TAKE b \in 1 .. top
  <2>1. b \in 0 .. top /\ b > 0 /\ b - 1 \in 0 .. top
    BY <1>0
  <2>2. S(b) = S(b - 1) + f[b]
    <3> HIDE DEF f, top
    <3> QED BY <1>0, <1>2, <2>1, PrefixSums
  <2>3. f[b] = count[b]
    OBVIOUS
  <2> HIDE DEF S
  <2> QED BY <2>1, <2>2, <2>3
<1>5. \A a, b \in 0 .. top : a <= b => S(a) <= S(b)
  <2> HIDE DEF f, top
  <2> QED BY <1>0, <1>2, PrefixSumsGrow
<1>6. \A s \in 0 .. n - 1 : lengths[s] # 0 =>
        /\ lengths[s] \in 1 .. top /\ s \in G(lengths[s])
        /\ Place(s) = S(lengths[s]) - 1 - Cardinality(Above(G(lengths[s]), s))
        /\ Cardinality(Above(G(lengths[s]), s)) \in Nat
        /\ Cardinality(Above(G(lengths[s]), s)) < count[lengths[s]]
  <2> TAKE s \in 0 .. n - 1
  <2> HAVE lengths[s] # 0
  <2> DEFINE b == lengths[s]
  <2>1. b \in 1 .. top /\ s \in G(b) /\ b \in 0 .. top
    BY <1>0 DEF Group
  <2>2. {t \in s + 1 .. n - 1 : lengths[t] = b} = Above(G(b), s)
    BY DEF Above, Group
  <2>3. Place(s) = LastPlace(b) - Cardinality(Above(G(b), s))
    BY <2>2
  <2>4. Cardinality(G(b)) = Cardinality(Below(G(b), s)) + 1 + Cardinality(Above(G(b), s))
        /\ Cardinality(Below(G(b), s)) \in Nat /\ Cardinality(Above(G(b), s)) \in Nat
    <3> HIDE DEF G, b
    <3> QED BY <1>1, <2>1, AboveOrBelow
  <2>5. count[b] = Cardinality(G(b)) /\ count[b] \in Nat
    BY <2>1, <1>1
  <2>6. LastPlace(b) = S(b) - 1
    <3> HIDE DEF S, LastPlace, b
    <3> QED BY <1>3, <2>1
  <2> HIDE DEF S, LastPlace, Place, G, b
  <2>7. b \in 1 .. top /\ s \in G(b) /\ Place(s) = S(b) - 1 - Cardinality(Above(G(b), s))
        /\ Cardinality(Above(G(b), s)) \in Nat /\ Cardinality(Above(G(b), s)) < count[b]
    BY <2>1, <2>3, <2>4, <2>5, <2>6
  <2> QED BY <2>7 DEF b
<1>7. ASSUME NEW b \in 1 .. top, NEW k \in 1 .. count[b]
      PROVE  \E s \in G(b) : At(LastPlace(b) - count[b] + k) = {s} /\ Cardinality(Below(G(b), s)) = k - 1
  <2> DEFINE p == LastPlace(b) - count[b] + k
  <2>1. count[b] \in Nat /\ count[b] = Cardinality(G(b)) /\ k \in Nat /\ count[b] - k \in 0 .. Cardinality(G(b)) - 1
    <3>1. count[b] \in Nat /\ count[b] = Cardinality(G(b))
      BY <1>1
    <3> HIDE DEF G
    <3> QED BY <3>1
  <2>2. PICK s \in G(b) : Cardinality(Above(G(b), s)) = count[b] - k
    <3> HIDE DEF G
    <3> QED BY <1>1, <2>1, EveryRank
  <2>3. s \in 0 .. n - 1 /\ lengths[s] = b /\ b # 0 /\ b \in 0 .. top /\ b \in Int
    BY <1>0 DEF Group
  <2>4. LastPlace(b) = S(b) - 1 /\ S(b) \in Nat
    <3> HIDE DEF S, LastPlace
    <3> QED BY <1>3, <2>3
  <2>5. p = S(b) - 1 - (count[b] - k)
    <3> HIDE DEF S, LastPlace
    <3> QED BY <2>1, <2>4
  <2>6. s \in At(p)
    <3>1. Place(s) = S(b) - 1 - (count[b] - k)
      <4> HIDE DEF S, Place, G
      <4> QED BY <1>6, <2>2, <2>3
    <3> HIDE DEF p, Place, S
    <3> QED BY <2>3, <2>5, <3>1
  <2>7. Cardinality(Below(G(b), s)) = k - 1
    <3>1. Cardinality(G(b)) = Cardinality(Below(G(b), s)) + 1 + Cardinality(Above(G(b), s))
          /\ Cardinality(Below(G(b), s)) \in Nat
      <4> HIDE DEF G
      <4> QED BY <1>1, AboveOrBelow
    <3>2. Cardinality(Above(G(b), s)) = count[b] - k /\ Cardinality(G(b)) = count[b] /\ count[b] \in Nat /\ k \in Nat
      BY <2>1, <2>2
    <3> DEFINE x == Cardinality(Below(G(b), s))
               y == Cardinality(Above(G(b), s))
               z == Cardinality(G(b))
    <3> HIDE DEF x, y, z
    <3>3. z = x + 1 + y /\ x \in Nat /\ y = count[b] - k /\ z = count[b]
      BY <3>1, <3>2 DEF x, y, z
    <3>4. x = k - 1
      BY <3>2, <3>3
    <3> QED BY <3>4 DEF x
  <2>8. ASSUME NEW t \in At(p) PROVE t = s
    <3> DEFINE c == lengths[t]
               u == Cardinality(Above(G(c), t))
    <3>1. t \in 0 .. n - 1 /\ lengths[t] # 0 /\ Place(t) = p
      OBVIOUS
    <3>2. c \in 1 .. top /\ t \in G(c) /\ Place(t) = S(c) - 1 - u /\ u \in Nat /\ u < count[c]
      <4> HIDE DEF S, Place, G
      <4> QED BY <1>6, <3>1
    <3> HIDE DEF c
    <3>3. count[c] \in Nat /\ S(c) = S(c - 1) + count[c] /\ c - 1 \in 0 .. top /\ c \in 0 .. top /\ c \in Int
      <4> HIDE DEF S
      <4> QED BY <1>1, <1>4, <3>2
    <3>4. S(b) = S(b - 1) + count[b] /\ b - 1 \in 0 .. top
      <4> HIDE DEF S
      <4> QED BY <1>4
    <3>5. S(c) \in Nat /\ S(c - 1) \in Nat /\ S(b - 1) \in Nat
      <4> HIDE DEF S, LastPlace
      <4> QED BY <1>3, <3>3, <3>4
    <3>6. S(c) - 1 - u = S(b) - 1 - (count[b] - k)
      <4> HIDE DEF S, Place, p
      <4> QED BY <2>5, <3>1, <3>2
    <3>10. u \in Nat /\ u < count[c]
      <4> HIDE DEF S, Place, G, u
      <4> QED BY <3>2
    <3>11. count[c] \in Nat /\ count[b] \in Nat /\ k \in Nat /\ k >= 1 /\ k <= count[b]
      <4> HIDE DEF G
      <4> QED BY <2>1, <3>3
    <3> DEFINE Sc == S(c)
               Sb == S(b)
               Tc == S(c - 1)
               Tb == S(b - 1)
    <3>12. /\ Sc \in Nat /\ Tc \in Nat /\ Tb \in Nat /\ Sb \in Nat
           /\ Sc = Tc + count[c] /\ Sb = Tb + count[b] /\ Sc - 1 - u = Sb - 1 - (count[b] - k)
      <4> HIDE DEF S, u, LastPlace
      <4> QED BY <2>4, <3>3, <3>4, <3>5, <3>6
    <3> HIDE DEF S, u, Sb, Sc, Tb, Tc
    <3>13. ~(Sc <= Tb) /\ ~(Sb <= Tc) /\ (Sc = Sb => u = count[b] - k)
      <4> DEFINE cc == count[c]
                 cb == count[b]
      <4>1. /\ u \in Nat /\ u < cc /\ cc \in Nat /\ cb \in Nat /\ k \in Nat /\ k >= 1 /\ k <= cb
            /\ Sc \in Nat /\ Tc \in Nat /\ Tb \in Nat /\ Sb \in Nat
            /\ Sc = Tc + cc /\ Sb = Tb + cb /\ Sc - 1 - u = Sb - 1 - (cb - k)
        BY <3>10, <3>11, <3>12
      <4>2. ~(Sc <= Tb) /\ ~(Sb <= Tc) /\ (Sc = Sb => u = cb - k)
        <5> HIDE DEF cc, cb
        <5> QED BY <4>1, SamePlace
      <4> QED BY <4>2
    <3>7. CASE c < b
      <4>1. S(c) <= S(b - 1)
        <5>1. c <= b - 1
          BY <2>3, <3>3, <3>7
        <5> QED BY <1>5, <3>3, <3>4, <5>1
      <4> QED BY <3>13, <4>1 DEF Sc, Tb
    <3>8. CASE c > b
      <4>1. S(b) <= S(c - 1)
        <5>1. b <= c - 1
          BY <2>3, <3>3, <3>8
        <5> QED BY <1>5, <2>3, <3>3, <5>1
      <4> QED BY <3>13, <4>1 DEF Sb, Tc
    <3>9. CASE c = b
      <4>1. u = count[b] - k
        <5>1. Sc = Sb
          BY <3>9 DEF Sb, Sc
        <5> QED BY <3>13, <5>1
      <4>2. Cardinality(Above(G(b), t)) = Cardinality(Above(G(b), s)) /\ t \in G(b)
        BY <2>2, <3>2, <3>9, <4>1 DEF u
      <4> HIDE DEF G
      <4>3. /\ Cardinality(G(b)) = Cardinality(Below(G(b), s)) + 1 + Cardinality(Above(G(b), s))
            /\ Cardinality(G(b)) = Cardinality(Below(G(b), t)) + 1 + Cardinality(Above(G(b), t))
            /\ Cardinality(Below(G(b), s)) \in Nat /\ Cardinality(Below(G(b), t)) \in Nat
            /\ Cardinality(Above(G(b), s)) \in Nat
        BY <1>1, <4>2, AboveOrBelow
      <4>4. Cardinality(Below(G(b), s)) = Cardinality(Below(G(b), t))
        BY <4>2, <4>3
      <4> QED BY <1>1, <4>2, <4>4, SameRank
    <3> QED BY <2>3, <3>3, <3>7, <3>8, <3>9
  <2>9. At(p) = {s}
    <3> HIDE DEF At, p
    <3> QED BY <2>6, <2>8
  <2> HIDE DEF At, G
  <2> QED BY <2>7, <2>9
<1>8. ASSUME NEW b \in 1 .. top, NEW k \in 1 .. count[b]
      PROVE  SortedByLength(lengths, count, n)[b][k]
               = IF At(LastPlace(b) - count[b] + k) = {} THEN -1 ELSE Min(At(LastPlace(b) - count[b] + k))
  BY DEF SortedByLength
<1>9. ASSUME NEW b \in 1 .. top, NEW k \in 1 .. count[b]
      PROVE  /\ SortedByLength(lengths, count, n)[b][k] \in G(b)
             /\ Cardinality(Below(G(b), SortedByLength(lengths, count, n)[b][k])) = k - 1
  <2> DEFINE p == LastPlace(b) - count[b] + k
  <2>1. PICK s \in G(b) : At(p) = {s} /\ Cardinality(Below(G(b), s)) = k - 1
    <3> HIDE DEF At, G, LastPlace
    <3> QED BY <1>7
  <2>2. s \in Int
    BY DEF Group
  <2>3. Min({s}) = s
    BY <2>2 DEF Min
  <2>4. SortedByLength(lengths, count, n)[b][k] = s
    <3>1. SortedByLength(lengths, count, n)[b][k] = IF At(p) = {} THEN -1 ELSE Min(At(p))
      BY <1>8
    <3> HIDE DEF At, p
    <3> QED BY <2>1, <2>3, <3>1
  <2> HIDE DEF G, At
  <2> QED BY <2>1, <2>4
<1> QED BY <1>9 DEF Listing

---------------------------------------------------------------------------
(* The table of two levels, one code after the other.                      *)

\* The codes of one length are placed one after the other.
LEMMA PlaceLengthIs ==
  ASSUME NEW b, NEW len, NEW symbols, NEW n \in Nat
  PROVE  \E placed : /\ placed[0] = b
                     /\ \A k \in 1 .. n : placed[k] = PlaceLongCode(placed[k - 1], <<len, symbols[k]>>)
                     /\ PlaceLength(b, len, symbols, n) = placed[n]
<1> DEFINE Next1(d, k) == PlaceLongCode(d, <<len, symbols[k]>>)
           G(g, m) == g = [k \in 0 .. m |-> IF k = 0 THEN b ELSE Next1(g[k - 1], k)]
           N == {m \in Nat : \E g : G(g, m)}
<1>1. PlaceLength(b, len, symbols, n) = (CHOOSE g : G(g, n))[n]
  BY DEF PlaceLength
<1> HIDE DEF Next1
<1>2. 0 \in N
  <2>1. G([k \in 0 .. 0 |-> b], 0)
    OBVIOUS
  <2> QED BY <2>1
<1>3. ASSUME NEW m \in Nat, m \in N PROVE m + 1 \in N
  <2>1. PICK g : G(g, m)
    BY <1>3
  <2> DEFINE h == [k \in 0 .. m + 1 |-> IF k = 0 THEN b ELSE Next1(g[k - 1], k)]
  <2>2. \A k \in 0 .. m : h[k] = g[k]
    BY <2>1
  <2>3. \A k \in 0 .. m + 1 : k # 0 => k - 1 \in 0 .. m
    OBVIOUS
  <2>4. G(h, m + 1)
    BY <2>2, <2>3
  <2> HIDE DEF G, h
  <2> QED BY <2>4
<1>4. \E g : G(g, n)
  <2>1. \A m \in Nat : m \in N
    <3> HIDE DEF N
    <3> QED BY <1>2, <1>3, NatSetInduction
  <2> HIDE DEF G
  <2> QED BY <2>1
<1> DEFINE p == CHOOSE g : G(g, n)
<1>5. G(p, n)
  <2> HIDE DEF G
  <2> QED BY <1>4
<1> HIDE DEF p
<1>6. p[0] = b /\ \A k \in 1 .. n : p[k] = Next1(p[k - 1], k)
  <2>1. p = [k \in 0 .. n |-> IF k = 0 THEN b ELSE Next1(p[k - 1], k)]
    BY <1>5
  <2>2. ASSUME NEW k \in 1 .. n PROVE k \in 0 .. n /\ k # 0
    OBVIOUS
  <2>3. 0 \in 0 .. n
    OBVIOUS
  <2> QED BY <2>1, <2>2, <2>3, Zenon
<1>7. p[0] = b /\ (\A k \in 1 .. n : p[k] = PlaceLongCode(p[k - 1], <<len, symbols[k]>>))
      /\ PlaceLength(b, len, symbols, n) = p[n]
  BY <1>1, <1>6 DEF p, Next1
<1> QED BY <1>7

\* Where the building of a table starts.
RootBuilt(symbolsOf, count) ==
  [table |-> RootTable(RootBits, symbolsOf, count), free |-> 0,
   size |-> Pow2[RootBits], key |-> KeyAfter(count, RootBits),
   sub_key |-> SubKeyEnd, count |-> count]

\* The lengths are placed one after the other.
LEMMA BuildHuffmanTableIs ==
  ASSUME NEW symbolsOf, NEW count
  PROVE  \E placed : /\ placed[RootBits] = RootBuilt(symbolsOf, count)
                     /\ \A len \in RootBits + 1 .. MaxLength :
                          placed[len] = PlaceLength(placed[len - 1], len, symbolsOf[len], count[len])
                     /\ BuildHuffmanTable(symbolsOf, count) = placed[MaxLength]
<1> DEFINE b == RootBuilt(symbolsOf, count)
           Next1(d, l) == PlaceLength(d, l, symbolsOf[l], count[l])
           G(g, m) == g = [l \in RootBits .. m |-> IF l = RootBits THEN b ELSE Next1(g[l - 1], l)]
           N == {d \in Nat : \E g : G(g, RootBits + d)}
<1>1. BuildHuffmanTable(symbolsOf, count) = (CHOOSE g : G(g, MaxLength))[MaxLength]
  BY DEF BuildHuffmanTable, RootBuilt
<1> HIDE DEF Next1, b
<1>0. RootBits \in Nat /\ MaxLength \in Nat /\ MaxLength - RootBits \in Nat
  BY Widths
<1>2. 0 \in N
  <2>1. G([k \in RootBits .. RootBits + 0 |-> b], RootBits + 0)
    BY <1>0
  <2> QED BY <2>1
<1>3. ASSUME NEW d \in Nat, d \in N PROVE d + 1 \in N
  <2> DEFINE m == RootBits + d
             m1 == RootBits + (d + 1)
  <2>0. m \in Nat /\ m1 = m + 1 /\ m >= RootBits
    BY <1>0
  <2>1. PICK g : G(g, m)
    BY <1>3
  <2> DEFINE h == [l \in RootBits .. m1 |-> IF l = RootBits THEN b ELSE Next1(g[l - 1], l)]
  <2> HIDE DEF m, m1
  <2>2. \A l \in RootBits .. m : h[l] = g[l]
    BY <1>0, <2>0, <2>1
  <2>3. \A l \in RootBits .. m1 : l # RootBits => l - 1 \in RootBits .. m
    BY <1>0, <2>0
  <2>4. G(h, m1)
    BY <2>2, <2>3
  <2>5. \E q : G(q, m1)
    <3> HIDE DEF G, h
    <3> QED BY <2>4
  <2> HIDE DEF G
  <2> QED BY <2>5 DEF m1
<1>4. \E g : G(g, MaxLength)
  <2>1. \A m \in Nat : m \in N
    <3> HIDE DEF N
    <3> QED BY <1>2, <1>3, NatSetInduction
  <2>2. RootBits + (MaxLength - RootBits) = MaxLength
    BY <1>0
  <2> HIDE DEF G
  <2> QED BY <1>0, <2>1, <2>2
<1> DEFINE p == CHOOSE g : G(g, MaxLength)
<1>5. G(p, MaxLength)
  <2> HIDE DEF G
  <2> QED BY <1>4
<1> HIDE DEF p
<1>6. p[RootBits] = b /\ \A l \in RootBits + 1 .. MaxLength : p[l] = Next1(p[l - 1], l)
  <2>1. p = [l \in RootBits .. MaxLength |-> IF l = RootBits THEN b ELSE Next1(p[l - 1], l)]
    BY <1>5
  <2>2. ASSUME NEW k \in RootBits + 1 .. MaxLength PROVE k \in RootBits .. MaxLength /\ k # RootBits
    BY <1>0
  <2>3. RootBits \in RootBits .. MaxLength
    BY <1>0
  <2> QED BY <2>1, <2>2, <2>3, Zenon
<1>7. /\ p[RootBits] = RootBuilt(symbolsOf, count)
      /\ \A len \in RootBits + 1 .. MaxLength :
           p[len] = PlaceLength(p[len - 1], len, symbolsOf[len], count[len])
      /\ BuildHuffmanTable(symbolsOf, count) = p[MaxLength]
  BY <1>1, <1>6 DEF p, Next1, b
<1> QED BY <1>7

\* All a state of the building has.
Building(b) ==
  b = [table |-> b.table, free |-> b.free, size |-> b.size, key |-> b.key,
       sub_key |-> b.sub_key, count |-> b.count]

\* What is left of the counts when k codes of length len are placed.
CountsLeft(count, len, k) ==
  [l \in DOMAIN count |-> IF RootBits < l /\ l < len THEN 0 ELSE IF l = len THEN count[l] - k ELSE count[l]]

\* What placing a long code changes.
LEMMA PlaceLongCodeIs ==
  ASSUME NEW b, NEW len, NEW x, Building(b)
  PROVE  LET d == IF b.sub_key = SubKeyEnd THEN OpenTable(b, len) ELSE b
             e == PlaceLongCode(b, <<len, x>>)
         IN  /\ Building(d) /\ d.count = b.count
             /\ d.sub_key = IF b.sub_key = SubKeyEnd THEN 0 ELSE b.sub_key
             /\ d.key = IF b.sub_key = SubKeyEnd THEN b.key + Pow2[RevBits - RootBits] ELSE b.key
             /\ d.free = IF b.sub_key = SubKeyEnd THEN b.free + b.size ELSE b.free
             /\ d.size = IF b.sub_key = SubKeyEnd THEN Pow2[NextTableBitSize(b.count, len)] ELSE b.size
             /\ Building(e)
             /\ e.free = d.free /\ e.size = d.size /\ e.key = d.key
             /\ e.sub_key = d.sub_key + Pow2[RevBits - (len - RootBits)]
             /\ e.count = [b.count EXCEPT ![len] = @ - 1]
             /\ e.table = ReplicateValue(d.table, d.free + ReverseBits(d.sub_key), Pow2[len - RootBits], d.size,
                                         HuffmanCode(len - RootBits, x))
             /\ DOMAIN e.table = DOMAIN d.table
             /\ ~(b.sub_key = SubKeyEnd) => d = b
<1> DEFINE d == IF b.sub_key = SubKeyEnd THEN OpenTable(b, len) ELSE b
           e == PlaceLongCode(b, <<len, x>>)
<1>1. /\ Building(d) /\ d.count = b.count
      /\ d.sub_key = IF b.sub_key = SubKeyEnd THEN 0 ELSE b.sub_key
      /\ d.key = IF b.sub_key = SubKeyEnd THEN b.key + Pow2[RevBits - RootBits] ELSE b.key
      /\ d.free = IF b.sub_key = SubKeyEnd THEN b.free + b.size ELSE b.free
      /\ d.size = IF b.sub_key = SubKeyEnd THEN Pow2[NextTableBitSize(b.count, len)] ELSE b.size
  <2>1. CASE b.sub_key = SubKeyEnd
    <3> DEFINE bits == NextTableBitSize(b.count, len)
               free == b.free + b.size
               at == ReverseBits(b.key)
               grown == [i \in 0 .. free + Pow2[bits] - 1 |->
                  IF i = at THEN HuffmanCode(bits + RootBits, free - at)
                  ELSE IF i \in DOMAIN b.table THEN b.table[i] ELSE Unwritten]
    <3>1. d = [b EXCEPT !.table = grown, !.free = free, !.size = Pow2[bits], !.sub_key = 0,
                !.key = @ + Pow2[RevBits - RootBits]]
      BY <2>1 DEF OpenTable
    <3> HIDE DEF grown, d, at, bits
    <3>2. d = [table |-> grown, free |-> free, size |-> Pow2[bits], key |-> b.key + Pow2[RevBits - RootBits],
               sub_key |-> 0, count |-> b.count]
      BY <3>1 DEF Building
    <3> QED BY <2>1, <3>2 DEF Building, bits
  <2>2. CASE b.sub_key # SubKeyEnd
    BY <2>2
  <2> QED BY <2>1, <2>2
<1> HIDE DEF d
<1> DEFINE t == ReplicateValue(d.table, d.free + ReverseBits(d.sub_key), Pow2[len - RootBits], d.size,
                               HuffmanCode(len - RootBits, x))
<1>2. e = [d EXCEPT !.table = t, !.sub_key = @ + Pow2[RevBits - (len - RootBits)], !.count[len] = @ - 1]
  BY DEF PlaceLongCode, d
<1>3. DOMAIN t = DOMAIN d.table
  BY DEF ReplicateValue
<1> HIDE DEF t, e
<1>4. e = [table |-> t, free |-> d.free, size |-> d.size, key |-> d.key,
           sub_key |-> d.sub_key + Pow2[RevBits - (len - RootBits)], count |-> [d.count EXCEPT ![len] = @ - 1]]
  BY <1>1, <1>2 DEF Building
<1>5. /\ Building(e)
      /\ e.free = d.free /\ e.size = d.size /\ e.key = d.key
      /\ e.sub_key = d.sub_key + Pow2[RevBits - (len - RootBits)]
      /\ e.count = [b.count EXCEPT ![len] = @ - 1]
      /\ e.table = t
  BY <1>1, <1>4 DEF Building
<1>6. ~(b.sub_key = SubKeyEnd) => d = b
  BY DEF d
<1> QED BY <1>1, <1>3, <1>5, <1>6 DEF t, d, e

\* Min is the least.
LEMMA LeastIsMin ==
  ASSUME NEW T, T \subseteq Nat, T # {}
  PROVE  Min(T) \in T /\ \A y \in T : Min(T) <= y
<1>1. \E x \in T : \A y \in T : x <= y
  BY Least
<1> QED BY <1>1 DEF Min

\* How large the next table is.
LEMMA NextTableBitSizeIs ==
  ASSUME NEW count, NEW len \in RootBits + 1 .. MaxLength
  PROVE  LET Full(l) == SumFunction([j \in len .. l |-> count[j] * Pow2[l - j]]) >= Pow2[l - RootBits]
             bits == NextTableBitSize(count, len)
         IN  /\ bits \in Nat
             /\ \E l \in len .. MaxLength :
                  bits = l - RootBits /\ (l = MaxLength \/ Full(l)) /\ \A j \in len .. l - 1 : ~Full(j)
<1> DEFINE Full(l) == SumFunction([j \in len .. l |-> count[j] * Pow2[l - j]]) >= Pow2[l - RootBits]
           T == {l \in len .. MaxLength : l = MaxLength \/ Full(l)}
           m == Min(T)
<1>0. RootBits \in Nat /\ MaxLength \in Nat /\ RootBits < MaxLength
  BY Widths
<1>1. NextTableBitSize(count, len) = m - RootBits
  BY DEF NextTableBitSize
<1> HIDE DEF Full
<1>2. MaxLength \in T /\ T \subseteq Nat
  BY <1>0
<1>3. m \in T /\ \A y \in T : m <= y
  <2> HIDE DEF T
  <2> QED BY <1>2, LeastIsMin
<1> HIDE DEF m
<1>4. m \in len .. MaxLength /\ (m = MaxLength \/ Full(m))
  BY <1>3
<1>5. m \in Nat /\ (m - RootBits) + RootBits = m /\ m - RootBits \in Nat
  BY <1>0, <1>4
<1>6. ASSUME NEW l \in len .. m - 1 PROVE ~Full(l)
  BY <1>0, <1>3, <1>4
<1>7. NextTableBitSize(count, len) \in Nat
  BY <1>1, <1>5
<1>8. \E l \in len .. MaxLength :
        /\ NextTableBitSize(count, len) = l - RootBits /\ (l = MaxLength \/ Full(l))
        /\ \A j \in len .. l - 1 : ~Full(j)
  BY <1>1, <1>4, <1>6
<1> QED BY <1>7, <1>8 DEF Full

\* What every state of the building has, when the lengths before len and k codes
\* of len are placed.
Growing(b, count, len, k) ==
  /\ Building(b) /\ 0 \in DOMAIN b.table /\ b.free \in Nat /\ b.size \in Nat \ {0}
  /\ b.count = CountsLeft(count, len, k)

\* What is left to place, after one more code.
LEMMA CountsLeftOneLess ==
  ASSUME NEW count \in [0 .. MaxLength -> Nat], NEW len \in RootBits + 1 .. MaxLength, NEW k \in Nat
  PROVE  [CountsLeft(count, len, k) EXCEPT ![len] = @ - 1] = CountsLeft(count, len, k + 1)
<1>0. RootBits \in Nat /\ MaxLength \in Nat /\ len \in Nat /\ len > RootBits /\ len \in 0 .. MaxLength
  BY Widths
<1> DEFINE c == CountsLeft(count, len, k)
<1>1. DOMAIN c = 0 .. MaxLength /\ c[len] = count[len] - k /\ count[len] \in Nat
  BY <1>0 DEF CountsLeft
<1> DEFINE f == [c EXCEPT ![len] = @ - 1]
           g == CountsLeft(count, len, k + 1)
<1>2. ASSUME NEW l \in 0 .. MaxLength PROVE f[l] = g[l]
  <2>1. CASE l = len
    BY <1>0, <1>1, <2>1 DEF CountsLeft
  <2>2. CASE l # len
    BY <1>0, <2>2 DEF CountsLeft
  <2> QED BY <2>1, <2>2
<1>3. f = [l \in 0 .. MaxLength |-> f[l]]
  <2> HIDE DEF c
  <2> QED BY <1>1
<1>4. g = [l \in 0 .. MaxLength |-> g[l]]
  BY DEF CountsLeft
<1>5. f = g
  <2> HIDE DEF f, g
  <2> QED BY <1>2, <1>3, <1>4
<1> QED BY <1>5

\* Placing a code keeps the table growing from index 0 on.
LEMMA GrowingCode ==
  ASSUME NEW b, NEW count \in [0 .. MaxLength -> Nat], NEW len \in RootBits + 1 .. MaxLength, NEW k \in Nat,
         k < count[len], Growing(b, count, len, k), NEW x
  PROVE  Growing(PlaceLongCode(b, <<len, x>>), count, len, k + 1)
<1> DEFINE d == IF b.sub_key = SubKeyEnd THEN OpenTable(b, len) ELSE b
           e == PlaceLongCode(b, <<len, x>>)
<1>0. /\ RootBits \in Nat /\ MaxLength \in Nat /\ len \in 0 .. MaxLength /\ len > RootBits /\ len \in Nat
  BY Widths
<1>1. /\ d.free = IF b.sub_key = SubKeyEnd THEN b.free + b.size ELSE b.free
      /\ d.size = IF b.sub_key = SubKeyEnd THEN Pow2[NextTableBitSize(b.count, len)] ELSE b.size
      /\ Building(e) /\ e.free = d.free /\ e.size = d.size
      /\ e.count = [b.count EXCEPT ![len] = @ - 1] /\ DOMAIN e.table = DOMAIN d.table
  BY PlaceLongCodeIs DEF Growing
<1>2. NextTableBitSize(b.count, len) \in Nat
  BY NextTableBitSizeIs
<1>3. 0 \in DOMAIN d.table
  <2>1. CASE b.sub_key = SubKeyEnd
    <3> DEFINE bits == NextTableBitSize(b.count, len)
               free == b.free + b.size
               at == ReverseBits(b.key)
               grown == [i \in 0 .. free + Pow2[bits] - 1 |->
                  IF i = at THEN HuffmanCode(bits + RootBits, free - at)
                  ELSE IF i \in DOMAIN b.table THEN b.table[i] ELSE Unwritten]
    <3>1. d = [b EXCEPT !.table = grown, !.free = free, !.size = Pow2[bits], !.sub_key = 0,
                !.key = @ + Pow2[RevBits - RootBits]]
      BY <2>1 DEF OpenTable
    <3>2. 0 \in 0 .. free + Pow2[bits] - 1
      <4>1. free \in Nat /\ Pow2[bits] \in Nat \ {0}
        BY <1>2, PowNat DEF Growing
      <4> HIDE DEF free
      <4> QED BY <4>1
    <3>3. 0 \in DOMAIN grown
      BY <3>2
    <3> HIDE DEF grown, d, at, bits
    <3>4. d.table = grown
      BY <3>1 DEF Growing, Building
    <3> QED BY <3>3, <3>4
  <2>2. CASE b.sub_key # SubKeyEnd
    BY <2>2 DEF Growing
  <2> QED BY <2>1, <2>2
<1>4. d.free \in Nat /\ d.size \in Nat \ {0}
  BY <1>1, <1>2, PowNat DEF Growing
<1> HIDE DEF d, e
<1>5. e.count = CountsLeft(count, len, k + 1)
  <2>1. b.count = CountsLeft(count, len, k)
    BY DEF Growing
  <2>2. e.count = [b.count EXCEPT ![len] = @ - 1]
    BY <1>1
  <2>3. [CountsLeft(count, len, k) EXCEPT ![len] = @ - 1] = CountsLeft(count, len, k + 1)
    BY CountsLeftOneLess
  <2> HIDE DEF e
  <2> QED BY <2>1, <2>2, <2>3, Zenon
<1>6. Building(e) /\ 0 \in DOMAIN e.table /\ e.free \in Nat /\ e.size \in Nat \ {0}
  BY <1>1, <1>3, <1>4
<1>7. Growing(e, count, len, k + 1)
  BY <1>5, <1>6 DEF Growing
<1> QED BY <1>7 DEF e

\* What is left to place, after the last code of a length.
LEMMA CountsLeftNext ==
  ASSUME NEW count \in [0 .. MaxLength -> Nat], NEW len \in RootBits + 1 .. MaxLength
  PROVE  /\ CountsLeft(count, len, count[len]) = CountsLeft(count, len + 1, 0)
         /\ CountsLeft(count, RootBits + 1, 0) = count
<1>0. RootBits \in Nat /\ MaxLength \in Nat /\ len \in Nat /\ len > RootBits
  BY Widths
<1> QED BY <1>0 DEF CountsLeft

\* ... after a length.
LEMMA GrowingLength ==
  ASSUME NEW b, NEW count \in [0 .. MaxLength -> Nat], NEW len \in RootBits + 1 .. MaxLength,
         Growing(b, count, len, 0), NEW symbols
  PROVE  Growing(PlaceLength(b, len, symbols, count[len]), count, len + 1, 0)
<1> DEFINE n == count[len]
<1>0. n \in Nat
  BY Widths
<1>1. PICK placed : /\ placed[0] = b
                    /\ \A k \in 1 .. n : placed[k] = PlaceLongCode(placed[k - 1], <<len, symbols[k]>>)
                    /\ PlaceLength(b, len, symbols, n) = placed[n]
  BY <1>0, PlaceLengthIs
<1> DEFINE N == {k \in Nat : k <= n => Growing(placed[k], count, len, k)}
<1>2. 0 \in N
  BY <1>1
<1>3. ASSUME NEW k \in Nat, k \in N PROVE k + 1 \in N
  <2> SUFFICES ASSUME k + 1 <= n PROVE Growing(placed[k + 1], count, len, k + 1)
    OBVIOUS
  <2>1. k < count[len] /\ Growing(placed[k], count, len, k)
    BY <1>0, <1>3
  <2>2. k + 1 \in 1 .. n /\ (k + 1) - 1 = k
    BY <1>0
  <2>3. placed[k + 1] = PlaceLongCode(placed[k], <<len, symbols[k + 1]>>)
    BY <1>1, <2>2
  <2> QED BY <2>1, <2>3, GrowingCode
<1>4. n \in N
  <2> HIDE DEF N
  <2> QED BY <1>0, <1>2, <1>3, NatSetInduction
<1>5. Growing(placed[n], count, len, n)
  BY <1>0, <1>4
<1> QED BY <1>1, <1>5, CountsLeftNext DEF Growing

\* A table that is built has an entry for the bits zero, and of its counts those
\* of the longer codes are used up.
LEMMA BuiltTable ==
  ASSUME NEW symbolsOf, NEW count \in [0 .. MaxLength -> Nat]
  PROVE  LET b == BuildHuffmanTable(symbolsOf, count)
         IN  /\ 0 \in DOMAIN b.table
             /\ b.count \in [0 .. MaxLength -> Nat]
             /\ \A l \in 0 .. MaxLength : b.count[l] <= count[l]
<1>0. RootBits \in Nat /\ MaxLength \in Nat /\ RootBits + 1 <= MaxLength
  BY Widths
<1>1. PICK placed : /\ placed[RootBits] = RootBuilt(symbolsOf, count)
                    /\ \A len \in RootBits + 1 .. MaxLength :
                         placed[len] = PlaceLength(placed[len - 1], len, symbolsOf[len], count[len])
                    /\ BuildHuffmanTable(symbolsOf, count) = placed[MaxLength]
  BY BuildHuffmanTableIs
<1> DEFINE N == {d \in Nat : RootBits + d <= MaxLength => Growing(placed[RootBits + d], count, (RootBits + d) + 1, 0)}
<1>2. 0 \in N
  <2> DEFINE b == RootBuilt(symbolsOf, count)
  <2>1. 0 \in DOMAIN RootTable(RootBits, symbolsOf, count)
    <3>1. Pow2[RootBits] \in Nat \ {0}
      BY <1>0, PowNat
    <3> QED BY <3>1 DEF RootTable
  <2>2. Pow2[RootBits] \in Nat \ {0}
    BY <1>0, PowNat
  <2>3. count = CountsLeft(count, RootBits + 1, 0)
    <3>1. MaxLength \in RootBits + 1 .. MaxLength
      BY <1>0
    <3> QED BY <3>1, CountsLeftNext
  <2>4. Growing(b, count, RootBits + 1, 0)
    BY <2>1, <2>2, <2>3 DEF RootBuilt, Growing, Building
  <2>5. RootBits + 0 = RootBits
    BY <1>0
  <2> HIDE DEF b
  <2> QED BY <1>1, <2>4, <2>5 DEF b
<1>3. ASSUME NEW d \in Nat, d \in N PROVE d + 1 \in N
  <2> DEFINE m == RootBits + d
             m1 == RootBits + (d + 1)
  <2> SUFFICES ASSUME m1 <= MaxLength PROVE Growing(placed[m1], count, m1 + 1, 0)
    OBVIOUS
  <2>1. m1 = m + 1 /\ m1 - 1 = m /\ m1 \in RootBits + 1 .. MaxLength /\ m <= MaxLength
    BY <1>0
  <2>2. Growing(placed[m], count, m + 1, 0)
    BY <1>3, <2>1
  <2> HIDE DEF m, m1
  <2>3. placed[m1] = PlaceLength(placed[m], m1, symbolsOf[m1], count[m1])
    BY <1>1, <2>1
  <2> QED BY <2>1, <2>2, <2>3, GrowingLength
<1>4. Growing(placed[MaxLength], count, MaxLength + 1, 0)
  <2>1. \A d \in Nat : d \in N
    <3> HIDE DEF N
    <3> QED BY <1>2, <1>3, NatSetInduction
  <2>2. MaxLength - RootBits \in Nat /\ RootBits + (MaxLength - RootBits) = MaxLength
    BY <1>0
  <2>3. MaxLength - RootBits \in N
    BY <2>1, <2>2
  <2> QED BY <1>0, <2>2, <2>3
<1>5. ASSUME NEW b, Growing(b, count, MaxLength + 1, 0)
      PROVE  /\ 0 \in DOMAIN b.table /\ b.count \in [0 .. MaxLength -> Nat]
             /\ \A l \in 0 .. MaxLength : b.count[l] <= count[l]
  BY <1>0, <1>5 DEF Growing, CountsLeft
<1> QED BY <1>1, <1>4, <1>5

---------------------------------------------------------------------------
(* Weights of codes, by their lengths and by their symbols.                *)

\* One code more of one length.
LEMMA WeightedUpdate ==
  ASSUME NEW W \in Nat, NEW top \in 0 .. W, NEW count, Counts(count, top), NEW v \in 1 .. top,
         NEW after, \A b \in 1 .. top : after[b] = IF b = v THEN count[b] + 1 ELSE count[b]
  PROVE  Weighted(after, top, W) = Weighted(count, top, W) + Pow2[W - v]
<1> DEFINE N == {b \in Nat : b <= top => Weighted(after, b, W) = Weighted(count, b, W) + (IF v <= b THEN Pow2[W - v] ELSE 0)}
<1>0. v \in Nat /\ top \in Nat /\ W - v \in Nat /\ Pow2[W - v] \in Nat /\ 0 \in 0 .. top
  <2>1. v \in Nat /\ top \in Nat /\ W - v \in Nat /\ 0 \in 0 .. top
    OBVIOUS
  <2> QED BY <2>1, PowNat
<1>1. Counts(after, top)
  BY DEF Counts
<1>2. 0 \in N
  <2>1. Weighted(after, 0, W) = 0 /\ Weighted(count, 0, W) = 0
    BY <1>0, <1>1, WeightedStep
  <2> QED BY <1>0, <2>1
<1>3. ASSUME NEW b \in Nat, b \in N PROVE b + 1 \in N
  <2> DEFINE c == b + 1
  <2> SUFFICES ASSUME c <= top
               PROVE Weighted(after, c, W) = Weighted(count, c, W) + (IF v <= c THEN Pow2[W - v] ELSE 0)
    OBVIOUS
  <2>1. c \in 0 .. top /\ c > 0 /\ c - 1 = b /\ c \in 1 .. top /\ b <= top /\ W - c \in Nat
    BY <1>0
  <2>2. Weighted(after, b, W) = Weighted(count, b, W) + (IF v <= b THEN Pow2[W - v] ELSE 0)
    BY <1>3, <2>1
  <2>5. c = b + 1
    OBVIOUS
  <2> HIDE DEF c
  <2>3. /\ Weighted(after, c, W) = Weighted(after, b, W) + after[c] * Pow2[W - c]
        /\ Weighted(after, b, W) \in Nat
    BY <1>1, <2>1, WeightedStep
  <2>4. /\ Weighted(count, c, W) = Weighted(count, b, W) + count[c] * Pow2[W - c]
        /\ Weighted(count, b, W) \in Nat
    BY <2>1, WeightedStep
  <2>6. Pow2[W - c] \in Nat /\ count[c] \in Nat
    BY <2>1, PowNat DEF Counts
  <2>7. CASE c = v
    <3>1. after[c] = count[c] + 1
      BY <2>1, <2>7
    <3>2. after[c] * Pow2[W - c] = count[c] * Pow2[W - c] + Pow2[W - v]
      <4> DEFINE p == Pow2[W - c]
                 q == count[c]
      <4>1. p \in Nat /\ q \in Nat
        BY <2>6
      <4> HIDE DEF p, q
      <4>2. (q + 1) * p = q * p + p
        BY <4>1
      <4> QED BY <3>1, <4>2, <2>7 DEF p, q
    <3>3. ~(v <= b) /\ v <= c
      BY <2>5, <2>7
    <3>4. count[c] * Pow2[W - c] \in Nat
      BY <2>6
    <3> QED BY <1>0, <2>2, <2>3, <2>4, <3>2, <3>3, <3>4
  <2>8. CASE c # v
    <3>1. after[c] = count[c] /\ ((v <= b) <=> (v <= c))
      BY <1>0, <2>1, <2>5, <2>8
    <3>2. count[c] * Pow2[W - c] \in Nat
      BY <2>6
    <3> QED BY <1>0, <2>2, <2>3, <2>4, <3>1, <3>2
  <2> QED BY <2>7, <2>8
<1>4. top \in N
  <2> HIDE DEF N
  <2> QED BY <1>0, <1>2, <1>3, NatSetInduction
<1> QED BY <1>0, <1>4

\* The weights grow with the width.
LEMMA WeightedWider ==
  ASSUME NEW W \in Nat, NEW top \in 0 .. W, NEW count, Counts(count, top), NEW d \in Nat
  PROVE  \A b \in 0 .. top : Weighted(count, b, W + d) = Pow2[d] * Weighted(count, b, W)
<1> DEFINE N == {b \in Nat : b <= top => Weighted(count, b, W + d) = Pow2[d] * Weighted(count, b, W)}
<1>0. top \in Nat /\ W + d \in Nat /\ top \in 0 .. W + d /\ Pow2[d] \in Nat /\ 0 \in 0 .. top
  BY PowNat
<1>1. 0 \in N
  <2>1. Weighted(count, 0, W) = 0 /\ Weighted(count, 0, W + d) = 0
    BY <1>0, WeightedStep
  <2> QED BY <1>0, <2>1
<1>2. ASSUME NEW b \in Nat, b \in N PROVE b + 1 \in N
  <2> DEFINE c == b + 1
  <2> SUFFICES ASSUME c <= top PROVE Weighted(count, c, W + d) = Pow2[d] * Weighted(count, c, W)
    OBVIOUS
  <2>1. /\ c \in 0 .. top /\ c > 0 /\ c - 1 = b /\ c \in 1 .. top /\ b <= top /\ W - c \in Nat
        /\ (W + d) - c = d + (W - c)
    BY <1>0
  <2>2. Weighted(count, b, W + d) = Pow2[d] * Weighted(count, b, W)
    BY <1>2, <2>1
  <2> HIDE DEF c
  <2>3. /\ Weighted(count, c, W + d) = Weighted(count, b, W + d) + count[c] * Pow2[(W + d) - c]
    BY <1>0, <2>1, WeightedStep
  <2>4. /\ Weighted(count, c, W) = Weighted(count, b, W) + count[c] * Pow2[W - c]
        /\ Weighted(count, b, W) \in Nat
    BY <2>1, WeightedStep
  <2>5. Pow2[(W + d) - c] = Pow2[d] * Pow2[W - c] /\ Pow2[W - c] \in Nat /\ count[c] \in Nat
    BY <2>1, PowSum, PowNat DEF Counts
  <2> DEFINE p == Pow2[d]
             q == Pow2[W - c]
             n == count[c]
             x == Weighted(count, b, W)
  <2>6. p \in Nat /\ q \in Nat /\ n \in Nat /\ x \in Nat
    BY <1>0, <2>4, <2>5
  <2>7. p * x + n * (p * q) = p * (x + n * q)
    <3> HIDE DEF p, q, n, x
    <3> QED BY <2>6
  <2> QED BY <2>2, <2>3, <2>4, <2>5, <2>7
<1>3. \A b \in Nat : b \in N
  <2> HIDE DEF N
  <2> QED BY <1>1, <1>2, NatSetInduction
<1> QED BY <1>0, <1>3

\* The symbols with lengths of at most b.
UpTo(lengths, n, b) == {x \in 0 .. n - 1 : lengths[x] \in 1 .. b}

\* The symbols with codes up to a length.
LEMMA UpToIs ==
  ASSUME NEW n \in Nat, NEW lengths \in [0 .. n - 1 -> Nat], NEW b \in Nat
  PROVE  /\ IsFiniteSet(UpTo(lengths, n, b)) /\ IsFiniteSet(Group(lengths, n, b))
         /\ UpTo(lengths, n, 0) = {}
         /\ UpTo(lengths, n, b + 1) = UpTo(lengths, n, b) \cup Group(lengths, n, b + 1)
         /\ UpTo(lengths, n, b) \cap Group(lengths, n, b + 1) = {}
<1>1. IsFiniteSet(0 .. n - 1)
  BY FS_Interval
<1>2. IsFiniteSet(UpTo(lengths, n, b)) /\ IsFiniteSet(Group(lengths, n, b))
  <2>1. UpTo(lengths, n, b) \in SUBSET (0 .. n - 1) /\ Group(lengths, n, b) \in SUBSET (0 .. n - 1)
    BY DEF UpTo, Group
  <2> QED BY <1>1, <2>1, Smaller
<1>3. UpTo(lengths, n, 0) = {}
  BY DEF UpTo
<1>4. ASSUME NEW x \in 0 .. n - 1
      PROVE  /\ (lengths[x] \in 1 .. b + 1) <=> (lengths[x] \in 1 .. b \/ lengths[x] = b + 1)
             /\ ~(lengths[x] \in 1 .. b /\ lengths[x] = b + 1)
  <2>1. lengths[x] \in Nat
    OBVIOUS
  <2> QED BY <2>1
<1>5. /\ UpTo(lengths, n, b + 1) = UpTo(lengths, n, b) \cup Group(lengths, n, b + 1)
      /\ UpTo(lengths, n, b) \cap Group(lengths, n, b + 1) = {}
  BY <1>4, Zenon DEF UpTo, Group
<1> QED BY <1>2, <1>3, <1>5

\* A sum over a set of symbols of the weights of their lengths.
Weights(lengths, S, W) == SumFunction([x \in S |-> Pow2[W - lengths[x]]])

\* Weights of two sets of symbols.
LEMMA WeightsOfTwo ==
  ASSUME NEW W \in Nat, NEW lengths, NEW A, NEW B, IsFiniteSet(A), IsFiniteSet(B), A \cap B = {},
         \A x \in A \cup B : lengths[x] \in 0 .. W
  PROVE  /\ Weights(lengths, A \cup B, W) = Weights(lengths, A, W) + Weights(lengths, B, W)
         /\ Weights(lengths, A, W) \in Int /\ Weights(lengths, B, W) \in Int
<1> DEFINE f == [x \in A \cup B |-> Pow2[W - lengths[x]]]
<1>1. IsFiniteSet(A \cup B)
  BY FS_Union
<1>2. \A x \in A \cup B : Pow2[W - lengths[x]] \in Int
  <2> TAKE x \in A \cup B
  <2>1. lengths[x] \in 0 .. W
    OBVIOUS
  <2>2. W - lengths[x] \in Nat
    BY <2>1
  <2> QED BY <2>2, PowNat
<1>3. FunctionOfInts(f) /\ DOMAIN f = A \cup B
  BY <1>1, <1>2 DEF FunctionOfInts
<1>4. Restrict(f, A) = [x \in A |-> Pow2[W - lengths[x]]] /\ Restrict(f, B) = [x \in B |-> Pow2[W - lengths[x]]]
  BY DEF Restrict
<1> HIDE DEF f
<1>5. SumFunction(f) = SumFunction(Restrict(f, A)) + SumFunction(Restrict(f, B))
  BY <1>3, SumSplit
<1>6. SumFunction(Restrict(f, A)) \in Int /\ SumFunction(Restrict(f, B)) \in Int
  <2>1. A \in SUBSET DOMAIN f /\ B \in SUBSET DOMAIN f
    BY <1>3
  <2> QED BY <1>3, <2>1, RestrictIs
<1> QED BY <1>4, <1>5, <1>6 DEF Weights, f

\* Weights of symbols of one length.
LEMMA WeightsOfOneLength ==
  ASSUME NEW W \in Nat, NEW lengths, NEW S, IsFiniteSet(S), NEW b \in 0 .. W, \A x \in S : lengths[x] = b
  PROVE  Weights(lengths, S, W) = Cardinality(S) * Pow2[W - b]
<1>1. [x \in S |-> Pow2[W - lengths[x]]] = [x \in S |-> Pow2[W - b]]
  OBVIOUS
<1>2. W - b \in Nat
  OBVIOUS
<1>3. Pow2[W - b] \in Int
  BY <1>2, PowNat
<1>4. SumFunction([x \in S |-> Pow2[W - b]]) = Cardinality(S) * Pow2[W - b]
  BY <1>3, SumConst
<1> QED BY <1>1, <1>4 DEF Weights

\* By symbols and by lengths, the weights are the same.
LEMMA WeightsUpTo ==
  ASSUME NEW n \in Nat, NEW W \in Nat, NEW lengths \in [0 .. n - 1 -> 0 .. W], NEW count,
         \A b \in 1 .. W : count[b] = Cardinality(Group(lengths, n, b))
  PROVE  /\ Counts(count, W)
         /\ \A b \in 0 .. W : Weights(lengths, UpTo(lengths, n, b), W) = Weighted(count, b, W)
<1> DEFINE N == {b \in Nat : b <= W => Weights(lengths, UpTo(lengths, n, b), W) = Weighted(count, b, W)}
<1>0. lengths \in [0 .. n - 1 -> Nat] /\ 0 \in 0 .. W /\ W \in 0 .. W
  OBVIOUS
<1>1. Counts(count, W)
  BY GroupIs DEF Counts
<1>2. 0 \in N
  <2>1. Weighted(count, 0, W) = 0
    BY <1>0, <1>1, WeightedStep
  <2>2. UpTo(lengths, n, 0) = {}
    BY <1>0, UpToIs
  <2>3. Weights(lengths, {}, W) = 0
    BY SumEmpty DEF Weights
  <2> QED BY <2>1, <2>2, <2>3
<1>3. ASSUME NEW b \in Nat, b \in N PROVE b + 1 \in N
  <2> DEFINE c == b + 1
             A == UpTo(lengths, n, b)
             B == Group(lengths, n, c)
  <2> SUFFICES ASSUME c <= W PROVE Weights(lengths, UpTo(lengths, n, c), W) = Weighted(count, c, W)
    OBVIOUS
  <2>1. c \in 0 .. W /\ c > 0 /\ c - 1 = b /\ c \in 1 .. W /\ b <= W /\ c \in 0 .. W /\ c \in Nat
    BY <1>0
  <2>2. Weights(lengths, A, W) = Weighted(count, b, W)
    BY <1>3, <2>1
  <2>3. IsFiniteSet(A) /\ IsFiniteSet(B) /\ UpTo(lengths, n, c) = A \cup B /\ A \cap B = {}
    BY <1>0, <2>1, UpToIs
  <2>4. (\A x \in A \cup B : lengths[x] \in 0 .. W) /\ (\A x \in B : lengths[x] = c)
    BY DEF UpTo, Group
  <2>5. count[c] = Cardinality(B)
    BY <2>1
  <2> HIDE DEF A, B, c
  <2>6. Weights(lengths, A \cup B, W) = Weights(lengths, A, W) + Weights(lengths, B, W)
    BY <2>3, <2>4, WeightsOfTwo
  <2>7. Weights(lengths, B, W) = Cardinality(B) * Pow2[W - c]
    <3>1. c \in 0 .. W /\ IsFiniteSet(B) /\ \A x \in B : lengths[x] = c
      BY <2>1, <2>3, <2>4
    <3> QED BY <3>1, WeightsOfOneLength
  <2>8. Weighted(count, c, W) = Weighted(count, b, W) + count[c] * Pow2[W - c]
    BY <1>0, <1>1, <2>1, WeightedStep
  <2> QED BY <2>2, <2>3, <2>5, <2>6, <2>7, <2>8
<1>4. \A b \in Nat : b \in N
  <2> HIDE DEF N
  <2> QED BY <1>2, <1>3, NatSetInduction
<1> QED BY <1>0, <1>1, <1>4

---------------------------------------------------------------------------
(* The words of the canonical code.                                        *)

UsedIn(lengths, n) == {x \in 0 .. n - 1 : lengths[x] # 0}

\* The symbols whose code words come before that of x.
WordsBefore(lengths, n, x) ==
  {y \in UsedIn(lengths, n) : lengths[y] < lengths[x] \/ (lengths[y] = lengths[x] /\ y < x)}

\* Weights of the symbols of one length before another.
LEMMA WeightsBelow ==
  ASSUME NEW n \in Nat, NEW W \in Nat, NEW lengths, NEW b \in 0 .. W, NEW x
  PROVE  Weights(lengths, Below(Group(lengths, n, b), x), W)
           = Cardinality(Below(Group(lengths, n, b), x)) * Pow2[W - b]
<1> DEFINE G == Group(lengths, n, b)
           B == Below(G, x)
<1>1. IsFiniteSet(G) /\ B \in SUBSET G
  BY GroupIs DEF Below
<1>2. \A y \in B : lengths[y] = b
  BY DEF Below, Group
<1> HIDE DEF G, B
<1>3. IsFiniteSet(B)
  BY <1>1, Smaller
<1> QED BY <1>2, <1>3, WeightsOfOneLength DEF B, G

\* The first word of a symbol: the weights of all that come before it.
LEMMA FirstWordIs ==
  ASSUME NEW n \in Nat, NEW W \in Nat, NEW lengths \in [0 .. n - 1 -> 0 .. W], NEW count,
         \A b \in 1 .. W : count[b] = Cardinality(Group(lengths, n, b)),
         NEW x \in 0 .. n - 1, lengths[x] \in 1 .. W
  PROVE  Weights(lengths, WordsBefore(lengths, n, x), W)
           = Weighted(count, lengths[x] - 1, W) + Cardinality(Below(Group(lengths, n, lengths[x]), x)) * Pow2[W - lengths[x]]
<1> DEFINE b == lengths[x]
           A == UpTo(lengths, n, b - 1)
           B == Below(Group(lengths, n, b), x)
<1>0. lengths \in [0 .. n - 1 -> Nat] /\ b - 1 \in Nat /\ b \in Nat /\ b - 1 \in 0 .. W /\ b \in 0 .. W
  OBVIOUS
<1>1. WordsBefore(lengths, n, x) = A \cup B
  <2>1. ASSUME NEW y \in 0 .. n - 1
        PROVE  /\ (lengths[y] # 0 /\ lengths[y] < b) <=> lengths[y] \in 1 .. b - 1
               /\ (lengths[y] # 0 /\ lengths[y] = b) <=> (lengths[y] = b)
    <3>1. lengths[y] \in Nat
      BY <1>0
    <3> HIDE DEF b
    <3>2. b \in Nat /\ b >= 1
      BY <1>0
    <3> QED BY <3>1, <3>2
  <2> QED BY <2>1, Zenon DEF WordsBefore, UpTo, Below, Group, UsedIn
<1>2. IsFiniteSet(A) /\ IsFiniteSet(B)
  <2>1. IsFiniteSet(Group(lengths, n, b)) /\ B \in SUBSET Group(lengths, n, b)
    BY GroupIs DEF Below
  <2>2. IsFiniteSet(A)
    BY <1>0, UpToIs
  <2>3. IsFiniteSet(B)
    <3> HIDE DEF b, B
    <3> QED BY <2>1, Smaller
  <2> QED BY <2>2, <2>3
<1>3. A \cap B = {}
  <2>1. ASSUME NEW y \in A, y \in B PROVE FALSE
    <3>1. lengths[y] \in 1 .. b - 1 /\ lengths[y] = b
      BY <2>1 DEF UpTo, Below, Group
    <3> QED BY <1>0, <3>1
  <2> QED BY <2>1
<1>4. (\A y \in A \cup B : lengths[y] \in 0 .. W) /\ (\A y \in B : lengths[y] = b)
  BY DEF UpTo, Below, Group
<1>5. Weights(lengths, A \cup B, W) = Weights(lengths, A, W) + Weights(lengths, B, W)
  <2> HIDE DEF A, B
  <2> QED BY <1>2, <1>3, <1>4, WeightsOfTwo
<1>6. Weights(lengths, B, W) = Cardinality(B) * Pow2[W - b]
  <2> HIDE DEF b
  <2> QED BY <1>0, WeightsBelow
<1>7. Weights(lengths, A, W) = Weighted(count, b - 1, W)
  <2>1. \A d \in 0 .. W : Weights(lengths, UpTo(lengths, n, d), W) = Weighted(count, d, W)
    <3> HIDE DEF A, B, b
    <3> QED BY WeightsUpTo
  <2> DEFINE d == b - 1
  <2>2. d \in 0 .. W
    BY <1>0
  <2> HIDE DEF d
  <2>3. Weights(lengths, UpTo(lengths, n, d), W) = Weighted(count, d, W)
    BY <2>1, <2>2
  <2> QED BY <2>3 DEF d
<1> HIDE DEF A
<1> QED BY <1>1, <1>5, <1>6, <1>7

\* Keys are words followed by zeros.
LEMMA KeyAfterWider ==
  ASSUME NEW W \in 0 .. RevBits, NEW top \in 0 .. W, NEW count, Counts(count, top), NEW b \in 0 .. top
  PROVE  KeyAfter(count, b) = Pow2[RevBits - W] * Weighted(count, b, W)
<1>1. W \in Nat /\ RevBits - W \in Nat /\ W + (RevBits - W) = RevBits
  BY Widths
<1>2. Weighted(count, b, W + (RevBits - W)) = Pow2[RevBits - W] * Weighted(count, b, W)
  BY <1>1, WeightedWider
<1>3. KeyAfter(count, b) = Weighted(count, b, RevBits)
  BY DEF KeyAfter, Weighted
<1> QED BY <1>1, <1>2, <1>3

\* The code words of a symbol, from the keys its code covers.
LEMMA ScaledRange ==
  ASSUME NEW p \in Nat \ {0}, NEW f \in Int, NEW s \in Int, NEW r \in Int,
         p * f <= p * r, p * r < p * f + p * s
  PROVE  f <= r /\ r < f + s
<1>1. ~(r < f)
  <2> SUFFICES ASSUME r + 1 <= f PROVE FALSE
    OBVIOUS
  <2>1. p * (r + 1) <= p * f
    <3> DEFINE d == f - (r + 1)
    <3>1. d \in Nat /\ f = (r + 1) + d
      OBVIOUS
    <3> HIDE DEF d
    <3>2. p * f = p * (r + 1) + p * d /\ p * d \in Nat
      BY <3>1
    <3>3. p * f \in Int /\ p * (r + 1) \in Int
      OBVIOUS
    <3> QED BY <3>2, <3>3
  <2>2. p * (r + 1) = p * r + p /\ p * r \in Int /\ p * f \in Int
    OBVIOUS
  <2> QED BY <2>1, <2>2
<1>2. ~(f + s <= r)
  <2> SUFFICES ASSUME f + s <= r PROVE FALSE
    OBVIOUS
  <2> DEFINE d == r - (f + s)
  <2>1. d \in Nat /\ r = (f + s) + d
    OBVIOUS
  <2> HIDE DEF d
  <2>2. p * r = p * f + p * s + p * d /\ p * d \in Nat /\ p * f \in Int /\ p * s \in Int
    BY <2>1
  <2> QED BY <2>2
<1> QED BY <1>1, <1>2

\* The codes a list of the symbols gives, and the symbol of each.
LEMMA ListedSymbol ==
  ASSUME NEW n \in Nat, NEW top \in Nat, NEW lengths \in [0 .. n - 1 -> Nat], NEW count,
         NEW symbolsOf, Listing(lengths, n, count, symbolsOf, top), NEW c \in CodesUpTo(top, count)
  PROVE  LET x == symbolsOf[c[1]][c[2]]
         IN  /\ x \in 0 .. n - 1 /\ lengths[x] = c[1] /\ lengths[x] \in 1 .. top
             /\ Cardinality(Below(Group(lengths, n, c[1]), x)) = c[2] - 1 /\ c[2] \in Nat
<1>1. PICK b \in 1 .. top : c \in {<<b, k>> : k \in 1 .. count[b]}
  BY DEF CodesUpTo
<1>2. PICK k \in 1 .. count[b] : c = <<b, k>>
  BY <1>1
<1>3. /\ symbolsOf[b][k] \in Group(lengths, n, b)
      /\ Cardinality(Below(Group(lengths, n, b), symbolsOf[b][k])) = k - 1
      /\ count[b] \in Nat
  BY GroupIs DEF Listing
<1>4. k \in Nat
  BY <1>3
<1> QED BY <1>2, <1>3, <1>4 DEF Group

HasCode(symbolsOf, lengths, x, top, count) ==
  \E c \in CodesUpTo(top, count) : c[1] = lengths[x] /\ symbolsOf[c[1]][c[2]] = x

\* Every symbol with a length has a code.
LEMMA SymbolIsListed ==
  ASSUME NEW n \in Nat, NEW top \in Nat, NEW lengths \in [0 .. n - 1 -> Nat], NEW count,
         NEW symbolsOf, Listing(lengths, n, count, symbolsOf, top),
         NEW x \in 0 .. n - 1, lengths[x] \in 1 .. top
  PROVE  HasCode(symbolsOf, lengths, x, top, count)
<1> DEFINE b == lengths[x]
           G == Group(lengths, n, b)
           k == Cardinality(Below(G, x)) + 1
<1>1. x \in G /\ G \in SUBSET Nat /\ IsFiniteSet(G) /\ b \in 1 .. top
  BY GroupIs DEF Group
<1> HIDE DEF G, b
<1>2. /\ Cardinality(G) = Cardinality(Below(G, x)) + 1 + Cardinality(Above(G, x))
      /\ Cardinality(Below(G, x)) \in Nat /\ Cardinality(Above(G, x)) \in Nat
  BY <1>1, AboveOrBelow
<1>3. k \in 1 .. Cardinality(G) /\ k - 1 = Cardinality(Below(G, x))
  BY <1>2, SMTT(30)
<1> HIDE DEF k
<1>4. /\ count[b] = Cardinality(G) /\ symbolsOf[b][k] \in G
      /\ Cardinality(Below(G, symbolsOf[b][k])) = k - 1
  <2>1. count[b] = Cardinality(G)
    BY <1>1 DEF Listing, G
  <2> QED BY <1>1, <1>3, <2>1 DEF Listing, G
<1> DEFINE y == symbolsOf[b][k]
<1>5. y = x
  <2>1. y \in G /\ Cardinality(Below(G, y)) = Cardinality(Below(G, x))
    BY <1>3, <1>4
  <2> HIDE DEF y
  <2> QED BY <1>1, <2>1, SameRank
<1>6. <<b, k>> \in CodesUpTo(top, count)
  BY <1>1, <1>3, <1>4 DEF CodesUpTo
<1> QED BY <1>5, <1>6 DEF b, HasCode

---------------------------------------------------------------------------
(* The table of the code of code lengths decodes it.                       *)

\* The reversal of an index, in more bits than it has.
LEMMA ReverseBitsIs ==
  ASSUME NEW W \in 0 .. RevBits, NEW i \in 0 .. Pow2[W] - 1
  PROVE  /\ ReverseBits(i) = Pow2[RevBits - W] * Reversed(i, W)
         /\ Reversed(i, W) \in 0 .. Pow2[W] - 1 /\ i \in Nat
         /\ ReverseBits(i) \in 0 .. Pow2[RevBits] - 1
<1>1. W \in Nat /\ RevBits \in Nat /\ RevBits - W \in Nat /\ W + (RevBits - W) = RevBits
  BY Widths
<1>2. i \in Nat
  <2>1. Pow2[W] \in Nat
    BY <1>1, PowNat
  <2> QED BY <2>1
<1>3. Reversed(i, W + (RevBits - W)) = Pow2[RevBits - W] * Reversed(i, W)
  BY <1>1, ReversedWide
<1>4. Reversed(i, W) \in 0 .. Pow2[W] - 1 /\ Reversed(i, RevBits) \in 0 .. Pow2[RevBits] - 1
  BY <1>1, <1>2, ReversedType
<1> QED BY <1>1, <1>2, <1>3, <1>4 DEF ReverseBits

\* A complete list of lengths gives every index of the small table an entry: the
\* length of its symbol, one of whose words the index is.
LEMMA SmallTableEntry ==
  ASSUME NEW n \in Nat, NEW lengths \in [0 .. n - 1 -> 0 .. CodeLengthBits], NEW count,
         \A b \in 1 .. CodeLengthBits : count[b] = Cardinality(Group(lengths, n, b)),
         Cardinality(UsedIn(lengths, n)) # 1, KeyAfter(count, CodeLengthBits) = Pow2[RevBits],
         NEW i \in 0 .. Pow2[CodeLengthBits] - 1
  PROVE  LET t == BuildCodeLengthsHuffmanTable(lengths, count, n)
             x == t[i].value
             first == Weights(lengths, WordsBefore(lengths, n, x), CodeLengthBits)
         IN  /\ DOMAIN t = 0 .. Pow2[CodeLengthBits] - 1
             /\ x \in UsedIn(lengths, n) /\ t[i].bits = lengths[x] /\ lengths[x] \in 1 .. CodeLengthBits
             /\ Reversed(i, CodeLengthBits) \in first .. first + Pow2[CodeLengthBits - lengths[x]] - 1
<1> DEFINE W == CodeLengthBits
           sorted == SortedByLength(lengths, count, n)
           t == BuildCodeLengthsHuffmanTable(lengths, count, n)
<1>0. W \in Nat /\ W \in 0 .. RevBits /\ W \in 0 .. W /\ RevBits - W \in Nat /\ W >= 1 /\ RevBits \in Nat
  BY Widths
<1>1. t = RootTable(W, sorted, count)
  BY DEF BuildCodeLengthsHuffmanTable, UsedIn
<1>2. Listing(lengths, n, count, sorted, W)
  BY SortedIsListing
<1>3. Counts(count, W)
  BY GroupIs DEF Counts
<1>4. ReverseBits(i) \in Nat /\ ReverseBits(i) < Pow2[RevBits]
      /\ ReverseBits(i) = Pow2[RevBits - W] * Reversed(i, W) /\ Reversed(i, W) \in Nat
  <2>1. Pow2[RevBits] \in Nat /\ Pow2[W] \in Nat
    BY <1>0, PowNat
  <2> HIDE DEF W
  <2>2. ReverseBits(i) = Pow2[RevBits - W] * Reversed(i, W) /\ Reversed(i, W) \in 0 .. Pow2[W] - 1
        /\ ReverseBits(i) \in 0 .. Pow2[RevBits] - 1
    BY <1>0, ReverseBitsIs DEF W
  <2> QED BY <2>1, <2>2
<1> HIDE DEF t, sorted
<1>5. PICK c \in CodesUpTo(W, count) : Covers(count, c, ReverseBits(i))
  BY <1>0, <1>3, <1>4, SomeCodeCovers
<1>6. KeyAfter(count, W) <= Pow2[RevBits]
  BY <1>0, PowNat
<1>7. t[i] = HuffmanCode(c[1], sorted[c[1]][c[2]]) /\ DOMAIN t = 0 .. Pow2[W] - 1
  BY <1>0, <1>1, <1>3, <1>5, <1>6, RootTableIs
<1> DEFINE x == sorted[c[1]][c[2]]
           b == c[1]
           k == c[2]
<1>8. /\ x \in 0 .. n - 1 /\ lengths[x] = b /\ lengths[x] \in 1 .. W
      /\ Cardinality(Below(Group(lengths, n, b), x)) = k - 1 /\ k \in Nat
  <2>1. lengths \in [0 .. n - 1 -> Nat]
    BY <1>0
  <2> QED BY <1>0, <1>2, <2>1, ListedSymbol
<1>9. t[i].bits = b /\ t[i].value = x
  BY <1>7 DEF HuffmanCode
<1> HIDE DEF x
<1> DEFINE first == Weights(lengths, WordsBefore(lengths, n, x), W)
<1>10. first = Weighted(count, b - 1, W) + (k - 1) * Pow2[W - b]
  <2>1. x \in 0 .. n - 1 /\ lengths[x] \in 1 .. W
    BY <1>8
  <2>2. first = Weighted(count, lengths[x] - 1, W)
                  + Cardinality(Below(Group(lengths, n, lengths[x]), x)) * Pow2[W - lengths[x]]
    BY <1>0, <2>1, FirstWordIs
  <2> QED BY <1>8, <2>2
<1>11. b \in Nat /\ b \in 1 .. W /\ b - 1 \in 0 .. W /\ W - b \in Nat
  BY <1>0, <1>8
<1>12. KeyAfter(count, b - 1) = Pow2[RevBits - W] * Weighted(count, b - 1, W) /\ Weighted(count, b - 1, W) \in Nat
  BY <1>0, <1>3, <1>11, KeyAfterWider, WeightedStep
<1>13. Pow2[RevBits - b] = Pow2[RevBits - W] * Pow2[W - b]
       /\ Pow2[RevBits - W] \in Nat \ {0} /\ Pow2[W - b] \in Nat \ {0}
  <2>1. RevBits - b = (RevBits - W) + (W - b)
    BY <1>0, <1>11
  <2> QED BY <1>0, <1>11, <2>1, PowSum, PowNat
<1> DEFINE p == Pow2[RevBits - W]
           s == Pow2[W - b]
           w == Weighted(count, b - 1, W)
           r == Reversed(i, W)
<1>14. /\ p * w + (k - 1) * (p * s) <= p * r
       /\ p * r < (p * w + (k - 1) * (p * s)) + p * s
  BY <1>4, <1>5, <1>12, <1>13 DEF Covers, KeyOf
<1>15. p \in Nat \ {0} /\ s \in Nat \ {0} /\ w \in Nat /\ r \in Nat /\ k \in Nat /\ first = w + (k - 1) * s
  BY <1>4, <1>8, <1>10, <1>12, <1>13
<1> HIDE DEF p, s, w, r, first, k
<1>16. p * w + (k - 1) * (p * s) = p * first /\ first \in Int /\ s \in Int /\ r \in Int
  BY <1>15
<1>17. first <= r /\ r < first + s
  BY <1>14, <1>15, <1>16, ScaledRange
<1>18. r \in first .. first + s - 1
  BY <1>16, <1>17
<1>19. x \in UsedIn(lengths, n)
  BY <1>8, <1>11 DEF UsedIn
<1> QED BY <1>7, <1>8, <1>9, <1>18, <1>19 DEF first, r, s, t

\* Every symbol with a length is in the table.
LEMMA SmallTableHasAll ==
  ASSUME NEW n \in Nat, NEW lengths \in [0 .. n - 1 -> 0 .. CodeLengthBits], NEW count,
         \A b \in 1 .. CodeLengthBits : count[b] = Cardinality(Group(lengths, n, b)),
         Cardinality(UsedIn(lengths, n)) # 1, KeyAfter(count, CodeLengthBits) = Pow2[RevBits],
         NEW x \in UsedIn(lengths, n)
  PROVE  \E i \in 0 .. Pow2[CodeLengthBits] - 1 : BuildCodeLengthsHuffmanTable(lengths, count, n)[i].value = x
<1> DEFINE W == CodeLengthBits
           sorted == SortedByLength(lengths, count, n)
           t == BuildCodeLengthsHuffmanTable(lengths, count, n)
<1>0. W \in Nat /\ W \in 0 .. RevBits /\ W \in 0 .. W /\ W >= 1 /\ RevBits \in Nat
  BY Widths
<1>1. t = RootTable(W, sorted, count)
  BY DEF BuildCodeLengthsHuffmanTable, UsedIn
<1>2. Listing(lengths, n, count, sorted, W)
  BY SortedIsListing
<1>3. Counts(count, W)
  BY GroupIs DEF Counts
<1>4. x \in 0 .. n - 1 /\ lengths[x] \in 1 .. W
  <2>1. x \in 0 .. n - 1 /\ lengths[x] # 0 /\ lengths[x] \in 0 .. W
    BY DEF UsedIn
  <2> QED BY <1>0, <2>1
<1> HIDE DEF t, sorted
<1>5. PICK c \in CodesUpTo(W, count) : c[1] = lengths[x] /\ sorted[c[1]][c[2]] = x
  <2>1. lengths[x] \in 1 .. W /\ x \in 0 .. n - 1
    BY <1>4
  <2>2. lengths \in [0 .. n - 1 -> Nat]
    BY <1>0
  <2>3. HasCode(sorted, lengths, x, W, count)
    BY <1>0, <1>2, <2>1, <2>2, SymbolIsListed
  <2> QED BY <2>3 DEF HasCode
<1>6. KeyAfter(count, W) <= Pow2[RevBits]
  BY <1>0, PowNat
<1> DEFINE i == ReverseBits(KeyOf(count, c))
<1>7. i \in 0 .. Pow2[c[1]] - 1
  BY <1>0, <1>3, <1>6, HitsAre
<1>8. c[1] \in Nat /\ c[1] <= W /\ Pow2[c[1]] \in Nat \ {0}
  BY <1>0, <1>4, <1>5, PowNat
<1> HIDE DEF i
<1>9. Pow2[c[1]] <= Pow2[W] /\ Pow2[W] \in Nat
  BY <1>0, <1>8, PowGrows, PowNat
<1>10. i \in Nat /\ i \in 0 .. Pow2[W] - 1 /\ i % Pow2[c[1]] = i
  <2>1. i \in Nat /\ i \in 0 .. Pow2[W] - 1
    BY <1>7, <1>8, <1>9
  <2>2. i % Pow2[c[1]] = i
    BY <1>7, <1>8, DivSmall
  <2> QED BY <2>1, <2>2
<1>11. Covers(count, c, ReverseBits(i))
  <2>1. i % Pow2[c[1]] = ReverseBits(KeyOf(count, c))
    BY <1>10 DEF i
  <2> QED BY <1>0, <1>3, <1>6, <1>10, <2>1, HitsAre
<1>12. t[i] = HuffmanCode(c[1], sorted[c[1]][c[2]])
  BY <1>0, <1>1, <1>3, <1>6, <1>10, <1>11, RootTableIs
<1>13. t[i].value = x
  BY <1>5, <1>12 DEF HuffmanCode
<1> QED BY <1>10, <1>13 DEF t

---------------------------------------------------------------------------
(* The table of two levels decodes.  An input is the next MaxLength bits.  *)

\* The bits of an index of the second level.
MoreBits == MaxLength - RootBits

\* Which root entry an input begins with, and which of the words that go on from
\* there it is.
RowOf(w) == Reversed(w % Pow2[RootBits], RootBits)

ColumnOf(w) == Reversed(w \div Pow2[RootBits], MoreBits)

\* The widths, once more.
LEMMA MoreWidths ==
  /\ RootBits \in Nat /\ MaxLength \in Nat /\ RevBits \in Nat /\ MoreBits \in Nat /\ MoreBits >= 1 /\ RootBits >= 3
  /\ MaxLength = RootBits + MoreBits /\ MoreBits <= RevBits /\ RootBits <= RevBits
  /\ RevBits - MoreBits \in Nat /\ RevBits - RootBits \in Nat
  /\ Pow2[RootBits] \in Nat \ {0} /\ Pow2[MoreBits] \in Nat \ {0} /\ Pow2[MaxLength] \in Nat \ {0}
  /\ Pow2[RevBits - MoreBits] \in Nat \ {0} /\ Pow2[RevBits - RootBits] \in Nat \ {0} /\ Pow2[RevBits] \in Nat \ {0}
  /\ Pow2[MaxLength] = Pow2[RootBits] * Pow2[MoreBits]
  /\ Pow2[RevBits] = Pow2[MoreBits] * Pow2[RevBits - MoreBits]
  /\ Pow2[RevBits] = Pow2[RootBits] * Pow2[RevBits - RootBits]
<1>1. /\ RootBits \in Nat /\ MaxLength \in Nat /\ RevBits \in Nat /\ MoreBits \in Nat /\ MoreBits >= 1 /\ RootBits >= 3
      /\ MaxLength = RootBits + MoreBits /\ MoreBits <= RevBits /\ RootBits <= RevBits
  BY Widths DEF MoreBits
<1>2. RevBits - MoreBits \in Nat /\ RevBits - RootBits \in Nat
      /\ RevBits = MoreBits + (RevBits - MoreBits) /\ RevBits = RootBits + (RevBits - RootBits)
  BY <1>1
<1>3. /\ Pow2[RootBits] \in Nat \ {0} /\ Pow2[MoreBits] \in Nat \ {0} /\ Pow2[MaxLength] \in Nat \ {0}
      /\ Pow2[RevBits - MoreBits] \in Nat \ {0} /\ Pow2[RevBits - RootBits] \in Nat \ {0} /\ Pow2[RevBits] \in Nat \ {0}
  BY <1>1, <1>2, PowNat
<1>4. Pow2[RootBits + MoreBits] = Pow2[RootBits] * Pow2[MoreBits]
  BY <1>1, PowSum
<1>5. Pow2[MoreBits + (RevBits - MoreBits)] = Pow2[MoreBits] * Pow2[RevBits - MoreBits]
  BY <1>1, <1>2, PowSum
<1>6. Pow2[RootBits + (RevBits - RootBits)] = Pow2[RootBits] * Pow2[RevBits - RootBits]
  BY <1>1, <1>2, PowSum
<1> QED BY <1>1, <1>2, <1>3, <1>4, <1>5, <1>6

\* Quotients of numbers below a product.
LEMMA QuotientBelow ==
  ASSUME NEW p \in Nat \ {0}, NEW q \in Nat \ {0}, NEW n \in Nat, n < p * q
  PROVE  n \div p \in 0 .. q - 1
<1> DEFINE d == n \div p
           r == n % p
<1>1. n = p * d + r /\ d \in Nat /\ r \in 0 .. p - 1
  BY DivMod
<1> HIDE DEF d, r
<1>2. ASSUME d >= q PROVE FALSE
  <2>1. p * d = p * q + p * (d - q) /\ p * (d - q) \in Nat /\ p * q \in Nat
    BY <1>1, <1>2
  <2> QED BY <1>1, <2>1
<1>3. d \in 0 .. q - 1
  BY <1>1, <1>2
<1> QED BY <1>3 DEF d

\* A word, reversed: its row first.
LEMMA WordSplit ==
  ASSUME NEW w \in 0 .. Pow2[MaxLength] - 1
  PROVE  /\ w \in Nat /\ w % Pow2[RootBits] \in 0 .. Pow2[RootBits] - 1
         /\ w \div Pow2[RootBits] \in 0 .. Pow2[MoreBits] - 1
         /\ RowOf(w) \in 0 .. Pow2[RootBits] - 1 /\ ColumnOf(w) \in 0 .. Pow2[MoreBits] - 1
         /\ Reversed(w, MaxLength) = Pow2[MoreBits] * RowOf(w) + ColumnOf(w)
         /\ Reversed(w, MaxLength) \in 0 .. Pow2[MaxLength] - 1
<1>0. w \in Nat /\ w < Pow2[RootBits] * Pow2[MoreBits]
  BY MoreWidths
<1> DEFINE i == w % Pow2[RootBits]
           j == w \div Pow2[RootBits]
<1>1. i \in 0 .. Pow2[RootBits] - 1 /\ j \in 0 .. Pow2[MoreBits] - 1
  BY <1>0, MoreWidths, DivMod, QuotientBelow
<1>2. i \in Nat /\ j \in Nat
  BY <1>1, MoreWidths
<1> HIDE DEF i, j
<1>3. /\ Reversed(i, RootBits) \in 0 .. Pow2[RootBits] - 1
      /\ Reversed(j, MoreBits) \in 0 .. Pow2[MoreBits] - 1
      /\ Reversed(w, MaxLength) \in 0 .. Pow2[MaxLength] - 1
  BY <1>0, <1>2, MoreWidths, ReversedType
<1>4. Reversed(w, RootBits + MoreBits) = Pow2[MoreBits] * Reversed(w, RootBits) + Reversed(j, MoreBits)
  BY <1>0, MoreWidths, ReversedSplit DEF j
<1>5. Reversed(i, RootBits) = Reversed(w, RootBits)
  BY <1>0, MoreWidths, ReversedLow DEF i
<1>6. Reversed(w, MaxLength) = Pow2[MoreBits] * Reversed(i, RootBits) + Reversed(j, MoreBits)
  BY <1>4, <1>5, MoreWidths
<1> QED BY <1>0, <1>1, <1>3, <1>6 DEF RowOf, ColumnOf, i, j

\* The root index of a row.
LEMMA RowIs ==
  ASSUME NEW w \in 0 .. Pow2[MaxLength] - 1, NEW r \in 0 .. Pow2[RootBits] - 1
  PROVE  /\ RowOf(w) = r <=> w % Pow2[RootBits] = Reversed(r, RootBits)
         /\ Reversed(r, RootBits) \in 0 .. Pow2[RootBits] - 1
<1> DEFINE i == w % Pow2[RootBits]
<1>1. i \in 0 .. Pow2[RootBits] - 1 /\ i \in Nat /\ r \in Nat
  BY WordSplit, MoreWidths
<1> HIDE DEF i
<1>2. /\ Reversed(Reversed(i, RootBits), RootBits) = i % Pow2[RootBits]
      /\ Reversed(Reversed(r, RootBits), RootBits) = r % Pow2[RootBits]
      /\ Reversed(r, RootBits) \in 0 .. Pow2[RootBits] - 1
  BY <1>1, MoreWidths, ReversedTwice, ReversedType
<1>3. i % Pow2[RootBits] = i /\ r % Pow2[RootBits] = r
  BY <1>1, MoreWidths, DivSmall
<1>4. (Reversed(i, RootBits) = r) <=> (i = Reversed(r, RootBits))
  BY <1>2, <1>3
<1> QED BY <1>2, <1>4 DEF RowOf, i

\* The entries at every step-th place.
LEMMA StepHits ==
  ASSUME NEW step \in Nat \ {0}, NEW at \in 0 .. step - 1, NEW j \in Nat
  PROVE  (j >= at /\ (j - at) % step = 0) <=> j % step = at
<1> DEFINE d == j \div step
           r == j % step
<1>1. j = step * d + r /\ d \in Nat /\ r \in 0 .. step - 1
  BY DivMod
<1> HIDE DEF d, r
<1>2. ASSUME r = at PROVE j >= at /\ (j - at) % step = 0
  <2>1. j - at = step * d + 0 /\ j - at \in Nat /\ 0 \in 0 .. step - 1
    BY <1>1, <1>2
  <2>2. 0 = (j - at) % step
    <3> DEFINE n == j - at
    <3>1. n \in Nat /\ n = step * d + 0
      BY <2>1
    <3> HIDE DEF n
    <3>2. 0 = n % step
      BY <1>1, <2>1, <3>1, DivUnique
    <3> QED BY <3>2 DEF n
  <2> QED BY <2>1, <2>2
<1>3. ASSUME j >= at, (j - at) % step = 0 PROVE r = at
  <2> DEFINE n == j - at
             e == n \div step
  <2>1. n \in Nat
    BY <1>3
  <2>2. n = step * e + (n % step) /\ e \in Nat
    <3> HIDE DEF n
    <3> QED BY <2>1, DivMod
  <2>3. n % step = 0
    BY <1>3
  <2> HIDE DEF e
  <2>4. j = step * e + at
    <3> HIDE DEF n
    <3>1. n = step * e
      BY <2>2, <2>3
    <3> QED BY <3>1 DEF n
  <2>5. at = j % step
    <3> HIDE DEF n
    <3>1. e \in Int
      BY <2>2
    <3> QED BY <2>4, <3>1, DivUnique
  <2> QED BY <2>5 DEF r
<1> QED BY <1>2, <1>3 DEF r

\* A remainder of a remainder.
LEMMA ModOfMod ==
  ASSUME NEW n \in Nat, NEW p \in Nat \ {0}, NEW q \in Nat \ {0}
  PROVE  (n % (p * q)) % p = n % p
<1> DEFINE m == n % (p * q)
           d == n \div (p * q)
           e == m \div p
           r == m % p
<1>0. p * q \in Nat \ {0}
  OBVIOUS
<1>1. n = (p * q) * d + m /\ d \in Nat /\ m \in Nat
  <2> DEFINE pq == p * q
  <2>1. pq \in Nat \ {0}
    BY <1>0
  <2> HIDE DEF pq
  <2>2. n = pq * (n \div pq) + (n % pq) /\ n \div pq \in Nat /\ n % pq \in 0 .. pq - 1
    BY <2>1, DivMod
  <2>3. n % pq \in Nat
    BY <2>1, <2>2
  <2> QED BY <2>2, <2>3 DEF pq
<1> HIDE DEF m, d
<1>2. m = p * e + r /\ e \in Nat /\ r \in 0 .. p - 1
  BY <1>1, DivMod
<1> HIDE DEF e, r
<1>3. n = p * (q * d + e) + r /\ q * d + e \in Int
  <2>1. (p * q) * d = p * (q * d)
    BY <1>1
  <2>2. q * d \in Nat
    BY <1>1
  <2> QED BY <1>1, <1>2, <2>1, <2>2
<1>4. r = n % p
  <2> DEFINE z == q * d + e
  <2>1. z \in Int /\ n = p * z + r
    BY <1>3
  <2> HIDE DEF z
  <2> QED BY <1>2, <2>1, DivUnique
<1> QED BY <1>4 DEF r, m

\* The first word of the k-th code of a length.
FirstOf(count, len, k) == Weighted(count, len - 1, MaxLength) + (k - 1) * Pow2[MaxLength - len]

\* Longer codes have later words.
LEMMA WeightedGrows ==
  ASSUME NEW W \in Nat, NEW top \in 0 .. W, NEW count, Counts(count, top), NEW a \in 0 .. top
  PROVE  \A b \in 0 .. top : a <= b => Weighted(count, a, W) <= Weighted(count, b, W)
<1>0. top \in Nat /\ a \in Nat /\ W \in Nat
  OBVIOUS
<1> DEFINE N == {d \in Nat : a + d <= top => Weighted(count, a, W) <= Weighted(count, a + d, W)}
<1>1. 0 \in N
  <2>1. a + 0 = a /\ Weighted(count, a, W) \in Nat
    BY <1>0, WeightedStep
  <2> QED BY <2>1
<1>2. ASSUME NEW d \in Nat, d \in N PROVE d + 1 \in N
  <2> SUFFICES ASSUME a + (d + 1) <= top PROVE Weighted(count, a, W) <= Weighted(count, a + (d + 1), W)
    OBVIOUS
  <2> DEFINE e == a + d
             f == a + (d + 1)
  <2>1. e \in 0 .. top /\ f \in 0 .. top /\ f > 0 /\ f - 1 = e
    BY <1>0
  <2>2. Weighted(count, a, W) <= Weighted(count, e, W)
    BY <1>2, <2>1
  <2> HIDE DEF e, f
  <2>3. Weighted(count, f, W) = Weighted(count, e, W) + count[f] * Pow2[W - f] /\ count[f] \in Nat
        /\ Weighted(count, e, W) \in Nat /\ Weighted(count, a, W) \in Nat
    BY <2>1, WeightedStep
  <2>4. W - f \in Nat
    BY <1>0, <2>1
  <2>5. Pow2[W - f] \in Nat
    BY <2>4, PowNat
  <2>6. count[f] * Pow2[W - f] \in Nat
    BY <2>3, <2>5
  <2>7. Weighted(count, a, W) <= Weighted(count, f, W)
    BY <2>2, <2>3, <2>6
  <2> QED BY <2>7 DEF f
<1>3. \A d \in Nat : d \in N
  <2> HIDE DEF N
  <2> QED BY <1>1, <1>2, NatSetInduction
<1> SUFFICES ASSUME NEW b \in 0 .. top, a <= b PROVE Weighted(count, a, W) <= Weighted(count, b, W)
  OBVIOUS
<1>4. b - a \in Nat /\ a + (b - a) = b /\ b <= top
  BY <1>0
<1>5. b - a \in N
  BY <1>3, <1>4
<1> QED BY <1>4, <1>5

\* Which codes there are: a length and a place.
LEMMA CodePlace ==
  ASSUME NEW count, Counts(count, MaxLength), NEW len \in 1 .. MaxLength, NEW k \in 1 .. count[len]
  PROVE  /\ len \in Nat /\ k \in Nat /\ len - 1 \in 0 .. MaxLength /\ MaxLength - len \in Nat
         /\ count[len] \in Nat /\ Pow2[MaxLength - len] \in Nat \ {0}
         /\ Weighted(count, len - 1, MaxLength) \in Nat
         /\ FirstOf(count, len, k) \in Nat /\ FirstOf(count, len, k) >= Weighted(count, len - 1, MaxLength)
         /\ FirstOf(count, len, k + 1) = FirstOf(count, len, k) + Pow2[MaxLength - len]
         /\ FirstOf(count, len, 1) = Weighted(count, len - 1, MaxLength)
         /\ FirstOf(count, len, count[len] + 1) = Weighted(count, len, MaxLength)
         /\ FirstOf(count, len, k + 1) <= Weighted(count, len, MaxLength)
<1>1. MaxLength \in Nat /\ len \in Nat /\ k \in Nat /\ len - 1 \in 0 .. MaxLength /\ MaxLength - len \in Nat
      /\ count[len] \in Nat /\ len \in 0 .. MaxLength /\ len > 0
  BY Widths DEF Counts
<1>2. Pow2[MaxLength - len] \in Nat \ {0}
  BY <1>1, PowNat
<1>3. Weighted(count, len, MaxLength) = Weighted(count, len - 1, MaxLength) + count[len] * Pow2[MaxLength - len]
      /\ Weighted(count, len - 1, MaxLength) \in Nat
  <2>1. MaxLength \in 0 .. MaxLength
    BY <1>1
  <2> QED BY <1>1, <2>1, WeightedStep
<1> DEFINE p == Pow2[MaxLength - len]
           f == Weighted(count, len - 1, MaxLength)
           c == count[len]
<1>4. \A j : FirstOf(count, len, j) = f + (j - 1) * p
  BY DEF FirstOf
<1>5. p \in Nat \ {0} /\ f \in Nat /\ c \in Nat /\ k \in 1 .. c /\ k \in Nat /\ c \in Nat
  BY <1>1, <1>2, <1>3
<1> HIDE DEF p, f, c
<1>6. /\ f + (k - 1) * p \in Nat /\ f + (k - 1) * p >= f
      /\ f + ((k + 1) - 1) * p = (f + (k - 1) * p) + p
      /\ f + (1 - 1) * p = f
      /\ f + ((c + 1) - 1) * p = f + c * p
      /\ f + ((k + 1) - 1) * p <= f + c * p
  <2>1. (k - 1) * p \in Nat
    BY <1>5
  <2>2. (c - k) * p \in Nat /\ c * p = k * p + (c - k) * p
    BY <1>5
  <2>3. k * p = (k - 1) * p + p /\ k * p \in Nat
    BY <1>5
  <2>4. (k + 1) - 1 = k /\ (c + 1) - 1 = c /\ 1 - 1 = 0 /\ 0 * p = 0
    BY <1>5
  <2> QED BY <1>5, <2>1, <2>2, <2>3, <2>4
<1>7. Weighted(count, len, MaxLength) = f + c * p
  BY <1>3 DEF f, c, p
<1>8. FirstOf(count, len, k) = f + (k - 1) * p /\ FirstOf(count, len, k + 1) = f + ((k + 1) - 1) * p
      /\ FirstOf(count, len, 1) = f + (1 - 1) * p /\ FirstOf(count, len, c + 1) = f + ((c + 1) - 1) * p
  BY <1>4
<1> QED BY <1>1, <1>2, <1>5, <1>6, <1>7, <1>8 DEF f, c, p

\* A code's first word is a multiple of the words it has.
LEMMA FirstAligned ==
  ASSUME NEW count, Counts(count, MaxLength), NEW len \in 1 .. MaxLength, NEW k \in 1 .. count[len]
  PROVE  \E q \in Nat : FirstOf(count, len, k) = q * Pow2[MaxLength - len]
<1>1. MaxLength \in Nat /\ len \in Nat /\ k \in Nat /\ len - 1 \in 0 .. len - 1 /\ len - 1 \in 0 .. len
      /\ MaxLength - len \in Nat /\ len + (MaxLength - len) = MaxLength
      /\ Pow2[MaxLength - len] \in Nat \ {0} /\ len - 1 \in Nat
  BY CodePlace, Widths
<1>2. Counts(count, len - 1)
  <2>1. \A b \in 1 .. len - 1 : b \in 1 .. MaxLength
    BY <1>1
  <2> QED BY <2>1 DEF Counts
<1>3. Weighted(count, len - 1, len + (MaxLength - len)) = Pow2[MaxLength - len] * Weighted(count, len - 1, len)
      /\ Weighted(count, len - 1, len) \in Nat
  BY <1>1, <1>2, WeightedWider, WeightedStep, SMTT(30)
<1> DEFINE p == Pow2[MaxLength - len]
           g == Weighted(count, len - 1, len)
<1>4. FirstOf(count, len, k) = p * g + (k - 1) * p
  BY <1>1, <1>3 DEF FirstOf
<1>5. p \in Nat /\ g \in Nat /\ k \in 1 .. count[len] /\ k \in Nat
  BY <1>1, <1>3
<1> HIDE DEF p, g
<1>6. p * g + (k - 1) * p = (g + (k - 1)) * p /\ g + (k - 1) \in Nat
  BY <1>5
<1>7. \E q \in Nat : FirstOf(count, len, k) = q * p
  BY <1>4, <1>6
<1> QED BY <1>7 DEF p

\* What the codes that are left of lengths len .. l weigh, as words of l bits.
LeftOf(count, len, k, l) ==
  SumFunction([j \in len .. l |-> CountsLeft(count, len, k)[j] * Pow2[l - j]])

\* The weights of the codes that are left, without the placed ones.
LEMMA LeftOfIs ==
  ASSUME NEW count \in [0 .. MaxLength -> Nat], NEW len \in RootBits + 1 .. MaxLength,
         NEW k \in Nat, k < count[len], NEW l \in len .. MaxLength
  PROVE  /\ LeftOf(count, len, k, l) \in Int
         /\ l = len => LeftOf(count, len, k, l) = count[len] - k
         /\ l > len => /\ LeftOf(count, len, k, l) = 2 * LeftOf(count, len, k, l - 1) + count[l]
                       /\ LeftOf(count, len, k, l - 1) \in Int
<1> DEFINE left == CountsLeft(count, len, k)
           F(m) == [j \in len .. m |-> left[j] * Pow2[m - j]]
<1>0. RootBits \in Nat /\ MaxLength \in Nat /\ len \in Nat /\ l \in Nat /\ len > RootBits
  BY Widths
<1>1. ASSUME NEW j \in len .. MaxLength
      PROVE  left[j] = (IF j = len THEN count[len] - k ELSE count[j]) /\ left[j] \in Int
  BY <1>0, <1>1 DEF CountsLeft
<1> HIDE DEF left
<1>2. ASSUME NEW m \in len .. MaxLength PROVE FunctionOfInts(F(m)) /\ DOMAIN F(m) = len .. m
  <2>1. ASSUME NEW j \in len .. m PROVE left[j] * Pow2[m - j] \in Int
    <3>1. m - j \in Nat /\ j \in len .. MaxLength
      BY <1>0
    <3>2. Pow2[m - j] \in Int /\ left[j] \in Int
      BY <1>1, <3>1, PowNat
    <3> HIDE DEF left
    <3> QED BY <3>2
  <2>2. IsFiniteSet(len .. m)
    BY <1>0, FS_Interval
  <2> QED BY <2>1, <2>2 DEF FunctionOfInts
<1>3. \A m : LeftOf(count, len, k, m) = SumFunction(F(m))
  BY DEF LeftOf, left
<1>4. ASSUME NEW m \in len .. MaxLength PROVE LeftOf(count, len, k, m) \in Int
  BY <1>2, <1>3, SumType
<1>5. ASSUME l = len PROVE LeftOf(count, len, k, l) = count[len] - k
  <2>1. len .. len = {len}
    BY <1>0
  <2>2. F(len) = [j \in {len} |-> left[len] * 1]
    <3>1. len - len = 0 /\ Pow2[0] = 1
      BY <1>0, PowStep
    <3> QED BY <2>1, <3>1
  <2>3. left[len] = count[len] - k /\ count[len] - k \in Int
    BY <1>0, <1>1
  <2>4. F(len) = [j \in {len} |-> count[len] - k]
    BY <2>2, <2>3
  <2>5. SumFunction([j \in {len} |-> count[len] - k]) = Cardinality({len}) * (count[len] - k)
    <3>1. IsFiniteSet({len})
      BY FS_Singleton
    <3> QED BY <2>3, <3>1, SumConst
  <2>6. Cardinality({len}) = 1
    BY FS_Singleton
  <2>7. LeftOf(count, len, k, l) = SumFunction(F(len))
    BY <1>3, <1>5
  <2> HIDE DEF F
  <2>8. SumFunction(F(len)) = 1 * (count[len] - k)
    BY <2>4, <2>5, <2>6
  <2> QED BY <2>3, <2>7, <2>8
<1>6. ASSUME l > len
      PROVE  /\ LeftOf(count, len, k, l) = 2 * LeftOf(count, len, k, l - 1) + count[l]
             /\ LeftOf(count, len, k, l - 1) \in Int
  <2> DEFINE m == l - 1
             G == [j \in len .. m |-> F(l)[j]]
  <2>1. m \in len .. MaxLength /\ m + 1 = l /\ m \in Int /\ len \in Int /\ len <= m + 1
    BY <1>0, <1>6
  <2>2. FunctionOfInts(F(l)) /\ DOMAIN F(l) = len .. l
    BY <1>2
  <2> HIDE DEF F
  <2>3. SumFunction(F(l)) = SumFunction(G) + F(l)[l]
    <3> DEFINE g == F(l)
    <3>1. FunctionOfInts(g) /\ DOMAIN g = len .. m + 1
      BY <2>1, <2>2
    <3> HIDE DEF g, m
    <3>2. SumFunction(g) = SumFunction([j \in len .. m |-> g[j]]) + g[m + 1]
      BY <2>1, <3>1, SumLast
    <3> QED BY <2>1, <3>2 DEF g
  <2>4. F(l)[l] = count[l]
    <3>1. l \in len .. l /\ l \in len .. MaxLength /\ l # len /\ l - l = 0 /\ Pow2[0] = 1
      BY <1>0, <1>6, PowStep
    <3>2. left[l] = count[l] /\ left[l] \in Int
      BY <1>1, <3>1
    <3> QED BY <3>1, <3>2 DEF F
  <2>5. G = [j \in DOMAIN F(m) |-> 2 * F(m)[j]]
    <3>1. FunctionOfInts(F(m)) /\ DOMAIN F(m) = len .. m
      BY <1>2, <2>1
    <3>2. ASSUME NEW j \in len .. m PROVE F(l)[j] = 2 * F(m)[j]
      <4>1. m - j \in Nat /\ l - j = (m - j) + 1 /\ j \in len .. MaxLength /\ j \in len .. l
        BY <1>0, <2>1
      <4>2. Pow2[l - j] = 2 * Pow2[m - j] /\ Pow2[m - j] \in Int /\ left[j] \in Int
        <5>1. left[j] \in Int
          BY <1>1, <4>1
        <5>2. Pow2[(m - j) + 1] = 2 * Pow2[m - j] /\ Pow2[m - j] \in Nat \ {0}
          BY <4>1, PowStep
        <5> HIDE DEF m
        <5> QED BY <4>1, <5>1, <5>2
      <4>3. F(l)[j] = left[j] * Pow2[l - j] /\ F(m)[j] = left[j] * Pow2[m - j]
        BY <4>1 DEF F
      <4> DEFINE x == left[j]
                 y == Pow2[m - j]
      <4>4. x \in Int /\ y \in Int /\ F(l)[j] = x * (2 * y) /\ F(m)[j] = x * y
        BY <4>2, <4>3
      <4> HIDE DEF x, y
      <4>5. x * (2 * y) = 2 * (x * y)
        BY <4>4
      <4> QED BY <4>4, <4>5
    <3> QED BY <3>1, <3>2
  <2>6. SumFunction(G) = 2 * SumFunction(F(m))
    <3> DEFINE g == F(m)
    <3>1. FunctionOfInts(g)
      BY <1>2, <2>1
    <3>2. G = [j \in DOMAIN g |-> 2 * g[j]]
      BY <2>5
    <3> HIDE DEF g, G
    <3>3. SumFunction([j \in DOMAIN g |-> 2 * g[j]]) = 2 * SumFunction(g)
      BY <3>1, SumScale
    <3>4. SumFunction(G) = 2 * SumFunction(g)
      BY <3>2, <3>3
    <3> QED BY <3>4 DEF g
  <2>7. LeftOf(count, len, k, m) \in Int
    BY <1>4, <2>1
  <2> QED BY <1>3, <2>3, <2>4, <2>6, <2>7
<1>7. LeftOf(count, len, k, l) \in Int
  BY <1>4
<1> QED BY <1>5, <1>6, <1>7

\* With the first of them they are all codes up to l.
LEMMA LeftSum ==
  ASSUME NEW count \in [0 .. MaxLength -> Nat], NEW len \in RootBits + 1 .. MaxLength,
         NEW k \in Nat, k < count[len], NEW l \in len .. MaxLength
  PROVE  /\ LeftOf(count, len, k, l) * Pow2[MaxLength - l] + FirstOf(count, len, k + 1) = Weighted(count, l, MaxLength)
         /\ LeftOf(count, len, k, l) \in Int
<1>0. RootBits \in Nat /\ MaxLength \in Nat /\ len \in Nat /\ l \in Nat /\ len > RootBits /\ Counts(count, MaxLength)
      /\ len \in 1 .. MaxLength /\ MaxLength \in 0 .. MaxLength
  <2>1. RootBits \in Nat /\ MaxLength \in Nat
    BY Widths
  <2>2. Counts(count, MaxLength)
    BY <2>1 DEF Counts
  <2> QED BY <2>1, <2>2
<1> DEFINE S(m) == LeftOf(count, len, k, m)
           w(m) == Weighted(count, m, MaxLength)
           P == FirstOf(count, len, k + 1)
           N == {d \in Nat : len + d <= MaxLength => S(len + d) * Pow2[MaxLength - (len + d)] + P = w(len + d)}
<1>1. ASSUME NEW m \in len .. MaxLength
      PROVE  /\ w(m) = w(m - 1) + count[m] * Pow2[MaxLength - m] /\ w(m - 1) \in Nat
             /\ Pow2[MaxLength - m] \in Nat /\ count[m] \in Nat
  <2>1. m \in 0 .. MaxLength /\ m > 0 /\ MaxLength - m \in Nat
    BY <1>0
  <2>2. Pow2[MaxLength - m] \in Nat
    BY <2>1, PowNat
  <2>3. Weighted(count, m, MaxLength) = Weighted(count, m - 1, MaxLength) + count[m] * Pow2[MaxLength - m]
        /\ count[m] \in Nat /\ Weighted(count, m - 1, MaxLength) \in Nat
    BY <1>0, <2>1, WeightedStep
  <2> QED BY <2>2, <2>3
<1>2. P \in Int
  <2>1. k + 1 \in 1 .. count[len]
    BY <1>0
  <2> QED BY <1>0, <2>1, CodePlace
<1>3. 0 \in N
  <2>1. len + 0 = len /\ len \in len .. MaxLength
    BY <1>0
  <2>2. S(len) = count[len] - k
    BY <2>1, LeftOfIs
  <2>3. P = w(len - 1) + k * Pow2[MaxLength - len]
    <3>1. (k + 1) - 1 = k
      OBVIOUS
    <3> QED BY <3>1 DEF FirstOf
  <2> DEFINE p == Pow2[MaxLength - len]
             c == count[len]
             v == w(len - 1)
  <2>4. p \in Nat /\ c \in Nat /\ v \in Nat /\ w(len) = v + c * p /\ P = v + k * p /\ S(len) = c - k
    BY <1>1, <2>1, <2>2, <2>3
  <2> HIDE DEF p, c, v, w, S, P
  <2>5. (c - k) * p + (v + k * p) = v + c * p
    BY <2>4
  <2>6. S(len) * p + P = w(len)
    BY <2>4, <2>5
  <2> QED BY <2>1, <2>6 DEF p
<1>4. ASSUME NEW d \in Nat, d \in N PROVE d + 1 \in N
  <2> DEFINE m == len + d
             n == len + (d + 1)
  <2> SUFFICES ASSUME n <= MaxLength PROVE S(n) * Pow2[MaxLength - n] + P = w(n)
    OBVIOUS
  <2>1. n = m + 1 /\ m = n - 1 /\ m <= MaxLength /\ m \in len .. MaxLength /\ n \in len .. MaxLength /\ n > len
        /\ MaxLength - n \in Nat /\ MaxLength - m = (MaxLength - n) + 1
    BY <1>0
  <2>2. S(m) * Pow2[MaxLength - m] + P = w(m)
    BY <1>4, <2>1
  <2> HIDE DEF m, n
  <2>3. S(n) = 2 * S(m) + count[n] /\ S(m) \in Int
    <3>1. LeftOf(count, len, k, n) = 2 * LeftOf(count, len, k, n - 1) + count[n]
          /\ LeftOf(count, len, k, n - 1) \in Int
      BY <2>1, LeftOfIs
    <3>2. LeftOf(count, len, k, n) = 2 * LeftOf(count, len, k, m) + count[n]
          /\ LeftOf(count, len, k, m) \in Int
      BY <2>1, <3>1
    <3> QED BY <3>2
  <2>4. w(n) = w(m) + count[n] * Pow2[MaxLength - n] /\ w(m) \in Nat /\ count[n] \in Nat
    BY <1>1, <2>1
  <2>5. Pow2[MaxLength - m] = 2 * Pow2[MaxLength - n] /\ Pow2[MaxLength - n] \in Nat
    BY <2>1, PowStep
  <2> DEFINE p == Pow2[MaxLength - n]
             c == count[n]
             x == S(m)
  <2>6. p \in Nat /\ c \in Nat /\ x \in Int /\ x * (2 * p) + P = w(m) /\ w(m) \in Int /\ P \in Int
    BY <1>2, <2>2, <2>3, <2>4, <2>5
  <2>7. w(n) = w(m) + c * p /\ S(n) = 2 * x + c
    BY <2>3, <2>4
  <2> HIDE DEF p, c, x, w, S, P
  <2>8. (2 * x + c) * p = x * (2 * p) + c * p
    BY <2>6
  <2>9. S(n) * p + P = w(n)
    <3>1. c * p \in Int /\ x * (2 * p) \in Int
      BY <2>6
    <3> QED BY <2>6, <2>7, <2>8, <3>1
  <2> QED BY <2>9 DEF p
<1>5. \A d \in Nat : d \in N
  <2> HIDE DEF N
  <2> QED BY <1>3, <1>4, NatSetInduction
<1>6. l - len \in Nat /\ len + (l - len) = l
  BY <1>0
<1>7. l - len \in N
  BY <1>5, <1>6
<1>8. S(l) * Pow2[MaxLength - l] + P = w(l)
  BY <1>6, <1>7
<1> QED BY <1>8, LeftOfIs

\* A table of the second level is large enough: the codes up to the length it is
\* made for use up its row.
LEMMA TableIsLargeEnough ==
  ASSUME NEW count \in [0 .. MaxLength -> Nat], Weighted(count, MaxLength, MaxLength) = Pow2[MaxLength],
         NEW len \in RootBits + 1 .. MaxLength, NEW k \in Nat, k < count[len],
         NEW P, P = FirstOf(count, len, k + 1)
  PROVE  \E l \in len .. MaxLength :
           /\ NextTableBitSize(CountsLeft(count, len, k), len) = l - RootBits
           /\ l = MaxLength \/ Weighted(count, l, MaxLength) >= P + Pow2[MoreBits]
<1> DEFINE left == CountsLeft(count, len, k)
           Full(l) == SumFunction([j \in len .. l |-> left[j] * Pow2[l - j]]) >= Pow2[l - RootBits]
           bits == NextTableBitSize(left, len)
<1> HIDE DEF left
<1>1. \E l \in len .. MaxLength :
        bits = l - RootBits /\ (l = MaxLength \/ Full(l)) /\ \A j \in len .. l - 1 : ~Full(j)
  BY NextTableBitSizeIs
<1> HIDE DEF Full, bits
<1>2. PICK l \in len .. MaxLength : bits = l - RootBits /\ (l = MaxLength \/ Full(l))
  BY <1>1
<1>3. ASSUME Full(l) PROVE Weighted(count, l, MaxLength) >= P + Pow2[MoreBits]
  <2>1. LeftOf(count, len, k, l) >= Pow2[l - RootBits]
    BY <1>3 DEF Full, LeftOf, left
  <2>2. LeftOf(count, len, k, l) * Pow2[MaxLength - l] + P = Weighted(count, l, MaxLength)
        /\ LeftOf(count, len, k, l) \in Int
    BY LeftSum
  <2>3. /\ l - RootBits \in Nat /\ MaxLength - l \in Nat /\ MoreBits = (l - RootBits) + (MaxLength - l)
        /\ len \in 1 .. MaxLength /\ k + 1 \in 1 .. count[len] /\ Counts(count, MaxLength)
    <3>1. RootBits \in Nat /\ MaxLength \in Nat /\ MoreBits = MaxLength - RootBits
      BY Widths DEF MoreBits
    <3>2. Counts(count, MaxLength)
      BY <3>1 DEF Counts
    <3>3. len \in 0 .. MaxLength
      BY <3>1
    <3> QED BY <3>1, <3>2, <3>3
  <2>4. /\ Pow2[MoreBits] = Pow2[l - RootBits] * Pow2[MaxLength - l]
        /\ Pow2[l - RootBits] \in Nat /\ Pow2[MaxLength - l] \in Nat
    BY <2>3, PowSum, PowNat
  <2>5. P \in Int
    <3>1. FirstOf(count, len, k + 1) \in Nat
      BY <2>3, CodePlace
    <3> QED BY <3>1
  <2> DEFINE x == LeftOf(count, len, k, l)
             y == Pow2[l - RootBits]
             z == Pow2[MaxLength - l]
  <2>6. x \in Int /\ y \in Nat /\ z \in Nat /\ x >= y
    BY <2>1, <2>2, <2>4
  <2>7. x * z + P = Weighted(count, l, MaxLength) /\ Pow2[MoreBits] = y * z
    BY <2>2, <2>4
  <2> HIDE DEF x, y, z
  <2>8. x * z = y * z + (x - y) * z /\ (x - y) * z \in Nat /\ y * z \in Nat
    BY <2>6
  <2> QED BY <2>5, <2>7, <2>8
<1>4. \E m \in len .. MaxLength : bits = m - RootBits /\ (m = MaxLength \/ Weighted(count, m, MaxLength) >= P + Pow2[MoreBits])
  BY <1>2, <1>3
<1> QED BY <1>4 DEF bits, left

\* All inputs of MaxLength bits.
Inputs == 0 .. Pow2[MaxLength] - 1

RootAt(w) == w % Pow2[RootBits]

\* The place in the second level that the root entry of an input leads to.
SecondAt(t, w) ==
  RootAt(w) + t[RootAt(w)].value + ((w \div Pow2[RootBits]) % Pow2[t[RootAt(w)].bits - RootBits])

\* An input is decoded as the code among whose words its reversal is.
Right(t, symbolsOf, count, w) ==
  \E len \in 1 .. MaxLength : \E k \in 1 .. count[len] :
     /\ FirstOf(count, len, k) <= Reversed(w, MaxLength)
     /\ Reversed(w, MaxLength) < FirstOf(count, len, k + 1)
     /\ DecodeSymbol(w, t) = HuffmanCode(len, symbolsOf[len][k])

\* Its entries: in the root, and where that leads, which is below bound.
Entries(t, w, bound) ==
  /\ t[RootAt(w)].bits \in Nat
  /\ t[RootAt(w)].bits > RootBits =>
       /\ t[SecondAt(t, w)].bits \in Nat \ {0}
       /\ SecondAt(t, w) \in Pow2[RootBits] .. bound - 1

\* Nothing is left to do for an input.
Settled(t, symbolsOf, count, w, bound) == Right(t, symbolsOf, count, w) /\ Entries(t, w, bound)

\* The row r is the last one begun, and a table for it is at free.
RowIsOpen(b, count, r) ==
  /\ r \in Nat /\ b.free >= Pow2[RootBits]
  /\ \E l \in RootBits + 1 .. MaxLength :
       /\ b.size = Pow2[l - RootBits]
       /\ Weighted(count, l, MaxLength) >= (r + 1) * Pow2[MoreBits]
       /\ b.table[Reversed(r, RootBits)] = HuffmanCode(l, b.free - Reversed(r, RootBits))

\* How far the codes placed so far reach.
Place(b, P, r, m) ==
  /\ P = r * Pow2[MoreBits] + m
  /\ r \in -1 .. Pow2[RootBits] - 1 /\ m \in 0 .. Pow2[MoreBits]
  /\ b.sub_key = m * Pow2[RevBits - MoreBits]
  /\ b.key = (r + 1) * Pow2[RevBits - RootBits]

\* The table that is open ends at the end of what there is.
Room(b) ==
  /\ b.free \in Nat /\ b.size \in Nat \ {0} /\ DOMAIN b.table = 0 .. b.free + b.size - 1
  /\ b.free + b.size >= Pow2[RootBits]

\* Below which the entries of an input lie.
Bound(b, r, w) == IF RowOf(w) < r THEN b.free ELSE b.free + b.size

\* All words below P are settled; P is m words into row r.
Filled(b, symbolsOf, count, P, r, m) ==
  /\ Place(b, P, r, m)
  /\ Room(b)
  /\ m < Pow2[MoreBits] => RowIsOpen(b, count, r)
  /\ \A w \in Inputs : Reversed(w, MaxLength) < P =>
       Settled(b.table, symbolsOf, count, w, Bound(b, r, w))

\* A table with the same entries for an input decodes it in the same way.
LEMMA SameEntries ==
  ASSUME NEW t, NEW u, NEW w, u[RootAt(w)] = t[RootAt(w)],
         t[RootAt(w)].bits > RootBits => u[SecondAt(t, w)] = t[SecondAt(t, w)],
         t[RootAt(w)].bits \in Nat
  PROVE  /\ SecondAt(u, w) = SecondAt(t, w)
         /\ DecodeSymbol(w, u) = DecodeSymbol(w, t)
<1>0. RootBits \in Nat
  BY MoreWidths
<1>1. SecondAt(u, w) = SecondAt(t, w)
  BY Zenon DEF SecondAt
<1> DEFINE root == t[RootAt(w)]
<1>2. DecodeSymbol(w, t) = IF root.bits - RootBits > 0
                             THEN HuffmanCode(RootBits + t[SecondAt(t, w)].bits, t[SecondAt(t, w)].value) ELSE root
  BY Zenon DEF DecodeSymbol, SecondAt, RootAt
<1>3. DecodeSymbol(w, u) = IF root.bits - RootBits > 0
                             THEN HuffmanCode(RootBits + u[SecondAt(u, w)].bits, u[SecondAt(u, w)].value) ELSE root
  BY Zenon DEF DecodeSymbol, SecondAt, RootAt
<1>4. (root.bits - RootBits > 0) => root.bits > RootBits
  BY <1>0
<1> HIDE DEF root
<1>5. DecodeSymbol(w, u) = DecodeSymbol(w, t)
  <2>1. CASE root.bits - RootBits > 0
    <3>1. u[SecondAt(u, w)] = t[SecondAt(t, w)]
      BY <1>1, <1>4, <2>1 DEF root
    <3> QED BY <1>2, <1>3, <2>1, <3>1, Zenon
  <2>2. CASE ~(root.bits - RootBits > 0)
    BY <1>2, <1>3, <2>2, Zenon
  <2> QED BY <2>1, <2>2
<1> QED BY <1>1, <1>5

\* An input is settled for good: what is written later is elsewhere.
LEMMA StaysSettled ==
  ASSUME NEW t, NEW u, NEW symbolsOf, NEW count, NEW w, NEW bound \in Nat, NEW more \in Nat, bound <= more,
         Settled(t, symbolsOf, count, w, bound), u[RootAt(w)] = t[RootAt(w)],
         t[RootAt(w)].bits > RootBits => u[SecondAt(t, w)] = t[SecondAt(t, w)]
  PROVE  Settled(u, symbolsOf, count, w, more)
<1>0. RootBits \in Nat /\ Pow2[RootBits] \in Nat
  BY MoreWidths
<1>1. t[RootAt(w)].bits \in Nat
  BY DEF Settled, Entries
<1>2. SecondAt(u, w) = SecondAt(t, w) /\ DecodeSymbol(w, u) = DecodeSymbol(w, t)
  BY <1>1, SameEntries
<1>3. Right(u, symbolsOf, count, w)
  BY <1>2, Zenon DEF Settled, Right
<1>4. Entries(u, w, more)
  <2>1. CASE t[RootAt(w)].bits > RootBits
    <3>1. /\ t[SecondAt(t, w)].bits \in Nat \ {0}
          /\ SecondAt(t, w) \in Pow2[RootBits] .. bound - 1
      BY <2>1 DEF Settled, Entries
    <3>2. SecondAt(t, w) \in Pow2[RootBits] .. more - 1
      BY <1>0, <3>1
    <3>3. u[SecondAt(u, w)].bits \in Nat \ {0} /\ SecondAt(u, w) \in Pow2[RootBits] .. more - 1
      BY <1>2, <2>1, <3>1, <3>2
    <3> QED BY <1>1, <3>3 DEF Entries
  <2>2. CASE ~(t[RootAt(w)].bits > RootBits)
    BY <1>1, <2>2, Zenon DEF Entries
  <2> QED BY <2>1, <2>2
<1> QED BY <1>3, <1>4 DEF Settled

\* A row and what comes before it.
LEMMA RowsBefore ==
  ASSUME NEW w \in Inputs, NEW r \in Int, NEW m \in 0 .. Pow2[MoreBits]
  PROVE  /\ Reversed(w, MaxLength) < r * Pow2[MoreBits] => RowOf(w) < r
         /\ Reversed(w, MaxLength) < r * Pow2[MoreBits] + m => RowOf(w) <= r
         /\ RowOf(w) = r => Reversed(w, MaxLength) = r * Pow2[MoreBits] + ColumnOf(w)
         /\ RowOf(w) < r => Reversed(w, MaxLength) < r * Pow2[MoreBits]
<1> DEFINE p == Pow2[MoreBits]
           u == Reversed(w, MaxLength)
           v == RowOf(w)
           c == ColumnOf(w)
<1>1. p \in Nat \ {0} /\ u = p * v + c /\ v \in Nat /\ c \in 0 .. p - 1
  <2>1. w \in 0 .. Pow2[MaxLength] - 1
    BY DEF Inputs
  <2>2. v \in 0 .. Pow2[RootBits] - 1 /\ u = p * v + c /\ c \in 0 .. p - 1
    BY <2>1, WordSplit
  <2> QED BY <2>2, MoreWidths
<1>2. m \in 0 .. p
  OBVIOUS
<1> HIDE DEF p, u, v, c
<1>3. ASSUME v >= r PROVE u >= r * p
  <2>1. p * v = r * p + (v - r) * p /\ (v - r) * p \in Nat /\ r * p \in Int
    BY <1>1, <1>3
  <2> QED BY <1>1, <2>1
<1>4. ASSUME v >= r + 1 PROVE u >= r * p + m
  <2>1. p * v = r * p + p + (v - (r + 1)) * p /\ (v - (r + 1)) * p \in Nat /\ r * p \in Int
    BY <1>1, <1>4
  <2> QED BY <1>1, <1>2, <2>1
<1>5. ASSUME v < r PROVE u < r * p
  <2>1. r * p = p * v + p + (r - (v + 1)) * p /\ (r - (v + 1)) * p \in Nat /\ p * v \in Int
    BY <1>1, <1>5
  <2> QED BY <1>1, <2>1
<1>6. r * p \in Int /\ u \in Int /\ (v = r => u = r * p + c)
  BY <1>1
<1>7. /\ u < r * p => v < r
      /\ u < r * p + m => v <= r
      /\ v = r => u = r * p + c
      /\ v < r => u < r * p
  BY <1>1, <1>2, <1>3, <1>4, <1>5, <1>6
<1> QED BY <1>7 DEF p, u, v, c

\* The state d is b with the next table opened, for a code of length len.
Opened(b, d, len) ==
  LET bits == NextTableBitSize(b.count, len)
      free == b.free + b.size
      at == ReverseBits(b.key)
  IN  /\ d.sub_key = 0 /\ d.key = b.key + Pow2[RevBits - RootBits]
      /\ d.free = free /\ d.size = Pow2[bits]
      /\ d.table = [i \in 0 .. free + Pow2[bits] - 1 |->
                      IF i = at THEN HuffmanCode(bits + RootBits, free - at)
                      ELSE IF i \in DOMAIN b.table THEN b.table[i] ELSE Unwritten]

\* What opening a table changes.
LEMMA OpenTableIs ==
  ASSUME NEW b, NEW len, Building(b)
  PROVE  Opened(b, OpenTable(b, len), len)
<1> DEFINE bits == NextTableBitSize(b.count, len)
           free == b.free + b.size
           at == ReverseBits(b.key)
           d == OpenTable(b, len)
           grown == [i \in 0 .. free + Pow2[bits] - 1 |->
                       IF i = at THEN HuffmanCode(bits + RootBits, free - at)
                       ELSE IF i \in DOMAIN b.table THEN b.table[i] ELSE Unwritten]
<1>1. d = [b EXCEPT !.table = grown, !.free = free, !.size = Pow2[bits], !.sub_key = 0,
                !.key = @ + Pow2[RevBits - RootBits]]
  BY DEF OpenTable
<1> HIDE DEF grown, d, at, bits
<1>2. d = [table |-> grown, free |-> free, size |-> Pow2[bits], key |-> b.key + Pow2[RevBits - RootBits],
           sub_key |-> 0, count |-> b.count]
  BY <1>1 DEF Building
<1>3. d.table = grown /\ d.free = free /\ d.size = Pow2[bits] /\ d.sub_key = 0 /\ d.key = b.key + Pow2[RevBits - RootBits]
  BY <1>2
<1> QED BY <1>3, Zenon DEF Opened, grown, d, at, bits

\* A row is begun where the one before it ends.
LEMMA NextRow ==
  ASSUME NEW b, NEW d, NEW len, Opened(b, d, len), NEW P, NEW r, Place(b, P, r, Pow2[MoreBits]), P < Pow2[MaxLength]
  PROVE  /\ Place(d, P, r + 1, 0)
         /\ r + 1 \in 0 .. Pow2[RootBits] - 1 /\ r \in Int
         /\ P = (r + 1) * Pow2[MoreBits]
         /\ ReverseBits(b.key) = Reversed(r + 1, RootBits)
         /\ (r + 2) * Pow2[MoreBits] = P + Pow2[MoreBits] /\ P + Pow2[MoreBits] <= Pow2[MaxLength]
         /\ P \in Int
<1> DEFINE p == Pow2[MoreBits]
           q == Pow2[RootBits]
           v == Pow2[RevBits - RootBits]
<1>1. p \in Nat \ {0} /\ q \in Nat \ {0} /\ v \in Nat \ {0} /\ Pow2[MaxLength] = q * p
  BY MoreWidths
<1>2. P = r * p + p /\ r \in -1 .. q - 1 /\ b.key = (r + 1) * v
  BY DEF Place
<1>3. d.sub_key = 0 /\ d.key = b.key + v
  BY DEF Opened
<1>4. r + 1 < q
  <2> HIDE DEF p, q, v
  <2>1. r * p + p < q * p
    BY <1>1, <1>2
  <2>2. ASSUME r + 1 >= q PROVE FALSE
    <3>1. r = q - 1
      BY <1>1, <1>2, <2>2
    <3>2. r * p = q * p - p /\ q * p \in Int
      BY <1>1, <3>1
    <3> QED BY <1>1, <2>1, <3>2
  <2> QED BY <1>1, <1>2, <2>2
<1>5. r + 1 \in 0 .. q - 1 /\ r \in Int
  <2> HIDE DEF p, q, v
  <2> QED BY <1>1, <1>2, <1>4
<1>6. /\ P = (r + 1) * p /\ (r + 2) * p = P + p /\ P + p <= q * p /\ P \in Int
      /\ P = (r + 1) * p + 0
  <2> HIDE DEF p, q, v
  <2>1. (r + 1) * p = r * p + p /\ (r + 2) * p = r * p + p + p /\ r * p \in Int
    BY <1>1, <1>5
  <2>2. q * p = (r + 2) * p + (q - (r + 2)) * p /\ (q - (r + 2)) * p \in Nat
    <3>1. q - (r + 2) \in Nat
      BY <1>1, <1>5
    <3> QED BY <1>1, <1>5, <3>1
  <2> QED BY <1>1, <1>2, <2>1, <2>2
<1>7. d.key = (r + 2) * v /\ d.sub_key = 0 * Pow2[RevBits - MoreBits]
  <2>1. Pow2[RevBits - MoreBits] \in Nat
    BY MoreWidths
  <2> HIDE DEF p, q, v
  <2>2. (r + 2) * v = (r + 1) * v + v
    BY <1>1, <1>5
  <2> QED BY <1>2, <1>3, <2>1, <2>2
<1>8. ReverseBits(b.key) = Reversed(r + 1, RootBits)
  <2>1. r + 1 \in Nat /\ RevBits - RootBits \in Nat /\ RootBits \in Nat /\ RootBits + (RevBits - RootBits) = RevBits
    BY <1>5, MoreWidths
  <2>2. Reversed((r + 1) * Pow2[RevBits - RootBits], RootBits + (RevBits - RootBits)) = Reversed(r + 1, RootBits)
    BY <2>1, ReversedShift
  <2> QED BY <1>2, <2>1, <2>2 DEF ReverseBits
<1>9. (r + 1) + 1 = r + 2 /\ 0 \in 0 .. p /\ r + 1 \in -1 .. q - 1
  BY <1>1, <1>5
<1>10. Place(d, P, r + 1, 0)
  BY <1>6, <1>7, <1>9 DEF Place
<1> QED BY <1>1, <1>5, <1>6, <1>8, <1>10

\* A table is opened for the row the next code begins in.
LEMMA OpenRow ==
  ASSUME NEW b, NEW d, NEW symbolsOf, NEW count \in [0 .. MaxLength -> Nat],
         Weighted(count, MaxLength, MaxLength) = Pow2[MaxLength],
         NEW len \in RootBits + 1 .. MaxLength, NEW k \in Nat, k < count[len],
         b.count = CountsLeft(count, len, k), Opened(b, d, len),
         NEW P, P = FirstOf(count, len, k + 1), P < Pow2[MaxLength],
         NEW r, Filled(b, symbolsOf, count, P, r, Pow2[MoreBits])
  PROVE  Filled(d, symbolsOf, count, P, r + 1, 0)
<1> DEFINE p == Pow2[MoreBits]
           q == Pow2[RootBits]
           at == Reversed(r + 1, RootBits)
           free == b.free + b.size
<1>1. /\ Place(d, P, r + 1, 0) /\ r + 1 \in 0 .. q - 1 /\ r \in Int /\ P = (r + 1) * p
      /\ ReverseBits(b.key) = at /\ (r + 2) * p = P + p /\ P + p <= Pow2[MaxLength] /\ P \in Int
  BY NextRow DEF Filled
<1>2. p \in Nat \ {0} /\ q \in Nat \ {0} /\ RootBits \in Nat /\ MaxLength \in Nat
  BY MoreWidths
<1>3. at \in 0 .. q - 1
  <2>1. r + 1 \in Nat
    BY <1>1, <1>2
  <2> QED BY <2>1, <1>2, ReversedType
<1>4. PICK l \in len .. MaxLength :
        /\ NextTableBitSize(b.count, len) = l - RootBits
        /\ l = MaxLength \/ Weighted(count, l, MaxLength) >= P + Pow2[MoreBits]
  <2>1. \E l \in len .. MaxLength :
          /\ NextTableBitSize(CountsLeft(count, len, k), len) = l - RootBits
          /\ l = MaxLength \/ Weighted(count, l, MaxLength) >= P + Pow2[MoreBits]
    BY TableIsLargeEnough
  <2> HIDE DEF p, q, at, free
  <2> QED BY <2>1, Zenon
<1>5. l \in RootBits + 1 .. MaxLength /\ l - RootBits \in Nat /\ (l - RootBits) + RootBits = l
      /\ Pow2[l - RootBits] \in Nat \ {0}
  <2>1. l \in RootBits + 1 .. MaxLength /\ l - RootBits \in Nat /\ (l - RootBits) + RootBits = l
    BY <1>2
  <2> QED BY <2>1, PowNat
<1> DEFINE n == Pow2[l - RootBits]
<1>6. /\ b.free \in Nat /\ b.size \in Nat \ {0} /\ DOMAIN b.table = 0 .. free - 1 /\ free >= q
  BY SMTT(30) DEF Filled, Room
<1>7. /\ d.free = free /\ d.size = n
      /\ d.table = [i \in 0 .. free + n - 1 |->
                      IF i = at THEN HuffmanCode(l, free - at)
                      ELSE IF i \in DOMAIN b.table THEN b.table[i] ELSE Unwritten]
  <2>1. /\ d.free = free /\ d.size = Pow2[NextTableBitSize(b.count, len)]
        /\ d.table = [i \in 0 .. free + Pow2[NextTableBitSize(b.count, len)] - 1 |->
                        IF i = ReverseBits(b.key) THEN HuffmanCode(NextTableBitSize(b.count, len) + RootBits, free - ReverseBits(b.key))
                        ELSE IF i \in DOMAIN b.table THEN b.table[i] ELSE Unwritten]
    BY Zenon DEF Opened
  <2> HIDE DEF free, at
  <2> QED BY <1>1, <1>4, <1>5, <2>1
<1>8. free \in Nat /\ free + n \in Nat /\ n \in Nat \ {0}
  BY <1>5, <1>6, SMTT(30)
<1> HIDE DEF p, q, at, free, n
<1>9. Room(d)
  <2>1. DOMAIN d.table = 0 .. free + n - 1
    BY <1>7
  <2> QED BY <1>6, <1>7, <1>8, <1>2, <2>1, SMTT(30) DEF Room, q
<1>10. RowIsOpen(d, count, r + 1)
  <2>1. Weighted(count, l, MaxLength) >= ((r + 1) + 1) * p
    <3>1. (r + 1) + 1 = r + 2
      BY <1>1
    <3>2. CASE l = MaxLength
      BY <1>1, <3>1, <3>2 DEF p
    <3>3. CASE l # MaxLength
      BY <1>1, <1>4, <3>1, <3>3 DEF p
    <3> QED BY <3>2, <3>3
  <2>2. at \in 0 .. free + n - 1
    BY <1>2, <1>3, <1>6, <1>8, SMTT(30) DEF q
  <2>3. d.table[at] = HuffmanCode(l, free - at)
    BY <1>7, <2>2
  <2>4. r + 1 \in Nat /\ d.free >= q
    BY <1>1, <1>6, <1>7, <1>2
  <2> QED BY <1>5, <1>7, <2>1, <2>3, <2>4 DEF RowIsOpen, p, q, n, at
<1>11. ASSUME NEW w \in Inputs, Reversed(w, MaxLength) < P
       PROVE  Settled(d.table, symbolsOf, count, w, Bound(d, r + 1, w))
  <2>1. RowOf(w) < r + 1
    <3>1. p \in Nat /\ 0 \in 0 .. p /\ r + 1 \in Int
      BY <1>1, <1>2
    <3> QED BY <1>1, <1>11, <3>1, RowsBefore DEF p
  <2>2. w \in 0 .. Pow2[MaxLength] - 1
    BY DEF Inputs
  <2>3. RootAt(w) \in 0 .. q - 1 /\ RowOf(w) \in Int
    BY <2>2, WordSplit DEF RootAt, q
  <2>4. RootAt(w) # at
    <3>1. r + 1 \in 0 .. Pow2[RootBits] - 1
      BY <1>1 DEF q
    <3>2. RowOf(w) = r + 1 <=> RootAt(w) = at
      BY <2>2, <3>1, RowIs DEF RootAt, at
    <3> QED BY <1>1, <2>1, <2>3, <3>2
  <2> DEFINE old == Bound(b, r, w)
  <2>5. Settled(b.table, symbolsOf, count, w, old)
    BY <1>11 DEF Filled
  <2>6. old \in Nat /\ old <= free
    BY <1>6 DEF Bound, free
  <2>7. Bound(d, r + 1, w) = free
    BY <1>7, <2>1, Zenon DEF Bound
  <2> HIDE DEF old
  <2>8. d.table[RootAt(w)] = b.table[RootAt(w)]
    <3>0. RootAt(w) \in Nat /\ RootAt(w) < q
      BY <1>2, <2>3
    <3>1. RootAt(w) \in 0 .. free - 1 /\ RootAt(w) \in 0 .. free + n - 1
      <4>1. RootAt(w) < free
        BY <1>2, <1>6, <1>8, <3>0
      <4>2. RootAt(w) < free + n
        BY <1>8, <3>0, <4>1
      <4> QED BY <1>8, <3>0, <4>1, <4>2
    <3> QED BY <1>6, <1>7, <2>4, <3>1 DEF free
  <2>9. ASSUME b.table[RootAt(w)].bits > RootBits PROVE d.table[SecondAt(b.table, w)] = b.table[SecondAt(b.table, w)]
    <3> DEFINE i == SecondAt(b.table, w)
    <3>1. i \in Pow2[RootBits] .. old - 1
      BY <2>5, <2>9 DEF Settled, Entries
    <3> HIDE DEF i
    <3>2. i \in 0 .. free - 1 /\ i \in 0 .. free + n - 1 /\ i # at
      BY <1>2, <1>3, <1>8, <2>6, <3>1 DEF q
    <3>3. d.table[i] = b.table[i]
      BY <1>6, <1>7, <3>2 DEF free
    <3> QED BY <3>3 DEF i
  <2>10. Settled(d.table, symbolsOf, count, w, free)
    BY <1>8, <2>5, <2>6, <2>8, <2>9, StaysSettled
  <2> QED BY <2>7, <2>10
<1>12. 0 < Pow2[MoreBits] => RowIsOpen(d, count, r + 1)
  BY <1>10
<1> QED BY <1>1, <1>9, <1>11, <1>12 DEF Filled

\* The state e is d with a code of length len for the symbol x in its table.
Written(d, e, len, x) ==
  /\ e.free = d.free /\ e.size = d.size /\ e.key = d.key
  /\ e.sub_key = d.sub_key + Pow2[RevBits - (len - RootBits)]
  /\ e.table = ReplicateValue(d.table, d.free + ReverseBits(d.sub_key), Pow2[len - RootBits], d.size,
                              HuffmanCode(len - RootBits, x))

\* The entries of a table in the second level that a code takes.
LEMMA HitsInRow ==
  ASSUME NEW w \in Inputs, NEW len \in RootBits + 1 .. MaxLength, NEW l \in len .. MaxLength,
         NEW mu \in 0 .. Pow2[len - RootBits] - 1
  PROVE  /\ ((w \div Pow2[RootBits]) % Pow2[l - RootBits]) % Pow2[len - RootBits] = Reversed(mu, len - RootBits)
              <=> (mu * Pow2[MaxLength - len] <= ColumnOf(w)
                   /\ ColumnOf(w) < mu * Pow2[MaxLength - len] + Pow2[MaxLength - len])
         /\ (w \div Pow2[RootBits]) % Pow2[l - RootBits] \in 0 .. Pow2[l - RootBits] - 1
         /\ Reversed(mu, len - RootBits) \in 0 .. Pow2[len - RootBits] - 1
<1> DEFINE i == w \div Pow2[RootBits]
           a == len - RootBits
<1>1. /\ MaxLength = RootBits + MoreBits /\ RootBits \in Nat /\ MoreBits \in Nat
  BY MoreWidths
<1>2. /\ a \in 0 .. MoreBits /\ MoreBits - a = MaxLength - len /\ l - len \in Nat /\ l - RootBits = a + (l - len)
      /\ a \in Nat
  BY <1>1
<1>3. i \in Nat
  <2>1. w \in 0 .. Pow2[MaxLength] - 1
    BY DEF Inputs
  <2>2. i \in 0 .. Pow2[MoreBits] - 1 /\ Pow2[MoreBits] \in Nat
    BY <2>1, WordSplit, MoreWidths
  <2> QED BY <2>2
<1> HIDE DEF i
<1>4. /\ (i % Pow2[a] = Reversed(mu, a))
           <=> (mu * Pow2[MoreBits - a] <= Reversed(i, MoreBits)
                /\ Reversed(i, MoreBits) < mu * Pow2[MoreBits - a] + Pow2[MoreBits - a])
      /\ Reversed(mu, a) \in 0 .. Pow2[a] - 1
  <2>1. MoreBits \in Nat /\ a \in 0 .. MoreBits /\ mu \in 0 .. Pow2[a] - 1
    BY <1>1, <1>2
  <2> HIDE DEF a
  <2> QED BY <1>3, <2>1, IndexHits
<1>5. (i % Pow2[l - RootBits]) % Pow2[a] = i % Pow2[a] /\ i % Pow2[l - RootBits] \in 0 .. Pow2[l - RootBits] - 1
  <2> DEFINE x == Pow2[a]
             y == Pow2[l - len]
  <2>1. x \in Nat \ {0} /\ y \in Nat \ {0} /\ Pow2[a + (l - len)] = x * y
    BY <1>2, PowNat, PowSum
  <2>2. Pow2[l - RootBits] = x * y
    BY <1>2, <2>1
  <2> HIDE DEF x, y, a
  <2>3. (i % (x * y)) % x = i % x
    BY <1>3, <2>1, ModOfMod
  <2>4. i % (x * y) \in 0 .. (x * y) - 1
    <3> DEFINE z == x * y
    <3>1. z \in Nat \ {0}
      BY <2>1
    <3> HIDE DEF z
    <3>2. i % z \in 0 .. z - 1
      BY <1>3, <3>1, DivMod
    <3> QED BY <3>2 DEF z
  <2> QED BY <2>2, <2>3, <2>4 DEF x
<1> QED BY <1>2, <1>4, <1>5 DEF i, ColumnOf

\* The word mu of those of its length in the row is the next one.
HasSlot(d, len, m) ==
  \E mu \in 0 .. Pow2[len - RootBits] - 1 :
    m = mu * Pow2[MaxLength - len] /\ ReverseBits(d.sub_key) = Reversed(mu, len - RootBits)

\* The code is at every entry of the table that the low bits o lead to.
Stored(d, e, len, x, o) ==
  /\ DOMAIN e.table = DOMAIN d.table
  /\ \A i \in 0 .. d.free - 1 : e.table[i] = d.table[i]
  /\ \A j \in 0 .. d.size - 1 :
       e.table[d.free + j] = IF j % Pow2[len - RootBits] = o THEN HuffmanCode(len - RootBits, x) ELSE d.table[d.free + j]

\* A code has its place in a row.
LEMMA CodeInRow ==
  ASSUME NEW count \in [0 .. MaxLength -> Nat], NEW len \in RootBits + 1 .. MaxLength,
         NEW k \in Nat, k < count[len], NEW P, P = FirstOf(count, len, k + 1),
         NEW d, NEW e, NEW x, Written(d, e, len, x),
         NEW r \in Nat, NEW m, m < Pow2[MoreBits], Place(d, P, r, m)
  PROVE  /\ HasSlot(d, len, m)
         /\ Place(e, P + Pow2[MaxLength - len], r, m + Pow2[MaxLength - len])
<1> DEFINE D == Pow2[MaxLength - len]
           p == Pow2[MoreBits]
           a == len - RootBits
           A == Pow2[a]
           v == Pow2[RevBits - MoreBits]
<1>1. /\ MaxLength = RootBits + MoreBits /\ RootBits \in Nat /\ MoreBits \in Nat /\ RevBits \in Nat
      /\ MoreBits <= RevBits /\ RevBits - MoreBits \in Nat /\ MaxLength \in Nat
  BY MoreWidths
<1>2. /\ a \in Nat /\ MaxLength - len \in Nat /\ a + (MaxLength - len) = MoreBits /\ RevBits - a \in Nat
      /\ (MaxLength - len) + (RevBits - MoreBits) = RevBits - a /\ a + (RevBits - a) = RevBits
      /\ len \in 1 .. MaxLength
  BY <1>1
<1>3. D \in Nat \ {0} /\ A \in Nat \ {0} /\ v \in Nat \ {0} /\ p \in Nat \ {0}
  BY <1>1, <1>2, PowNat
<1>4. p = A * D
  <2>1. Pow2[a + (MaxLength - len)] = Pow2[a] * Pow2[MaxLength - len]
    BY <1>2, PowSum
  <2> QED BY <1>2, <2>1
<1>5. Pow2[RevBits - a] = D * v
  <2>1. Pow2[(MaxLength - len) + (RevBits - MoreBits)] = Pow2[MaxLength - len] * Pow2[RevBits - MoreBits]
    BY <1>1, <1>2, PowSum
  <2> QED BY <1>2, <2>1
<1>6. P = r * p + m /\ m \in 0 .. p /\ d.sub_key = m * v /\ d.key = (r + 1) * Pow2[RevBits - RootBits] /\ r \in -1 .. Pow2[RootBits] - 1
  BY DEF Place
<1>7. PICK f \in Nat : P = f * D
  <2>1. Counts(count, MaxLength)
    BY <1>1 DEF Counts
  <2>2. k + 1 \in 1 .. count[len]
    <3>1. count[len] \in Nat
      BY <1>1, <1>2
    <3> QED BY <3>1
  <2> QED BY <1>2, <2>1, <2>2, FirstAligned
<1> DEFINE mu == f - r * A
<1>8. m = mu * D /\ mu \in Int
  <2> HIDE DEF D, p, A
  <2>1. r * A \in Int /\ (r * A) * D = r * (A * D) /\ f * D \in Int /\ r * (A * D) \in Int
    BY <1>3
  <2>2. (f - r * A) * D = f * D - (r * A) * D
    BY <1>3, <2>1
  <2>3. m = f * D - r * (A * D)
    BY <1>4, <1>6, <1>7, <2>1
  <2> QED BY <2>1, <2>2, <2>3
<1> HIDE DEF mu
<1>9. mu \in 0 .. A - 1
  <2> HIDE DEF D, p, A
  <2>1. m >= 0 /\ m < A * D
    BY <1>3, <1>4, <1>6 DEF p
  <2>2. ASSUME mu < 0 PROVE FALSE
    <3>1. mu * D = -D + (mu + 1) * D /\ (-(mu + 1)) * D \in Nat /\ (mu + 1) * D = -((-(mu + 1)) * D)
      <4>1. -(mu + 1) \in Nat
        BY <1>8, <2>2
      <4> QED BY <1>3, <1>8, <4>1
    <3> QED BY <1>3, <1>8, <2>1, <3>1
  <2>3. ASSUME mu >= A PROVE FALSE
    <3>1. mu * D = A * D + (mu - A) * D /\ (mu - A) * D \in Nat /\ A * D \in Nat
      <4>1. mu - A \in Nat
        BY <1>3, <1>8, <2>3
      <4> QED BY <1>3, <1>8, <4>1
    <3> QED BY <1>3, <1>8, <2>1, <3>1
  <2> QED BY <1>3, <1>8, <2>2, <2>3
<1>10. m + D <= p /\ m + D \in 0 .. p
  <2> HIDE DEF D, p, A
  <2>1. A * D = mu * D + D + (A - 1 - mu) * D /\ (A - 1 - mu) * D \in Nat
    <3>1. A - 1 - mu \in Nat
      BY <1>3, <1>9
    <3> QED BY <1>3, <1>8, <3>1
  <2>2. mu * D \in Nat
    BY <1>3, <1>9
  <2> QED BY <1>3, <1>4, <1>8, <2>1, <2>2
<1>11. ReverseBits(d.sub_key) = Reversed(mu, a)
  <2>1. d.sub_key = mu * Pow2[RevBits - a]
    <3> HIDE DEF D, v
    <3>1. (mu * D) * v = mu * (D * v)
      BY <1>3, <1>8
    <3> QED BY <1>5, <1>6, <1>8, <3>1
  <2>2. mu \in Nat
    BY <1>3, <1>9
  <2>3. Reversed(mu * Pow2[RevBits - a], a + (RevBits - a)) = Reversed(mu, a)
    <3> HIDE DEF a
    <3> QED BY <1>2, <2>2, ReversedShift
  <2> QED BY <1>2, <2>1, <2>3 DEF ReverseBits
<1>12. Place(e, P + D, r, m + D)
  <2>1. e.key = d.key /\ e.sub_key = d.sub_key + Pow2[RevBits - a]
    BY DEF Written
  <2>2. e.sub_key = (m + D) * v
    <3> HIDE DEF D, v, p
    <3>1. m \in Int
      BY <1>3, <1>6
    <3>2. (m + D) * v = m * v + D * v
      BY <1>3, <3>1
    <3> QED BY <1>5, <1>6, <2>1, <3>2
  <2>3. P + D = r * p + (m + D)
    <3> HIDE DEF D, p
    <3>1. m \in Int /\ r * p \in Int
      BY <1>3, <1>6
    <3>2. P = r * p + m
      BY <1>6
    <3>3. D \in Int
      BY <1>3
    <3> DEFINE y == r * p
    <3> HIDE DEF y
    <3>4. P = y + m /\ y \in Int
      BY <3>1, <3>2 DEF y
    <3>5. P + D = y + (m + D)
      BY <3>1, <3>3, <3>4
    <3> QED BY <3>5 DEF y
  <2> QED BY <1>6, <1>10, <2>1, <2>2, <2>3 DEF Place
<1>13. \E y \in 0 .. A - 1 : m = y * D /\ ReverseBits(d.sub_key) = Reversed(y, a)
  BY <1>8, <1>9, <1>11
<1> QED BY <1>12, <1>13 DEF HasSlot

\* What is in the table after a code is written.
LEMMA WrittenAt ==
  ASSUME NEW d, NEW e, NEW len \in RootBits + 1 .. MaxLength, NEW x, Written(d, e, len, x), Room(d),
         NEW o \in 0 .. Pow2[len - RootBits] - 1, ReverseBits(d.sub_key) = o
  PROVE  Stored(d, e, len, x, o)
<1> DEFINE A == Pow2[len - RootBits]
           c == HuffmanCode(len - RootBits, x)
<1>1. A \in Nat \ {0}
  <2>1. len - RootBits \in Nat
    BY MoreWidths
  <2> QED BY <2>1, PowNat
<1>2. d.free \in Nat /\ d.size \in Nat \ {0} /\ DOMAIN d.table = 0 .. d.free + d.size - 1
  BY DEF Room
<1>3. e.table = [i \in DOMAIN d.table |->
                   IF i >= d.free + o /\ i < d.free + o + d.size /\ (i - (d.free + o)) % A = 0 THEN c ELSE d.table[i]]
  BY DEF Written, ReplicateValue
<1> HIDE DEF A, c
<1>4. o \in 0 .. A - 1
  BY DEF A
<1>5. ASSUME NEW i \in 0 .. d.free - 1 PROVE e.table[i] = d.table[i]
  <2>1. i \in DOMAIN d.table /\ ~(i >= d.free + o)
    BY <1>1, <1>2, <1>4
  <2> QED BY <1>3, <2>1
<1>6. ASSUME NEW j \in 0 .. d.size - 1 PROVE e.table[d.free + j] = IF j % A = o THEN c ELSE d.table[d.free + j]
  <2> DEFINE i == d.free + j
  <2>1. i \in DOMAIN d.table /\ i < d.free + o + d.size /\ (i >= d.free + o <=> j >= o) /\ i - (d.free + o) = j - o
    BY <1>1, <1>2, <1>4, SMTT(30)
  <2>2. (j >= o /\ (j - o) % A = 0) <=> j % A = o
    <3>1. j \in Nat
      BY <1>2
    <3> QED BY <1>1, <1>4, <3>1, StepHits
  <2> HIDE DEF i
  <2>3. e.table[i] = IF i >= d.free + o /\ i < d.free + o + d.size /\ (i - (d.free + o)) % A = 0 THEN c ELSE d.table[i]
    BY <1>3, <2>1
  <2>4. e.table[i] = IF j % A = o THEN c ELSE d.table[i]
    BY <2>1, <2>2, <2>3
  <2> QED BY <2>4 DEF i
<1>7. DOMAIN e.table = DOMAIN d.table
  BY <1>3
<1> QED BY <1>5, <1>6, <1>7 DEF A, c, Stored

\* The table of the row r is at b.free, and has indices of l - RootBits bits.
RowTable(b, count, r, l) ==
  /\ b.size = Pow2[l - RootBits]
  /\ Weighted(count, l, MaxLength) >= (r + 1) * Pow2[MoreBits]
  /\ b.table[Reversed(r, RootBits)] = HuffmanCode(l, b.free - Reversed(r, RootBits))

\* The inputs of a row find its table.
LEMMA RowLeadsTo ==
  ASSUME NEW b, b.free \in Nat, NEW count, NEW r \in 0 .. Pow2[RootBits] - 1, NEW l \in RootBits + 1 .. MaxLength,
         RowTable(b, count, r, l), NEW w \in Inputs, RowOf(w) = r
  PROVE  /\ RootAt(w) = Reversed(r, RootBits)
         /\ b.table[RootAt(w)].bits = l /\ l \in Nat /\ l > RootBits
         /\ SecondAt(b.table, w) = b.free + ((w \div Pow2[RootBits]) % Pow2[l - RootBits])
<1>1. w \in 0 .. Pow2[MaxLength] - 1
  BY DEF Inputs
<1>2. RootAt(w) = Reversed(r, RootBits) /\ Reversed(r, RootBits) \in 0 .. Pow2[RootBits] - 1
  BY <1>1, RowIs DEF RootAt
<1> DEFINE at == Reversed(r, RootBits)
           j == (w \div Pow2[RootBits]) % Pow2[l - RootBits]
<1>3. b.table[at] = HuffmanCode(l, b.free - at)
  BY DEF RowTable
<1>4. b.table[at].bits = l /\ b.table[at].value = b.free - at
  BY <1>3 DEF HuffmanCode
<1>5. SecondAt(b.table, w) = at + (b.free - at) + j
  BY <1>2, <1>4 DEF SecondAt
<1>6. at \in Int /\ j \in Int /\ l \in Nat /\ l > RootBits
  <2>1. at \in Int
    BY <1>2, MoreWidths
  <2>2. l \in Nat /\ l > RootBits /\ l \in l .. MaxLength
    BY MoreWidths
  <2>3. 0 \in 0 .. Pow2[l - RootBits] - 1
    <3>1. l - RootBits \in Nat
      BY MoreWidths
    <3> QED BY <3>1, PowNat
  <2>4. j \in 0 .. Pow2[l - RootBits] - 1
    BY <2>2, <2>3, HitsInRow
  <2> QED BY <2>1, <2>2, <2>4
<1> HIDE DEF at, j
<1>7. SecondAt(b.table, w) = b.free + j
  BY <1>5, <1>6
<1> QED BY <1>2, <1>4, <1>6, <1>7 DEF at, j

\* The table of a row that is not full is large enough for the next code.
LEMMA LengthFits ==
  ASSUME NEW count \in [0 .. MaxLength -> Nat], NEW len \in RootBits + 1 .. MaxLength,
         NEW k \in Nat, k < count[len], NEW P, P = FirstOf(count, len, k + 1),
         NEW r \in Nat, NEW m \in Int, m < Pow2[MoreBits], P = r * Pow2[MoreBits] + m,
         NEW l \in RootBits + 1 .. MaxLength, Weighted(count, l, MaxLength) >= (r + 1) * Pow2[MoreBits]
  PROVE  l >= len
<1>1. /\ RootBits \in Nat /\ MaxLength \in Nat /\ Pow2[MoreBits] \in Nat \ {0}
  BY MoreWidths
<1>2. Counts(count, MaxLength) /\ len \in 1 .. MaxLength /\ k + 1 \in 1 .. count[len]
  <2>1. len \in 1 .. MaxLength /\ len \in 0 .. MaxLength
    BY <1>1
  <2>2. count[len] \in Nat
    BY <2>1
  <2> QED BY <1>1, <2>1, <2>2, SMTT(30) DEF Counts
<1>3. P \in Nat /\ P >= Weighted(count, len - 1, MaxLength) /\ Weighted(count, len - 1, MaxLength) \in Nat
  <2> DEFINE j == k + 1
  <2>1. j \in 1 .. count[len] /\ Counts(count, MaxLength) /\ len \in 1 .. MaxLength
    BY <1>2
  <2>2. P = FirstOf(count, len, j)
    OBVIOUS
  <2> HIDE DEF j
  <2>3. /\ FirstOf(count, len, j) \in Nat /\ FirstOf(count, len, j) >= Weighted(count, len - 1, MaxLength)
        /\ Weighted(count, len - 1, MaxLength) \in Nat
    BY <2>1, CodePlace, Zenon
  <2> QED BY <2>2, <2>3, Zenon
<1>4. SUFFICES ASSUME l <= len - 1 PROVE FALSE
  BY <1>1
<1>5. Weighted(count, l, MaxLength) <= Weighted(count, len - 1, MaxLength) /\ Weighted(count, l, MaxLength) \in Nat
  <2>1. l \in 0 .. MaxLength /\ len - 1 \in 0 .. MaxLength /\ MaxLength \in 0 .. MaxLength
    BY <1>1
  <2>2. Weighted(count, l, MaxLength) \in Nat
    BY <1>1, <1>2, <2>1, WeightedStep
  <2>3. Weighted(count, l, MaxLength) <= Weighted(count, len - 1, MaxLength)
    BY <1>1, <1>2, <1>4, <2>1, WeightedGrows
  <2> QED BY <2>2, <2>3
<1> DEFINE p == Pow2[MoreBits]
           x == Weighted(count, l, MaxLength)
           y == Weighted(count, len - 1, MaxLength)
<1>6. p \in Nat \ {0} /\ x \in Nat /\ y \in Nat /\ x <= y /\ P >= y /\ P \in Nat /\ m < p /\ P = r * p + m /\ x >= (r + 1) * p
  BY <1>1, <1>3, <1>5
<1> HIDE DEF p, x, y
<1>7. (r + 1) * p = r * p + p /\ r * p \in Int
  BY <1>6
<1> QED BY <1>6, <1>7

\* Whether an input is before, in or behind the next code.
LEMMA InputsOfCode ==
  ASSUME NEW w \in Inputs, NEW r \in Nat, NEW m \in 0 .. Pow2[MoreBits] - 1, NEW D \in Nat \ {0}, m + D <= Pow2[MoreBits],
         NEW P, P = r * Pow2[MoreBits] + m, Reversed(w, MaxLength) < P + D
  PROVE  /\ RowOf(w) <= r /\ RowOf(w) \in Nat
         /\ Reversed(w, MaxLength) >= P => RowOf(w) = r
         /\ RowOf(w) = r => /\ (m <= ColumnOf(w) /\ ColumnOf(w) < m + D) <=> Reversed(w, MaxLength) >= P
         /\ RowOf(w) < r => Reversed(w, MaxLength) < P
<1> DEFINE p == Pow2[MoreBits]
           u == Reversed(w, MaxLength)
           v == RowOf(w)
           c == ColumnOf(w)
<1>1. p \in Nat \ {0}
  BY MoreWidths
<1>2. u \in Int /\ v \in Nat /\ c \in 0 .. p - 1
  <2>1. w \in 0 .. Pow2[MaxLength] - 1
    BY DEF Inputs
  <2> QED BY <2>1, WordSplit, MoreWidths
<1>3. m + D \in 0 .. p /\ r \in Int
  BY <1>1
<1>4. (u < r * p + (m + D) => v <= r) /\ (v = r => u = r * p + c) /\ (v < r => u < r * p)
  <2>1. (u < r * p + (m + D) => v <= r)
    BY <1>3, RowsBefore
  <2>2. (v = r => u = r * p + c) /\ (v < r => u < r * p)
    BY <1>3, RowsBefore
  <2> QED BY <2>1, <2>2
<1>5. u < P + D /\ P = r * p + m /\ m \in 0 .. p - 1
  OBVIOUS
<1> HIDE DEF p, u, v, c
<1> DEFINE y == r * p
<1>6. y \in Int
  BY <1>1
<1>7. (u < y + (m + D) => v <= r) /\ (v = r => u = y + c) /\ (v < r => u < y) /\ P = y + m /\ u < P + D
  BY <1>4, <1>5
<1> HIDE DEF y
<1>8. m \in Nat /\ c \in Int
  BY <1>1, <1>2, <1>5
<1>9. v <= r
  BY <1>6, <1>7, <1>8
<1>10. /\ u >= P => v = r
       /\ v = r => ((m <= c /\ c < m + D) <=> u >= P)
       /\ v < r => u < P
  BY <1>2, <1>6, <1>7, <1>8, <1>9
<1> QED BY <1>2, <1>9, <1>10 DEF u, v, c

\* The next code, of length len for the symbol at k + 1, is settled when it is written.
LEMMA FillCode ==
  ASSUME NEW d, NEW e, NEW symbolsOf, NEW count \in [0 .. MaxLength -> Nat],
         NEW len \in RootBits + 1 .. MaxLength, NEW k \in Nat, k < count[len],
         NEW P, P = FirstOf(count, len, k + 1), NEW r, NEW m, m < Pow2[MoreBits],
         Filled(d, symbolsOf, count, P, r, m), Written(d, e, len, symbolsOf[len][k + 1])
  PROVE  Filled(e, symbolsOf, count, P + Pow2[MaxLength - len], r, m + Pow2[MaxLength - len])
<1> DEFINE D == Pow2[MaxLength - len]
           a == len - RootBits
           x == symbolsOf[len][k + 1]
           p == Pow2[MoreBits]
           at == Reversed(r, RootBits)
           Col(w, l) == (w \div Pow2[RootBits]) % Pow2[l - RootBits]
<1>1. Place(d, P, r, m) /\ Room(d) /\ RowIsOpen(d, count, r)
  BY DEF Filled
<1>2. /\ RootBits \in Nat /\ MaxLength \in Nat /\ MoreBits \in Nat /\ p \in Nat \ {0} /\ Pow2[RootBits] \in Nat \ {0}
      /\ MaxLength - len \in Nat /\ a \in Nat \ {0} /\ len = a + RootBits /\ len \in Nat /\ len \in 1 .. MaxLength
  <2>1. /\ RootBits \in Nat /\ MaxLength \in Nat /\ MoreBits \in Nat /\ p \in Nat \ {0} /\ Pow2[RootBits] \in Nat \ {0}
    BY MoreWidths
  <2>2. /\ MaxLength - len \in Nat /\ a \in Nat \ {0} /\ len = a + RootBits /\ len \in Nat /\ len \in 1 .. MaxLength
    BY <2>1
  <2> QED BY <2>1, <2>2
<1>3. D \in Nat \ {0} /\ D \in Nat
  BY <1>2, PowNat
<1>4. r \in Nat /\ r \in 0 .. Pow2[RootBits] - 1 /\ m \in 0 .. p - 1 /\ m \in Nat /\ d.free >= Pow2[RootBits]
  <2>1. r \in Nat /\ d.free >= Pow2[RootBits]
    BY <1>1 DEF RowIsOpen
  <2>2. r \in -1 .. Pow2[RootBits] - 1 /\ m \in 0 .. p
    BY <1>1 DEF Place
  <2>3. r \in 0 .. Pow2[RootBits] - 1
    BY <1>2, <2>1, <2>2
  <2>4. m \in 0 .. p - 1 /\ m \in Nat
    <3>1. m < p
      OBVIOUS
    <3> HIDE DEF p
    <3> QED BY <1>2, <2>2, <3>1
  <2> QED BY <2>1, <2>3, <2>4
<1>41. P = r * p + m
  BY <1>1 DEF Place
<1>42. P \in Nat
  <2>1. p \in Nat
    BY <1>2
  <2> HIDE DEF p
  <2>2. r * p \in Nat
    BY <1>4, <2>1
  <2> DEFINE y == r * p
  <2>3. P = y + m /\ y \in Nat
    BY <1>41, <2>2
  <2> HIDE DEF y
  <2> QED BY <1>4, <2>3
<1>5. PICK l \in RootBits + 1 .. MaxLength : RowTable(d, count, r, l)
  BY <1>1 DEF RowIsOpen, RowTable
<1>6. l \in len .. MaxLength
  <2>1. Weighted(count, l, MaxLength) >= (r + 1) * Pow2[MoreBits]
    BY <1>5 DEF RowTable
  <2>2. m \in Int
    BY <1>2, <1>4
  <2>3. l >= len
    BY <1>4, <1>41, <2>1, <2>2, LengthFits
  <2> QED BY <1>2, <2>3
<1>7. PICK mu \in 0 .. Pow2[a] - 1 : m = mu * D /\ ReverseBits(d.sub_key) = Reversed(mu, a)
  <2>1. Place(d, P, r, m) /\ r \in Nat /\ m < Pow2[MoreBits]
    BY <1>1, <1>4
  <2>3. Written(d, e, len, x)
    OBVIOUS
  <2> HIDE DEF x
  <2>2. HasSlot(d, len, m)
    BY <2>1, <2>3, CodeInRow
  <2> QED BY <2>2 DEF HasSlot
<1>8. Place(e, P + D, r, m + D)
  BY <1>1, <1>4, CodeInRow
<1>9. m + D <= p
  BY <1>8 DEF Place
<1>10. e.free = d.free /\ e.size = d.size /\ d.size = Pow2[l - RootBits] /\ d.free \in Nat /\ d.size \in Nat \ {0}
       /\ DOMAIN d.table = 0 .. d.free + d.size - 1
  BY <1>1, <1>5 DEF Written, RowTable, Room
<1>43. l \in Nat /\ l > RootBits /\ l - RootBits > 0
  <2>1. RootBits \in Nat /\ MaxLength \in Nat
    BY MoreWidths
  <2>2. RootBits + 1 \in Int /\ l \in Int /\ l >= RootBits + 1
    BY <2>1
  <2> QED BY <2>1, <2>2
<1>44. \A i \in 0 .. Pow2[RootBits] - 1 : i \in 0 .. d.free - 1
  <2> DEFINE q == Pow2[RootBits]
  <2>1. q \in Nat \ {0} /\ d.free >= q /\ d.free \in Nat
    BY <1>2, <1>4, <1>10
  <2> HIDE DEF q
  <2>2. \A i \in 0 .. q - 1 : i \in 0 .. d.free - 1
    BY <2>1
  <2> QED BY <2>2 DEF q
<1>45. \A j \in 0 .. d.size - 1 : d.free + j \in Pow2[RootBits] .. (d.free + d.size) - 1
  <2> DEFINE q == Pow2[RootBits]
  <2>1. q \in Nat \ {0} /\ d.free >= q /\ d.free \in Nat /\ d.size \in Nat
    BY <1>2, <1>4, <1>10
  <2> HIDE DEF q
  <2>2. \A j \in 0 .. d.size - 1 : d.free + j \in q .. (d.free + d.size) - 1
    BY <2>1, SMTT(30)
  <2> QED BY <2>2 DEF q
<1>11. Reversed(mu, a) \in 0 .. Pow2[a] - 1
  <2>1. mu \in Nat
    BY <1>2, PowNat
  <2> QED BY <1>2, <2>1, ReversedType
<1>12. /\ DOMAIN e.table = DOMAIN d.table
       /\ \A i \in 0 .. d.free - 1 : e.table[i] = d.table[i]
       /\ \A j \in 0 .. d.size - 1 :
            e.table[d.free + j] = IF j % Pow2[a] = Reversed(mu, a) THEN HuffmanCode(a, x) ELSE d.table[d.free + j]
  <2>1. Reversed(mu, a) \in 0 .. Pow2[len - RootBits] - 1
    BY <1>11
  <2> HIDE DEF x
  <2>2. Written(d, e, len, x)
    BY DEF x
  <2> DEFINE o == Reversed(mu, a)
  <2>3. ReverseBits(d.sub_key) = o /\ Room(d)
    BY <1>1, <1>7
  <2>4. o \in 0 .. Pow2[len - RootBits] - 1
    BY <2>1
  <2> HIDE DEF o
  <2>5. Stored(d, e, len, x, o)
    BY <2>2, <2>3, <2>4, WrittenAt
  <2> QED BY <2>5 DEF o, Stored
<1> HIDE DEF x
<1>13. ASSUME NEW w \in Inputs
       PROVE  /\ Col(w, l) \in 0 .. d.size - 1
              /\ RowOf(w) = r =>
                   /\ RootAt(w) = at /\ d.table[RootAt(w)].bits = l
                   /\ SecondAt(d.table, w) = d.free + Col(w, l)
              /\ Col(w, l) % Pow2[a] = Reversed(mu, a) <=> (m <= ColumnOf(w) /\ ColumnOf(w) < m + D)
              /\ RootAt(w) \in 0 .. d.free - 1
  <2>1. /\ Col(w, l) % Pow2[a] = Reversed(mu, a) <=> (mu * D <= ColumnOf(w) /\ ColumnOf(w) < mu * D + D)
        /\ Col(w, l) \in 0 .. Pow2[l - RootBits] - 1
    BY <1>6, HitsInRow
  <2>2. RowOf(w) = r =>
                   /\ RootAt(w) = at /\ d.table[RootAt(w)].bits = l
                   /\ SecondAt(d.table, w) = d.free + Col(w, l)
    BY <1>4, <1>5, <1>10, RowLeadsTo
  <2>3. RootAt(w) \in 0 .. d.free - 1
    <3>1. w \in 0 .. Pow2[MaxLength] - 1
      BY DEF Inputs
    <3>2. RootAt(w) \in 0 .. Pow2[RootBits] - 1
      BY <3>1, WordSplit DEF RootAt
    <3> QED BY <1>44, <3>2
  <2> QED BY <1>7, <1>10, <2>1, <2>2, <2>3
<1> HIDE DEF Col
<1>14. Room(e)
  BY <1>1, <1>10, <1>12 DEF Room
<1>15. RowIsOpen(e, count, r)
  <2>1. at \in 0 .. d.free - 1
    <3>1. at \in 0 .. Pow2[RootBits] - 1
      BY <1>2, <1>4, ReversedType
    <3> QED BY <1>44, <3>1
  <2>2. e.table[at] = d.table[at]
    BY <1>12, <2>1
  <2>3. RowTable(e, count, r, l)
    BY <1>5, <1>10, <2>2 DEF RowTable
  <2>4. e.free >= Pow2[RootBits]
    BY <1>4, <1>10
  <2> QED BY <1>4, <2>3, <2>4 DEF RowIsOpen, RowTable
<1>16. ASSUME NEW w \in Inputs, Reversed(w, MaxLength) < P + D
       PROVE  Settled(e.table, symbolsOf, count, w, Bound(e, r, w))
  <2>1. /\ RowOf(w) <= r /\ RowOf(w) \in Nat
        /\ Reversed(w, MaxLength) >= P => RowOf(w) = r
        /\ RowOf(w) = r => ((m <= ColumnOf(w) /\ ColumnOf(w) < m + D) <=> Reversed(w, MaxLength) >= P)
        /\ RowOf(w) < r => Reversed(w, MaxLength) < P
    BY <1>3, <1>4, <1>41, <1>9, <1>16, InputsOfCode
  <2>2. Bound(e, r, w) = Bound(d, r, w)
    BY <1>10, Zenon DEF Bound
  <2> DEFINE u == Reversed(w, MaxLength)
  <2>3. e.table[RootAt(w)] = d.table[RootAt(w)]
    BY <1>12, <1>13
  <2>4. CASE u < P
    <3> DEFINE bound == Bound(d, r, w)
    <3>1. Settled(d.table, symbolsOf, count, w, bound)
      BY <2>4 DEF Filled
    <3>2. bound \in Nat /\ bound <= d.free + d.size
      BY <1>10 DEF Bound
    <3>3. ASSUME d.table[RootAt(w)].bits > RootBits
          PROVE  e.table[SecondAt(d.table, w)] = d.table[SecondAt(d.table, w)]
      <4>1. CASE RowOf(w) = r
        <5>1. ~(m <= ColumnOf(w) /\ ColumnOf(w) < m + D)
          <6>1. u \in Int /\ P \in Int
            <7>1. w \in 0 .. Pow2[MaxLength] - 1
              BY DEF Inputs
            <7>2. u \in 0 .. Pow2[MaxLength] - 1
              BY <7>1, WordSplit
            <7>3. u \in Int
              BY <7>2, MoreWidths
            <7> QED BY <7>3, <1>42
          <6>2. ~(u >= P)
            BY <2>4, <6>1
          <6> QED BY <2>1, <4>1, <6>2
        <5>2. ~(Col(w, l) % Pow2[a] = Reversed(mu, a))
          BY <1>13, <5>1
        <5> QED BY <1>12, <1>13, <4>1, <5>2
      <4>2. CASE RowOf(w) # r
        <5>1. RowOf(w) < r
          BY <1>4, <2>1, <4>2
        <5>2. bound = d.free
          BY <5>1, Zenon DEF Bound
        <5>3. SecondAt(d.table, w) \in Pow2[RootBits] .. d.free - 1
          BY <3>1, <3>3, <5>2 DEF Settled, Entries
        <5>4. SecondAt(d.table, w) \in 0 .. d.free - 1
          BY <1>2, <1>10, <5>3
        <5> QED BY <1>12, <5>4
      <4> QED BY <4>1, <4>2
    <3> HIDE DEF bound
    <3>4. bound <= bound
      BY <3>2
    <3>5. Settled(e.table, symbolsOf, count, w, bound)
      BY <2>3, <3>1, <3>2, <3>3, <3>4, StaysSettled
    <3> QED BY <2>2, <3>5 DEF bound
  <2>5. CASE u >= P
    <3>1. RowOf(w) = r /\ (m <= ColumnOf(w) /\ ColumnOf(w) < m + D)
      BY <2>1, <2>5
    <3>2. /\ d.table[RootAt(w)].bits = l /\ SecondAt(d.table, w) = d.free + Col(w, l)
          /\ Col(w, l) % Pow2[a] = Reversed(mu, a) /\ Col(w, l) \in 0 .. d.size - 1
      BY <1>13, <3>1
    <3>3. l \in Nat /\ l > RootBits /\ l - RootBits > 0
      BY <1>43
    <3>4. SecondAt(e.table, w) = SecondAt(d.table, w)
      BY <2>3, Zenon DEF SecondAt
    <3>5. e.table[SecondAt(e.table, w)] = HuffmanCode(a, x) /\ e.table[RootAt(w)].bits = l
      BY <1>12, <2>3, <3>2, <3>4
    <3>6. HuffmanCode(a, x).bits = a /\ HuffmanCode(a, x).value = x
      BY DEF HuffmanCode
    <3>7. DecodeSymbol(w, e.table) = HuffmanCode(len, x)
      <4> DEFINE root == e.table[RootAt(w)]
                 second == e.table[SecondAt(e.table, w)]
      <4>1. DecodeSymbol(w, e.table) = IF root.bits - RootBits > 0 THEN HuffmanCode(RootBits + second.bits, second.value) ELSE root
        BY Zenon DEF DecodeSymbol, SecondAt, RootAt
      <4>2. root.bits - RootBits > 0
        BY <3>3, <3>5
      <4>3. second.bits = a /\ second.value = x
        BY <3>5, <3>6, Zenon
      <4>4. RootBits + a = len
        BY <1>2
      <4> HIDE DEF root, second, a
      <4> QED BY <4>1, <4>2, <4>3, <4>4, Zenon
    <3>8. Right(e.table, symbolsOf, count, w)
      <4>1. k + 1 \in 1 .. count[len] /\ (k + 1) + 1 = k + 2 /\ Counts(count, MaxLength)
        <5>1. len \in 0 .. MaxLength
          BY <1>2
        <5>2. count[len] \in Nat
          BY <5>1
        <5> QED BY <1>2, <5>2, SMTT(30) DEF Counts
      <4>2. FirstOf(count, len, (k + 1) + 1) = P + D
        <5> DEFINE j == k + 1
        <5>1. j \in 1 .. count[len] /\ Counts(count, MaxLength) /\ len \in 1 .. MaxLength
          BY <1>2, <4>1
        <5>2. P = FirstOf(count, len, j)
          OBVIOUS
        <5> HIDE DEF j
        <5>3. FirstOf(count, len, j + 1) = FirstOf(count, len, j) + Pow2[MaxLength - len]
          BY <5>1, CodePlace, Zenon
        <5>4. FirstOf(count, len, j + 1) = P + D
          BY <5>2, <5>3, Zenon
        <5> QED BY <5>4 DEF j
      <4>3. P <= Reversed(w, MaxLength)
        <5>1. P \in Int /\ Reversed(w, MaxLength) \in Int
          <6>1. w \in Nat
            <7>1. w \in 0 .. Pow2[MaxLength] - 1
              BY DEF Inputs
            <7> QED BY <7>1, WordSplit
          <6>2. Reversed(w, MaxLength) \in Nat
            BY <1>2, <6>1, ReversedType
          <6> QED BY <6>2, <1>42
        <5> QED BY <2>5, <5>1
      <4>4. /\ FirstOf(count, len, k + 1) <= Reversed(w, MaxLength)
            /\ Reversed(w, MaxLength) < FirstOf(count, len, (k + 1) + 1)
            /\ DecodeSymbol(w, e.table) = HuffmanCode(len, symbolsOf[len][k + 1])
        BY <1>16, <3>7, <4>2, <4>3, Zenon DEF x
      <4> QED BY <1>2, <4>1, <4>4, Zenon DEF Right
    <3>9. Entries(e.table, w, Bound(e, r, w))
      <4>1. Bound(e, r, w) = d.free + d.size
        <5>1. ~(RowOf(w) < r)
          BY <1>4, <3>1
        <5> QED BY <1>10, <5>1, Zenon DEF Bound
      <4>2. SecondAt(e.table, w) \in Pow2[RootBits] .. (d.free + d.size) - 1
        BY <1>45, <3>2, <3>4, Zenon
      <4>3. e.table[SecondAt(e.table, w)].bits \in Nat \ {0}
        BY <1>2, <3>5, <3>6
      <4>4. e.table[RootAt(w)].bits \in Nat
        BY <3>3, <3>5, Zenon
      <4>5. Entries(e.table, w, d.free + d.size)
        BY <4>2, <4>3, <4>4, Zenon DEF Entries
      <4> QED BY <4>1, <4>5
    <3> QED BY <3>8, <3>9 DEF Settled
  <2>6. u < P \/ u >= P
    <3>1. w \in Nat
      <4>1. w \in 0 .. Pow2[MaxLength] - 1
        BY DEF Inputs
      <4> QED BY <4>1, WordSplit
    <3>2. u \in Nat
      BY <1>2, <3>1, ReversedType
    <3> QED BY <3>2, <1>42
  <2> QED BY <2>4, <2>5, <2>6
<1> QED BY <1>8, <1>14, <1>15, <1>16 DEF Filled

\* The counts of a code that leaves no room.
CompleteCounts(count) ==
  count \in [0 .. MaxLength -> Nat] /\ Weighted(count, MaxLength, MaxLength) = Pow2[MaxLength]

FilledTo(b, symbolsOf, count, P) == \E r, m : Filled(b, symbolsOf, count, P, r, m)

\* k codes of length len are in the table.
PlacedCodes(b, symbolsOf, count, len, k) ==
  /\ Building(b) /\ b.count = CountsLeft(count, len, k)
  /\ FilledTo(b, symbolsOf, count, FirstOf(count, len, k + 1))

\* All codes of lengths up to len are.
PlacedLengths(b, symbolsOf, count, len) ==
  /\ Building(b) /\ b.count = CountsLeft(count, len + 1, 0)
  /\ FilledTo(b, symbolsOf, count, Weighted(count, len, MaxLength))

\* A row is full when sub_key is at its end.
LEMMA RowEnds ==
  ASSUME NEW b, NEW P, NEW r, NEW m, Place(b, P, r, m)
  PROVE  /\ b.sub_key = SubKeyEnd <=> m = Pow2[MoreBits]
         /\ m # Pow2[MoreBits] => m < Pow2[MoreBits]
<1> DEFINE p == Pow2[MoreBits]
           v == Pow2[RevBits - MoreBits]
<1>1. p \in Nat \ {0} /\ v \in Nat \ {0} /\ SubKeyEnd = p * v
  BY MoreWidths DEF SubKeyEnd
<1>2. m \in 0 .. p /\ b.sub_key = m * v
  BY DEF Place
<1> HIDE DEF p, v
<1>3. ASSUME m * v = p * v PROVE m = p
  <2>1. (p - m) * v = 0
    BY <1>1, <1>2, <1>3
  <2>2. p - m \in Nat
    BY <1>1, <1>2
  <2> QED BY <1>1, <1>2, <2>1, <2>2
<1>4. (b.sub_key = SubKeyEnd) <=> m = p
  BY <1>1, <1>2, <1>3
<1>5. m # p => m < p
  BY <1>1, <1>2
<1> QED BY <1>4, <1>5 DEF p

\* One code more is placed.
LEMMA PlaceCode ==
  ASSUME NEW b, NEW symbolsOf, NEW count, CompleteCounts(count),
         NEW len \in RootBits + 1 .. MaxLength, NEW k \in Nat, k < count[len],
         PlacedCodes(b, symbolsOf, count, len, k)
  PROVE  PlacedCodes(PlaceLongCode(b, <<len, symbolsOf[len][k + 1]>>), symbolsOf, count, len, k + 1)
<1> DEFINE x == symbolsOf[len][k + 1]
           P == FirstOf(count, len, k + 1)
           d == IF b.sub_key = SubKeyEnd THEN OpenTable(b, len) ELSE b
           e == PlaceLongCode(b, <<len, x>>)
<1>1. count \in [0 .. MaxLength -> Nat] /\ Weighted(count, MaxLength, MaxLength) = Pow2[MaxLength]
  BY DEF CompleteCounts
<1>2. RootBits \in Nat /\ MaxLength \in Nat /\ len \in 1 .. MaxLength /\ len \in 0 .. MaxLength /\ MaxLength \in 0 .. MaxLength
      /\ Counts(count, MaxLength) /\ k + 1 \in 1 .. count[len]
  <2>1. RootBits \in Nat /\ MaxLength \in Nat /\ len \in 1 .. MaxLength /\ len \in 0 .. MaxLength /\ MaxLength \in 0 .. MaxLength
    BY MoreWidths
  <2>2. count[len] \in Nat
    BY <1>1, <2>1
  <2> QED BY <1>1, <2>1, <2>2 DEF Counts
<1>3. P \in Nat /\ FirstOf(count, len, (k + 1) + 1) = P + Pow2[MaxLength - len] /\ Pow2[MaxLength - len] \in Nat \ {0}
      /\ P + Pow2[MaxLength - len] <= Weighted(count, len, MaxLength)
  <2> DEFINE j == k + 1
  <2>1. j \in 1 .. count[len]
    BY <1>2
  <2> HIDE DEF j, P
  <2>2. /\ FirstOf(count, len, j) \in Nat /\ FirstOf(count, len, j + 1) = FirstOf(count, len, j) + Pow2[MaxLength - len]
        /\ Pow2[MaxLength - len] \in Nat \ {0} /\ FirstOf(count, len, j + 1) <= Weighted(count, len, MaxLength)
    BY <1>2, <2>1, CodePlace
  <2>3. P = FirstOf(count, len, j)
    BY DEF P, j
  <2> QED BY <2>2, <2>3 DEF j
<1>4. P < Pow2[MaxLength]
  <2>1. Weighted(count, len, MaxLength) <= Weighted(count, MaxLength, MaxLength)
    BY <1>2, WeightedGrows
  <2>2. Weighted(count, len, MaxLength) \in Nat /\ Pow2[MaxLength] \in Nat
    BY <1>2, WeightedStep, MoreWidths
  <2> HIDE DEF P
  <2> QED BY <1>1, <1>3, <2>1, <2>2
<1>5. Building(b) /\ b.count = CountsLeft(count, len, k)
  BY DEF PlacedCodes
<1>6. PICK r, m : Filled(b, symbolsOf, count, P, r, m)
  BY DEF PlacedCodes, FilledTo
<1>7. /\ Building(e) /\ e.count = [b.count EXCEPT ![len] = @ - 1]
      /\ Written(d, e, len, x)
  <2>1. /\ Building(e) /\ e.count = [b.count EXCEPT ![len] = @ - 1]
        /\ e.free = d.free /\ e.size = d.size /\ e.key = d.key
        /\ e.sub_key = d.sub_key + Pow2[RevBits - (len - RootBits)]
        /\ e.table = ReplicateValue(d.table, d.free + ReverseBits(d.sub_key), Pow2[len - RootBits], d.size,
                                         HuffmanCode(len - RootBits, x))
    <3> HIDE DEF x
    <3> QED BY <1>5, PlaceLongCodeIs
  <2> HIDE DEF e, d, x
  <2> QED BY <2>1 DEF Written
<1>8. \E i, j : /\ Filled(d, symbolsOf, count, P, i, j) /\ j < Pow2[MoreBits]
  <2>1. Place(b, P, r, m)
    BY <1>6 DEF Filled
  <2>2. (b.sub_key = SubKeyEnd <=> m = Pow2[MoreBits]) /\ (m # Pow2[MoreBits] => m < Pow2[MoreBits])
    BY <2>1, RowEnds
  <2>3. CASE m = Pow2[MoreBits]
    <3>1. d = OpenTable(b, len)
      BY <2>2, <2>3
    <3>2. Opened(b, OpenTable(b, len), len)
      BY <1>5, OpenTableIs
    <3>3. Opened(b, d, len) /\ Filled(b, symbolsOf, count, P, r, Pow2[MoreBits])
      BY <1>6, <2>3, <3>1, <3>2, Zenon
    <3> HIDE DEF d
    <3> DEFINE Q == P
    <3>4. Q = FirstOf(count, len, k + 1) /\ Q < Pow2[MaxLength] /\ Filled(b, symbolsOf, count, Q, r, Pow2[MoreBits])
      BY <1>4, <3>3
    <3> HIDE DEF Q
    <3>5. Filled(d, symbolsOf, count, Q, r + 1, 0)
      BY <1>1, <1>5, <3>3, <3>4, OpenRow
    <3>6. 0 < Pow2[MoreBits]
      BY MoreWidths
    <3> QED BY <3>5, <3>6 DEF Q
  <2>4. CASE m # Pow2[MoreBits]
    <3>1. d = b
      BY <2>2, <2>4
    <3> HIDE DEF d
    <3> QED BY <1>6, <2>2, <2>4, <3>1
  <2> QED BY <2>3, <2>4
<1>9. PICK i, j : Filled(d, symbolsOf, count, P, i, j) /\ j < Pow2[MoreBits]
  BY <1>8
<1>10. FilledTo(e, symbolsOf, count, FirstOf(count, len, (k + 1) + 1))
  <2> DEFINE Q == P
             D == Pow2[MaxLength - len]
  <2>1. Q = FirstOf(count, len, k + 1) /\ Filled(d, symbolsOf, count, Q, i, j) /\ Written(d, e, len, symbolsOf[len][k + 1])
    BY <1>7, <1>9
  <2> HIDE DEF Q, d, e
  <2>2. Filled(e, symbolsOf, count, Q + Pow2[MaxLength - len], i, j + Pow2[MaxLength - len])
    BY <1>1, <1>9, <2>1, FillCode
  <2>3. FirstOf(count, len, (k + 1) + 1) = Q + Pow2[MaxLength - len]
    BY <1>3 DEF Q
  <2> QED BY <2>2, <2>3, Zenon DEF FilledTo
<1>11. e.count = CountsLeft(count, len, k + 1)
  <2>1. [CountsLeft(count, len, k) EXCEPT ![len] = @ - 1] = CountsLeft(count, len, k + 1)
    BY <1>1, CountsLeftOneLess
  <2> HIDE DEF e
  <2> QED BY <1>5, <1>7, <2>1, Zenon
<1>12. PlacedCodes(e, symbolsOf, count, len, k + 1)
  <2> HIDE DEF e
  <2> QED BY <1>7, <1>10, <1>11 DEF PlacedCodes
<1> QED BY <1>12

\* All codes longer than RootBits are placed.
LEMMA PlaceCodes ==
  ASSUME NEW b, NEW symbolsOf, NEW count, CompleteCounts(count),
         NEW len \in RootBits + 1 .. MaxLength, PlacedLengths(b, symbolsOf, count, len - 1)
  PROVE  PlacedLengths(PlaceLength(b, len, symbolsOf[len], count[len]), symbolsOf, count, len)
<1> DEFINE n == count[len]
           symbols == symbolsOf[len]
<1>0. /\ n \in Nat /\ count \in [0 .. MaxLength -> Nat] /\ RootBits \in Nat /\ MaxLength \in Nat
      /\ len \in 1 .. MaxLength /\ len \in Nat /\ (len - 1) + 1 = len /\ Counts(count, MaxLength)
  <2>1. count \in [0 .. MaxLength -> Nat] /\ RootBits \in Nat /\ MaxLength \in Nat
    BY MoreWidths DEF CompleteCounts
  <2>2. len \in 1 .. MaxLength /\ len \in Nat /\ (len - 1) + 1 = len /\ len \in 0 .. MaxLength
    BY <2>1
  <2> QED BY <2>1, <2>2 DEF Counts
<1>1. PICK placed : /\ placed[0] = b
                    /\ \A k \in 1 .. n : placed[k] = PlaceLongCode(placed[k - 1], <<len, symbols[k]>>)
                    /\ PlaceLength(b, len, symbols, n) = placed[n]
  <2>1. n \in Nat
    BY <1>0
  <2> HIDE DEF n, symbols
  <2> QED BY <2>1, PlaceLengthIs
<1> DEFINE N == {k \in Nat : k <= n => PlacedCodes(placed[k], symbolsOf, count, len, k)}
<1>2. FirstOf(count, len, 0 + 1) = Weighted(count, len - 1, MaxLength)
  <2>1. MaxLength - len \in Nat
    BY <1>0
  <2>2. Pow2[MaxLength - len] \in Nat
    BY <2>1, PowNat
  <2>3. Weighted(count, len - 1, MaxLength) \in Nat
    <3>1. len - 1 \in 0 .. MaxLength /\ MaxLength \in 0 .. MaxLength
      BY <1>0
    <3> QED BY <1>0, <3>1, WeightedStep
  <2>4. ((0 + 1) - 1) * Pow2[MaxLength - len] = 0
    BY <2>2
  <2>5. FirstOf(count, len, 0 + 1) = Weighted(count, len - 1, MaxLength) + ((0 + 1) - 1) * Pow2[MaxLength - len]
    BY Zenon DEF FirstOf
  <2> QED BY <2>3, <2>4, <2>5
<1>3. 0 \in N
  <2>1. PlacedCodes(b, symbolsOf, count, len, 0)
    <3>1. /\ Building(b) /\ b.count = CountsLeft(count, (len - 1) + 1, 0)
          /\ FilledTo(b, symbolsOf, count, Weighted(count, len - 1, MaxLength))
      BY DEF PlacedLengths
    <3>2. b.count = CountsLeft(count, len, 0)
      BY <1>0, <3>1
    <3>3. FilledTo(b, symbolsOf, count, FirstOf(count, len, 0 + 1))
      BY <1>2, <3>1, Zenon
    <3> QED BY <3>1, <3>2, <3>3 DEF PlacedCodes
  <2> QED BY <1>1, <2>1
<1>4. ASSUME NEW k \in Nat, k \in N PROVE k + 1 \in N
  <2> SUFFICES ASSUME k + 1 <= n PROVE PlacedCodes(placed[k + 1], symbolsOf, count, len, k + 1)
    OBVIOUS
  <2>1. k < n /\ PlacedCodes(placed[k], symbolsOf, count, len, k)
    BY <1>0, <1>4
  <2>2. k + 1 \in 1 .. n /\ (k + 1) - 1 = k
    BY <1>0
  <2>3. placed[k + 1] = PlaceLongCode(placed[k], <<len, symbolsOf[len][k + 1]>>)
    BY <1>1, <2>2
  <2>4. PlacedCodes(PlaceLongCode(placed[k], <<len, symbolsOf[len][k + 1]>>), symbolsOf, count, len, k + 1)
    BY <2>1, PlaceCode
  <2> QED BY <2>3, <2>4, Zenon
<1>5. n \in N
  <2> HIDE DEF N
  <2> QED BY <1>0, <1>3, <1>4, NatSetInduction
<1>6. PlacedCodes(placed[n], symbolsOf, count, len, n)
  BY <1>0, <1>5
<1>7. FirstOf(count, len, n + 1) = Weighted(count, len, MaxLength)
  <2>1. Weighted(count, len, MaxLength) = Weighted(count, len - 1, MaxLength) + n * Pow2[MaxLength - len]
    <3>1. len \in 0 .. MaxLength /\ len > 0 /\ MaxLength \in 0 .. MaxLength
      BY <1>0
    <3> QED BY <1>0, <3>1, WeightedStep
  <2>2. (n + 1) - 1 = n
    BY <1>0
  <2>3. FirstOf(count, len, n + 1) = Weighted(count, len - 1, MaxLength) + ((n + 1) - 1) * Pow2[MaxLength - len]
    BY Zenon DEF FirstOf
  <2> HIDE DEF n
  <2> QED BY <2>1, <2>2, <2>3, Zenon
<1>8. CountsLeft(count, len, n) = CountsLeft(count, len + 1, 0)
  BY <1>0, CountsLeftNext
<1>9. PlacedLengths(placed[n], symbolsOf, count, len)
  <2> HIDE DEF n
  <2> QED BY <1>6, <1>7, <1>8, Zenon DEF PlacedCodes, PlacedLengths
<1> QED BY <1>1, <1>9

\* The words of a code of at most RootBits bits are those of the row of its keys.
LEMMA RootWords ==
  ASSUME NEW count, CompleteCounts(count), NEW w \in Inputs, NEW c \in CodesUpTo(RootBits, count),
         Covers(count, c, ReverseBits(RootAt(w)))
  PROVE  /\ FirstOf(count, c[1], c[2]) <= Reversed(w, MaxLength)
         /\ Reversed(w, MaxLength) < FirstOf(count, c[1], c[2] + 1)
<1> DEFINE len == c[1]
           k == c[2]
           i == RootAt(w)
           R == RootBits
<1>1. R \in Nat /\ MaxLength \in Nat /\ R \in 0 .. RevBits /\ R \in 0 .. R /\ MoreBits \in Nat /\ MaxLength = R + MoreBits
      /\ RevBits - R \in Nat /\ RevBits \in Nat
  BY MoreWidths
<1>2. count \in [0 .. MaxLength -> Nat]
  BY DEF CompleteCounts
<1>3. Counts(count, R) /\ Counts(count, MaxLength)
  BY <1>1, <1>2 DEF Counts
<1>4. /\ len \in 1 .. R /\ k \in 1 .. count[len] /\ len \in Nat /\ RevBits - len \in Nat
  BY <1>1, CodeIs
<1> HIDE DEF len, k
<1>5. /\ len - 1 \in 0 .. R /\ R - len \in Nat /\ MaxLength - len \in Nat /\ RevBits - len = (RevBits - R) + (R - len)
      /\ MaxLength - len = MoreBits + (R - len) /\ k \in Nat /\ len \in 1 .. MaxLength
  <2>1. len \in 0 .. MaxLength
    BY <1>1, <1>4
  <2>2. count[len] \in Nat
    BY <1>2, <2>1
  <2> QED BY <1>1, <1>4, <2>2
<1> DEFINE p == Pow2[RevBits - R]
           D == Pow2[R - len]
           S == Pow2[MoreBits]
           x == Weighted(count, len - 1, R)
           row == RowOf(w)
           col == ColumnOf(w)
           F == x + (k - 1) * D
<1>6. p \in Nat \ {0} /\ D \in Nat \ {0} /\ S \in Nat \ {0} /\ Pow2[RevBits - len] = p * D /\ Pow2[MaxLength - len] = S * D
  <2>1. Pow2[(RevBits - R) + (R - len)] = Pow2[RevBits - R] * Pow2[R - len]
    BY <1>1, <1>5, PowSum
  <2>2. Pow2[MoreBits + (R - len)] = Pow2[MoreBits] * Pow2[R - len]
    BY <1>1, <1>5, PowSum
  <2>3. p \in Nat \ {0} /\ D \in Nat \ {0} /\ S \in Nat \ {0}
    BY <1>1, <1>5, PowNat
  <2> HIDE DEF R
  <2> QED BY <1>5, <2>1, <2>2, <2>3
<1>7. x \in Nat
  BY <1>1, <1>3, <1>5, WeightedStep
<1>8. KeyAfter(count, len - 1) = p * x
  BY <1>1, <1>3, <1>5, KeyAfterWider
<1>9. Weighted(count, len - 1, MaxLength) = S * x
  <2>1. Weighted(count, len - 1, R + MoreBits) = S * x
    BY <1>1, <1>3, <1>5, WeightedWider
  <2> QED BY <1>1, <2>1
<1>10. row \in Nat /\ col \in 0 .. S - 1 /\ Reversed(w, MaxLength) = S * row + col /\ ReverseBits(i) = p * row
  <2>1. w \in 0 .. Pow2[MaxLength] - 1
    BY DEF Inputs
  <2>2. row \in 0 .. Pow2[R] - 1 /\ col \in 0 .. S - 1 /\ Reversed(w, MaxLength) = S * row + col
        /\ i \in 0 .. Pow2[R] - 1
    BY <2>1, WordSplit DEF RootAt
  <2>3. ReverseBits(i) = p * Reversed(i, R)
    BY <1>1, <2>2, ReverseBitsIs
  <2>4. row = Reversed(i, R)
    BY Zenon DEF RowOf, RootAt
  <2>5. row \in Nat
    BY <2>2, MoreWidths
  <2> HIDE DEF i, p, R
  <2> QED BY <2>2, <2>3, <2>4, <2>5, Zenon
<1>11. p * x + (k - 1) * (p * D) <= p * row /\ p * row < (p * x + (k - 1) * (p * D)) + p * D
  <2>1. KeyOf(count, c) <= ReverseBits(i) /\ ReverseBits(i) < KeyOf(count, c) + Pow2[RevBits - len]
    BY Zenon DEF Covers, len
  <2>2. KeyOf(count, c) = KeyAfter(count, len - 1) + (k - 1) * Pow2[RevBits - len]
    BY Zenon DEF KeyOf, len, k
  <2> HIDE DEF p, D, x, row, i
  <2>3. KeyOf(count, c) = p * x + (k - 1) * (p * D)
    BY <1>6, <1>8, <2>2, Zenon
  <2> QED BY <1>6, <1>10, <2>1, <2>3, Zenon
<1>12. F <= row /\ row < F + D /\ F \in Int
  <2> HIDE DEF p, D, x, row, S, col
  <2>1. F \in Int
    BY <1>5, <1>6, <1>7
  <2>2. p * x + (k - 1) * (p * D) = p * F
    BY <1>5, <1>6, <1>7
  <2> HIDE DEF F
  <2>3. p * F <= p * row /\ p * row < p * F + p * D /\ row \in Int /\ D \in Int
    BY <1>6, <1>10, <1>11, <2>2
  <2> QED BY <1>6, <2>1, <2>3, ScaledRange
<1>13. FirstOf(count, len, k) = S * F
  <2>1. FirstOf(count, len, k) = Weighted(count, len - 1, MaxLength) + (k - 1) * Pow2[MaxLength - len]
    BY Zenon DEF FirstOf
  <2> HIDE DEF S, D, x
  <2>2. FirstOf(count, len, k) = S * x + (k - 1) * (S * D)
    BY <1>6, <1>9, <2>1, Zenon
  <2>3. S * x + (k - 1) * (S * D) = S * (x + (k - 1) * D)
    BY <1>5, <1>6, <1>7
  <2> QED BY <2>2, <2>3
<1>14. FirstOf(count, len, k + 1) = S * F + S * D
  <2>1. FirstOf(count, len, k + 1) = FirstOf(count, len, k) + Pow2[MaxLength - len]
    BY <1>3, <1>4, <1>5, CodePlace
  <2> HIDE DEF S, D, F
  <2> QED BY <1>6, <1>13, <2>1, Zenon
<1> DEFINE u == Reversed(w, MaxLength)
<1>15. S * F <= u /\ u < S * F + S * D
  <2> HIDE DEF S, F, D, row, col, p, x
  <2>1. u = S * row + col
    BY <1>10
  <2>2. S * row = S * F + S * (row - F) /\ S * (row - F) \in Nat /\ S * F \in Int
    <3>1. row - F \in Nat
      BY <1>10, <1>12
    <3> QED BY <1>6, <1>10, <1>12, <3>1
  <2>3. S * F + S * D = S * row + S + S * (F + D - 1 - row) /\ S * (F + D - 1 - row) \in Nat /\ S * row \in Int
    <3>1. F + D - 1 - row \in Nat
      BY <1>6, <1>10, <1>12
    <3> QED BY <1>6, <1>10, <1>12, <3>1
  <2> DEFINE a == S * row
             b == S * (row - F)
             f == S * F
             g == S * (F + D - 1 - row)
             h == S * D
  <2>4. u = a + col /\ a = f + b /\ b \in Nat /\ f \in Int /\ f + h = a + S + g /\ g \in Nat /\ a \in Int /\ h \in Int
        /\ col \in 0 .. S - 1 /\ S \in Nat
    BY <1>6, <1>10, <2>1, <2>2, <2>3
  <2> HIDE DEF a, b, f, g, h, u
  <2>5. f <= u /\ u < f + h
    BY <2>4
  <2> QED BY <2>5 DEF f, h
<1> HIDE DEF S, F, D, u
<1>16. FirstOf(count, len, k) <= u /\ u < FirstOf(count, len, k + 1)
  BY <1>13, <1>14, <1>15
<1> QED BY <1>16 DEF u, len, k

\* The root table, before the longer codes.
LEMMA RootStart ==
  ASSUME NEW symbolsOf, NEW count, CompleteCounts(count)
  PROVE  PlacedLengths(RootBuilt(symbolsOf, count), symbolsOf, count, RootBits)
<1> DEFINE b == RootBuilt(symbolsOf, count)
           R == RootBits
           S == Pow2[MoreBits]
           v == Pow2[RevBits - R]
           x == Weighted(count, R, R)
           P == Weighted(count, R, MaxLength)
           r == x - 1
           t == RootTable(R, symbolsOf, count)
<1>1. /\ R \in Nat /\ MaxLength \in Nat /\ R \in 0 .. RevBits /\ R \in 0 .. R /\ MoreBits \in Nat /\ MaxLength = R + MoreBits
      /\ RevBits - R \in Nat /\ RevBits \in Nat /\ R \in 0 .. MaxLength /\ MaxLength \in 0 .. MaxLength
      /\ S \in Nat \ {0} /\ v \in Nat \ {0} /\ Pow2[R] \in Nat \ {0} /\ Pow2[MaxLength] = Pow2[R] * S
      /\ Pow2[RevBits] = S * Pow2[RevBits - MoreBits] /\ Pow2[RevBits] = Pow2[R] * v
  BY MoreWidths
<1>2. count \in [0 .. MaxLength -> Nat] /\ Weighted(count, MaxLength, MaxLength) = Pow2[MaxLength]
  BY DEF CompleteCounts
<1>3. Counts(count, R) /\ Counts(count, MaxLength)
  BY <1>1, <1>2, SMTT(30) DEF Counts
<1>4. x \in Nat
  BY <1>1, <1>3, WeightedStep
<1>5. P = S * x
  <2>1. Weighted(count, R, R + MoreBits) = S * x
    BY <1>1, <1>3, WeightedWider
  <2> QED BY <1>1, <2>1
<1>6. KeyAfter(count, R) = v * x
  BY <1>1, <1>3, KeyAfterWider
<1>7. x <= Pow2[R]
  <2>1. P <= Pow2[MaxLength]
    <3>1. Weighted(count, R, MaxLength) <= Weighted(count, MaxLength, MaxLength)
      BY <1>1, <1>3, WeightedGrows
    <3> QED BY <1>2, <3>1
  <2> DEFINE q == Pow2[R]
  <2>2. S * x <= q * S /\ q \in Nat \ {0} /\ S \in Nat \ {0} /\ x \in Nat
    BY <1>1, <1>4, <1>5, <2>1
  <2> HIDE DEF S, x, q
  <2>3. ASSUME x > q PROVE FALSE
    <3>1. S * x = q * S + S + S * (x - q - 1) /\ S * (x - q - 1) \in Nat /\ q * S \in Nat
      <4>1. x - q - 1 \in Nat
        BY <2>2, <2>3
      <4> QED BY <2>2, <4>1
    <3> QED BY <2>2, <3>1
  <2>4. x <= q
    BY <2>2, <2>3
  <2> QED BY <2>4 DEF q
<1>8. KeyAfter(count, R) <= Pow2[RevBits]
  <2> DEFINE q == Pow2[R]
             full == Pow2[RevBits]
  <2>1. x <= q /\ q \in Nat /\ x \in Nat /\ v \in Nat /\ full = q * v /\ KeyAfter(count, R) = v * x
    BY <1>1, <1>4, <1>6, <1>7
  <2> HIDE DEF x, q, v, full
  <2>2. q * v = v * x + v * (q - x) /\ v * (q - x) \in Nat /\ v * x \in Nat
    <3>1. q - x \in Nat
      BY <2>1
    <3> QED BY <2>1, <3>1
  <2>3. v * x <= q * v
    BY <2>2
  <2> QED BY <2>1, <2>3 DEF full
<1>9. /\ b.table = t /\ b.free = 0 /\ b.size = Pow2[R] /\ b.key = KeyAfter(count, R) /\ b.sub_key = SubKeyEnd /\ b.count = count
      /\ Building(b)
  BY DEF RootBuilt, Building
<1> HIDE DEF b
<1>10. DOMAIN t = 0 .. Pow2[R] - 1
  BY DEF RootTable
<1> HIDE DEF t
<1>11. Place(b, P, r, S)
  <2>1. P = r * S + S
    <3> HIDE DEF S, x, P
    <3>1. (x - 1) * S + S = S * x
      BY <1>1, <1>4
    <3> QED BY <1>5, <3>1
  <2>2. r \in -1 .. Pow2[R] - 1 /\ S \in 0 .. S
    <3> DEFINE q == Pow2[R]
    <3>1. x <= q /\ x \in Nat /\ q \in Nat /\ S \in Nat
      BY <1>1, <1>4, <1>7
    <3> HIDE DEF x, q, S
    <3>2. x - 1 \in -1 .. q - 1 /\ S \in 0 .. S
      BY <3>1
    <3> QED BY <3>2 DEF q
  <2>3. b.sub_key = S * Pow2[RevBits - MoreBits]
    BY <1>1, <1>9, Zenon DEF SubKeyEnd
  <2>4. b.key = (r + 1) * v
    <3> HIDE DEF x, v
    <3>1. v * x = ((x - 1) + 1) * v
      BY <1>1, <1>4
    <3> QED BY <1>6, <1>9, <3>1
  <2> QED BY <2>1, <2>2, <2>3, <2>4 DEF Place
<1>12. Room(b)
  <2> DEFINE q == Pow2[R]
  <2>1. b.free = 0 /\ b.size = q /\ DOMAIN b.table = 0 .. q - 1 /\ q \in Nat \ {0}
    BY <1>1, <1>9, <1>10
  <2> HIDE DEF q
  <2>2. b.free \in Nat /\ b.size \in Nat \ {0} /\ DOMAIN b.table = 0 .. b.free + b.size - 1 /\ b.free + b.size >= q
    BY <2>1
  <2> QED BY <2>2 DEF Room, q
<1>13. ~(S < Pow2[MoreBits])
  BY <1>1
<1>14. ASSUME NEW w \in Inputs, Reversed(w, MaxLength) < P
       PROVE  Settled(b.table, symbolsOf, count, w, Bound(b, r, w))
  <2> DEFINE i == RootAt(w)
  <2>1. w \in 0 .. Pow2[MaxLength] - 1
    BY DEF Inputs
  <2>2. i \in 0 .. Pow2[R] - 1 /\ RowOf(w) \in Nat /\ RowOf(w) = Reversed(i, R)
    <3>1. i \in 0 .. Pow2[R] - 1
      BY <2>1, WordSplit DEF RootAt
    <3>2. RowOf(w) = Reversed(i, R)
      BY Zenon DEF RowOf, RootAt
    <3>3. i \in Nat
      BY <1>1, <3>1
    <3>4. Reversed(i, R) \in Nat
      BY <1>1, <3>3, ReversedType
    <3> QED BY <3>1, <3>2, <3>4
  <2>3. RowOf(w) < x
    <3>1. x \in Int /\ 0 \in 0 .. S
      BY <1>1, <1>4
    <3>2. x * S = P
      <4> HIDE DEF x, S, P
      <4> QED BY <1>1, <1>4, <1>5
    <3>3. Reversed(w, MaxLength) < x * Pow2[MoreBits]
      BY <1>14, <3>2
    <3> HIDE DEF x, S, P
    <3> QED BY <1>4, <3>3, <3>1, RowsBefore DEF S
  <2>4. ReverseBits(i) = v * RowOf(w) /\ ReverseBits(i) \in Nat
    <3>1. ReverseBits(i) = v * Reversed(i, R)
      BY <1>1, <2>2, ReverseBitsIs
    <3> HIDE DEF i, v
    <3>2. ReverseBits(i) = v * RowOf(w)
      BY <2>2, <3>1, Zenon
    <3> QED BY <1>1, <2>2, <3>2
  <2>5. ReverseBits(i) < KeyAfter(count, R)
    <3> DEFINE row == RowOf(w)
    <3>1. row \in Nat /\ row < x /\ ReverseBits(i) = v * row /\ KeyAfter(count, R) = v * x
      BY <1>6, <2>2, <2>3, <2>4
    <3> HIDE DEF row, x, v, i, R
    <3>2. v * x = v * row + v + v * (x - row - 1) /\ v * (x - row - 1) \in Nat /\ v * row \in Nat
      <4>1. x - row - 1 \in Nat
        BY <1>4, <3>1
      <4> QED BY <1>1, <1>4, <3>1, <4>1
    <3>3. v * row < v * x
      BY <1>1, <3>2
    <3> QED BY <3>1, <3>3
  <2> HIDE DEF i
  <2>6. PICK c \in CodesUpTo(R, count) : Covers(count, c, ReverseBits(i))
    BY <1>1, <1>3, <2>4, <2>5, SomeCodeCovers
  <2>7. t[i] = HuffmanCode(c[1], symbolsOf[c[1]][c[2]])
    <3>1. /\ R \in 0 .. RevBits /\ Counts(count, R) /\ KeyAfter(count, R) <= Pow2[RevBits] /\ i \in 0 .. Pow2[R] - 1
      BY <1>1, <1>3, <1>8, <2>2
    <3>2. RootTable(R, symbolsOf, count)[i] = HuffmanCode(c[1], symbolsOf[c[1]][c[2]])
      <4> HIDE DEF R
      <4> QED BY <2>6, <3>1, RootTableIs
    <3> QED BY <3>2 DEF t
  <2>8. c[1] \in 1 .. R /\ c[2] \in 1 .. count[c[1]]
    BY <1>1, CodeIs
  <2>9. c[1] \in Nat /\ ~(c[1] > R) /\ ~(c[1] - R > 0) /\ c[1] \in 1 .. MaxLength
    BY <1>1, <2>8
  <2>10. /\ FirstOf(count, c[1], c[2]) <= Reversed(w, MaxLength)
         /\ Reversed(w, MaxLength) < FirstOf(count, c[1], c[2] + 1)
    BY <2>6, RootWords DEF i
  <2> DEFINE root == b.table[RootAt(w)]
             len == c[1]
             k == c[2]
  <2>11. root = HuffmanCode(len, symbolsOf[len][k])
    BY <1>9, <2>7 DEF i
  <2>12. root.bits = len
    BY <2>11 DEF HuffmanCode
  <2>13. DecodeSymbol(w, b.table) = HuffmanCode(len, symbolsOf[len][k])
    <3>1. DecodeSymbol(w, b.table) = IF root.bits - RootBits > 0
                             THEN HuffmanCode(RootBits + b.table[SecondAt(b.table, w)].bits, b.table[SecondAt(b.table, w)].value) ELSE root
      BY Zenon DEF DecodeSymbol, SecondAt, RootAt
    <3>2. ~(root.bits - RootBits > 0)
      BY <2>9, <2>12
    <3> HIDE DEF root, len, k
    <3> QED BY <2>11, <3>1, <3>2
  <2>14. Right(b.table, symbolsOf, count, w)
    <3> HIDE DEF root
    <3> QED BY <2>8, <2>9, <2>10, <2>13, Zenon DEF Right
  <2>15. Entries(b.table, w, Bound(b, r, w))
    BY <2>9, <2>12 DEF Entries
  <2> QED BY <2>14, <2>15 DEF Settled
<1>15. Filled(b, symbolsOf, count, P, r, S)
  BY <1>11, <1>12, <1>13, <1>14 DEF Filled
<1>16. b.count = CountsLeft(count, R + 1, 0)
  <2>1. MaxLength \in RootBits + 1 .. MaxLength
    BY <1>1, MoreWidths
  <2>2. CountsLeft(count, RootBits + 1, 0) = count
    BY <1>2, <2>1, CountsLeftNext
  <2> QED BY <1>9, <2>2
<1>17. FilledTo(b, symbolsOf, count, P)
  BY <1>15 DEF FilledTo
<1>18. PlacedLengths(b, symbolsOf, count, R)
  BY <1>9, <1>16, <1>17 DEF PlacedLengths
<1> QED BY <1>18 DEF b

\* What BrotliBuildHuffmanTable builds from the lists and the counts of a complete
\* code decodes every input: the entry reached, in the first table or through it in
\* one of the second level, is that of a listed code which the input begins with.
THEOREM BuiltTableDecodes ==
  ASSUME NEW symbolsOf, NEW count, CompleteCounts(count)
  PROVE  \A w \in Inputs :
           \E bound \in Nat : Settled(BuildHuffmanTable(symbolsOf, count).table, symbolsOf, count, w, bound)
<1>0. RootBits \in Nat /\ MaxLength \in Nat /\ RootBits + 1 <= MaxLength
  BY MoreWidths
<1>1. PICK placed : /\ placed[RootBits] = RootBuilt(symbolsOf, count)
                    /\ \A len \in RootBits + 1 .. MaxLength :
                         placed[len] = PlaceLength(placed[len - 1], len, symbolsOf[len], count[len])
                    /\ BuildHuffmanTable(symbolsOf, count) = placed[MaxLength]
  BY BuildHuffmanTableIs
<1> DEFINE N == {d \in Nat : RootBits + d <= MaxLength => PlacedLengths(placed[RootBits + d], symbolsOf, count, RootBits + d)}
<1>2. 0 \in N
  <2>1. RootBits + 0 = RootBits
    BY <1>0
  <2>2. PlacedLengths(placed[RootBits], symbolsOf, count, RootBits)
    BY <1>1, RootStart
  <2> QED BY <2>1, <2>2
<1>3. ASSUME NEW d \in Nat, d \in N PROVE d + 1 \in N
  <2> DEFINE m == RootBits + d
             m1 == RootBits + (d + 1)
  <2> SUFFICES ASSUME m1 <= MaxLength PROVE PlacedLengths(placed[m1], symbolsOf, count, m1)
    OBVIOUS
  <2>1. m1 - 1 = m /\ m1 \in RootBits + 1 .. MaxLength /\ m <= MaxLength
    BY <1>0
  <2>2. PlacedLengths(placed[m], symbolsOf, count, m)
    BY <1>3, <2>1
  <2> HIDE DEF m, m1
  <2>3. placed[m1] = PlaceLength(placed[m], m1, symbolsOf[m1], count[m1])
    BY <1>1, <2>1
  <2>4. PlacedLengths(placed[m], symbolsOf, count, m1 - 1)
    BY <2>1, <2>2
  <2>5. PlacedLengths(PlaceLength(placed[m], m1, symbolsOf[m1], count[m1]), symbolsOf, count, m1)
    BY <2>1, <2>4, PlaceCodes
  <2> QED BY <2>3, <2>5, Zenon
<1>4. PlacedLengths(placed[MaxLength], symbolsOf, count, MaxLength)
  <2>1. \A d \in Nat : d \in N
    <3> HIDE DEF N
    <3> QED BY <1>2, <1>3, NatSetInduction
  <2>2. MaxLength - RootBits \in Nat /\ RootBits + (MaxLength - RootBits) = MaxLength
    BY <1>0
  <2>3. MaxLength - RootBits \in N
    BY <2>1, <2>2
  <2> QED BY <1>0, <2>2, <2>3
<1> DEFINE b == BuildHuffmanTable(symbolsOf, count)
<1>5. FilledTo(b, symbolsOf, count, Pow2[MaxLength])
  <2>1. FilledTo(b, symbolsOf, count, Weighted(count, MaxLength, MaxLength))
    BY <1>1, <1>4 DEF PlacedLengths
  <2> HIDE DEF b
  <2> QED BY <2>1 DEF CompleteCounts
<1> HIDE DEF b
<1>6. PICK r, m : Filled(b, symbolsOf, count, Pow2[MaxLength], r, m)
  BY <1>5 DEF FilledTo
<1>7. ASSUME NEW w \in Inputs PROVE \E bound \in Nat : Settled(b.table, symbolsOf, count, w, bound)
  <2>1. Reversed(w, MaxLength) < Pow2[MaxLength]
    <3>1. w \in 0 .. Pow2[MaxLength] - 1
      BY DEF Inputs
    <3>2. Reversed(w, MaxLength) \in 0 .. Pow2[MaxLength] - 1
      BY <3>1, WordSplit
    <3> QED BY <3>2, MoreWidths
  <2>2. Settled(b.table, symbolsOf, count, w, Bound(b, r, w))
    BY <1>6, <2>1 DEF Filled
  <2>3. b.free \in Nat /\ b.size \in Nat
    BY <1>6 DEF Filled, Room
  <2>4. Bound(b, r, w) \in Nat
    BY <2>3 DEF Bound
  <2> QED BY <2>2, <2>4
<1> QED BY <1>7 DEF b

---------------------------------------------------------------------------
(* The careful decoder.                                                    *)

\* The quotient of a remainder.
LEMMA DivOfMod ==
  ASSUME NEW n \in Nat, NEW p \in Nat \ {0}, NEW q \in Nat \ {0}
  PROVE  (n % (p * q)) \div p = (n \div p) % q
<1> DEFINE u == n \div p
           v == u \div q
           a == n % p
           b == u % q
<1>1. u \in Nat /\ a \in 0 .. p - 1 /\ n = p * u + a
  BY DivMod
<1> HIDE DEF u
<1>2. v \in Nat /\ b \in 0 .. q - 1 /\ u = q * v + b
  BY <1>1, DivMod
<1> HIDE DEF a, b, v
<1>3. p * q \in Nat \ {0} /\ p * b \in Nat
  BY <1>2
<1>4. n = (p * q) * v + (p * b + a)
  <2>1. p * (q * v + b) = (p * q) * v + p * b
    BY <1>2
  <2> QED BY <1>1, <1>2, <2>1
<1>5. p * b + a \in 0 .. p * q - 1
  <2>1. p * (b + 1) <= p * q
    BY <1>2
  <2>2. p * (b + 1) = p * b + p
    BY <1>2
  <2> QED BY <1>1, <1>3, <2>1, <2>2
<1>6. n % (p * q) = p * b + a
  <2> DEFINE m == p * q
             r == p * b + a
  <2>1. m \in Nat \ {0} /\ v \in Int /\ r \in 0 .. m - 1 /\ n = m * v + r
    BY <1>2, <1>3, <1>4, <1>5
  <2> HIDE DEF m, r
  <2>2. n % m = r
    BY <2>1, DivUnique
  <2> QED BY <2>2 DEF m, r
<1>7. (p * b + a) \div p = b
  <2> DEFINE r == p * b + a
  <2>1. r \in Nat /\ r = p * b + a /\ b \in Int
    BY <1>1, <1>2, <1>3
  <2> HIDE DEF r
  <2>2. b = r \div p
    BY <1>1, <2>1, DivUnique
  <2> QED BY <2>2 DEF r
<1> QED BY <1>6, <1>7 DEF b, u

\* The input is padded with zeros.
Careful(t, w, available) ==
  SafeDecodeSymbol(w, available, t)
    = IF DecodeSymbol(w, t).bits <= available THEN DecodeSymbol(w, t) ELSE Fails

\* A code in the root.
LEMMA CarefulInRoot ==
  ASSUME NEW t, NEW w \in Inputs, NEW available \in 0 .. MaxLength, available = 0 => w = 0,
         t[RootAt(w)].bits \in Nat, t[RootAt(w)].bits <= RootBits
  PROVE  Careful(t, w, available)
<1> DEFINE root == t[w % Pow2[RootBits]]
           n == root.bits
<1>1. n \in Nat /\ n <= RootBits /\ RootBits \in Nat /\ Pow2[RootBits] \in Nat \ {0} /\ MaxLength \in Nat
  BY MoreWidths DEF RootAt
<1>2. DecodeSymbol(w, t) = root
  <2>1. ~(n - RootBits > 0)
    BY <1>1
  <2> QED BY <2>1, Zenon DEF DecodeSymbol
<1>3. CASE available = 0
  <2>1. w % Pow2[RootBits] = 0 /\ w = 0
    BY <1>1, <1>3, DivSmall
  <2>2. SafeDecodeSymbol(w, available, t) = IF n = 0 THEN root ELSE Fails
    BY <1>3, <2>1 DEF SafeDecodeSymbol
  <2>3. n = 0 <=> n <= available
    BY <1>1, <1>3
  <2> QED BY <1>2, <2>2, <2>3 DEF Careful
<1>4. CASE available # 0
  <2>1. SafeDecodeSymbol(w, available, t) = IF n <= available THEN root ELSE Fails
    BY <1>1, <1>4, Zenon DEF SafeDecodeSymbol
  <2> QED BY <1>2, <2>1 DEF Careful
<1> QED BY <1>3, <1>4

\* A code in the second level.
LEMMA CarefulInSecond ==
  ASSUME NEW t, NEW w \in Inputs, NEW available \in 0 .. MaxLength, available = 0 => w = 0,
         t[RootAt(w)].bits \in Nat, t[RootAt(w)].bits > RootBits, t[SecondAt(t, w)].bits \in Nat \ {0}
  PROVE  Careful(t, w, available)
<1> DEFINE p == Pow2[RootBits]
           root == t[w % p]
           n == root.bits
           more == n - RootBits
           second == t[(w % p) + root.value + ((w \div p) % Pow2[more])]
           len == RootBits + second.bits
<1>1. n \in Nat /\ n > RootBits /\ RootBits \in Nat /\ RootBits > 0 /\ p \in Nat \ {0} /\ more \in Nat /\ more > 0
      /\ w \in Nat /\ n = RootBits + more /\ Pow2[n] = p * Pow2[more] /\ Pow2[more] \in Nat \ {0} /\ available \in Nat
  <2>1. n \in Nat /\ n > RootBits /\ RootBits \in Nat /\ RootBits > 0 /\ p \in Nat \ {0}
        /\ Pow2[MaxLength] \in Nat /\ MaxLength \in Nat
    BY MoreWidths DEF RootAt
  <2>2. more \in Nat /\ more > 0 /\ w \in Nat /\ n = RootBits + more /\ available \in Nat
    BY <2>1 DEF Inputs
  <2> HIDE DEF more, n, p
  <2>3. Pow2[n] = Pow2[RootBits] * Pow2[more] /\ Pow2[more] \in Nat \ {0}
    BY <2>1, <2>2, PowSum, PowNat
  <2> QED BY <2>1, <2>2, <2>3 DEF p
<1>2. second.bits \in Nat \ {0}
  BY DEF SecondAt, RootAt
<1>3. (w % Pow2[n]) \div p = (w \div p) % Pow2[more]
  <2> HIDE DEF p, n, more
  <2>1. (w % (p * Pow2[more])) \div p = (w \div p) % Pow2[more]
    BY <1>1, DivOfMod
  <2> QED BY <1>1, <2>1, Zenon
<1>4. DecodeSymbol(w, t) = HuffmanCode(len, second.value)
  BY <1>1, Zenon DEF DecodeSymbol
<1>5. CASE available = 0
  <2>1. w % p = 0 /\ w = 0
    BY <1>1, <1>5, DivSmall
  <2>2. n # 0 /\ ~(len <= available)
    <3> DEFINE b == second.bits
    <3>1. b \in Nat \ {0} /\ RootBits \in Nat /\ RootBits > 0 /\ n \in Nat /\ n > RootBits
      BY <1>1, <1>2
    <3> HIDE DEF b, n
    <3>2. n # 0 /\ ~(RootBits + b <= 0)
      BY <3>1
    <3> QED BY <1>5, <3>2 DEF b
  <2>3. t[0].bits # 0
    BY <2>1, <2>2
  <2>4. SafeDecodeSymbol(w, available, t) = Fails
    BY <1>5, <2>3, Zenon DEF SafeDecodeSymbol
  <2>5. HuffmanCode(len, second.value).bits = len
    BY DEF HuffmanCode
  <2> HIDE DEF len, second
  <2> QED BY <1>4, <2>2, <2>4, <2>5, Zenon DEF Careful
<1>6. CASE available # 0
  <2>1. ~(n <= RootBits)
    BY <1>1
  <2>2. SafeDecodeSymbol(w, available, t)
          = IF available <= RootBits \/ available - RootBits < second.bits THEN Fails
            ELSE HuffmanCode(len, second.value)
    BY <1>3, <1>6, <2>1, Zenon DEF SafeDecodeSymbol
  <2>3. (available <= RootBits \/ available - RootBits < second.bits) <=> ~(len <= available)
    <3> HIDE DEF second
    <3> QED BY <1>1, <1>2
  <2>4. HuffmanCode(len, second.value).bits = len
    BY DEF HuffmanCode
  <2> HIDE DEF len, second
  <2> QED BY <1>4, <2>2, <2>3, <2>4, Zenon DEF Careful
<1> QED BY <1>5, <1>6

\* The careful decoder, on what is there of an input, finds its symbol or none.
LEMMA CarefulDecodes ==
  ASSUME NEW t, NEW available \in 0 .. MaxLength, NEW w \in 0 .. Pow2[available] - 1, NEW bound, Entries(t, w, bound)
  PROVE  Careful(t, w, available)
<1>1. w \in Inputs
  <2>1. Pow2[available] \in Nat /\ Pow2[MaxLength] \in Nat /\ Pow2[available] <= Pow2[MaxLength]
    BY MoreWidths, PowNat, PowGrows
  <2> QED BY <2>1 DEF Inputs
<1>2. available = 0 => w = 0
  BY PowStep
<1>3. /\ t[RootAt(w)].bits \in Nat /\ RootBits \in Nat
      /\ t[RootAt(w)].bits > RootBits => t[SecondAt(t, w)].bits \in Nat \ {0}
  BY MoreWidths DEF Entries
<1>4. t[RootAt(w)].bits <= RootBits \/ t[RootAt(w)].bits > RootBits
  BY <1>3
<1> QED BY <1>1, <1>2, <1>3, <1>4, CarefulInRoot, CarefulInSecond

---------------------------------------------------------------------------
(* What a table that decodes every input says of its codes.                *)

\* The word v is one of the k-th code of that length.
WordIn(count, len, k, v) == FirstOf(count, len, k) <= v /\ v < FirstOf(count, len, k + 1)

\* Words of shorter codes come first.
LEMMA ShorterFirst ==
  ASSUME NEW count, Counts(count, MaxLength), NEW len \in 1 .. MaxLength, NEW k \in 1 .. count[len],
         NEW l \in 1 .. MaxLength, NEW j \in 1 .. count[l], len < l
  PROVE  FirstOf(count, len, k + 1) <= FirstOf(count, l, j)
<1> DEFINE a == Weighted(count, len, MaxLength)
           b == Weighted(count, l - 1, MaxLength)
<1>1. FirstOf(count, len, k + 1) <= a /\ FirstOf(count, len, k + 1) \in Nat
  <2>1. FirstOf(count, len, k + 1) = FirstOf(count, len, k) + Pow2[MaxLength - len] /\ FirstOf(count, len, k) \in Nat
        /\ Pow2[MaxLength - len] \in Nat /\ FirstOf(count, len, k + 1) <= a
    BY CodePlace
  <2> HIDE DEF a
  <2> QED BY <2>1
<1>2. b <= FirstOf(count, l, j) /\ FirstOf(count, l, j) \in Nat /\ b \in Nat
  BY CodePlace
<1>3. a <= b /\ a \in Nat
  <2>1. MaxLength \in Nat /\ MaxLength \in 0 .. MaxLength /\ len \in 0 .. MaxLength /\ l - 1 \in 0 .. MaxLength /\ len <= l - 1
    BY Widths
  <2>2. a \in Nat
    BY <2>1, WeightedStep
  <2> QED BY <2>1, <2>2, WeightedGrows
<1> HIDE DEF a, b
<1> QED BY <1>1, <1>2, <1>3

\* Of one length, the words of the earlier code come first.
LEMMA SmallerFirst ==
  ASSUME NEW count, Counts(count, MaxLength), NEW len \in 1 .. MaxLength, NEW k \in 1 .. count[len],
         NEW j \in 1 .. count[len], k < j
  PROVE  FirstOf(count, len, k + 1) <= FirstOf(count, len, j)
<1> DEFINE p == Pow2[MaxLength - len]
           x == Weighted(count, len - 1, MaxLength)
<1>1. p \in Nat \ {0} /\ x \in Nat /\ k \in Nat /\ j \in Nat
  BY CodePlace
<1>2. FirstOf(count, len, k + 1) = x + ((k + 1) - 1) * p /\ FirstOf(count, len, j) = x + (j - 1) * p
  BY DEF FirstOf
<1> HIDE DEF p, x
<1>3. ((k + 1) - 1) * p <= (j - 1) * p /\ ((k + 1) - 1) * p \in Nat /\ (j - 1) * p \in Nat
  <2>1. (k + 1) - 1 \in Nat /\ j - 1 \in Nat /\ (k + 1) - 1 <= j - 1
    BY <1>1
  <2> QED BY <1>1, <2>1
<1> QED BY <1>1, <1>2, <1>3

\* A word belongs to one code.
LEMMA OneCodeOfWord ==
  ASSUME NEW count, Counts(count, MaxLength), NEW v \in Nat, NEW len \in 1 .. MaxLength, NEW k \in 1 .. count[len],
         NEW l \in 1 .. MaxLength, NEW j \in 1 .. count[l], WordIn(count, len, k, v), WordIn(count, l, j, v)
  PROVE  len = l /\ k = j
<1>1. /\ FirstOf(count, len, k) \in Nat /\ FirstOf(count, l, j) \in Nat
      /\ FirstOf(count, len, k + 1) \in Nat /\ FirstOf(count, l, j + 1) \in Nat
      /\ k \in Nat /\ j \in Nat /\ len \in Nat /\ l \in Nat
  <2>1. /\ FirstOf(count, len, k + 1) = FirstOf(count, len, k) + Pow2[MaxLength - len]
        /\ FirstOf(count, l, j + 1) = FirstOf(count, l, j) + Pow2[MaxLength - l]
        /\ Pow2[MaxLength - len] \in Nat /\ Pow2[MaxLength - l] \in Nat
        /\ FirstOf(count, len, k) \in Nat /\ FirstOf(count, l, j) \in Nat
        /\ k \in Nat /\ j \in Nat /\ len \in Nat /\ l \in Nat
    BY CodePlace
  <2> QED BY <2>1
<1>2. ~(len < l)
  <2> SUFFICES ASSUME len < l PROVE FALSE
    OBVIOUS
  <2>1. FirstOf(count, len, k + 1) <= FirstOf(count, l, j)
    BY ShorterFirst
  <2> QED BY <1>1, <2>1 DEF WordIn
<1>3. ~(l < len)
  <2> SUFFICES ASSUME l < len PROVE FALSE
    OBVIOUS
  <2>1. FirstOf(count, l, j + 1) <= FirstOf(count, len, k)
    BY ShorterFirst
  <2> QED BY <1>1, <2>1 DEF WordIn
<1>4. len = l
  BY <1>1, <1>2, <1>3
<1>5. ~(k < j)
  <2> SUFFICES ASSUME k < j PROVE FALSE
    OBVIOUS
  <2>1. FirstOf(count, len, k + 1) <= FirstOf(count, len, j)
    BY <1>4, SmallerFirst
  <2> QED BY <1>1, <1>4, <2>1 DEF WordIn
<1>6. ~(j < k)
  <2> SUFFICES ASSUME j < k PROVE FALSE
    OBVIOUS
  <2>1. FirstOf(count, len, j + 1) <= FirstOf(count, len, k)
    BY <1>4, SmallerFirst
  <2> QED BY <1>1, <1>4, <2>1 DEF WordIn
<1> QED BY <1>1, <1>4, <1>5, <1>6

\* Every input is decoded.
AllRight(t, symbolsOf, count) == \A w \in Inputs : Right(t, symbolsOf, count, w)

\* Every code is decoded from some input.
LEMMA CodeIsDecoded ==
  ASSUME NEW t, NEW symbolsOf, NEW count, CompleteCounts(count), AllRight(t, symbolsOf, count),
         NEW len \in 1 .. MaxLength, NEW k \in 1 .. count[len]
  PROVE  \E w \in Inputs : DecodeSymbol(w, t) = HuffmanCode(len, symbolsOf[len][k])
<1> DEFINE v == FirstOf(count, len, k)
           w == Reversed(v, MaxLength)
<1>1. Counts(count, MaxLength) /\ MaxLength \in Nat /\ Pow2[MaxLength] \in Nat \ {0}
  <2>1. MaxLength \in Nat /\ Pow2[MaxLength] \in Nat \ {0}
    BY MoreWidths
  <2>2. \A b \in 1 .. MaxLength : b \in 0 .. MaxLength
    BY <2>1
  <2> QED BY <2>1, <2>2 DEF CompleteCounts, Counts
<1>2. v \in Nat /\ v < Pow2[MaxLength] /\ v < FirstOf(count, len, k + 1)
  <2>1. v \in Nat /\ FirstOf(count, len, k + 1) = v + Pow2[MaxLength - len] /\ Pow2[MaxLength - len] \in Nat \ {0}
        /\ FirstOf(count, len, k + 1) <= Weighted(count, len, MaxLength)
    BY <1>1, CodePlace
  <2>2. Weighted(count, len, MaxLength) <= Pow2[MaxLength] /\ Weighted(count, len, MaxLength) \in Nat
    <3>1. len \in 0 .. MaxLength /\ MaxLength \in 0 .. MaxLength /\ len <= MaxLength
      BY <1>1
    <3>2. Weighted(count, len, MaxLength) <= Weighted(count, MaxLength, MaxLength)
      BY <1>1, <3>1, WeightedGrows
    <3>3. Weighted(count, len, MaxLength) \in Nat
      BY <1>1, <3>1, WeightedStep
    <3> QED BY <3>2, <3>3 DEF CompleteCounts
  <2> HIDE DEF v
  <2> QED BY <1>1, <2>1, <2>2
<1> HIDE DEF v
<1>3. w \in Inputs /\ Reversed(w, MaxLength) = v
  <2>1. w \in Inputs
    BY <1>1, <1>2, ReversedType DEF Inputs
  <2>2. Reversed(w, MaxLength) = v % Pow2[MaxLength]
    BY <1>1, <1>2, ReversedTwice
  <2>3. v % Pow2[MaxLength] = v
    BY <1>1, <1>2, DivSmall
  <2> QED BY <2>1, <2>2, <2>3
<1> HIDE DEF w
<1>4. PICK l \in 1 .. MaxLength : \E j \in 1 .. count[l] :
        WordIn(count, l, j, v) /\ DecodeSymbol(w, t) = HuffmanCode(l, symbolsOf[l][j])
  <2>1. Right(t, symbolsOf, count, w)
    BY <1>3 DEF AllRight
  <2> QED BY <1>3, <2>1 DEF Right, WordIn
<1>5. PICK j \in 1 .. count[l] : WordIn(count, l, j, v) /\ DecodeSymbol(w, t) = HuffmanCode(l, symbolsOf[l][j])
  BY <1>4
<1>6. WordIn(count, len, k, v)
  BY <1>2 DEF WordIn, v
<1>7. len = l /\ k = j
  BY <1>1, <1>2, <1>5, <1>6, OneCodeOfWord
<1> QED BY <1>3, <1>5, <1>7

---------------------------------------------------------------------------
(* The table of listed symbols.                                            *)

\* The eight words of three bits, reversed.
Reversed3(i) == <<0, 4, 2, 6, 1, 5, 3, 7>>[i + 1]

\* These are their reversals.
LEMMA Reversed3Is ==
  \A i \in 0 .. 7 : Reversed(i, 3) = Reversed3(i) /\ Reversed3(i) \in 0 .. 7
<1>1. Pow2[0] = 1 /\ Pow2[1] = 2 /\ Pow2[2] = 4 /\ Pow2[3] = 8
  <2>1. Pow2[0] = 1 /\ Pow2[0 + 1] = 2 * Pow2[0] /\ Pow2[1 + 1] = 2 * Pow2[1] /\ Pow2[2 + 1] = 2 * Pow2[2]
    BY PowStep
  <2> QED BY <2>1
<1> TAKE i \in 0 .. 7
<1>2. Reversed(i, 0) = 0 /\ Reversed(i, 0 + 1) = 2 * Reversed(i, 0) + Bit(i, 0)
      /\ Reversed(i, 1 + 1) = 2 * Reversed(i, 1) + Bit(i, 1) /\ Reversed(i, 2 + 1) = 2 * Reversed(i, 2) + Bit(i, 2)
  BY ReversedStep
<1>3. Bit(i, 0) = i % 2 /\ Bit(i, 1) = (i \div 2) % 2 /\ Bit(i, 2) = (i \div 4) % 2
  <2>1. i \div 1 = i
    OBVIOUS
  <2> QED BY <1>1, <2>1 DEF Bit
<1>4. Reversed(i, 3) = 4 * (i % 2) + 2 * ((i \div 2) % 2) + ((i \div 4) % 2)
  BY <1>2, <1>3
<1>5. i \in {0, 1, 2, 3, 4, 5, 6, 7}
  OBVIOUS
<1>6. 4 * (i % 2) + 2 * ((i \div 2) % 2) + ((i \div 4) % 2) = Reversed3(i) /\ Reversed3(i) \in 0 .. 7
  BY <1>5 DEF Reversed3
<1> QED BY <1>4, <1>6

\* How many words an eighth of them is.
Eighth == Pow2[MaxLength - 3]

\* The first three bits of an input say in which eighth of the words it is.
LEMMA EighthOf ==
  ASSUME NEW w \in Inputs
  PROVE  /\ w % 8 \in 0 .. 7 /\ Eighth \in Nat \ {0} /\ Pow2[MaxLength] = 8 * Eighth
         /\ Reversed(w, MaxLength) \in Nat
         /\ Eighth * Reversed3(w % 8) <= Reversed(w, MaxLength)
         /\ Reversed(w, MaxLength) < Eighth * Reversed3(w % 8) + Eighth
<1> DEFINE d == MaxLength - 3
           u == Reversed(w \div 8, d)
<1>0. d \in Nat /\ w \in Nat /\ MaxLength = 3 + d /\ Pow2[3] = 8
  <2>1. MaxLength \in Nat /\ MaxLength >= 4
    BY MoreWidths
  <2>2. Pow2[MaxLength] \in Nat
    BY MoreWidths
  <2>3. Pow2[0] = 1 /\ Pow2[0 + 1] = 2 * Pow2[0] /\ Pow2[1 + 1] = 2 * Pow2[1] /\ Pow2[2 + 1] = 2 * Pow2[2]
    BY PowStep
  <2> QED BY <2>1, <2>2, <2>3 DEF Inputs
<1>1. w % 8 \in 0 .. 7 /\ w \div 8 \in Nat
  BY <1>0
<1>2. Eighth \in Nat \ {0} /\ Pow2[MaxLength] = 8 * Eighth
  <2> HIDE DEF d
  <2>1. Pow2[d] \in Nat \ {0} /\ Pow2[3 + d] = Pow2[3] * Pow2[d]
    BY <1>0, PowNat, PowSum
  <2> QED BY <1>0, <2>1 DEF Eighth, d
<1>3. Reversed(w, MaxLength) = Eighth * Reversed(w, 3) + u
  <2> DEFINE z == 3
  <2>1. z \in Nat /\ w \in Nat /\ d \in Nat
    BY <1>0
  <2> HIDE DEF d, z
  <2>2. Reversed(w, z + d) = Pow2[d] * Reversed(w, z) + Reversed(w \div Pow2[z], d)
    BY <2>1, ReversedSplit
  <2> QED BY <1>0, <2>2 DEF Eighth, d, z
<1>4. u \in 0 .. Eighth - 1
  <2> HIDE DEF d
  <2> QED BY <1>0, <1>1, ReversedType DEF Eighth, d
<1>5. Reversed(w, 3) = Reversed3(w % 8) /\ Reversed3(w % 8) \in 0 .. 7
  <2>1. Reversed(w % Pow2[3], 3) = Reversed(w, 3)
    BY <1>0, ReversedLow
  <2> QED BY <1>0, <1>1, <2>1, Reversed3Is
<1> HIDE DEF u
<1>6. Eighth * Reversed3(w % 8) \in Nat
  BY <1>2, <1>5
<1> QED BY <1>1, <1>2, <1>3, <1>4, <1>5, <1>6

\* The lengths of the codes of a simple table in order, and in eighths of the
\* words where each begins.
SimpleBits(num_symbols) ==
  CASE num_symbols = 0 -> <<0>>
    [] num_symbols = 1 -> <<1, 1>>
    [] num_symbols = 2 -> <<1, 2, 2>>
    [] num_symbols = 3 -> <<2, 2, 2, 2>>
    [] num_symbols = 4 -> <<1, 2, 3, 3>>

SimpleFirst(num_symbols) ==
  CASE num_symbols = 0 -> <<0>>
    [] num_symbols = 1 -> <<0, 4>>
    [] num_symbols = 2 -> <<0, 4, 6>>
    [] num_symbols = 3 -> <<0, 2, 4, 6>>
    [] num_symbols = 4 -> <<0, 4, 6, 7>>

\* How many eighths a code takes.
Eighths(len) == <<8, 4, 2, 1>>[len + 1]

\* The entry for the three bits i.
SimpleAt(num_symbols, i) == SimpleShape(num_symbols)[(i % Len(SimpleShape(num_symbols))) + 1]

\* How many symbols are listed.
SimpleCount(num_symbols) == IF num_symbols = 4 THEN 4 ELSE num_symbols + 1

\* The entry for three bits is that of the code to which its eighth belongs.
EntryFits(num_symbols, i) ==
  \E k \in 1 .. SimpleCount(num_symbols) :
     /\ SimpleAt(num_symbols, i) = <<SimpleBits(num_symbols)[k], k>>
     /\ SimpleFirst(num_symbols)[k] <= Reversed3(i)
     /\ Reversed3(i) < SimpleFirst(num_symbols)[k] + Eighths(SimpleBits(num_symbols)[k])

\* The entries and the codes of the table for n, counted in eighths.
SimpleFacts(n) ==
  /\ \A i \in 0 .. 7 : EntryFits(n, i)
  /\ \A k \in 1 .. SimpleCount(n) :
       /\ SimpleBits(n)[k] \in 0 .. 3 /\ SimpleFirst(n)[k] \in 0 .. 7
       /\ \E i \in 0 .. 7 : SimpleAt(n, i) = <<SimpleBits(n)[k], k>>
  /\ SimpleFirst(n)[1] = 0
  /\ \A k \in 1 .. SimpleCount(n) - 1 :
       /\ SimpleFirst(n)[k + 1] = SimpleFirst(n)[k] + Eighths(SimpleBits(n)[k])
       /\ SimpleBits(n)[k] <= SimpleBits(n)[k + 1]
  /\ Len(SimpleShape(n)) \in {1, 2, 4, 8}

\* One symbol.
LEMMA SimpleZero == SimpleFacts(0)
<1>1. /\ SimpleBits(0) = <<0>> /\ SimpleFirst(0) = <<0>> /\ SimpleCount(0) = 1
      /\ SimpleShape(0) = <<<<0, 1>>>>
      /\ Len(SimpleShape(0)) = 1
  BY DEF SimpleBits, SimpleFirst, SimpleShape, SimpleCount
<1>2. /\ SimpleAt(0, 0) = <<0, 1>> /\ SimpleAt(0, 1) = <<0, 1>> /\ SimpleAt(0, 2) = <<0, 1>> /\ SimpleAt(0, 3) = <<0, 1>>
      /\ SimpleAt(0, 4) = <<0, 1>> /\ SimpleAt(0, 5) = <<0, 1>> /\ SimpleAt(0, 6) = <<0, 1>> /\ SimpleAt(0, 7) = <<0, 1>>
  <2>1. \A i : SimpleAt(0, i) = SimpleShape(0)[(i % 1) + 1]
    BY <1>1, Zenon DEF SimpleAt
  <2>2. 0 % 1 = 0 /\ 1 % 1 = 0 /\ 2 % 1 = 0 /\ 3 % 1 = 0 /\ 4 % 1 = 0 /\ 5 % 1 = 0 /\ 6 % 1 = 0 /\ 7 % 1 = 0
    OBVIOUS
  <2>3. 0 + 1 = 1
    OBVIOUS
  <2>4. SimpleShape(0)[1] = <<0, 1>>
    BY <1>1
  <2>5. /\ SimpleAt(0, 0) = SimpleShape(0)[1] /\ SimpleAt(0, 1) = SimpleShape(0)[1] /\ SimpleAt(0, 2) = SimpleShape(0)[1] /\ SimpleAt(0, 3) = SimpleShape(0)[1]
        /\ SimpleAt(0, 4) = SimpleShape(0)[1] /\ SimpleAt(0, 5) = SimpleShape(0)[1] /\ SimpleAt(0, 6) = SimpleShape(0)[1] /\ SimpleAt(0, 7) = SimpleShape(0)[1]
    BY <2>1, <2>2, <2>3
  <2> QED BY <2>4, <2>5, Zenon
<1>3. \A i \in 0 .. 7 : EntryFits(0, i)
  <2> TAKE i \in 0 .. 7
  <2>1. i \in {0, 1, 2, 3, 4, 5, 6, 7}
    OBVIOUS
  <2> QED BY <1>1, <1>2, <2>1 DEF EntryFits, Reversed3, Eighths
<1>4. \A k \in 1 .. SimpleCount(0) :
        /\ SimpleBits(0)[k] \in 0 .. 3 /\ SimpleFirst(0)[k] \in 0 .. 7
        /\ \E i \in 0 .. 7 : SimpleAt(0, i) = <<SimpleBits(0)[k], k>>
  <2> TAKE k \in 1 .. SimpleCount(0)
  <2>1. k \in {1}
    BY <1>1
  <2> QED BY <1>1, <1>2, <2>1
<1>5. SimpleFirst(0)[1] = 0 /\ 1 .. SimpleCount(0) - 1 = {}
  BY <1>1
<1> QED BY <1>1, <1>3, <1>4, <1>5 DEF SimpleFacts

\* Two symbols.
LEMMA SimpleOne == SimpleFacts(1)
<1>1. /\ SimpleBits(1) = <<1, 1>> /\ SimpleFirst(1) = <<0, 4>> /\ SimpleCount(1) = 2
      /\ SimpleShape(1) = <<<<1, 1>>, <<1, 2>>>>
      /\ Len(SimpleShape(1)) = 2
  BY DEF SimpleBits, SimpleFirst, SimpleShape, SimpleCount
<1>2. /\ SimpleAt(1, 0) = <<1, 1>> /\ SimpleAt(1, 1) = <<1, 2>> /\ SimpleAt(1, 2) = <<1, 1>> /\ SimpleAt(1, 3) = <<1, 2>>
      /\ SimpleAt(1, 4) = <<1, 1>> /\ SimpleAt(1, 5) = <<1, 2>> /\ SimpleAt(1, 6) = <<1, 1>> /\ SimpleAt(1, 7) = <<1, 2>>
  <2>1. \A i : SimpleAt(1, i) = SimpleShape(1)[(i % 2) + 1]
    BY <1>1, Zenon DEF SimpleAt
  <2>2. 0 % 2 = 0 /\ 1 % 2 = 1 /\ 2 % 2 = 0 /\ 3 % 2 = 1 /\ 4 % 2 = 0 /\ 5 % 2 = 1 /\ 6 % 2 = 0 /\ 7 % 2 = 1
    OBVIOUS
  <2>3. 0 + 1 = 1 /\ 1 + 1 = 2
    OBVIOUS
  <2>4. /\ SimpleShape(1)[1] = <<1, 1>>
        /\ SimpleShape(1)[2] = <<1, 2>>
    BY <1>1
  <2>5. /\ SimpleAt(1, 0) = SimpleShape(1)[1] /\ SimpleAt(1, 1) = SimpleShape(1)[2] /\ SimpleAt(1, 2) = SimpleShape(1)[1] /\ SimpleAt(1, 3) = SimpleShape(1)[2]
        /\ SimpleAt(1, 4) = SimpleShape(1)[1] /\ SimpleAt(1, 5) = SimpleShape(1)[2] /\ SimpleAt(1, 6) = SimpleShape(1)[1] /\ SimpleAt(1, 7) = SimpleShape(1)[2]
    BY <2>1, <2>2, <2>3
  <2> QED BY <2>4, <2>5, Zenon
<1>3. \A i \in 0 .. 7 : EntryFits(1, i)
  <2> TAKE i \in 0 .. 7
  <2>1. i \in {0, 1, 2, 3, 4, 5, 6, 7}
    OBVIOUS
  <2> QED BY <1>1, <1>2, <2>1 DEF EntryFits, Reversed3, Eighths
<1>4. \A k \in 1 .. SimpleCount(1) :
        /\ SimpleBits(1)[k] \in 0 .. 3 /\ SimpleFirst(1)[k] \in 0 .. 7
        /\ \E i \in 0 .. 7 : SimpleAt(1, i) = <<SimpleBits(1)[k], k>>
  <2> TAKE k \in 1 .. SimpleCount(1)
  <2>1. k \in {1, 2}
    BY <1>1
  <2> QED BY <1>1, <1>2, <2>1
<1>5. /\ SimpleFirst(1)[1] = 0
      /\ \A k \in 1 .. SimpleCount(1) - 1 :
           /\ SimpleFirst(1)[k + 1] = SimpleFirst(1)[k] + Eighths(SimpleBits(1)[k])
           /\ SimpleBits(1)[k] <= SimpleBits(1)[k + 1]
  <2>1. SimpleFirst(1)[1] = 0
    BY <1>1
  <2> SUFFICES ASSUME NEW k \in 1 .. SimpleCount(1) - 1
               PROVE  /\ SimpleFirst(1)[k + 1] = SimpleFirst(1)[k] + Eighths(SimpleBits(1)[k])
                      /\ SimpleBits(1)[k] <= SimpleBits(1)[k + 1]
    BY <2>1
  <2>2. k \in {1}
    BY <1>1
  <2> QED BY <1>1, <2>2 DEF Eighths
<1> QED BY <1>1, <1>3, <1>4, <1>5 DEF SimpleFacts

\* Three symbols.
LEMMA SimpleTwo == SimpleFacts(2)
<1>1. /\ SimpleBits(2) = <<1, 2, 2>> /\ SimpleFirst(2) = <<0, 4, 6>> /\ SimpleCount(2) = 3
      /\ SimpleShape(2) = <<<<1, 1>>, <<2, 2>>, <<1, 1>>, <<2, 3>>>>
      /\ Len(SimpleShape(2)) = 4
  BY DEF SimpleBits, SimpleFirst, SimpleShape, SimpleCount
<1>2. /\ SimpleAt(2, 0) = <<1, 1>> /\ SimpleAt(2, 1) = <<2, 2>> /\ SimpleAt(2, 2) = <<1, 1>> /\ SimpleAt(2, 3) = <<2, 3>>
      /\ SimpleAt(2, 4) = <<1, 1>> /\ SimpleAt(2, 5) = <<2, 2>> /\ SimpleAt(2, 6) = <<1, 1>> /\ SimpleAt(2, 7) = <<2, 3>>
  <2>1. \A i : SimpleAt(2, i) = SimpleShape(2)[(i % 4) + 1]
    BY <1>1, Zenon DEF SimpleAt
  <2>2. 0 % 4 = 0 /\ 1 % 4 = 1 /\ 2 % 4 = 2 /\ 3 % 4 = 3 /\ 4 % 4 = 0 /\ 5 % 4 = 1 /\ 6 % 4 = 2 /\ 7 % 4 = 3
    OBVIOUS
  <2>3. 0 + 1 = 1 /\ 1 + 1 = 2 /\ 2 + 1 = 3 /\ 3 + 1 = 4
    OBVIOUS
  <2>4. /\ SimpleShape(2)[1] = <<1, 1>>
        /\ SimpleShape(2)[2] = <<2, 2>>
        /\ SimpleShape(2)[3] = <<1, 1>>
        /\ SimpleShape(2)[4] = <<2, 3>>
    BY <1>1
  <2>5. /\ SimpleAt(2, 0) = SimpleShape(2)[1] /\ SimpleAt(2, 1) = SimpleShape(2)[2] /\ SimpleAt(2, 2) = SimpleShape(2)[3] /\ SimpleAt(2, 3) = SimpleShape(2)[4]
        /\ SimpleAt(2, 4) = SimpleShape(2)[1] /\ SimpleAt(2, 5) = SimpleShape(2)[2] /\ SimpleAt(2, 6) = SimpleShape(2)[3] /\ SimpleAt(2, 7) = SimpleShape(2)[4]
    BY <2>1, <2>2, <2>3
  <2> QED BY <2>4, <2>5, Zenon
<1>3. \A i \in 0 .. 7 : EntryFits(2, i)
  <2> TAKE i \in 0 .. 7
  <2>1. i \in {0, 1, 2, 3, 4, 5, 6, 7}
    OBVIOUS
  <2> QED BY <1>1, <1>2, <2>1 DEF EntryFits, Reversed3, Eighths
<1>4. \A k \in 1 .. SimpleCount(2) :
        /\ SimpleBits(2)[k] \in 0 .. 3 /\ SimpleFirst(2)[k] \in 0 .. 7
        /\ \E i \in 0 .. 7 : SimpleAt(2, i) = <<SimpleBits(2)[k], k>>
  <2> TAKE k \in 1 .. SimpleCount(2)
  <2>1. k \in {1, 2, 3}
    BY <1>1
  <2> QED BY <1>1, <1>2, <2>1
<1>5. /\ SimpleFirst(2)[1] = 0
      /\ \A k \in 1 .. SimpleCount(2) - 1 :
           /\ SimpleFirst(2)[k + 1] = SimpleFirst(2)[k] + Eighths(SimpleBits(2)[k])
           /\ SimpleBits(2)[k] <= SimpleBits(2)[k + 1]
  <2>1. SimpleFirst(2)[1] = 0
    BY <1>1
  <2> SUFFICES ASSUME NEW k \in 1 .. SimpleCount(2) - 1
               PROVE  /\ SimpleFirst(2)[k + 1] = SimpleFirst(2)[k] + Eighths(SimpleBits(2)[k])
                      /\ SimpleBits(2)[k] <= SimpleBits(2)[k + 1]
    BY <2>1
  <2>2. k \in {1, 2}
    BY <1>1
  <2> QED BY <1>1, <2>2 DEF Eighths
<1> QED BY <1>1, <1>3, <1>4, <1>5 DEF SimpleFacts

\* Four symbols of one length.
LEMMA SimpleThree == SimpleFacts(3)
<1>1. /\ SimpleBits(3) = <<2, 2, 2, 2>> /\ SimpleFirst(3) = <<0, 2, 4, 6>> /\ SimpleCount(3) = 4
      /\ SimpleShape(3) = <<<<2, 1>>, <<2, 3>>, <<2, 2>>, <<2, 4>>>>
      /\ Len(SimpleShape(3)) = 4
  BY DEF SimpleBits, SimpleFirst, SimpleShape, SimpleCount
<1>2. /\ SimpleAt(3, 0) = <<2, 1>> /\ SimpleAt(3, 1) = <<2, 3>> /\ SimpleAt(3, 2) = <<2, 2>> /\ SimpleAt(3, 3) = <<2, 4>>
      /\ SimpleAt(3, 4) = <<2, 1>> /\ SimpleAt(3, 5) = <<2, 3>> /\ SimpleAt(3, 6) = <<2, 2>> /\ SimpleAt(3, 7) = <<2, 4>>
  <2>1. \A i : SimpleAt(3, i) = SimpleShape(3)[(i % 4) + 1]
    BY <1>1, Zenon DEF SimpleAt
  <2>2. 0 % 4 = 0 /\ 1 % 4 = 1 /\ 2 % 4 = 2 /\ 3 % 4 = 3 /\ 4 % 4 = 0 /\ 5 % 4 = 1 /\ 6 % 4 = 2 /\ 7 % 4 = 3
    OBVIOUS
  <2>3. 0 + 1 = 1 /\ 1 + 1 = 2 /\ 2 + 1 = 3 /\ 3 + 1 = 4
    OBVIOUS
  <2>4. /\ SimpleShape(3)[1] = <<2, 1>>
        /\ SimpleShape(3)[2] = <<2, 3>>
        /\ SimpleShape(3)[3] = <<2, 2>>
        /\ SimpleShape(3)[4] = <<2, 4>>
    BY <1>1
  <2>5. /\ SimpleAt(3, 0) = SimpleShape(3)[1] /\ SimpleAt(3, 1) = SimpleShape(3)[2] /\ SimpleAt(3, 2) = SimpleShape(3)[3] /\ SimpleAt(3, 3) = SimpleShape(3)[4]
        /\ SimpleAt(3, 4) = SimpleShape(3)[1] /\ SimpleAt(3, 5) = SimpleShape(3)[2] /\ SimpleAt(3, 6) = SimpleShape(3)[3] /\ SimpleAt(3, 7) = SimpleShape(3)[4]
    BY <2>1, <2>2, <2>3
  <2> QED BY <2>4, <2>5, Zenon
<1>3. \A i \in 0 .. 7 : EntryFits(3, i)
  <2> TAKE i \in 0 .. 7
  <2>1. i \in {0, 1, 2, 3, 4, 5, 6, 7}
    OBVIOUS
  <2> QED BY <1>1, <1>2, <2>1 DEF EntryFits, Reversed3, Eighths
<1>4. \A k \in 1 .. SimpleCount(3) :
        /\ SimpleBits(3)[k] \in 0 .. 3 /\ SimpleFirst(3)[k] \in 0 .. 7
        /\ \E i \in 0 .. 7 : SimpleAt(3, i) = <<SimpleBits(3)[k], k>>
  <2> TAKE k \in 1 .. SimpleCount(3)
  <2>1. k \in {1, 2, 3, 4}
    BY <1>1
  <2> QED BY <1>1, <1>2, <2>1
<1>5. /\ SimpleFirst(3)[1] = 0
      /\ \A k \in 1 .. SimpleCount(3) - 1 :
           /\ SimpleFirst(3)[k + 1] = SimpleFirst(3)[k] + Eighths(SimpleBits(3)[k])
           /\ SimpleBits(3)[k] <= SimpleBits(3)[k + 1]
  <2>1. SimpleFirst(3)[1] = 0
    BY <1>1
  <2> SUFFICES ASSUME NEW k \in 1 .. SimpleCount(3) - 1
               PROVE  /\ SimpleFirst(3)[k + 1] = SimpleFirst(3)[k] + Eighths(SimpleBits(3)[k])
                      /\ SimpleBits(3)[k] <= SimpleBits(3)[k + 1]
    BY <2>1
  <2>2. k \in {1, 2, 3}
    BY <1>1
  <2> QED BY <1>1, <2>2 DEF Eighths
<1> QED BY <1>1, <1>3, <1>4, <1>5 DEF SimpleFacts

\* Four symbols of three lengths.
LEMMA SimpleFour == SimpleFacts(4)
<1>1. /\ SimpleBits(4) = <<1, 2, 3, 3>> /\ SimpleFirst(4) = <<0, 4, 6, 7>> /\ SimpleCount(4) = 4
      /\ SimpleShape(4) = <<<<1, 1>>, <<2, 2>>, <<1, 1>>, <<3, 3>>, <<1, 1>>, <<2, 2>>, <<1, 1>>, <<3, 4>>>>
      /\ Len(SimpleShape(4)) = 8
  BY DEF SimpleBits, SimpleFirst, SimpleShape, SimpleCount
<1>2. /\ SimpleAt(4, 0) = <<1, 1>> /\ SimpleAt(4, 1) = <<2, 2>> /\ SimpleAt(4, 2) = <<1, 1>> /\ SimpleAt(4, 3) = <<3, 3>>
      /\ SimpleAt(4, 4) = <<1, 1>> /\ SimpleAt(4, 5) = <<2, 2>> /\ SimpleAt(4, 6) = <<1, 1>> /\ SimpleAt(4, 7) = <<3, 4>>
  <2>1. \A i : SimpleAt(4, i) = SimpleShape(4)[(i % 8) + 1]
    BY <1>1, Zenon DEF SimpleAt
  <2>2. 0 % 8 = 0 /\ 1 % 8 = 1 /\ 2 % 8 = 2 /\ 3 % 8 = 3 /\ 4 % 8 = 4 /\ 5 % 8 = 5 /\ 6 % 8 = 6 /\ 7 % 8 = 7
    OBVIOUS
  <2>3. 0 + 1 = 1 /\ 1 + 1 = 2 /\ 2 + 1 = 3 /\ 3 + 1 = 4 /\ 4 + 1 = 5 /\ 5 + 1 = 6 /\ 6 + 1 = 7 /\ 7 + 1 = 8
    OBVIOUS
  <2>4. /\ SimpleShape(4)[1] = <<1, 1>>
        /\ SimpleShape(4)[2] = <<2, 2>>
        /\ SimpleShape(4)[3] = <<1, 1>>
        /\ SimpleShape(4)[4] = <<3, 3>>
        /\ SimpleShape(4)[5] = <<1, 1>>
        /\ SimpleShape(4)[6] = <<2, 2>>
        /\ SimpleShape(4)[7] = <<1, 1>>
        /\ SimpleShape(4)[8] = <<3, 4>>
    BY <1>1
  <2>5. /\ SimpleAt(4, 0) = SimpleShape(4)[1] /\ SimpleAt(4, 1) = SimpleShape(4)[2] /\ SimpleAt(4, 2) = SimpleShape(4)[3] /\ SimpleAt(4, 3) = SimpleShape(4)[4]
        /\ SimpleAt(4, 4) = SimpleShape(4)[5] /\ SimpleAt(4, 5) = SimpleShape(4)[6] /\ SimpleAt(4, 6) = SimpleShape(4)[7] /\ SimpleAt(4, 7) = SimpleShape(4)[8]
    BY <2>1, <2>2, <2>3
  <2> QED BY <2>4, <2>5, Zenon
<1>3. \A i \in 0 .. 7 : EntryFits(4, i)
  <2> TAKE i \in 0 .. 7
  <2>1. i \in {0, 1, 2, 3, 4, 5, 6, 7}
    OBVIOUS
  <2> QED BY <1>1, <1>2, <2>1 DEF EntryFits, Reversed3, Eighths
<1>4. \A k \in 1 .. SimpleCount(4) :
        /\ SimpleBits(4)[k] \in 0 .. 3 /\ SimpleFirst(4)[k] \in 0 .. 7
        /\ \E i \in 0 .. 7 : SimpleAt(4, i) = <<SimpleBits(4)[k], k>>
  <2> TAKE k \in 1 .. SimpleCount(4)
  <2>1. k \in {1, 2, 3, 4}
    BY <1>1
  <2> QED BY <1>1, <1>2, <2>1
<1>5. /\ SimpleFirst(4)[1] = 0
      /\ \A k \in 1 .. SimpleCount(4) - 1 :
           /\ SimpleFirst(4)[k + 1] = SimpleFirst(4)[k] + Eighths(SimpleBits(4)[k])
           /\ SimpleBits(4)[k] <= SimpleBits(4)[k + 1]
  <2>1. SimpleFirst(4)[1] = 0
    BY <1>1
  <2> SUFFICES ASSUME NEW k \in 1 .. SimpleCount(4) - 1
               PROVE  /\ SimpleFirst(4)[k + 1] = SimpleFirst(4)[k] + Eighths(SimpleBits(4)[k])
                      /\ SimpleBits(4)[k] <= SimpleBits(4)[k + 1]
    BY <2>1
  <2>2. k \in {1, 2, 3}
    BY <1>1
  <2> QED BY <1>1, <2>2 DEF Eighths
<1> QED BY <1>1, <1>3, <1>4, <1>5 DEF SimpleFacts

\* The facts hold of all the tables of listed symbols.
LEMMA SimpleIs == \A n \in 0 .. 4 : SimpleFacts(n)
<1> TAKE n \in 0 .. 4
<1>1. n \in {0, 1, 2, 3, 4}
  OBVIOUS
<1> QED BY <1>1, SimpleZero, SimpleOne, SimpleTwo, SimpleThree, SimpleFour

\* The symbols from one of the list on.
LEMMA PartOfList ==
  ASSUME NEW n \in Nat, NEW v \in [1 .. n -> Nat], IsInjective(v), NEW first \in 1 .. n
  PROVE  LET rest == {v[k] : k \in first .. n}
         IN  rest \in SUBSET Nat /\ IsFiniteSet(rest) /\ Cardinality(rest) = (n - first) + 1
<1> DEFINE rest == {v[k] : k \in first .. n}
           S == first .. n
           f == [k \in S |-> v[k]]
<1>1. S \subseteq 1 .. n
  OBVIOUS
<1>2. rest \in SUBSET Nat
  BY <1>1
<1>3. f \in Bijection(S, rest)
  <2>1. f \in [S -> rest]
    OBVIOUS
  <2>2. IsInjective(f)
    <3>1. \A a, b \in 1 .. n : v[a] = v[b] => a = b
      BY DEF IsInjective
    <3>2. \A a, b \in S : f[a] = f[b] => a = b
      BY <1>1, <3>1
    <3> HIDE DEF S
    <3> QED BY <3>2 DEF IsInjective
  <2>3. \A t \in rest : \E k \in S : f[k] = t
    OBVIOUS
  <2> HIDE DEF f, rest, S
  <2> QED BY <2>1, <2>2, <2>3 DEF Bijection, Injection, Surjection
<1>4. IsFiniteSet(S) /\ Cardinality(S) = (n - first) + 1
  <2>1. IsFiniteSet(S) /\ Cardinality(S) = IF first > n THEN 0 ELSE n - first + 1
    BY FS_Interval
  <2> QED BY <2>1
<1> HIDE DEF f, rest, S
<1>5. ExistsBijection(S, rest)
  BY <1>3 DEF ExistsBijection
<1>6. IsFiniteSet(rest) /\ Cardinality(rest) = Cardinality(S)
  BY <1>4, <1>5, FS_Bijection
<1> QED BY <1>2, <1>4, <1>6 DEF rest

\* Who has fewer above is larger.
LEMMA FewerAbove ==
  ASSUME NEW S \in SUBSET Nat, IsFiniteSet(S), NEW x \in S, NEW y \in S,
         Cardinality(Above(S, y)) < Cardinality(Above(S, x))
  PROVE  x < y
<1> SUFFICES ASSUME ~(x < y) PROVE FALSE
  OBVIOUS
<1>1. x \in Nat /\ y \in Nat /\ y <= x
  OBVIOUS
<1>2. Above(S, x) \subseteq Above(S, y)
  <2> SUFFICES ASSUME NEW z \in S, z > x PROVE z > y
    BY DEF Above
  <2>1. z \in Nat
    OBVIOUS
  <2> QED BY <1>1, <2>1
<1>3. IsFiniteSet(Above(S, y)) /\ Cardinality(Above(S, y)) \in Nat
  BY AboveOrBelow
<1>4. Cardinality(Above(S, x)) <= Cardinality(Above(S, y)) /\ Cardinality(Above(S, x)) \in Nat
  BY <1>2, <1>3, FS_Subset, FS_CardinalityType
<1> QED BY <1>3, <1>4

\* From first on the list is sorted.
LEMMA AscendingIs ==
  ASSUME NEW n \in Nat, NEW v \in [1 .. n -> Nat], Len(v) = n, IsInjective(v), NEW first \in 1 .. n
  PROVE  LET a == Ascending(v, first)
         IN  /\ a \in [1 .. n -> Nat]
             /\ \A k \in 1 .. n : k < first => a[k] = v[k]
             /\ \A k \in first .. n : a[k] \in {v[j] : j \in first .. n}
             /\ \A j, k \in first .. n : j < k => a[j] < a[k]
<1> DEFINE rest == {v[k] : k \in first .. n}
           a == Ascending(v, first)
           From(k) == CHOOSE x \in rest : Cardinality({y \in rest : y > x}) = n - k
<1>1. rest \in SUBSET Nat /\ IsFiniteSet(rest) /\ Cardinality(rest) = (n - first) + 1
  BY PartOfList
<1>2. a = [k \in 1 .. n |-> IF k < first THEN v[k] ELSE From(k)]
  BY DEF Ascending
<1> HIDE DEF a, rest
<1>3. \A k \in first .. n : From(k) \in rest /\ Cardinality(Above(rest, From(k))) = n - k
  <2> TAKE k \in first .. n
  <2>1. n - k \in 0 .. Cardinality(rest) - 1
    BY <1>1
  <2>2. \E x \in rest : Cardinality(Above(rest, x)) = n - k
    BY <1>1, <2>1, EveryRank
  <2>3. \E x \in rest : Cardinality({y \in rest : y > x}) = n - k
    BY <2>2 DEF Above
  <2>4. From(k) \in rest /\ Cardinality({y \in rest : y > From(k)}) = n - k
    BY <2>3
  <2> HIDE DEF From
  <2> QED BY <2>4 DEF Above
<1> HIDE DEF From
<1>4. \A k \in first .. n : a[k] = From(k) /\ k \in 1 .. n
  BY <1>2
<1>5. \A k \in 1 .. n : k < first => a[k] = v[k]
  BY <1>2
<1>6. a \in [1 .. n -> Nat]
  <2>1. \A k \in 1 .. n : ~(k < first) => k \in first .. n
    OBVIOUS
  <2>2. \A k \in first .. n : From(k) \in Nat
    BY <1>1, <1>3
  <2> QED BY <1>2, <2>1, <2>2
<1>7. \A j, k \in first .. n : j < k => a[j] < a[k]
  <2> SUFFICES ASSUME NEW j \in first .. n, NEW k \in first .. n, j < k PROVE a[j] < a[k]
    OBVIOUS
  <2>1. n - k < n - j
    OBVIOUS
  <2>2. Cardinality(Above(rest, From(k))) < Cardinality(Above(rest, From(j)))
    BY <1>3, <2>1
  <2>3. From(j) \in rest /\ From(k) \in rest
    BY <1>3
  <2>4. From(j) < From(k)
    BY <1>1, <2>2, <2>3, FewerAbove
  <2> QED BY <1>4, <2>4
<1>8. \A k \in first .. n : a[k] \in rest
  BY <1>3, <1>4
<1> QED BY <1>5, <1>6, <1>7, <1>8 DEF a, rest

\* Of one length the smaller symbol comes first.
InOrder(a, n, bits) == \A j, k \in 1 .. n : j < k => bits[j] < bits[k] \/ (bits[j] = bits[k] /\ a[j] < a[k])

\* The list the builder sorts is in the order of the codes.
LEMMA SimpleOrderIs ==
  ASSUME NEW num_symbols \in 0 .. 4, NEW v \in [1 .. SimpleCount(num_symbols) -> Nat],
         Len(v) = SimpleCount(num_symbols), IsInjective(v)
  PROVE  LET a == SimpleOrder(v, num_symbols)
         IN  /\ a \in [1 .. SimpleCount(num_symbols) -> Nat]
             /\ \A j, k \in 1 .. SimpleCount(num_symbols) : j < k => a[j] # a[k]
             /\ InOrder(a, SimpleCount(num_symbols), SimpleBits(num_symbols))
             /\ \A k \in 1 .. SimpleCount(num_symbols) : \E j \in 1 .. SimpleCount(num_symbols) : a[k] = v[j]
<1> DEFINE a == SimpleOrder(v, num_symbols)
           n == SimpleCount(num_symbols)
           first == CASE num_symbols = 2 -> 2 [] num_symbols = 4 -> 3 [] OTHER -> 1
           bits == SimpleBits(num_symbols)
<1>0. num_symbols \in {0, 1, 2, 3, 4}
  OBVIOUS
<1>1. n \in Nat /\ first \in 1 .. n
  BY <1>0 DEF SimpleCount
<1>2. \A j, k \in 1 .. n : j < k =>
        bits[j] < bits[k] \/ (bits[j] = bits[k] /\ j >= first)
  <2>1. CASE num_symbols = 0
    BY <2>1 DEF SimpleCount
  <2>2. CASE num_symbols = 1
    BY <2>2 DEF SimpleCount, SimpleBits
  <2>3. CASE num_symbols = 2
    <3>1. bits = <<1, 2, 2>> /\ n = 3 /\ first = 2
      BY <2>3 DEF SimpleCount, SimpleBits
    <3> HIDE DEF bits, n, first
    <3>2. 1 .. n = {1, 2, 3}
      BY <3>1
    <3> QED BY <3>1, <3>2
  <2>4. CASE num_symbols = 3
    <3>1. bits = <<2, 2, 2, 2>> /\ n = 4 /\ first = 1
      BY <2>4 DEF SimpleCount, SimpleBits
    <3> HIDE DEF bits, n, first
    <3>2. 1 .. n = {1, 2, 3, 4}
      BY <3>1
    <3> QED BY <3>1, <3>2
  <2>5. CASE num_symbols = 4
    <3>1. bits = <<1, 2, 3, 3>> /\ n = 4 /\ first = 3
      BY <2>5 DEF SimpleCount, SimpleBits
    <3> HIDE DEF bits, n, first
    <3>2. 1 .. n = {1, 2, 3, 4}
      BY <3>1
    <3> QED BY <3>1, <3>2
  <2> QED BY <1>0, <2>1, <2>2, <2>3, <2>4, <2>5
<1>3. a = Ascending(v, first)
  BY DEF SimpleOrder
<1> HIDE DEF first, n, bits, a
<1>4. /\ a \in [1 .. n -> Nat]
      /\ \A k \in 1 .. n : k < first => a[k] = v[k]
      /\ \A k \in first .. n : a[k] \in {v[j] : j \in first .. n}
      /\ \A j, k \in first .. n : j < k => a[j] < a[k]
  <2>1. v \in [1 .. n -> Nat] /\ Len(v) = n
    BY DEF n
  <2> QED BY <1>1, <1>3, <2>1, AscendingIs
<1>5. ASSUME NEW j \in 1 .. n, NEW k \in 1 .. n, j < k PROVE a[j] # a[k]
  <2>1. CASE k < first
    <3>1. a[j] = v[j] /\ a[k] = v[k] /\ j # k
      BY <1>1, <1>4, <1>5, <2>1
    <3> QED BY <3>1 DEF IsInjective, n
  <2>2. CASE j < first /\ ~(k < first)
    <3>1. a[j] = v[j] /\ k \in first .. n
      BY <1>1, <1>4, <2>2
    <3>2. PICK i \in first .. n : a[k] = v[i]
      BY <1>4, <3>1
    <3>3. i # j /\ i \in 1 .. n
      BY <1>1, <2>2
    <3> QED BY <3>1, <3>2, <3>3 DEF IsInjective, n
  <2>3. CASE ~(j < first) /\ ~(k < first)
    <3>1. j \in first .. n /\ k \in first .. n
      BY <1>1, <2>3
    <3>2. a[j] < a[k] /\ a[j] \in Nat /\ a[k] \in Nat
      BY <1>4, <1>5, <3>1
    <3> QED BY <3>2
  <2>4. j \in Nat /\ k \in Nat /\ first \in Nat
    BY <1>1
  <2> QED BY <1>5, <2>1, <2>2, <2>3, <2>4
<1>6. InOrder(a, n, bits)
  <2> SUFFICES ASSUME NEW j \in 1 .. n, NEW k \in 1 .. n, j < k
               PROVE  bits[j] < bits[k] \/ (bits[j] = bits[k] /\ a[j] < a[k])
    BY DEF InOrder
  <2>1. bits[j] < bits[k] \/ (bits[j] = bits[k] /\ j >= first)
    BY <1>2
  <2>2. j >= first => j \in first .. n /\ k \in first .. n
    BY <1>1
  <2> QED BY <1>4, <2>1, <2>2
<1>7. ASSUME NEW k \in 1 .. n PROVE \E j \in 1 .. n : a[k] = v[j]
  <2>1. CASE k < first
    BY <1>4, <2>1
  <2>2. CASE ~(k < first)
    <3>1. k \in first .. n
      BY <1>1, <2>2
    <3>2. PICK j \in first .. n : a[k] = v[j]
      BY <1>4, <3>1
    <3>3. j \in 1 .. n
      BY <1>1
    <3> QED BY <3>2, <3>3
  <2> QED BY <2>1, <2>2
<1> QED BY <1>4, <1>5, <1>6, <1>7 DEF a, n, bits

=============================================================================
