-------------------------------- MODULE Sums --------------------------------
(***************************************************************************)
(* What SumFunctionOnSet of Functions computes, for any finite set: the    *)
(* order in which it takes the elements does not matter.  It is a          *)
(* recursive function, so everything here is by induction on finite sets,  *)
(* in the form of a smallest set that would be an exception.               *)
(***************************************************************************)
EXTENDS Integers, FiniteSets, Functions, FiniteSetTheorems, WellFoundedInduction, TLAPS

\* The element that is taken first, and what it is to be the sum of f over all subsets of S.
Pick(s) == CHOOSE x \in s : TRUE

IsSum(g, f, S) ==
  g = [s \in SUBSET S |-> IF s = {} THEN 0 ELSE f[Pick(s)] + g[s \ {Pick(s)}]]

\* The recursive function behind the sum.
LEMMA SumDef ==
  ASSUME NEW f, NEW S
  PROVE  SumFunctionOnSet(f, S) = (CHOOSE g : IsSum(g, f, S))[S]
BY DEF SumFunctionOnSet, FoldFunctionOnSet, MapThenFoldSet, IsSum, Pick

\* The sum of a whole function.
LEMMA SumFunctionDef ==
  ASSUME NEW f
  PROVE  SumFunction(f) = SumFunctionOnSet(f, DOMAIN f)
BY DEF SumFunction

\* Among subsets of a finite set there is one that contains no other of them.
LEMMA MinimalSubset ==
  ASSUME NEW S, IsFiniteSet(S), NEW F \in SUBSET (SUBSET S), F # {}
  PROVE  \E T \in F : \A U \in F : U \subseteq T => U = T
<1> DEFINE R == StrictSubsetOrdering(S)
<1>1. IsWellFoundedOn(R, SUBSET S)
  BY FS_StrictSubsetOrderingWellFounded, FS_FiniteSubsetsOfFinite
<1>2. PICK T \in F : \A U \in F : <<U, T>> \notin R
  <2> HIDE DEF R
  <2> QED BY <1>1, WFMin, Zenon
<1>. QED
  BY <1>2 DEF StrictSubsetOrdering

\* The functions of a set and of a subset of it give the same sums.
LEMMA SumsAgree ==
  ASSUME NEW f, NEW S, IsFiniteSet(S), NEW T \in SUBSET S,
         NEW g, NEW h, IsSum(g, f, S), IsSum(h, f, T)
  PROVE  \A s \in SUBSET T : g[s] = h[s]
<1> DEFINE Apart == {s \in SUBSET T : g[s] # h[s]}
<1>1. SUFFICES ASSUME Apart # {}
               PROVE  FALSE
  OBVIOUS
<1>2. IsFiniteSet(T)
  BY FS_Subset
<1>3. PICK s \in Apart : \A u \in Apart : u \subseteq s => u = s
  <2>. HIDE DEF Apart
  <2>1. Apart \in SUBSET (SUBSET T)
    BY DEF Apart
  <2>. QED
    BY <1>1, <1>2, <2>1, MinimalSubset
<1>4. s # {}
  BY DEF IsSum
<1>5. Pick(s) \in s
  BY <1>4 DEF Pick
<1>6. g[s \ {Pick(s)}] = h[s \ {Pick(s)}]
  BY <1>3, <1>5
<1>7. g[s] = f[Pick(s)] + g[s \ {Pick(s)}] /\ h[s] = f[Pick(s)] + h[s \ {Pick(s)}]
  BY <1>4 DEF IsSum
<1>. QED
  BY <1>6, <1>7

\* There is such a function: a smallest set without one would get one from those of its
\* subsets.
LEMMA SumExists ==
  ASSUME NEW f, NEW S, IsFiniteSet(S)
  PROVE  \E g : IsSum(g, f, S)
<1> DEFINE Missing == {T \in SUBSET S : ~ \E g : IsSum(g, f, T)}
           Own(T) == CHOOSE g : IsSum(g, f, T)
<1>1. SUFFICES ASSUME Missing # {}
               PROVE  FALSE
  OBVIOUS
<1>2. PICK T \in Missing : \A U \in Missing : U \subseteq T => U = T
  <2>. HIDE DEF Missing
  <2>1. Missing \in SUBSET (SUBSET S)
    BY DEF Missing
  <2>. QED
    BY <1>1, <2>1, MinimalSubset
<1>3. \A U \in SUBSET T : U # T => IsSum(Own(U), f, U)
  BY <1>2
<1> DEFINE Rest(s) == s \ {Pick(s)}
           g == [s \in SUBSET T |-> IF s = {} THEN 0 ELSE f[Pick(s)] + Own(Rest(s))[Rest(s)]]
<1>4. \A s \in SUBSET T : s # {} => Pick(s) \in s
  BY DEF Pick
<1>5. ASSUME NEW s \in SUBSET T, s # T
      PROVE  g[s] = Own(s)[s]
  <2>1. IsSum(Own(s), f, s)
    BY <1>3, <1>5
  <2>2. CASE s = {}
    <3>. HIDE DEF Own
    <3>. QED
      BY <2>1, <2>2 DEF IsSum
  <2>3. CASE s # {}
    <3>1. Rest(s) \in SUBSET s /\ Rest(s) # T /\ Rest(s) \in SUBSET T
      BY <1>4, <1>5, <2>3
    <3>2. IsSum(Own(Rest(s)), f, Rest(s))
      BY <1>3, <3>1
    <3>3. IsFiniteSet(s)
      BY FS_Subset
    <3>. HIDE DEF Own, Rest
    <3>4. Own(s)[Rest(s)] = Own(Rest(s))[Rest(s)]
      BY <2>1, <3>1, <3>2, <3>3, SumsAgree
    <3>5. Own(s)[s] = f[Pick(s)] + Own(s)[Rest(s)]
      BY <2>1, <2>3 DEF IsSum, Rest
    <3>. QED
      BY <2>3, <3>4, <3>5
  <2>. QED
    BY <2>2, <2>3
<1>6. ASSUME NEW s \in SUBSET T, s # {}
      PROVE  g[s] = f[Pick(s)] + g[Rest(s)]
  <2>1. Rest(s) \in SUBSET T /\ Rest(s) # T
    BY <1>4, <1>6
  <2>2. g[Rest(s)] = Own(Rest(s))[Rest(s)]
    BY <1>5, <2>1
  <2>. QED
    BY <1>6, <2>2
<1>7. IsSum(g, f, T)
  <2>. HIDE DEF Own
  <2>1. \A s \in SUBSET T : s = {} => g[s] = 0
    OBVIOUS
  <2>2. g = [s \in SUBSET T |-> g[s]]
    OBVIOUS
  <2>3. \A s \in SUBSET T : g[s] = IF s = {} THEN 0 ELSE f[Pick(s)] + g[s \ {Pick(s)}]
    BY <1>6, <2>1
  <2>. HIDE DEF g
  <2>. QED
    BY <2>2, <2>3 DEF IsSum
<1>. QED
  BY <1>2, <1>7

\* The sum is its first element and the sum of the rest.
LEMMA SumPicks ==
  ASSUME NEW f, NEW S, IsFiniteSet(S)
  PROVE  SumFunctionOnSet(f, S) =
           IF S = {} THEN 0 ELSE f[Pick(S)] + SumFunctionOnSet(f, S \ {Pick(S)})
<1> DEFINE Own(T) == CHOOSE g : IsSum(g, f, T)
<1>1. \A T \in SUBSET S : IsSum(Own(T), f, T)
  BY SumExists, FS_Subset
<1>2. \A T : SumFunctionOnSet(f, T) = Own(T)[T]
  BY SumDef
<1>. HIDE DEF Own
<1>3. CASE S = {}
  BY <1>1, <1>2, <1>3 DEF IsSum
<1>4. CASE S # {}
  <2> DEFINE Rest == S \ {Pick(S)}
  <2>1. IsSum(Own(S), f, S) /\ IsSum(Own(Rest), f, Rest)
    BY <1>1
  <2>2. Own(S)[Rest] = Own(Rest)[Rest]
    BY <2>1, SumsAgree
  <2>3. Own(S)[S] = f[Pick(S)] + Own(S)[Rest]
    BY <1>4, <2>1 DEF IsSum
  <2>. QED
    BY <1>2, <1>4, <2>2, <2>3
<1>. QED
  BY <1>3, <1>4

\* The empty sum.
LEMMA SumOfNone ==
  ASSUME NEW f
  PROVE  SumFunctionOnSet(f, {}) = 0
BY SumPicks, FS_EmptySet

\* A sum of integers is an integer.
LEMMA SumIsInt ==
  ASSUME NEW f, NEW S, IsFiniteSet(S), \A x \in S : f[x] \in Int
  PROVE  SumFunctionOnSet(f, S) \in Int
<1> DEFINE Other == {T \in SUBSET S : SumFunctionOnSet(f, T) \notin Int}
<1>1. SUFFICES ASSUME Other # {}
               PROVE  FALSE
  OBVIOUS
<1>2. PICK T \in Other : \A U \in Other : U \subseteq T => U = T
  <2>. HIDE DEF Other
  <2>1. Other \in SUBSET (SUBSET S)
    BY DEF Other
  <2>. QED
    BY <1>1, <2>1, MinimalSubset
<1>3. IsFiniteSet(T)
  BY FS_Subset
<1>4. T # {}
  BY SumOfNone
<1>5. Pick(T) \in T
  BY <1>4 DEF Pick
<1>6. SumFunctionOnSet(f, T \ {Pick(T)}) \in Int
  BY <1>2, <1>5
<1>7. SumFunctionOnSet(f, T) = f[Pick(T)] + SumFunctionOnSet(f, T \ {Pick(T)})
  BY <1>3, <1>4, SumPicks
<1>. QED
  BY <1>5, <1>6, <1>7

\* Nothing but zeros adds up to zero.
LEMMA SumOfZeros ==
  ASSUME NEW f, NEW S, IsFiniteSet(S), \A x \in S : f[x] = 0
  PROVE  SumFunctionOnSet(f, S) = 0
<1> DEFINE Other == {T \in SUBSET S : SumFunctionOnSet(f, T) # 0}
<1>1. SUFFICES ASSUME Other # {}
               PROVE  FALSE
  OBVIOUS
<1>2. PICK T \in Other : \A U \in Other : U \subseteq T => U = T
  <2>. HIDE DEF Other
  <2>1. Other \in SUBSET (SUBSET S)
    BY DEF Other
  <2>. QED
    BY <1>1, <2>1, MinimalSubset
<1>3. IsFiniteSet(T)
  BY FS_Subset
<1>4. T # {}
  BY SumOfNone
<1>5. Pick(T) \in T
  BY <1>4 DEF Pick
<1>6. SumFunctionOnSet(f, T \ {Pick(T)}) = 0
  BY <1>2, <1>5
<1>7. SumFunctionOnSet(f, T) = f[Pick(T)] + SumFunctionOnSet(f, T \ {Pick(T)})
  BY <1>3, <1>4, SumPicks
<1>. QED
  BY <1>2, <1>5, <1>6, <1>7

\* Any element may be taken first: where a set would be the smallest exception, the picked
\* element and the other one are taken out in both orders.
LEMMA SumTakes ==
  ASSUME NEW f, NEW S, IsFiniteSet(S), \A x \in S : f[x] \in Int, NEW x \in S
  PROVE  SumFunctionOnSet(f, S) = f[x] + SumFunctionOnSet(f, S \ {x})
<1> DEFINE Parts(T, y) == f[y] + SumFunctionOnSet(f, T \ {y})
           Odd == {T \in SUBSET S : \E y \in T : SumFunctionOnSet(f, T) # Parts(T, y)}
<1>1. SUFFICES ASSUME Odd # {}
               PROVE  FALSE
  BY DEF Odd
<1>2. PICK T \in Odd : \A U \in Odd : U \subseteq T => U = T
  <2>. HIDE DEF Odd
  <2>1. Odd \in SUBSET (SUBSET S)
    BY DEF Odd
  <2>. QED
    BY <1>1, <2>1, MinimalSubset
<1>3. PICK y \in T : SumFunctionOnSet(f, T) # f[y] + SumFunctionOnSet(f, T \ {y})
  BY <1>2
<1> DEFINE z == Pick(T)
           Both == (T \ {z}) \ {y}
<1>4. z \in T
  BY <1>3 DEF Pick
<1>5. \A U \in SUBSET S : IsFiniteSet(U)
  BY FS_Subset
<1>. HIDE DEF z
<1>6. SumFunctionOnSet(f, T) = f[z] + SumFunctionOnSet(f, T \ {z})
  BY <1>3, <1>5, SumPicks DEF z
<1>7. y # z
  BY <1>3, <1>6
<1>8. SumFunctionOnSet(f, T \ {z}) = f[y] + SumFunctionOnSet(f, Both)
  <2>1. T \ {z} \notin Odd
    BY <1>2, <1>4
  <2>. QED
    BY <1>3, <1>7, <2>1
<1>9. SumFunctionOnSet(f, T \ {y}) = f[z] + SumFunctionOnSet(f, Both)
  <2>1. T \ {y} \notin Odd
    BY <1>2, <1>3
  <2>2. (T \ {y}) \ {z} = Both
    OBVIOUS
  <2>. QED
    BY <1>4, <1>7, <2>1, <2>2
<1>10. SumFunctionOnSet(f, Both) \in Int /\ f[y] \in Int /\ f[z] \in Int
  <2>1. Both \in SUBSET S
    OBVIOUS
  <2>. QED
    BY <1>3, <1>4, <1>5, <2>1, SumIsInt
<1>. HIDE DEF Both
<1>. QED
  BY <1>3, <1>6, <1>8, <1>9, <1>10

\* Only the values in the set matter.
LEMMA SumSame ==
  ASSUME NEW f, NEW g, NEW S, IsFiniteSet(S), \A x \in S : f[x] = g[x]
  PROVE  SumFunctionOnSet(f, S) = SumFunctionOnSet(g, S)
<1> DEFINE Apart == {T \in SUBSET S : SumFunctionOnSet(f, T) # SumFunctionOnSet(g, T)}
<1>1. SUFFICES ASSUME Apart # {}
               PROVE  FALSE
  OBVIOUS
<1>2. PICK T \in Apart : \A U \in Apart : U \subseteq T => U = T
  <2>. HIDE DEF Apart
  <2>1. Apart \in SUBSET (SUBSET S)
    BY DEF Apart
  <2>. QED
    BY <1>1, <2>1, MinimalSubset
<1>3. IsFiniteSet(T)
  BY FS_Subset
<1>4. T # {}
  BY SumOfNone
<1>5. Pick(T) \in T
  BY <1>4 DEF Pick
<1>6. SumFunctionOnSet(f, T \ {Pick(T)}) = SumFunctionOnSet(g, T \ {Pick(T)})
  BY <1>2, <1>5
<1>7. /\ SumFunctionOnSet(f, T) = f[Pick(T)] + SumFunctionOnSet(f, T \ {Pick(T)})
      /\ SumFunctionOnSet(g, T) = g[Pick(T)] + SumFunctionOnSet(g, T \ {Pick(T)})
  BY <1>3, <1>4, SumPicks
<1>. QED
  BY <1>2, <1>5, <1>6, <1>7

\* One more element adds its value.
LEMMA SumGrows ==
  ASSUME NEW f, NEW g, NEW S, IsFiniteSet(S), NEW x, x \notin S, g[x] \in Int,
         \A y \in S : f[y] \in Int /\ g[y] = f[y]
  PROVE  SumFunctionOnSet(g, S \cup {x}) = SumFunctionOnSet(f, S) + g[x]
<1>1. IsFiniteSet(S \cup {x}) /\ (S \cup {x}) \ {x} = S /\ \A y \in S \cup {x} : g[y] \in Int
  BY FS_AddElement
<1>2. SumFunctionOnSet(g, S \cup {x}) = g[x] + SumFunctionOnSet(g, S)
  BY <1>1, SumTakes
<1>3. SumFunctionOnSet(g, S) = SumFunctionOnSet(f, S)
  BY SumSame
<1>4. SumFunctionOnSet(f, S) \in Int
  BY SumIsInt
<1>. QED
  BY <1>2, <1>3, <1>4

\* One value that changes changes the sum by as much.
LEMMA SumChanges ==
  ASSUME NEW f, NEW g, NEW S, IsFiniteSet(S), NEW x \in S, g[x] \in Int,
         \A y \in S : f[y] \in Int /\ (y # x => g[y] = f[y])
  PROVE  SumFunctionOnSet(g, S) = SumFunctionOnSet(f, S) + g[x] - f[x]
<1> DEFINE R == S \ {x}
<1>1. IsFiniteSet(R) /\ S = R \cup {x} /\ x \notin R
  BY FS_RemoveElement
<1>2. SumFunctionOnSet(f, S) = f[x] + SumFunctionOnSet(f, R)
  BY SumTakes
<1>3. SumFunctionOnSet(f, R) \in Int
  BY <1>1, SumIsInt
<1>4. SumFunctionOnSet(g, R \cup {x}) = SumFunctionOnSet(f, R) + g[x]
  <2>. HIDE DEF R
  <2>. QED
    BY <1>1, SumGrows
<1>5. f[x] \in Int /\ SumFunctionOnSet(g, S) = SumFunctionOnSet(f, R) + g[x]
  BY <1>1, <1>4
<1>. HIDE DEF R
<1>. QED
  BY <1>2, <1>3, <1>5
=============================================================================
