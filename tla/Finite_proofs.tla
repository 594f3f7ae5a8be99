--------------------------- MODULE Finite_proofs ---------------------------
(***************************************************************************)
(* What the other proof modules need of finite sets: a least member of a   *)
(* family, the extrema of a set of numbers, and sums.  Induction over a    *)
(* finite set is an argument about a least counterexample.                 *)
(***************************************************************************)
EXTENDS Integers, FiniteSetsExt, Functions, FiniteSetTheorems, TLAPS

(* A strict subset of a finite set is smaller: the least one of a family.  *)
LEMMA LeastSubset ==
  ASSUME NEW S, IsFiniteSet(S), NEW F, F \subseteq SUBSET S, F # {}
  PROVE  \E T \in F : \A U \in F : U \subseteq T => U = T
<1>1. F \subseteq FiniteSubsetsOf(S)
  BY FS_FiniteSubsetsOfFinite
<1>2. IsWellFoundedOn(StrictSubsetOrdering(S), FiniteSubsetsOf(S))
  BY FS_StrictSubsetOrderingWellFounded
<1>3. \E T \in F : \A U \in F : <<U, T>> \notin StrictSubsetOrdering(S)
  BY <1>1, <1>2, WFMin
<1>4. \A T, U \in F : U \subseteq T /\ U # T => <<U, T>> \in StrictSubsetOrdering(S)
  BY DEF StrictSubsetOrdering
<1> QED BY <1>3, <1>4

(* Of the sets a finite index gives, one contains no other.                *)
HasLeast(f, S) == \E n \in S : \A m \in S : f[m] \subseteq f[n] => f[m] = f[n]

LEMMA LeastSet ==
  ASSUME NEW S, IsFiniteSet(S), S # {}, NEW f \in [S -> SUBSET S]
  PROVE  HasLeast(f, S)
<1> DEFINE F == {f[n] : n \in S}
<1>1. F \subseteq FiniteSubsetsOf(S)
  BY FS_FiniteSubsetsOfFinite
<1>2. IsWellFoundedOn(StrictSubsetOrdering(S), FiniteSubsetsOf(S))
  BY FS_StrictSubsetOrderingWellFounded
<1>3. F # {}
  OBVIOUS
<1>4. \E T \in F : \A U \in F : <<U, T>> \notin StrictSubsetOrdering(S)
  <2> HIDE DEF F
  <2> QED BY <1>1, <1>2, <1>3, WFMin
<1>5. \A T, U \in F : U \subseteq T /\ U # T => <<U, T>> \in StrictSubsetOrdering(S)
  BY DEF StrictSubsetOrdering
<1>6. PICK n \in S : \A m \in S : <<f[m], f[n]>> \notin StrictSubsetOrdering(S)
  BY <1>4
<1>7. \A m \in S : f[m] \subseteq f[n] => f[m] = f[n]
  BY <1>5, <1>6
<1> QED BY <1>7 DEF HasLeast

(* The extrema of a finite set of numbers.                                 *)
LEMMA MinIsLeast ==
  ASSUME NEW S, IsFiniteSet(S), S \subseteq Nat, S # {}
  PROVE  Min(S) \in S /\ \A n \in S : Min(S) <= n
<1> DEFINE below == [n \in S |-> {m \in S : m <= n}]
<1>1. below \in [S -> SUBSET S]
  OBVIOUS
<1> HIDE DEF below
<1>2. HasLeast(below, S)
  BY <1>1, LeastSet
<1>3. PICK n \in S : \A m \in S : below[m] \subseteq below[n] => below[m] = below[n]
  BY <1>2 DEF HasLeast
<1>4. ASSUME NEW m \in S, m < n PROVE FALSE
  <2>1. n \in below[n] /\ n \notin below[m]
    BY <1>4 DEF below
  <2>2. m \in Nat /\ n \in Nat /\ \A x \in S : x \in Nat
    OBVIOUS
  <2>3. \A x \in S : x <= m => x <= n
    BY <1>4, <2>2
  <2>4. below[m] \subseteq below[n]
    BY <2>3 DEF below
  <2> QED BY <1>3, <2>1, <2>4
<1>5. \A m \in S : n <= m
  BY <1>4
<1> QED BY <1>5 DEF Min

LEMMA MaxIsGreatest ==
  ASSUME NEW S, IsFiniteSet(S), S \subseteq Nat, S # {}
  PROVE  Max(S) \in S /\ \A n \in S : n <= Max(S)
<1> DEFINE above == [n \in S |-> {m \in S : n <= m}]
<1>1. above \in [S -> SUBSET S]
  OBVIOUS
<1> HIDE DEF above
<1>2. HasLeast(above, S)
  BY <1>1, LeastSet
<1>3. PICK n \in S : \A m \in S : above[m] \subseteq above[n] => above[m] = above[n]
  BY <1>2 DEF HasLeast
<1>4. ASSUME NEW m \in S, n < m PROVE FALSE
  <2>1. n \in above[n] /\ n \notin above[m]
    BY <1>4 DEF above
  <2>2. m \in Nat /\ n \in Nat /\ \A x \in S : x \in Nat
    OBVIOUS
  <2>3. \A x \in S : m <= x => n <= x
    BY <1>4, <2>2
  <2>4. above[m] \subseteq above[n]
    BY <2>3 DEF above
  <2> QED BY <1>3, <2>1, <2>4
<1>5. \A m \in S : m <= n
  BY <1>4
<1> QED BY <1>5 DEF Max

-----------------------------------------------------------------------------
(* Folds over a finite set.                                                *)

(* The function a fold is read from: what comes of each set of elements,   *)
(* when Some picks the next one.                                           *)
Some(s) == CHOOSE x \in s : TRUE
Less(s) == s \ {Some(s)}
IsRun(g, step, base, S) ==
  /\ DOMAIN g = SUBSET S
  /\ \A s \in SUBSET S : g[s] = IF s = {} THEN base ELSE step[<<Some(s), g[Less(s)]>>]

LEMMA RunIsUnique ==
  ASSUME NEW S, IsFiniteSet(S), NEW T, IsFiniteSet(T), NEW step, NEW base, NEW g, NEW h,
         IsRun(g, step, base, S), IsRun(h, step, base, T), NEW s \in SUBSET S, s \subseteq T
  PROVE  g[s] = h[s]
<1> DEFINE F == {u \in SUBSET S : u \subseteq T /\ g[u] # h[u]}
<1> SUFFICES ASSUME F # {} PROVE FALSE
  OBVIOUS
<1>1. F \subseteq SUBSET S
  OBVIOUS
<1>2. PICK u \in F : \A v \in F : v \subseteq u => v = u
  <2> HIDE DEF F
  <2> QED BY <1>1, LeastSubset
<1>3. u # {}
  BY <1>2 DEF IsRun
<1>4. Some(u) \in u
  BY <1>3 DEF Some
<1>5. g[Less(u)] = h[Less(u)]
  BY <1>2, <1>4 DEF Less
<1>6. g[u] = step[<<Some(u), g[Less(u)]>>]
  BY <1>2, <1>3 DEF IsRun
<1>7. h[u] = step[<<Some(u), h[Less(u)]>>]
  BY <1>2, <1>3 DEF IsRun
<1> QED BY <1>2, <1>5, <1>6, <1>7

LEMMA RunExists ==
  ASSUME NEW S, IsFiniteSet(S), NEW V, NEW base \in V, NEW step \in [S \X V -> V]
  PROVE  \E g \in [SUBSET S -> V] : IsRun(g, step, base, S)
<1> DEFINE Good(g, T) == g \in [SUBSET T -> V] /\ IsRun(g, step, base, T)
           F == {T \in SUBSET S : ~\E g : Good(g, T)}
<1> SUFFICES ASSUME F # {} PROVE FALSE
  OBVIOUS
<1>1. F \subseteq SUBSET S
  OBVIOUS
<1>2. PICK T \in F : \A U \in F : U \subseteq T => U = T
  <2> HIDE DEF F
  <2> QED BY <1>1, LeastSubset
<1> DEFINE G(U) == CHOOSE g : Good(g, U)
<1>3. ASSUME NEW U, U \subseteq T, U # T
      PROVE  IsRun(G(U), step, base, U) /\ G(U)[U] \in V /\ IsFiniteSet(U)
  <2>1. U \notin F /\ U \in SUBSET S
    BY <1>2, <1>3
  <2>2. \E g : Good(g, U)
    BY <2>1
  <2>3. Good(G(U), U)
    BY <2>2
  <2>4. IsFiniteSet(U)
    BY <2>1, FS_Subset
  <2> QED BY <2>3, <2>4
<1> HIDE DEF G
<1> DEFINE h == [s \in SUBSET T |-> IF s = {} THEN base
                                    ELSE step[<<Some(s), G(Less(s))[Less(s)]>>]]
<1>4. ASSUME NEW s \in SUBSET T, s # {}
      PROVE  /\ Some(s) \in S /\ Less(s) \subseteq s
             /\ Less(s) \subseteq T /\ Less(s) # T /\ Less(s) \in SUBSET T
             /\ G(Less(s))[Less(s)] \in V
  <2>1. Some(s) \in s
    BY <1>4 DEF Some
  <2>2. Less(s) \subseteq s /\ Less(s) \subseteq T /\ Less(s) # T
    BY <2>1 DEF Less
  <2>3. G(Less(s))[Less(s)] \in V
    BY <2>2, <1>3
  <2> QED BY <1>2, <2>1, <2>2, <2>3
<1>5. ASSUME NEW s \in SUBSET T, s # {} PROVE h[Less(s)] = G(Less(s))[Less(s)]
  <2> DEFINE u == Less(s)
  <2>1. u \subseteq T /\ u # T /\ IsRun(G(u), step, base, u) /\ IsFiniteSet(u)
    BY <1>3, <1>4, <1>5
  <2>2. CASE u = {}
    <3>1. h[u] = base
      BY <2>2
    <3>2. G(u)[u] = base
      BY <2>1, <2>2 DEF IsRun
    <3> QED BY <3>1, <3>2
  <2>3. CASE u # {}
    <3>1. h[u] = step[<<Some(u), G(Less(u))[Less(u)]>>]
      BY <2>1, <2>3
    <3>2. G(u)[u] = step[<<Some(u), G(u)[Less(u)]>>]
      BY <2>1, <2>3 DEF IsRun
    <3>3. Less(u) \subseteq u /\ Less(u) \subseteq T /\ Less(u) # T
      BY <2>1, <2>3, <1>4
    <3>4. IsRun(G(Less(u)), step, base, Less(u)) /\ IsFiniteSet(Less(u))
      BY <3>3, <1>3
    <3>5. G(u)[Less(u)] = G(Less(u))[Less(u)]
      <4> HIDE DEF u
      <4> QED BY <2>1, <3>3, <3>4, RunIsUnique
    <3> QED BY <3>1, <3>2, <3>5
  <2> QED BY <2>2, <2>3
<1>6. Good(h, T)
  <2>1. h \in [SUBSET T -> V]
    <3>1. \A s \in SUBSET T :
            (IF s = {} THEN base ELSE step[<<Some(s), G(Less(s))[Less(s)]>>]) \in V
      BY <1>4
    <3> QED BY <3>1
  <2>2. ASSUME NEW s \in SUBSET T
        PROVE  h[s] = IF s = {} THEN base ELSE step[<<Some(s), h[Less(s)]>>]
    <3>1. h[s] = IF s = {} THEN base ELSE step[<<Some(s), G(Less(s))[Less(s)]>>]
      OBVIOUS
    <3> QED BY <3>1, <1>5
  <2> HIDE DEF h
  <2> QED BY <2>1, <2>2 DEF IsRun
<1> QED BY <1>2, <1>6

-----------------------------------------------------------------------------
(* Sums over a finite set, folded in any order.                            *)

(* The function a sum over S is read from.                                 *)
IsSum(g, f, S) ==
  /\ g \in [SUBSET S -> Int]
  /\ \A s \in SUBSET S : g[s] = IF s = {} THEN 0 ELSE f[Some(s)] + g[s \ {Some(s)}]

LEMMA SumIsUnique ==
  ASSUME NEW S, IsFiniteSet(S), NEW T, IsFiniteSet(T), NEW f, NEW g, NEW h,
         IsSum(g, f, S), IsSum(h, f, T), NEW s \in SUBSET S, s \subseteq T
  PROVE  g[s] = h[s]
<1> DEFINE F == {u \in SUBSET S : u \subseteq T /\ g[u] # h[u]}
<1> SUFFICES ASSUME F # {} PROVE FALSE
  OBVIOUS
<1>1. F \subseteq SUBSET S
  OBVIOUS
<1>2. PICK u \in F : \A v \in F : v \subseteq u => v = u
  <2> HIDE DEF F
  <2> QED BY <1>1, LeastSubset
<1>3. u # {}
  BY <1>2 DEF IsSum
<1>4. Some(u) \in u
  BY <1>3 DEF Some
<1>5. g[u \ {Some(u)}] = h[u \ {Some(u)}]
  BY <1>2, <1>4
<1>6. g[u] = f[Some(u)] + g[u \ {Some(u)}]
  BY <1>2, <1>3 DEF IsSum
<1>7. h[u] = f[Some(u)] + h[u \ {Some(u)}]
  BY <1>2, <1>3 DEF IsSum
<1> QED BY <1>2, <1>5, <1>6, <1>7

LEMMA SumExists ==
  ASSUME NEW S, IsFiniteSet(S), NEW f, \A x \in S : f[x] \in Int
  PROVE  \E g : IsSum(g, f, S)
<1> DEFINE step == [p \in S \X Int |-> f[p[1]] + p[2]]
<1>1. step \in [S \X Int -> Int] /\ 0 \in Int
  OBVIOUS
<1>2. \A x \in S : \A n \in Int : step[<<x, n>>] = f[x] + n
  OBVIOUS
<1> HIDE DEF step
<1>3. PICK g \in [SUBSET S -> Int] : IsRun(g, step, 0, S)
  BY <1>1, RunExists
<1>4. ASSUME NEW s \in SUBSET S, s # {}
      PROVE  step[<<Some(s), g[Less(s)]>>] = f[Some(s)] + g[Less(s)]
  <2>1. Some(s) \in S /\ Less(s) \in SUBSET S
    BY <1>4 DEF Some, Less
  <2> QED BY <1>2, <1>3, <2>1
<1>5. IsSum(g, f, S)
  BY <1>3, <1>4 DEF IsSum, IsRun, Less
<1> QED BY <1>5

(* The sum of the library is one.                                          *)
LEMMA SumIsSum ==
  ASSUME NEW S, IsFiniteSet(S), NEW f, \A x \in S : f[x] \in Int
  PROVE  \E g : IsSum(g, f, S) /\ SumFunctionOnSet(f, S) = g[S]
<1> DEFINE E(it) == [s \in SUBSET S |-> IF s = {} THEN 0
                                        ELSE f[CHOOSE x \in s : TRUE] + it[s \ {CHOOSE x \in s : TRUE}]]
           it == CHOOSE i : i = E(i)
<1>1. SumFunctionOnSet(f, S) = it[S]
  BY DEF SumFunctionOnSet, FoldFunctionOnSet, MapThenFoldSet
<1>2. PICK g : IsSum(g, f, S)
  BY SumExists
<1>3. g = E(g)
  BY <1>2 DEF IsSum, Some
<1>4. it = E(it)
  BY <1>3
<1> HIDE DEF it
<1>5. \A s \in SUBSET S : it[s] = g[s]
  <2> DEFINE F == {u \in SUBSET S : it[u] # g[u]}
  <2> SUFFICES ASSUME F # {} PROVE FALSE
    OBVIOUS
  <2>1. F \subseteq SUBSET S
    OBVIOUS
  <2>2. PICK u \in F : \A v \in F : v \subseteq u => v = u
    <3> HIDE DEF F
    <3> QED BY <2>1, LeastSubset
  <2>3. it[u] = IF u = {} THEN 0 ELSE f[Some(u)] + it[u \ {Some(u)}]
    BY <1>4, <2>2 DEF Some
  <2>4. g[u] = IF u = {} THEN 0 ELSE f[Some(u)] + g[u \ {Some(u)}]
    BY <1>2, <2>2 DEF IsSum
  <2>5. u # {} => Some(u) \in u
    BY DEF Some
  <2>6. u # {} => it[u \ {Some(u)}] = g[u \ {Some(u)}]
    BY <2>2, <2>5
  <2> QED BY <2>2, <2>3, <2>4, <2>6
<1> QED BY <1>1, <1>2, <1>5

LEMMA SumEmpty == ASSUME NEW f PROVE SumFunctionOnSet(f, {}) = 0
<1>1. IsFiniteSet({}) /\ \A x \in {} : f[x] \in Int
  BY FS_EmptySet
<1>2. PICK g : IsSum(g, f, {}) /\ SumFunctionOnSet(f, {}) = g[{}]
  BY <1>1, SumIsSum
<1> QED BY <1>2 DEF IsSum

LEMMA SumType ==
  ASSUME NEW S, IsFiniteSet(S), NEW f, \A x \in S : f[x] \in Int
  PROVE  SumFunctionOnSet(f, S) \in Int
<1>1. PICK g : IsSum(g, f, S) /\ SumFunctionOnSet(f, S) = g[S]
  BY SumIsSum
<1> QED BY <1>1 DEF IsSum

LEMMA SumStep ==
  ASSUME NEW S, IsFiniteSet(S), S # {}, NEW f, \A x \in S : f[x] \in Int
  PROVE  /\ Some(S) \in S
         /\ SumFunctionOnSet(f, S) = f[Some(S)] + SumFunctionOnSet(f, S \ {Some(S)})
<1> DEFINE T == S \ {Some(S)}
<1>1. Some(S) \in S
  BY DEF Some
<1>2. PICK g : IsSum(g, f, S) /\ SumFunctionOnSet(f, S) = g[S]
  BY SumIsSum
<1>3. IsFiniteSet(T) /\ T \in SUBSET S /\ T \subseteq T /\ \A x \in T : f[x] \in Int
  BY FS_Subset
<1>4. PICK h : IsSum(h, f, T) /\ SumFunctionOnSet(f, T) = h[T]
  BY <1>3, SumIsSum
<1>5. g[S] = f[Some(S)] + g[T]
  BY <1>2 DEF IsSum
<1> HIDE DEF T
<1>6. g[T] = h[T]
  BY <1>2, <1>3, <1>4, SumIsUnique
<1> QED BY <1>1, <1>2, <1>4, <1>5, <1>6 DEF T

(* The order of the elements does not matter.                              *)
LEMMA SumAdd ==
  ASSUME NEW S, IsFiniteSet(S), NEW f, \A x \in S : f[x] \in Int,
         NEW e, e \notin S, f[e] \in Int
  PROVE  SumFunctionOnSet(f, S \cup {e}) = SumFunctionOnSet(f, S) + f[e]
<1> DEFINE Good(T, d) == SumFunctionOnSet(f, T \cup {d}) = SumFunctionOnSet(f, T) + f[d]
           F == {T \in SUBSET S : \E d \in S \cup {e} : d \notin T /\ ~Good(T, d)}
<1>1. F \subseteq SUBSET S
  OBVIOUS
<1>2. SUFFICES ASSUME F # {} PROVE FALSE
  BY <1>2
<1>3. PICK T \in F : \A U \in F : U \subseteq T => U = T
  <2> HIDE DEF F
  <2> QED BY <1>1, <1>2, LeastSubset
<1>4. PICK d \in S \cup {e} : d \notin T /\ ~Good(T, d)
  BY <1>3
<1>5. T \in SUBSET S /\ IsFiniteSet(T) /\ IsFiniteSet(T \cup {d}) /\ T \cup {d} # {}
  BY <1>1, <1>3, FS_Subset, FS_AddElement
<1>6. \A x \in T \cup {d} : f[x] \in Int
  BY <1>4, <1>5
<1> DEFINE V == T \cup {d}
           c == Some(V)
           W == V \ {c}
<1>7. c \in V /\ SumFunctionOnSet(f, V) = f[c] + SumFunctionOnSet(f, W)
  BY <1>5, <1>6, SumStep
<1> HIDE DEF c
<1>8. CASE c = d
  <2>1. W = T
    BY <1>4, <1>8
  <2>2. SumFunctionOnSet(f, T) \in Int /\ f[d] \in Int
    BY <1>5, <1>6, SumType
  <2>3. Good(T, d) <=> SumFunctionOnSet(f, V) = SumFunctionOnSet(f, T) + f[d]
    OBVIOUS
  <2> HIDE DEF V, W, Good
  <2> QED BY <1>4, <1>7, <1>8, <2>1, <2>2, <2>3
<1>9. CASE c # d
  <2> DEFINE U == T \ {c}
  <2>1. c \in T /\ c \in S /\ c \notin U /\ d \notin U /\ U \subseteq T /\ U # T
    BY <1>4, <1>5, <1>7, <1>9
  <2> DEFINE Ud == U \cup {d}
             Uc == U \cup {c}
  <2>2. W = Ud /\ T = Uc
    BY <1>9, <2>1
  <2>3. U \in SUBSET S /\ U \notin F
    BY <1>3, <1>5, <2>1
  <2>4. Good(U, d) /\ Good(U, c)
    BY <1>4, <2>1, <2>3
  <2>5. SumFunctionOnSet(f, U) \in Int /\ f[c] \in Int /\ f[d] \in Int
    BY <1>5, <1>6, <2>1, <2>3, FS_Subset, SumType
  <2>6. /\ Good(T, d) <=> SumFunctionOnSet(f, V) = SumFunctionOnSet(f, T) + f[d]
        /\ Good(U, d) <=> SumFunctionOnSet(f, Ud) = SumFunctionOnSet(f, U) + f[d]
        /\ Good(U, c) <=> SumFunctionOnSet(f, Uc) = SumFunctionOnSet(f, U) + f[c]
    OBVIOUS
  <2> HIDE DEF U, Ud, Uc, V, W, Good
  <2> QED BY <1>4, <1>7, <2>2, <2>4, <2>5, <2>6
<1> QED BY <1>7, <1>8, <1>9

LEMMA SumAgree ==
  ASSUME NEW S, IsFiniteSet(S), NEW f, NEW g, \A x \in S : f[x] \in Int /\ g[x] = f[x]
  PROVE  SumFunctionOnSet(f, S) = SumFunctionOnSet(g, S)
<1>1. \A x \in S : g[x] \in Int
  OBVIOUS
<1>2. PICK a : IsSum(a, f, S) /\ SumFunctionOnSet(f, S) = a[S]
  BY SumIsSum
<1>3. PICK b : IsSum(b, g, S) /\ SumFunctionOnSet(g, S) = b[S]
  BY <1>1, SumIsSum
<1>4. IsSum(b, f, S)
  <2>1. \A s \in SUBSET S : s # {} => Some(s) \in S
    BY DEF Some
  <2> QED BY <1>3, <2>1 DEF IsSum
<1>5. a[S] = b[S]
  BY <1>2, <1>4, SumIsUnique
<1> QED BY <1>2, <1>3, <1>5

(* A sum that grows at one place.                                          *)
LEMMA SumChange ==
  ASSUME NEW S, IsFiniteSet(S), NEW f, NEW g, NEW e \in S, 
         \A x \in S : f[x] \in Int /\ g[x] \in Int /\ (x # e => g[x] = f[x])
  PROVE  SumFunctionOnSet(g, S) = SumFunctionOnSet(f, S) + (g[e] - f[e])
<1> DEFINE T == S \ {e}
<1>1. IsFiniteSet(T) /\ T \cup {e} = S /\ e \notin T
  BY FS_Subset
<1>2. \A x \in T : f[x] \in Int /\ g[x] = f[x] /\ g[x] \in Int
  OBVIOUS
<1> HIDE DEF T
<1>3. SumFunctionOnSet(f, S) = SumFunctionOnSet(f, T) + f[e]
  BY <1>1, <1>2, SumAdd
<1>4. SumFunctionOnSet(g, S) = SumFunctionOnSet(g, T) + g[e]
  BY <1>1, <1>2, SumAdd
<1>5. SumFunctionOnSet(f, T) = SumFunctionOnSet(g, T)
  BY <1>1, <1>2, SumAgree
<1>6. SumFunctionOnSet(f, T) \in Int /\ f[e] \in Int /\ g[e] \in Int
  BY <1>1, <1>2, SumType
<1> QED BY <1>3, <1>4, <1>5, <1>6

(* Two sets that share no element are summed one after the other.          *)
LEMMA SumUnion ==
  ASSUME NEW S, IsFiniteSet(S), NEW T, IsFiniteSet(T), S \cap T = {},
         NEW f, \A x \in S \cup T : f[x] \in Int
  PROVE  SumFunctionOnSet(f, S \cup T) = SumFunctionOnSet(f, S) + SumFunctionOnSet(f, T)
<1> DEFINE Good(U) == SumFunctionOnSet(f, S \cup U)
                        = SumFunctionOnSet(f, S) + SumFunctionOnSet(f, U)
           F == {U \in SUBSET T : ~Good(U)}
<1>1. F \subseteq SUBSET T
  OBVIOUS
<1>2. SUFFICES ASSUME F # {} PROVE FALSE
  BY <1>2
<1>3. PICK U \in F : \A V \in F : V \subseteq U => V = U
  <2> HIDE DEF F
  <2> QED BY <1>1, <1>2, LeastSubset
<1>4. U \subseteq T /\ ~Good(U) /\ IsFiniteSet(U)
  BY <1>3, FS_Subset
<1>5. SumFunctionOnSet(f, S) \in Int
  BY SumType
<1>6. CASE U = {}
  <2>1. SumFunctionOnSet(f, {}) = 0
    BY SumEmpty, Zenon
  <2>2. S \cup U = S
    BY <1>6
  <2>3. SumFunctionOnSet(f, S \cup U) = SumFunctionOnSet(f, S)
    BY <2>2
  <2>4. SumFunctionOnSet(f, U) = 0
    BY <1>6, <2>1
  <2> QED BY <1>4, <1>5, <2>3, <2>4
<1>7. ASSUME NEW e \in U PROVE FALSE
  <2> DEFINE V == U \ {e}
             W == S \cup V
  <2>1. V \in SUBSET T /\ V \subseteq U /\ V # U /\ e \notin V /\ V \cup {e} = U
        /\ e \notin W /\ W \cup {e} = S \cup U
    BY <1>4
  <2>2. Good(V)
    BY <1>3, <2>1
  <2>3. IsFiniteSet(V) /\ IsFiniteSet(W)
    BY <1>4, FS_Subset, FS_Union
  <2>4. /\ \A x \in V : f[x] \in Int
        /\ \A x \in W : f[x] \in Int
        /\ f[e] \in Int
    BY <1>4
  <2>5. SumFunctionOnSet(f, W) = SumFunctionOnSet(f, S) + SumFunctionOnSet(f, V)
    BY <2>2
  <2> HIDE DEF V, W
  <2>6. SumFunctionOnSet(f, V \cup {e}) = SumFunctionOnSet(f, V) + f[e]
    BY <2>1, <2>3, <2>4, SumAdd
  <2>7. SumFunctionOnSet(f, W \cup {e}) = SumFunctionOnSet(f, W) + f[e]
    BY <2>1, <2>3, <2>4, SumAdd
  <2>8. SumFunctionOnSet(f, V) \in Int
    BY <2>3, <2>4, SumType
  <2>9. SumFunctionOnSet(f, U) = SumFunctionOnSet(f, V) + f[e]
    BY <2>1, <2>6
  <2>10. SumFunctionOnSet(f, S \cup U) = SumFunctionOnSet(f, W) + f[e]
    BY <2>1, <2>7
  <2>11. Good(U)
    BY <1>5, <2>4, <2>5, <2>8, <2>9, <2>10
  <2> QED BY <1>4, <2>11
<1> QED BY <1>6, <1>7

(* Of natural numbers: a natural number.                                   *)
LEMMA SumNat ==
  ASSUME NEW S, IsFiniteSet(S), NEW f, \A x \in S : f[x] \in Nat
  PROVE  SumFunctionOnSet(f, S) \in Nat
<1> DEFINE F == {T \in SUBSET S : SumFunctionOnSet(f, T) \notin Nat}
<1>1. F \subseteq SUBSET S
  OBVIOUS
<1>2. SUFFICES ASSUME F # {} PROVE FALSE
  BY <1>2
<1>3. PICK T \in F : \A U \in F : U \subseteq T => U = T
  <2> HIDE DEF F
  <2> QED BY <1>1, <1>2, LeastSubset
<1>4. IsFiniteSet(T) /\ \A x \in T : f[x] \in Nat /\ f[x] \in Int
  BY <1>3, FS_Subset
<1>5. T # {}
  <2> SUFFICES ASSUME T = {} PROVE FALSE
    OBVIOUS
  <2>1. SumFunctionOnSet(f, T) = 0
    BY SumEmpty, Zenon
  <2> QED BY <1>3, <2>1
<1>6. Some(T) \in T /\ SumFunctionOnSet(f, T) = f[Some(T)] + SumFunctionOnSet(f, T \ {Some(T)})
  BY <1>4, <1>5, SumStep
<1>7. SumFunctionOnSet(f, T \ {Some(T)}) \in Nat
  BY <1>3, <1>6
<1> QED BY <1>3, <1>4, <1>6, <1>7

(* Two at once.                                                            *)
LEMMA SumPlus ==
  ASSUME NEW S, IsFiniteSet(S), NEW f, NEW g, NEW h,
         \A x \in S : f[x] \in Int /\ g[x] \in Int /\ h[x] = f[x] + g[x]
  PROVE  SumFunctionOnSet(h, S) = SumFunctionOnSet(f, S) + SumFunctionOnSet(g, S)
<1> DEFINE Good(U) == SumFunctionOnSet(h, U) = SumFunctionOnSet(f, U) + SumFunctionOnSet(g, U)
           F == {U \in SUBSET S : ~Good(U)}
<1>1. F \subseteq SUBSET S
  OBVIOUS
<1>2. SUFFICES ASSUME F # {} PROVE FALSE
  BY <1>2
<1>3. PICK U \in F : \A V \in F : V \subseteq U => V = U
  <2> HIDE DEF F
  <2> QED BY <1>1, <1>2, LeastSubset
<1>4. U \subseteq S /\ ~Good(U) /\ IsFiniteSet(U)
  BY <1>3, FS_Subset
<1>5. \A x \in U : f[x] \in Int /\ g[x] \in Int /\ h[x] \in Int /\ h[x] = f[x] + g[x]
  BY <1>4
<1>6. U # {}
  <2> SUFFICES ASSUME U = {} PROVE FALSE
    OBVIOUS
  <2>1. /\ SumFunctionOnSet(f, {}) = 0 /\ SumFunctionOnSet(g, {}) = 0
        /\ SumFunctionOnSet(h, {}) = 0
    BY SumEmpty, Zenon
  <2>2. Good({})
    BY <2>1
  <2> QED BY <1>4, <2>2
<1> DEFINE e == Some(U)
           V == U \ {e}
<1>7. /\ e \in U /\ SumFunctionOnSet(f, U) = f[e] + SumFunctionOnSet(f, V)
      /\ SumFunctionOnSet(g, U) = g[e] + SumFunctionOnSet(g, V)
      /\ SumFunctionOnSet(h, U) = h[e] + SumFunctionOnSet(h, V)
  BY <1>4, <1>5, <1>6, SumStep
<1>8. V \in SUBSET S /\ V \subseteq U /\ V # U /\ IsFiniteSet(V)
  BY <1>4, <1>7, FS_Subset
<1>9. SumFunctionOnSet(h, V) = SumFunctionOnSet(f, V) + SumFunctionOnSet(g, V)
  BY <1>3, <1>8
<1>10. \A x \in V : f[x] \in Int /\ g[x] \in Int
  BY <1>5, <1>8
<1>11. SumFunctionOnSet(f, V) \in Int /\ SumFunctionOnSet(g, V) \in Int
  BY <1>8, <1>10, SumType
<1> HIDE DEF V, e
<1>12. f[e] \in Int /\ g[e] \in Int /\ h[e] = f[e] + g[e]
  BY <1>5, <1>7
<1>13. Good(U)
  BY <1>7, <1>9, <1>11, <1>12
<1> QED BY <1>4, <1>13

(* What is bounded term by term.                                           *)
LEMMA SumBelow ==
  ASSUME NEW S, IsFiniteSet(S), NEW f, NEW g,
         \A x \in S : f[x] \in Int /\ g[x] \in Int /\ f[x] <= g[x]
  PROVE  SumFunctionOnSet(f, S) <= SumFunctionOnSet(g, S)
<1> DEFINE d == [x \in S |-> g[x] - f[x]]
<1>1. \A x \in S : d[x] \in Nat /\ d[x] \in Int /\ g[x] = f[x] + d[x]
  OBVIOUS
<1> HIDE DEF d
<1>2. SumFunctionOnSet(g, S) = SumFunctionOnSet(f, S) + SumFunctionOnSet(d, S)
  BY <1>1, SumPlus
<1>3. SumFunctionOnSet(d, S) \in Nat
  BY <1>1, SumNat
<1>4. SumFunctionOnSet(f, S) \in Int
  BY SumType
<1> QED BY <1>2, <1>3, <1>4

(* Of nothing: nothing.                                                    *)
LEMMA SumNought ==
  ASSUME NEW S, IsFiniteSet(S), NEW f, \A x \in S : f[x] = 0
  PROVE  SumFunctionOnSet(f, S) = 0
<1> DEFINE F == {T \in SUBSET S : SumFunctionOnSet(f, T) # 0}
<1>1. F \subseteq SUBSET S
  OBVIOUS
<1>2. SUFFICES ASSUME F # {} PROVE FALSE
  BY <1>2
<1>3. PICK T \in F : \A U \in F : U \subseteq T => U = T
  <2> HIDE DEF F
  <2> QED BY <1>1, <1>2, LeastSubset
<1>4. IsFiniteSet(T) /\ \A x \in T : f[x] = 0 /\ f[x] \in Int
  BY <1>3, FS_Subset
<1>5. T # {}
  <2> SUFFICES ASSUME T = {} PROVE FALSE
    OBVIOUS
  <2>1. SumFunctionOnSet(f, T) = 0
    BY SumEmpty, Zenon
  <2> QED BY <1>3, <2>1
<1>6. Some(T) \in T /\ SumFunctionOnSet(f, T) = f[Some(T)] + SumFunctionOnSet(f, T \ {Some(T)})
  BY <1>4, <1>5, SumStep
<1>7. SumFunctionOnSet(f, T \ {Some(T)}) = 0
  BY <1>3, <1>6
<1> QED BY <1>3, <1>4, <1>6, <1>7

=============================================================================
