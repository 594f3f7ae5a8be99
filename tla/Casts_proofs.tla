---------------------------- MODULE Casts_proofs ----------------------------
(***************************************************************************)
(* Proofs about the casts of an account and what they wear.                *)
(*                                                                         *)
(* Roster, for any characters, caps, formations and any number of casts:   *)
(* names stay live, and skill levels are not made.  Gear: a piece is worn  *)
(* once, and only while it is in the bag; and the client shows what the    *)
(* account holds but the Soulmirrors it was paid and not told of.          *)
(***************************************************************************)
EXTENDS Roster, Gear, Finite_proofs, FiniteSetTheorems, SequenceTheorems, TLAPS

-----------------------------------------------------------------------------
(* Counting out a sum: one cell for each unit.                             *)

Cells(f) == UNION {{x} \X (1..f[x]) : x \in DOMAIN f}

LEMMA CellsOf ==
  ASSUME NEW S, NEW f \in [S -> Nat]
  PROVE  \A c : c \in Cells(f) <=> \E x \in S : \E n \in 1..f[x] : c = <<x, n>>
BY DEF Cells

LEMMA TotalIsNat ==
  ASSUME NEW S, IsFiniteSet(S), NEW f \in [S -> Nat]
  PROVE  IsFiniteSet(Cells(f)) /\ Total(f) \in Nat /\ Total(f) = Cardinality(Cells(f))
<1> DEFINE g == [x \in S |-> {x} \X (1..f[x])]
           T == {{x} \X (1..f[x]) : x \in S}
<1>1. IsFiniteSet(T)
  <2>1. g \in Surjection(S, T)
    BY DEF Surjection
  <2> HIDE DEF g, T
  <2> QED BY <2>1, FS_Surjection
<1>2. ASSUME NEW x \in S PROVE IsFiniteSet({x} \X (1..f[x]))
  <2>1. IsFiniteSet({x})
    BY FS_Singleton
  <2>2. f[x] \in Int /\ 1 \in Int
    OBVIOUS
  <2>3. IsFiniteSet(1..f[x])
    BY <2>2, FS_Interval
  <2> QED BY <2>1, <2>3, FS_Product
<1>3. \A U \in T : IsFiniteSet(U)
  BY <1>2
<1>4. Cells(f) = UNION T
  BY DEF Cells
<1> HIDE DEF T
<1>5. IsFiniteSet(Cells(f))
  BY <1>1, <1>3, <1>4, FS_UNION
<1> QED BY <1>5, FS_CardinalityType DEF Total, Cells

LEMMA TotalAtMost ==
  ASSUME NEW S, IsFiniteSet(S), NEW f \in [S -> Nat],
         NEW T, IsFiniteSet(T), NEW g \in [T -> Nat],
         \A x \in S : f[x] = 0 \/ (x \in T /\ f[x] <= g[x])
  PROVE  Total(f) <= Total(g)
<1>1. Cells(f) \subseteq Cells(g)
  <2> SUFFICES ASSUME NEW x \in S, NEW n \in 1..f[x] PROVE <<x, n>> \in Cells(g)
    BY CellsOf
  <2>1. x \in T /\ n \in 1..g[x]
    OBVIOUS
  <2> QED BY <2>1, CellsOf
<1>2. IsFiniteSet(Cells(g)) /\ Total(g) = Cardinality(Cells(g)) /\ Total(f) = Cardinality(Cells(f))
  BY TotalIsNat
<1> QED BY <1>1, <1>2, FS_Subset

(* What a function is on a part of its domain.                             *)
Part(g, f, A) == g \in [A -> Nat] /\ \A x \in A : g[x] = f[x]

LEMMA TotalSplit ==
  ASSUME NEW S, IsFiniteSet(S), NEW f \in [S -> Nat], NEW A \in SUBSET S,
         NEW B, B = S \ A, NEW g, Part(g, f, A), NEW h, Part(h, f, B)
  PROVE  Total(f) = Total(g) + Total(h)
<1>a. /\ g \in [A -> Nat] /\ \A x \in A : g[x] = f[x]
      /\ h \in [S \ A -> Nat] /\ \A x \in S \ A : h[x] = f[x]
  BY DEF Part
<1>1. IsFiniteSet(A) /\ IsFiniteSet(S \ A)
  BY FS_Subset, FS_Difference
<1>2. /\ IsFiniteSet(Cells(g)) /\ Total(g) = Cardinality(Cells(g)) /\ Total(g) \in Nat
      /\ IsFiniteSet(Cells(h)) /\ Total(h) = Cardinality(Cells(h)) /\ Total(h) \in Nat
      /\ Total(f) = Cardinality(Cells(f))
  BY <1>a, <1>1, TotalIsNat
<1>3. \A c : c \in Cells(f) <=> c \in Cells(g) \cup Cells(h)
  <2>1. ASSUME NEW c, c \in Cells(f) PROVE c \in Cells(g) \cup Cells(h)
    <3>1. PICK x \in S : \E n \in 1..f[x] : c = <<x, n>>
      BY <1>a, <2>1, CellsOf
    <3>1a. PICK n \in 1..f[x] : c = <<x, n>>
      BY <3>1
    <3>2. CASE x \in A
      <4>1. n \in 1..g[x]
        BY <1>a, <3>2
      <4> QED BY <1>a, <3>1a, <3>2, <4>1, CellsOf
    <3>3. CASE x \notin A
      <4>1. x \in S \ A /\ n \in 1..h[x]
        BY <1>a, <3>3
      <4> QED BY <1>a, <3>1a, <4>1, CellsOf
    <3> QED BY <3>2, <3>3
  <2>2. ASSUME NEW c, c \in Cells(g) PROVE c \in Cells(f)
    <3>1. PICK x \in A : \E n \in 1..g[x] : c = <<x, n>>
      BY <1>a, <2>2, CellsOf
    <3>1a. PICK n \in 1..g[x] : c = <<x, n>>
      BY <3>1
    <3>2. x \in S /\ n \in 1..f[x]
      BY <1>a
    <3> QED BY <1>a, <3>1a, <3>2, CellsOf
  <2>3. ASSUME NEW c, c \in Cells(h) PROVE c \in Cells(f)
    <3>1. PICK x \in S \ A : \E n \in 1..h[x] : c = <<x, n>>
      BY <1>a, <2>3, CellsOf
    <3>1a. PICK n \in 1..h[x] : c = <<x, n>>
      BY <3>1
    <3>2. x \in S /\ n \in 1..f[x]
      BY <1>a
    <3> QED BY <1>a, <3>1a, <3>2, CellsOf
  <2> QED BY <2>1, <2>2, <2>3
<1>4. Cells(g) \cap Cells(h) = {}
  <2> SUFFICES ASSUME NEW c, c \in Cells(g), c \in Cells(h) PROVE FALSE
    OBVIOUS
  <2>1. PICK x \in A : \E n \in 1..g[x] : c = <<x, n>>
    BY <1>a, CellsOf
  <2>1a. PICK n \in 1..g[x] : c = <<x, n>>
    BY <2>1
  <2>2. PICK y \in S \ A : \E m \in 1..h[y] : c = <<y, m>>
    BY <1>a, CellsOf
  <2>2a. PICK m \in 1..h[y] : c = <<y, m>>
    BY <2>2
  <2> QED BY <2>1a, <2>2a
<1>5. Cells(f) = Cells(g) \cup Cells(h)
  BY <1>3
<1>6. Cardinality(Cells(f)) = Cardinality(Cells(g)) + Cardinality(Cells(h)) - Cardinality({})
  BY <1>2, <1>4, <1>5, FS_Union
<1> QED BY <1>2, <1>6, FS_EmptySet

LEMMA TotalOfOne ==
  ASSUME NEW x, NEW f \in [{x} -> Nat]
  PROVE  Total(f) = f[x]
<1>1. Cells(f) = {x} \X (1..f[x])
  BY DEF Cells
<1>2. IsFiniteSet({x}) /\ Cardinality({x}) = 1
  BY FS_Singleton
<1>3. 1 \in Int /\ f[x] \in Nat
  OBVIOUS
<1>4. IsFiniteSet(1..f[x]) /\ Cardinality(1..f[x]) = f[x]
  BY <1>3, FS_Interval
<1>5. Cardinality({x} \X (1..f[x])) = 1 * f[x]
  <2> DEFINE A == {x}
             B == 1..f[x]
  <2>1. IsFiniteSet(A) /\ IsFiniteSet(B) /\ Cardinality(A) = 1 /\ Cardinality(B) = f[x]
    BY <1>2, <1>4
  <2> HIDE DEF A, B
  <2>2. Cardinality(A \X B) = Cardinality(A) * Cardinality(B)
    BY <2>1, FS_Product
  <2> QED BY <2>1, <2>2 DEF A, B
<1>6. Total(f) = Cardinality(Cells(f))
  BY DEF Total, Cells
<1>7. f[x] = 1 * f[x]
  BY <1>3
<1> QED BY <1>1, <1>5, <1>6, <1>7

(* One element taken out.                                                  *)
LEMMA TotalTakeOut ==
  ASSUME NEW S, IsFiniteSet(S), NEW f \in [S -> Nat], NEW x \in S,
         NEW R, R = S \ {x}, NEW h, Part(h, f, R)
  PROVE  Total(f) = f[x] + Total(h)
<1> DEFINE A == {x}
           g == [y \in A |-> f[y]]
<1>1. A \in SUBSET S /\ g \in [A -> Nat] /\ \A y \in A : g[y] = f[y]
  OBVIOUS
<1>2. Total(g) = g[x] /\ g[x] = f[x]
  <2>1. g \in [{x} -> Nat] /\ g[x] = f[x]
    BY <1>1
  <2> HIDE DEF g
  <2> QED BY <2>1, TotalOfOne
<1> HIDE DEF g
<1>3. Part(g, f, A)
  BY <1>1 DEF Part
<1>4. R = S \ A
  OBVIOUS
<1> HIDE DEF A
<1>5. Total(f) = Total(g) + Total(h)
  BY <1>1, <1>3, <1>4, TotalSplit
<1> QED BY <1>2, <1>5

(* A sum of sums: the cells of the second are put on top of the first.     *)
LEMMA TotalOfBoth ==
  ASSUME NEW S, IsFiniteSet(S), NEW f \in [S -> Nat], NEW g \in [S -> Nat],
         NEW h \in [S -> Nat], \A x \in S : h[x] = f[x] + g[x]
  PROVE  Total(h) = Total(f) + Total(g)
<1>1. /\ IsFiniteSet(Cells(g)) /\ Total(g) = Cardinality(Cells(g)) /\ Total(g) \in Nat
      /\ IsFiniteSet(Cells(f)) /\ Total(f) = Cardinality(Cells(f)) /\ Total(f) \in Nat
      /\ IsFiniteSet(Cells(h)) /\ Total(h) = Cardinality(Cells(h))
  BY TotalIsNat
<1> DEFINE top == Cells(h) \ Cells(f)
           up == [c \in Cells(g) |-> <<c[1], f[c[1]] + c[2]>>]
<1>2. Cells(f) \subseteq Cells(h)
  <2> SUFFICES ASSUME NEW x \in S, NEW n \in 1..f[x] PROVE <<x, n>> \in Cells(h)
    BY CellsOf
  <2>1. n \in 1..h[x]
    OBVIOUS
  <2> QED BY <2>1, CellsOf
<1>3. ASSUME NEW c \in Cells(g) PROVE up[c] \in top
  <2>1. PICK x \in S : \E n \in 1..g[x] : c = <<x, n>>
    BY CellsOf
  <2>1a. PICK n \in 1..g[x] : c = <<x, n>>
    BY <2>1
  <2>2. up[c] = <<x, f[x] + n>> /\ f[x] + n \in 1..h[x]
    BY <2>1a
  <2>3. ASSUME up[c] \in Cells(f) PROVE FALSE
    <3>1. PICK y \in S : \E m \in 1..f[y] : up[c] = <<y, m>>
      BY <2>3, CellsOf
    <3>1a. PICK m \in 1..f[y] : up[c] = <<y, m>>
      BY <3>1
    <3>2. x = y /\ f[x] + n = m
      BY <2>2, <3>1a
    <3>3. f[x] \in Nat /\ n \in Nat /\ n > 0 /\ m <= f[x]
      BY <3>2
    <3> QED BY <3>2, <3>3
  <2> QED BY <2>2, <2>3, CellsOf
<1>4. ASSUME NEW c \in Cells(g), NEW d \in Cells(g), up[c] = up[d] PROVE c = d
  <2>1. PICK x \in S : \E n \in 1..g[x] : c = <<x, n>>
    BY CellsOf
  <2>1a. PICK n \in 1..g[x] : c = <<x, n>>
    BY <2>1
  <2>2. PICK y \in S : \E m \in 1..g[y] : d = <<y, m>>
    BY CellsOf
  <2>2a. PICK m \in 1..g[y] : d = <<y, m>>
    BY <2>2
  <2>3. x = y /\ f[x] + n = f[x] + m
    BY <1>4, <2>1a, <2>2a
  <2> QED BY <2>1a, <2>2a, <2>3
<1>5. ASSUME NEW c \in top PROVE \E d \in Cells(g) : up[d] = c
  <2>1. PICK x \in S : \E n \in 1..h[x] : c = <<x, n>>
    BY CellsOf
  <2>1a. PICK n \in 1..h[x] : c = <<x, n>>
    BY <2>1
  <2>2. n \notin 1..f[x]
    BY <2>1a, CellsOf
  <2>3. f[x] \in Nat /\ g[x] \in Nat /\ h[x] = f[x] + g[x] /\ n \in Nat
    BY <2>1a
  <2>4. n - f[x] \in 1..g[x] /\ f[x] + (n - f[x]) = n
    BY <2>1a, <2>2, <2>3
  <2>5. <<x, n - f[x]>> \in Cells(g)
    BY <2>4, CellsOf
  <2> QED BY <2>1a, <2>4, <2>5
<1>6. up \in Bijection(Cells(g), top)
  <2>1. up \in [Cells(g) -> top]
    BY <1>3
  <2>2. \A c, d \in Cells(g) : up[c] = up[d] => c = d
    BY <1>4
  <2>3. \A c \in top : \E d \in Cells(g) : up[d] = c
    BY <1>5
  <2> HIDE DEF up, top
  <2>4. up \in Injection(Cells(g), top)
    BY <2>1, <2>2 DEF Injection, IsInjective
  <2>5. up \in Surjection(Cells(g), top)
    BY <2>1, <2>3 DEF Surjection
  <2> QED BY <2>4, <2>5 DEF Bijection
<1> HIDE DEF up, top
<1>7. Cardinality(top) = Cardinality(Cells(g)) /\ IsFiniteSet(top)
  BY <1>1, <1>6, FS_Bijection DEF ExistsBijection
<1>8. Cells(h) \cap Cells(f) = Cells(f)
  BY <1>2
<1>9. Cardinality(top) = Cardinality(Cells(h)) - Cardinality(Cells(f))
  <2>1. Cardinality(Cells(h) \ Cells(f)) = Cardinality(Cells(h)) - Cardinality(Cells(h) \cap Cells(f))
    BY <1>1, FS_Difference
  <2> QED BY <1>8, <2>1 DEF top
<1>10. Total(h) \in Nat
  BY TotalIsNat
<1>11. Total(g) = Total(h) - Total(f)
  BY <1>1, <1>7, <1>9
<1>12. Total(f) \in Nat /\ Total(g) \in Nat
  BY <1>1
<1> QED BY <1>10, <1>11, <1>12

LEMMA TotalMove ==
  ASSUME NEW S, IsFiniteSet(S), NEW f \in [S -> Nat], NEW g \in [S -> Nat],
         NEW a \in S, NEW b \in S, a # b,
         g[a] = f[a] + 1, f[b] = g[b] + 1,
         \A x \in S : x # a /\ x # b => g[x] = f[x]
  PROVE  Total(g) = Total(f)
<1> DEFINE S1 == S \ {a}
           S2 == S1 \ {b}
           f1 == [x \in S1 |-> f[x]]
           g1 == [x \in S1 |-> g[x]]
           k == [x \in S2 |-> f[x]]
<1>1. IsFiniteSet(S1) /\ b \in S1
  BY FS_Subset
<1>2. f1 \in [S1 -> Nat] /\ g1 \in [S1 -> Nat] /\ k \in [S2 -> Nat]
  OBVIOUS
<1>3. Part(f1, f, S1) /\ Part(g1, g, S1)
  BY DEF Part
<1>4. Part(k, f1, S2) /\ Part(k, g1, S2)
  BY DEF Part
<1>5. f1[b] = f[b] /\ g1[b] = g[b]
  BY <1>1
<1> HIDE DEF f1, g1, k
<1>6. Total(f) = f[a] + Total(f1) /\ Total(g) = g[a] + Total(g1)
  BY <1>2, <1>3, TotalTakeOut DEF S1
<1> HIDE DEF S1
<1>7. Total(f1) = f1[b] + Total(k) /\ Total(g1) = g1[b] + Total(k)
  BY <1>1, <1>2, <1>4, TotalTakeOut DEF S2
<1>8. IsFiniteSet(S2)
  BY <1>1, FS_Subset DEF S2
<1>9. Total(k) \in Nat
  BY <1>2, <1>8, TotalIsNat
<1>10. f[a] \in Nat /\ g[a] \in Nat /\ f[b] \in Nat /\ g[b] \in Nat
  OBVIOUS
<1> QED BY <1>5, <1>6, <1>7, <1>9, <1>10

-----------------------------------------------------------------------------
LEMMA RosterIsFinite ==
  ASSUME NEW r, NEW n \in Nat, DOMAIN r \subseteq 1..n
  PROVE  IsFiniteSet(DOMAIN r) /\ Cardinality(DOMAIN r) \in Nat /\ Cardinality(DOMAIN r) <= n
<1>1. IsFiniteSet(1..n) /\ Cardinality(1..n) = n
  BY FS_Interval
<1>2. IsFiniteSet(DOMAIN r) /\ Cardinality(DOMAIN r) <= n
  BY <1>1, FS_Subset
<1> QED BY <1>2, FS_CardinalityType

(* The number of the next cast is free, and never beyond the casts made.   *)
LEMMA UidIsFree ==
  ASSUME made \in Nat, CastsMax \in Nat, made < CastsMax, DOMAIN roster \subseteq 1..made
  PROVE  NextUid \in 1..(made + 1) /\ NextUid \notin DOMAIN roster
<1> DEFINE size == Cardinality(DOMAIN roster)
           range == (size + 1)..(CastsMax + 1)
           spare == {u \in range : u \notin DOMAIN roster}
<1>1. size \in Nat /\ size <= made
  BY RosterIsFinite
<1> HIDE DEF size
<1>2. IsFiniteSet(range)
  <2>1. size + 1 \in Int /\ CastsMax + 1 \in Int
    BY <1>1
  <2> QED BY <2>1, FS_Interval
<1>3. made + 1 \in spare
  BY <1>1
<1>4. spare \in SUBSET range /\ spare \subseteq Nat \ {0}
  BY <1>1
<1>5. IsFiniteSet(spare)
  <2> HIDE DEF range, spare
  <2> QED BY <1>2, <1>4, FS_Subset
<1>6. Min(spare) \in spare /\ \A n \in spare : Min(spare) <= n
  <2> HIDE DEF spare
  <2> QED BY <1>3, <1>4, <1>5, MinIsLeast
<1>7. NextUid = Min(spare)
  BY DEF NextUid, size
<1>8. Min(spare) \in Nat \ {0} /\ Min(spare) <= made + 1 /\ Min(spare) \notin DOMAIN roster
  BY <1>3, <1>4, <1>6
<1> HIDE DEF spare
<1> QED BY <1>7, <1>8


-----------------------------------------------------------------------------
(* Casts and rosters.                                                      *)

CastSet == [id : Chars, serial : Nat, lv : Nat, star : Nat, ex : Nat, plus : Nat,
            ultra : Nat, book : Nat, char : Nat, skin : Skins \cup {NormalSkin},
            lock : BOOLEAN]

(* Within its caps, and with the stars its character starts with: that is  *)
(* what lets the tutorial's boost set a level.                             *)
Grown(e) ==
  /\ e \in CastSet
  /\ e.star \in 1..MaxStar /\ CharRow[e.id].star <= e.star
  /\ e.ex <= MaxEx /\ e.plus <= MaxPlus /\ e.ultra <= MaxUltra
  /\ e.lv \in 1..MaxLv(e)
  /\ e.book <= MaxBook /\ e.book + e.char <= MaxTotal

IsRoster(r, n) ==
  /\ DOMAIN r \subseteq 1..n
  /\ r = [u \in DOMAIN r |-> r[u]]
  /\ \A u \in DOMAIN r : Grown(r[u])

Dressed(r, s) == \A u \in DOMAIN r : r[u].skin = NormalSkin \/ r[u].skin \in s[r[u].id]

(* The same cast, grown.                                                   *)
Same(d, e) == e.id = d.id /\ e.serial = d.serial /\ e.skin = d.skin
(* Some casts are gone, and the others are still the same casts.           *)
Change(r, s) ==
  /\ DOMAIN s \subseteq DOMAIN r
  /\ s = [u \in DOMAIN s |-> s[u]]
  /\ \A u \in DOMAIN s : Grown(s[u]) /\ Same(r[u], s[u])

Book(r) == [u \in DOMAIN r |-> r[u].book + r[u].char]

LEMMA Consts ==
  /\ {TutorialLv, TutorialLimit, FormSlots, LvPerStar, LvPerEx, MaxStar, MaxEx, MaxPlus,
      MaxUltra, UltraStep, MaxBook, MaxTotal, ImpartLimit, Coins, Gems, CastsMax} \subseteq Nat
  /\ MaxBook <= MaxTotal /\ TutorialLimit <= MaxTotal /\ LvPerStar > 0 /\ TutorialLv > 0
  /\ \A c \in Chars : CharRow[c].star \in 1..MaxStar
  /\ \A c \in TutorialCasts : c \in Chars /\ TutorialLv <= LvPerStar * CharRow[c].star
  /\ StarterTeam \in Seq(Chars) /\ NormalSkin \notin Skins
BY RosterAssumption DEF RosterAssumption

LEMMA BookType ==
  ASSUME NEW r, NEW n \in Nat, IsRoster(r, n)
  PROVE  /\ IsFiniteSet(DOMAIN r) /\ Book(r) \in [DOMAIN r -> Nat]
         /\ Levels(r) = Total(Book(r)) /\ Levels(r) \in Nat
<1>1. IsFiniteSet(DOMAIN r)
  BY RosterIsFinite DEF IsRoster
<1>2. Book(r) \in [DOMAIN r -> Nat]
  BY DEF IsRoster, Grown, CastSet, Book
<1>3. Levels(r) = Total(Book(r))
  BY DEF Levels, Book
<1> QED BY <1>1, <1>2, <1>3, TotalIsNat

LEMMA BookOf ==
  ASSUME NEW r, NEW u \in DOMAIN r
  PROVE  Book(r)[u] = r[u].book + r[u].char
BY DEF Book

(* Who has not gained a skill level does not raise the sum.                *)
LEMMA LevelsAtMost ==
  ASSUME NEW r, NEW s, NEW n \in Nat, NEW m \in Nat, IsRoster(r, n), IsRoster(s, m),
         \A u \in DOMAIN s :
           \/ s[u].book + s[u].char = 0
           \/ u \in DOMAIN r /\ s[u].book + s[u].char <= r[u].book + r[u].char
  PROVE  Levels(s) <= Levels(r)
<1>1. /\ IsFiniteSet(DOMAIN r) /\ Book(r) \in [DOMAIN r -> Nat] /\ Levels(r) = Total(Book(r))
      /\ IsFiniteSet(DOMAIN s) /\ Book(s) \in [DOMAIN s -> Nat] /\ Levels(s) = Total(Book(s))
  BY BookType
<1>2. \A u \in DOMAIN s :
        Book(s)[u] = 0 \/ (u \in DOMAIN r /\ Book(s)[u] <= Book(r)[u])
  BY BookOf
<1> QED BY <1>1, <1>2, TotalAtMost

LEMMA ChangeIsRoster ==
  ASSUME NEW r, NEW s, NEW n \in Nat, IsRoster(r, n), Change(r, s)
  PROVE  IsRoster(s, n)
BY DEF IsRoster, Change

LEMMA CapGrows ==
  ASSUME NEW a \in Nat, NEW b \in Nat, a <= b
  PROVE  /\ LvPerStar * a \in Nat /\ LvPerStar * a <= LvPerStar * b
         /\ LvPerEx * a \in Nat /\ LvPerEx * a <= LvPerEx * b
<1>1. LvPerStar \in Nat /\ LvPerEx \in Nat
  BY Consts
<1>2. PICK d \in Nat : b = a + d
  <2>1. b - a \in Nat /\ b = a + (b - a)
    OBVIOUS
  <2> QED BY <2>1
<1>3. \A k \in Nat : k * a \in Nat /\ k * d \in Nat /\ k * b = k * a + k * d
  BY <1>2
<1> QED BY <1>1, <1>3

LEMMA CapIsNat ==
  ASSUME NEW e \in CastSet
  PROVE  /\ LvPerStar * e.star \in Nat /\ LvPerEx * e.ex \in Nat
         /\ MaxLv(e) \in Nat /\ MaxLv(e) >= LvPerStar * e.star
<1>1. e.star \in Nat /\ e.ex \in Nat /\ e.plus \in Nat
  BY DEF CastSet
<1>2. LvPerStar * e.star \in Nat /\ LvPerEx * e.ex \in Nat
  BY <1>1, CapGrows
<1> QED BY <1>1, <1>2 DEF MaxLv


(* A cast that has not lost stars may keep its level.                      *)
LEMMA CapRises ==
  ASSUME NEW e \in CastSet, NEW f \in CastSet,
         e.star <= f.star, e.ex <= f.ex, e.plus <= f.plus
  PROVE  MaxLv(e) <= MaxLv(f)
<1>1. /\ e.star \in Nat /\ f.star \in Nat /\ e.ex \in Nat /\ f.ex \in Nat
      /\ e.plus \in Nat /\ f.plus \in Nat
  BY DEF CastSet
<1>2. LvPerStar * e.star <= LvPerStar * f.star /\ LvPerEx * e.ex <= LvPerEx * f.ex
  BY <1>1, CapGrows
<1>3. /\ LvPerStar * e.star \in Nat /\ LvPerStar * f.star \in Nat
      /\ LvPerEx * e.ex \in Nat /\ LvPerEx * f.ex \in Nat
  BY CapIsNat
<1> QED BY <1>1, <1>2, <1>3 DEF MaxLv

Leveled(e, n) == [e EXCEPT !.lv = n]
Starred(e) == [e EXCEPT !.star = @ + 1]
Extra(e) == [e EXCEPT !.star = MaxStar, !.ex = @ + 1]
Plussed(e, n) == [e EXCEPT !.plus = n]
Ultra(e, n) == [e EXCEPT !.ultra = n]
Taught(e, b, c) == [e EXCEPT !.book = b, !.char = c]
Locked(e) == [e EXCEPT !.lock = ~@]
Clad(e, s) == [e EXCEPT !.skin = s]

LEMMA LeveledGrows ==
  ASSUME NEW e, Grown(e), NEW n \in 1..MaxLv(e)
  PROVE  Grown(Leveled(e, n)) /\ Same(e, Leveled(e, n))
<1>1. e \in CastSet /\ MaxLv(e) \in Nat
  BY CapIsNat DEF Grown
<1>2. Leveled(e, n) \in CastSet /\ MaxLv(Leveled(e, n)) = MaxLv(e)
  BY <1>1 DEF CastSet, Leveled, MaxLv
<1>3. Leveled(e, n).lv = n /\ Same(e, Leveled(e, n))
  BY <1>1 DEF CastSet, Leveled, Same
<1>4. /\ Leveled(e, n).star = e.star /\ Leveled(e, n).id = e.id
      /\ Leveled(e, n).ex = e.ex /\ Leveled(e, n).plus = e.plus
      /\ Leveled(e, n).ultra = e.ultra /\ Leveled(e, n).book = e.book
      /\ Leveled(e, n).char = e.char
  BY <1>1 DEF CastSet, Leveled
<1> QED BY <1>2, <1>3, <1>4 DEF Grown

(* What keeps its level, and loses neither stars nor extras.               *)
LEMMA RaisedGrows ==
  ASSUME NEW e, Grown(e), NEW f \in CastSet,
         f.id = e.id, f.lv = e.lv, f.book = e.book, f.char = e.char,
         e.star <= f.star, f.star <= MaxStar, e.ex <= f.ex, f.ex <= MaxEx,
         e.plus <= f.plus, f.plus <= MaxPlus, f.ultra <= MaxUltra
  PROVE  Grown(f)
<1>1. e \in CastSet /\ e.lv \in 1..MaxLv(e) /\ MaxLv(e) \in Nat
  BY CapIsNat DEF Grown
<1>2. MaxLv(e) <= MaxLv(f) /\ MaxLv(f) \in Nat
  BY <1>1, CapRises, CapIsNat
<1>3. f.lv \in 1..MaxLv(f)
  BY <1>1, <1>2
<1>4. f.star \in 1..MaxStar /\ CharRow[f.id].star <= f.star
  <2>1. e.star \in 1..MaxStar /\ CharRow[e.id].star <= e.star /\ e.id \in Chars
    BY <1>1 DEF Grown, CastSet
  <2>2. f.star \in Nat /\ MaxStar \in Nat /\ CharRow[e.id].star \in 1..MaxStar
    BY <2>1, Consts DEF CastSet
  <2> QED BY <2>1, <2>2
<1> QED BY <1>3, <1>4 DEF Grown

LEMMA StarredGrows ==
  ASSUME NEW e, Grown(e), e.star < MaxStar
  PROVE  Grown(Starred(e)) /\ Same(e, Starred(e)) /\ Starred(e).book = e.book
         /\ Starred(e).char = e.char
<1>1. e \in CastSet
  BY DEF Grown
<1>2. /\ Starred(e) \in CastSet /\ Same(e, Starred(e)) /\ Starred(e).lv = e.lv
      /\ Starred(e).book = e.book /\ Starred(e).char = e.char
      /\ Starred(e).ex = e.ex /\ Starred(e).plus = e.plus /\ Starred(e).ultra = e.ultra
      /\ Starred(e).star = e.star + 1
  BY <1>1 DEF CastSet, Starred, Same
<1>3. e.star \in Nat /\ e.ex \in Nat /\ e.plus \in Nat /\ MaxStar \in Nat
  BY <1>1, Consts DEF CastSet
<1>4. e.ex <= MaxEx /\ e.plus <= MaxPlus /\ e.ultra <= MaxUltra
  BY DEF Grown
<1>5. Starred(e).id = e.id
  BY <1>2 DEF Same
<1>6. Grown(Starred(e))
  BY <1>2, <1>3, <1>4, <1>5, RaisedGrows
<1> QED BY <1>2, <1>6

LEMMA ExtraGrows ==
  ASSUME NEW e, Grown(e), e.star >= MaxStar, e.ex < MaxEx
  PROVE  Grown(Extra(e)) /\ Same(e, Extra(e)) /\ Extra(e).book = e.book
         /\ Extra(e).char = e.char
<1>1. e \in CastSet /\ MaxStar \in Nat /\ MaxEx \in Nat
  BY Consts DEF Grown
<1>2. /\ Extra(e) \in CastSet /\ Same(e, Extra(e)) /\ Extra(e).lv = e.lv
      /\ Extra(e).book = e.book /\ Extra(e).char = e.char
      /\ Extra(e).ex = e.ex + 1 /\ Extra(e).plus = e.plus /\ Extra(e).ultra = e.ultra
      /\ Extra(e).star = MaxStar
  <2> DEFINE d == [e EXCEPT !.star = MaxStar]
  <2>1. /\ d \in CastSet /\ d.id = e.id /\ d.serial = e.serial /\ d.skin = e.skin
        /\ d.lv = e.lv /\ d.book = e.book /\ d.char = e.char
        /\ d.ex = e.ex /\ d.plus = e.plus /\ d.ultra = e.ultra /\ d.star = MaxStar
    BY <1>1 DEF CastSet
  <2>2. Extra(e) = [d EXCEPT !.ex = @ + 1]
    BY <1>1 DEF CastSet, Extra
  <2> HIDE DEF d
  <2>3. /\ Extra(e) \in CastSet /\ Extra(e).id = d.id /\ Extra(e).serial = d.serial
        /\ Extra(e).skin = d.skin /\ Extra(e).lv = d.lv /\ Extra(e).book = d.book
        /\ Extra(e).char = d.char /\ Extra(e).ex = d.ex + 1 /\ Extra(e).plus = d.plus
        /\ Extra(e).ultra = d.ultra /\ Extra(e).star = d.star
    BY <2>1, <2>2 DEF CastSet
  <2> QED BY <2>1, <2>3 DEF Same
<1>3. e.star \in Nat /\ e.ex \in Nat /\ e.plus \in Nat
  BY <1>1 DEF CastSet
<1>4. e.star <= MaxStar /\ e.plus <= MaxPlus /\ e.ultra <= MaxUltra
  BY <1>1, <1>3 DEF Grown
<1>5. Extra(e).id = e.id
  BY <1>2 DEF Same
<1>6. Grown(Extra(e))
  BY <1>1, <1>2, <1>3, <1>4, <1>5, RaisedGrows
<1> QED BY <1>2, <1>6

LEMMA PlussedGrows ==
  ASSUME NEW e, Grown(e), NEW n \in Nat, e.plus <= n, n <= MaxPlus
  PROVE  Grown(Plussed(e, n)) /\ Same(e, Plussed(e, n)) /\ Plussed(e, n).book = e.book
         /\ Plussed(e, n).char = e.char
<1> DEFINE f == Plussed(e, n)
<1>1. e \in CastSet
  BY DEF Grown
<1>2. /\ f \in CastSet /\ Same(e, f) /\ f.lv = e.lv /\ f.id = e.id
      /\ f.book = e.book /\ f.char = e.char
      /\ f.ex = e.ex /\ f.plus = n /\ f.ultra = e.ultra /\ f.star = e.star
  BY <1>1 DEF CastSet, Plussed, Same
<1>3. e.star \in Nat /\ e.ex \in Nat /\ MaxStar \in Nat
  BY <1>1, Consts DEF CastSet
<1>4. e.star <= MaxStar /\ e.ex <= MaxEx /\ e.ultra <= MaxUltra
  BY <1>1, <1>3 DEF Grown
<1> HIDE DEF f
<1>5. Grown(f)
  BY <1>2, <1>3, <1>4, RaisedGrows
<1> QED BY <1>2, <1>5 DEF f

LEMMA UltraGrows ==
  ASSUME NEW e, Grown(e), NEW n \in Nat, n <= MaxUltra
  PROVE  Grown(Ultra(e, n)) /\ Same(e, Ultra(e, n)) /\ Ultra(e, n).book = e.book
         /\ Ultra(e, n).char = e.char
<1> DEFINE f == Ultra(e, n)
<1>1. e \in CastSet
  BY DEF Grown
<1>2. /\ f \in CastSet /\ Same(e, f) /\ f.lv = e.lv /\ f.id = e.id
      /\ f.book = e.book /\ f.char = e.char
      /\ f.ex = e.ex /\ f.plus = e.plus /\ f.ultra = n /\ f.star = e.star
  BY <1>1 DEF CastSet, Ultra, Same
<1>3. e.star \in Nat /\ e.ex \in Nat /\ e.plus \in Nat /\ MaxStar \in Nat
  BY <1>1, Consts DEF CastSet
<1>4. e.star <= MaxStar /\ e.ex <= MaxEx /\ e.plus <= MaxPlus
  BY <1>1, <1>3 DEF Grown
<1> HIDE DEF f
<1>5. Grown(f)
  BY <1>2, <1>3, <1>4, RaisedGrows
<1> QED BY <1>2, <1>5 DEF f


LEMMA TaughtGrows ==
  ASSUME NEW e, Grown(e), NEW b \in Nat, NEW c \in Nat, b <= MaxBook, b + c <= MaxTotal
  PROVE  Grown(Taught(e, b, c)) /\ Same(e, Taught(e, b, c)) /\ Taught(e, b, c).book = b
         /\ Taught(e, b, c).char = c
<1> DEFINE f == Taught(e, b, c)
<1>1. e \in CastSet
  BY DEF Grown
<1>2. /\ f \in CastSet /\ Same(e, f) /\ f.lv = e.lv /\ f.id = e.id
      /\ f.book = b /\ f.char = c
      /\ f.ex = e.ex /\ f.plus = e.plus /\ f.ultra = e.ultra /\ f.star = e.star
  BY <1>1 DEF CastSet, Taught, Same
<1>3. MaxLv(f) = MaxLv(e)
  BY <1>2 DEF MaxLv
<1> HIDE DEF f
<1>4. Grown(f)
  BY <1>2, <1>3 DEF Grown
<1> QED BY <1>2, <1>4 DEF f

LEMMA LockedGrows ==
  ASSUME NEW e, Grown(e)
  PROVE  Grown(Locked(e)) /\ Same(e, Locked(e)) /\ Locked(e).book = e.book
         /\ Locked(e).char = e.char
<1> DEFINE f == Locked(e)
<1>1. e \in CastSet
  BY DEF Grown
<1>2. /\ f \in CastSet /\ Same(e, f) /\ f.lv = e.lv /\ f.id = e.id
      /\ f.book = e.book /\ f.char = e.char
      /\ f.ex = e.ex /\ f.plus = e.plus /\ f.ultra = e.ultra /\ f.star = e.star
  BY <1>1 DEF CastSet, Locked, Same
<1>3. MaxLv(f) = MaxLv(e)
  BY <1>2 DEF MaxLv
<1> HIDE DEF f
<1>4. Grown(f)
  BY <1>2, <1>3 DEF Grown
<1> QED BY <1>2, <1>4 DEF f

LEMMA CladGrows ==
  ASSUME NEW e, Grown(e), NEW s \in Skins \cup {NormalSkin}
  PROVE  /\ Grown(Clad(e, s)) /\ Clad(e, s).skin = s
         /\ Clad(e, s).id = e.id /\ Clad(e, s).serial = e.serial
         /\ Clad(e, s).book = e.book /\ Clad(e, s).char = e.char
<1> DEFINE f == Clad(e, s)
<1>1. e \in CastSet
  BY DEF Grown
<1>2. /\ f \in CastSet /\ f.lv = e.lv /\ f.id = e.id /\ f.serial = e.serial /\ f.skin = s
      /\ f.book = e.book /\ f.char = e.char
      /\ f.ex = e.ex /\ f.plus = e.plus /\ f.ultra = e.ultra /\ f.star = e.star
  BY <1>1 DEF CastSet, Clad
<1>3. MaxLv(f) = MaxLv(e)
  BY <1>2 DEF MaxLv
<1> HIDE DEF f
<1>4. Grown(f)
  BY <1>2, <1>3 DEF Grown
<1> QED BY <1>2, <1>4 DEF f

(* The boost of the tutorial fits under the stars a character has.         *)
LEMMA BoostGrows ==
  ASSUME NEW e, Grown(e), e.id \in TutorialCasts
  PROVE  Grown(Boost(e)) /\ Same(e, Boost(e)) /\ Boost(e).book + Boost(e).char = TutorialLimit
<1>1. e \in CastSet /\ CharRow[e.id].star <= e.star /\ e.star \in Nat
  BY DEF Grown, CastSet
<1>2. /\ TutorialLv \in Nat /\ TutorialLv > 0 /\ TutorialLimit \in Nat /\ MaxBook \in Nat
      /\ TutorialLimit <= MaxTotal /\ TutorialLv <= LvPerStar * CharRow[e.id].star
      /\ CharRow[e.id].star \in Nat
  <2>1. /\ TutorialLv \in Nat /\ TutorialLv > 0 /\ TutorialLimit \in Nat /\ MaxBook \in Nat
        /\ TutorialLimit <= MaxTotal /\ MaxStar \in Nat
    BY Consts
  <2>2. e.id \in Chars /\ TutorialLv <= LvPerStar * CharRow[e.id].star
    BY Consts
  <2>3. CharRow[e.id].star \in 1..MaxStar
    BY <2>2, Consts
  <2> QED BY <2>1, <2>2, <2>3
<1>3. /\ LvPerStar * CharRow[e.id].star \in Nat
      /\ LvPerStar * CharRow[e.id].star <= LvPerStar * e.star
  BY <1>1, <1>2, CapGrows
<1>4. MaxLv(e) \in Nat /\ MaxLv(e) >= LvPerStar * e.star /\ LvPerStar * e.star \in Nat
  BY <1>1, CapIsNat
<1>5. TutorialLv \in 1..MaxLv(e)
  BY <1>2, <1>3, <1>4
<1>6. Grown(Taught(e, 0, TutorialLimit)) /\ Same(e, Taught(e, 0, TutorialLimit))
      /\ Taught(e, 0, TutorialLimit).book = 0 /\ Taught(e, 0, TutorialLimit).char = TutorialLimit
  BY <1>2, TaughtGrows
<1>7. MaxLv(Taught(e, 0, TutorialLimit)) = MaxLv(e)
  BY <1>1 DEF CastSet, Taught, MaxLv
<1>8. Boost(e) = Leveled(Taught(e, 0, TutorialLimit), TutorialLv)
  BY <1>1 DEF CastSet, Boost, Leveled, Taught
<1> DEFINE t == Taught(e, 0, TutorialLimit)
<1>9. Grown(Leveled(t, TutorialLv)) /\ Same(t, Leveled(t, TutorialLv))
  BY <1>5, <1>6, <1>7, LeveledGrows
<1>10. Leveled(t, TutorialLv).book = t.book /\ Leveled(t, TutorialLv).char = t.char
  <2>1. t \in CastSet
    BY <1>6 DEF Grown
  <2> HIDE DEF t
  <2> QED BY <2>1 DEF Leveled, CastSet
<1>11. Boost(e).book + Boost(e).char = TutorialLimit
  BY <1>2, <1>6, <1>8, <1>10
<1>12. Same(e, Boost(e))
  BY <1>6, <1>8, <1>9 DEF Same
<1> QED BY <1>8, <1>9, <1>11, <1>12

LEMMA PlainGrows ==
  ASSUME NEW e, Grown(e)
  PROVE  Grown(Plain(e)) /\ Same(e, Plain(e)) /\ Plain(e).book + Plain(e).char = 0
<1> DEFINE f == Plain(e)
<1>1. e \in CastSet
  BY DEF Grown
<1>2. /\ f \in CastSet /\ Same(e, f) /\ f.id = e.id /\ f.star = e.star /\ f.ultra = e.ultra
      /\ f.lv = 1 /\ f.plus = 0 /\ f.char = 0 /\ f.book = 0 /\ f.ex = 0
  BY <1>1 DEF CastSet, Plain, Same
<1>3. /\ e.star \in Nat /\ e.star >= 1 /\ MaxEx \in Nat /\ MaxPlus \in Nat /\ MaxBook \in Nat
      /\ MaxTotal \in Nat /\ LvPerStar \in Nat /\ LvPerStar > 0
  BY <1>1, Consts DEF Grown, CastSet
<1> HIDE DEF f
<1>4. LvPerStar * 1 \in Nat /\ LvPerStar * 1 <= LvPerStar * e.star
  BY <1>3, CapGrows
<1>5. MaxLv(f) \in Nat /\ MaxLv(f) >= LvPerStar * e.star /\ LvPerStar * e.star \in Nat
  BY <1>2, CapIsNat
<1>6. f.lv \in 1..MaxLv(f)
  <2>1. LvPerStar * 1 = LvPerStar
    BY <1>3
  <2> QED BY <1>2, <1>3, <1>4, <1>5, <2>1
<1>7. f.ex <= MaxEx /\ f.plus <= MaxPlus /\ f.book <= MaxBook /\ f.book + f.char <= MaxTotal
  BY <1>2, <1>3
<1>8. Grown(f)
  BY <1>2, <1>6, <1>7 DEF Grown
<1> QED BY <1>2, <1>8 DEF f

LEMMA NewIsGrown ==
  ASSUME NEW c \in Chars, NEW serial \in Nat
  PROVE  /\ Grown(NewCast(c, CharRow[c].star, serial))
         /\ NewCast(c, CharRow[c].star, serial).id = c
         /\ NewCast(c, CharRow[c].star, serial).serial = serial
         /\ NewCast(c, CharRow[c].star, serial).skin = NormalSkin
         /\ NewCast(c, CharRow[c].star, serial).book + NewCast(c, CharRow[c].star, serial).char = 0
<1> DEFINE f == NewCast(c, CharRow[c].star, serial)
<1>1. /\ CharRow[c].star \in 1..MaxStar /\ MaxStar \in Nat /\ MaxEx \in Nat /\ MaxPlus \in Nat
      /\ MaxUltra \in Nat /\ MaxBook \in Nat /\ MaxTotal \in Nat
      /\ LvPerStar \in Nat /\ LvPerStar > 0
  BY Consts
<1>2. /\ f \in CastSet /\ f.id = c /\ f.serial = serial /\ f.skin = NormalSkin
      /\ f.star = CharRow[c].star /\ f.ultra = 0
      /\ f.lv = 1 /\ f.plus = 0 /\ f.char = 0 /\ f.book = 0 /\ f.ex = 0
  BY <1>1 DEF CastSet, NewCast
<1> HIDE DEF f
<1>3. LvPerStar * 1 \in Nat /\ LvPerStar * 1 <= LvPerStar * f.star /\ LvPerStar * 1 = LvPerStar
  BY <1>1, <1>2, CapGrows
<1>4. MaxLv(f) \in Nat /\ MaxLv(f) >= LvPerStar * f.star /\ LvPerStar * f.star \in Nat
  BY <1>2, CapIsNat
<1>5. f.lv \in 1..MaxLv(f)
  BY <1>1, <1>2, <1>3, <1>4
<1>6. /\ f.ex <= MaxEx /\ f.plus <= MaxPlus /\ f.ultra <= MaxUltra /\ f.book <= MaxBook
      /\ f.book + f.char <= MaxTotal /\ f.star \in 1..MaxStar /\ CharRow[f.id].star <= f.star
  BY <1>1, <1>2
<1>7. Grown(f)
  BY <1>2, <1>5, <1>6 DEF Grown
<1> QED BY <1>2, <1>7 DEF f


-----------------------------------------------------------------------------
(* The invariant.                                                          *)

Counts ==
  /\ made \in Nat /\ fed \in Nat /\ coins \in Nat /\ gems \in Nat
  /\ impart \in [Groups -> 0..ImpartLimit] /\ skins \in [Chars -> SUBSET Skins]
  /\ tutorial \in {"runs", "over", "stamped"}
Placed ==
  /\ forms \in [Places -> Nat]
  /\ \A p \in Places : forms[p] \in DOMAIN roster \cup {Empty}

RosterInv ==
  /\ Counts /\ IsRoster(roster, made) /\ Dressed(roster, skins)
  /\ Placed /\ PartyIsChosen /\ ListAgrees /\ LevelsAreFed

(* The counters of a step that touches none of the others.                 *)
Counted ==
  /\ coins' \in Nat /\ gems' \in Nat /\ impart' \in [Groups -> 0..ImpartLimit]
  /\ fed' \in Nat /\ tutorial' \in {"runs", "over", "stamped"}

LEMMA InvSuffices ==
  ASSUME RosterInv
  PROVE  NamesAreLive /\ LevelsAreFed
<1>1. \A u \in DOMAIN roster : Grown(roster[u]) /\ Dressed(roster, skins)
  BY DEF RosterInv, IsRoster
<1>2. ASSUME NEW u \in DOMAIN roster PROVE CastOK(roster[u])
  <2> DEFINE e == roster[u]
  <2>1. Grown(e) /\ (e.skin = NormalSkin \/ e.skin \in skins[e.id])
    BY <1>1 DEF Dressed
  <2> HIDE DEF e
  <2>2. /\ e.ex \in Nat /\ e.plus \in Nat /\ e.ultra \in Nat /\ e.book \in Nat /\ e.char \in Nat
        /\ MaxEx \in Nat /\ MaxPlus \in Nat /\ MaxUltra \in Nat /\ MaxBook \in Nat
    BY <2>1, Consts DEF Grown, CastSet
  <2>3. e.ex <= MaxEx /\ e.plus <= MaxPlus /\ e.ultra <= MaxUltra /\ e.book <= MaxBook
    BY <2>1 DEF Grown
  <2>4. e.ex \in 0..MaxEx /\ e.plus \in 0..MaxPlus /\ e.ultra \in 0..MaxUltra
        /\ e.book \in 0..MaxBook /\ e.char >= 0
    BY <2>2, <2>3
  <2>5. e.star \in 1..MaxStar /\ e.lv \in 1..MaxLv(e) /\ e.book + e.char <= MaxTotal
    BY <2>1 DEF Grown
  <2>6. CastOK(e)
    <3>1. e.skin = NormalSkin \/ e.skin \in skins[e.id]
      BY <2>1
    <3> HIDE DEF NormalSkin, MaxLv
    <3> QED BY <3>1, <2>4, <2>5, Zenon DEF CastOK
  <2> QED BY <2>6 DEF e
<1>3. TypeOK
  BY <1>2 DEF RosterInv, Counts, Placed, TypeOK
<1> QED BY <1>3 DEF RosterInv, NamesAreLive

(* Casts that grow or go leave every name in place, as long as none that   *)
(* stands in a formation goes.                                             *)
LEMMA GrowKeeps ==
  ASSUME RosterInv, Change(roster, roster'), Counted,
         InParty \cap (DOMAIN roster \ DOMAIN roster') = {},
         forms' = forms, skins' = skins, chosen' = chosen, made' = made,
         shown' = All', Levels(roster') <= fed'
  PROVE  RosterInv'
<1>1. Counts'
  BY DEF RosterInv, Counts, Counted
<1>2. IsRoster(roster', made')
  BY ChangeIsRoster DEF RosterInv, Counts
<1>3. Dressed(roster', skins')
  <2>1. \A u \in DOMAIN roster' :
          /\ u \in DOMAIN roster /\ roster'[u].skin = roster[u].skin
          /\ roster'[u].id = roster[u].id
    BY DEF Change, Same
  <2> QED BY <2>1 DEF RosterInv, Dressed
<1>4. Placed'
  <2>1. \A p \in Places : forms[p] # Empty => forms[p] \in InParty
    BY DEF InParty
  <2> QED BY <2>1 DEF RosterInv, Placed
<1>5. PartyIsChosen'
  <2>1. \A u \in DOMAIN roster' : u \in DOMAIN roster /\ roster'[u].serial = roster[u].serial
    BY DEF Change, Same
  <2> QED BY <2>1 DEF RosterInv, PartyIsChosen
<1> QED BY <1>1, <1>2, <1>3, <1>4, <1>5 DEF RosterInv, ListAgrees, LevelsAreFed

(* Who gains no skill level.                                               *)
LEMMA NoLevels ==
  ASSUME RosterInv, NEW s, Change(roster, s),
         \A u \in DOMAIN s : \/ s[u].book + s[u].char = 0
                             \/ s[u].book + s[u].char <= roster[u].book + roster[u].char
  PROVE  Levels(s) <= fed
<1>1. made \in Nat /\ fed \in Nat /\ IsRoster(roster, made) /\ Levels(roster) <= fed
  BY DEF RosterInv, Counts, LevelsAreFed
<1>2. IsRoster(s, made)
  BY <1>1, ChangeIsRoster
<1>3. \A u \in DOMAIN s : u \in DOMAIN roster
  BY DEF Change
<1>4. Levels(s) <= Levels(roster)
  BY <1>1, <1>2, <1>3, LevelsAtMost
<1>5. Levels(s) \in Nat /\ Levels(roster) \in Nat
  BY <1>1, <1>2, BookType
<1> QED BY <1>1, <1>4, <1>5

LEMMA GrowsIsEats ==
  ASSUME RosterInv, NEW uid \in DOMAIN roster, NEW e, Grows(uid, e)
  PROVE  Eats(uid, e, {})
BY DEF RosterInv, IsRoster, Grows, Eats

LEMMA EatsIsChange ==
  ASSUME RosterInv, NEW uid \in DOMAIN roster, NEW e, NEW gone, Eats(uid, e, gone),
         uid \notin gone, Grown(e), Same(roster[uid], e)
  PROVE  /\ Change(roster, roster') /\ DOMAIN roster' = DOMAIN roster \ gone
         /\ roster'[uid] = e
         /\ \A u \in DOMAIN roster' : u # uid => roster'[u] = roster[u]
<1>1. /\ DOMAIN roster' = DOMAIN roster \ gone /\ uid \in DOMAIN roster'
      /\ roster' = [u \in DOMAIN roster' |-> roster'[u]]
      /\ roster'[uid] = e
      /\ \A u \in DOMAIN roster' : u # uid => roster'[u] = roster[u]
  BY DEF Eats
<1>2. \A u \in DOMAIN roster : Grown(roster[u]) /\ Same(roster[u], roster[u])
  BY DEF RosterInv, IsRoster, Same
<1>3. \A u \in DOMAIN roster' : Grown(roster'[u]) /\ Same(roster[u], roster'[u])
  BY <1>1, <1>2
<1> QED BY <1>1, <1>3 DEF Change

(* The short answers tell the client all that has changed.                 *)
LEMMA OneTells ==
  ASSUME RosterInv, NEW uid \in DOMAIN roster, NEW e, NEW gone, Eats(uid, e, gone),
         uid \notin gone, forms' = forms, skins' = skins,
         shown' = OneAndRemove(shown, uid, gone)
  PROVE  shown' = All'
<1>1. shown = [roster |-> roster, forms |-> forms, skins |-> skins]
  BY DEF RosterInv, ListAgrees, All
<1>2. shown' = [shown EXCEPT !.roster =
                   [u \in (DOMAIN shown.roster \cup {uid}) \ gone |->
                      IF u = uid THEN roster'[uid] ELSE shown.roster[u]]]
  BY DEF OneAndRemove
<1>3. shown.roster = roster
  BY <1>1
<1>4. [u \in (DOMAIN roster \cup {uid}) \ gone |-> IF u = uid THEN roster'[uid] ELSE roster[u]]
        = roster'
  BY DEF Eats
<1>5. shown' = [shown EXCEPT !.roster = roster']
  BY <1>2, <1>3, <1>4
<1> QED BY <1>1, <1>5 DEF All

(* One cast grows, some that stand in no formation are eaten.              *)
LEMMA OneGrows ==
  ASSUME RosterInv, NEW uid \in DOMAIN roster, NEW e, NEW gone, Eats(uid, e, gone),
         uid \notin gone, Grown(e), Same(roster[uid], e),
         e.book + e.char <= roster[uid].book + roster[uid].char,
         gone \cap InParty = {}, Counted, fed' = fed,
         forms' = forms, skins' = skins, chosen' = chosen, made' = made, shown' = All'
  PROVE  RosterInv'
<1>1. /\ Change(roster, roster') /\ DOMAIN roster' = DOMAIN roster \ gone
      /\ roster'[uid] = e
      /\ \A u \in DOMAIN roster' : u # uid => roster'[u] = roster[u]
  BY EatsIsChange
<1>2. \A u \in DOMAIN roster : roster[u].book \in Nat /\ roster[u].char \in Nat
  BY DEF RosterInv, IsRoster, Grown, CastSet
<1>3. \A u \in DOMAIN roster' :
        roster'[u].book + roster'[u].char <= roster[u].book + roster[u].char
  BY <1>1, <1>2
<1>4. Levels(roster') <= fed
  BY <1>1, <1>3, NoLevels
<1>5. InParty \cap (DOMAIN roster \ DOMAIN roster') = {}
  BY <1>1
<1> QED BY <1>1, <1>4, <1>5, GrowKeeps


-----------------------------------------------------------------------------
(* The actions.                                                            *)

(* A growth that spends coins and gems only.                               *)
LEMMA PaidGrows ==
  ASSUME RosterInv, NEW uid \in DOMAIN roster, NEW e, NEW gone, Eats(uid, e, gone),
         uid \notin gone, Grown(e), Same(roster[uid], e),
         e.book = roster[uid].book, e.char = roster[uid].char,
         gone \cap InParty = {}, NEW c \in Nat, NEW g \in Nat, Pay(c, g),
         UNCHANGED <<forms, skins, impart, tutorial, ghost>>,
         shown' = All'
  PROVE  RosterInv'
<1>1. Counted
  BY DEF RosterInv, Counts, Counted, Pay, ghost
<1>2. roster[uid].book \in Nat /\ roster[uid].char \in Nat
  BY DEF RosterInv, IsRoster, Grown, CastSet
<1>3. e.book + e.char <= roster[uid].book + roster[uid].char
  BY <1>2
<1>4. fed' = fed /\ forms' = forms /\ skins' = skins /\ chosen' = chosen /\ made' = made
  BY DEF ghost
<1> QED BY <1>1, <1>3, <1>4, OneGrows

LEMMA CastIsGrown ==
  ASSUME RosterInv, NEW uid \in DOMAIN roster
  PROVE  /\ Grown(roster[uid]) /\ roster[uid] \in CastSet
         /\ MaxLv(roster[uid]) \in Nat /\ roster[uid].lv \in 1..MaxLv(roster[uid])
         /\ roster[uid].plus \in Nat /\ roster[uid].plus <= MaxPlus
         /\ roster[uid].ultra \in Nat
         /\ roster[uid].book \in Nat /\ roster[uid].char \in Nat
<1>1. Grown(roster[uid])
  BY DEF RosterInv, IsRoster
<1>2. roster[uid] \in CastSet /\ MaxLv(roster[uid]) \in Nat
  BY <1>1, CapIsNat DEF Grown
<1> QED BY <1>1, <1>2 DEF Grown, CastSet

LEMMA LevelUpKeeps ==
  ASSUME RosterInv, NEW uid \in DOMAIN roster, NEW n \in Nat, LevelUp(uid, n)
  PROVE  RosterInv'
<1> DEFINE e == roster[uid]
           top == IF e.lv < MaxLv(e) THEN Lesser(e.lv + n, MaxLv(e)) ELSE e.lv
<1>1. Grown(e) /\ e \in CastSet /\ MaxLv(e) \in Nat /\ e.lv \in 1..MaxLv(e)
  BY CastIsGrown
<1>2. top \in 1..MaxLv(e)
  <2> HIDE DEF e
  <2> QED BY <1>1 DEF Lesser
<1>3. Pay(1, 0) /\ Grows(uid, Leveled(e, top)) /\ One(uid)
      /\ UNCHANGED <<forms, skins, impart, tutorial, ghost>>
  BY DEF LevelUp, Leveled
<1> HIDE DEF top
<1>4. Grown(Leveled(e, top)) /\ Same(e, Leveled(e, top))
  BY <1>1, <1>2, LeveledGrows
<1>5. Leveled(e, top).book = e.book /\ Leveled(e, top).char = e.char
  BY <1>1 DEF Leveled, CastSet
<1>6. Eats(uid, Leveled(e, top), {})
  BY <1>3, GrowsIsEats
<1>7. shown' = All'
  BY <1>3, <1>6, OneTells DEF One
<1> QED BY <1>3, <1>4, <1>5, <1>6, <1>7, PaidGrows

LEMMA RankUpKeeps ==
  ASSUME RosterInv, NEW uid \in DOMAIN roster, RankUp(uid)
  PROVE  RosterInv'
<1> DEFINE e == roster[uid]
<1>1. Grown(e)
  BY CastIsGrown
<1>2. e.star < MaxStar /\ Pay(1, 1) /\ Grows(uid, Starred(e)) /\ One(uid)
      /\ UNCHANGED <<forms, skins, impart, tutorial, ghost>>
  BY DEF RankUp, Starred
<1>3. /\ Grown(Starred(e)) /\ Same(e, Starred(e)) /\ Starred(e).book = e.book
      /\ Starred(e).char = e.char
  BY <1>1, <1>2, StarredGrows
<1>4. Eats(uid, Starred(e), {})
  BY <1>2, GrowsIsEats
<1>5. shown' = All'
  BY <1>2, <1>4, OneTells DEF One
<1> QED BY <1>2, <1>3, <1>4, <1>5, PaidGrows

LEMMA SuperRankUpKeeps ==
  ASSUME RosterInv, NEW uid \in DOMAIN roster, SuperRankUp(uid)
  PROVE  RosterInv'
<1> DEFINE e == roster[uid]
<1>1. Grown(e)
  BY CastIsGrown
<1>2. e.star >= MaxStar /\ e.ex < MaxEx /\ Pay(1, 0) /\ Grows(uid, Extra(e)) /\ One(uid)
      /\ UNCHANGED <<forms, skins, impart, tutorial, ghost>>
  BY DEF SuperRankUp, SuperStarred, Extra
<1>3. /\ Grown(Extra(e)) /\ Same(e, Extra(e)) /\ Extra(e).book = e.book
      /\ Extra(e).char = e.char
  BY <1>1, <1>2, ExtraGrows
<1>4. Eats(uid, Extra(e), {})
  BY <1>2, GrowsIsEats
<1>5. shown' = All'
  BY <1>2, <1>4, OneTells DEF One
<1> QED BY <1>2, <1>3, <1>4, <1>5, PaidGrows

LEMMA FoodFacts ==
  ASSUME RosterInv, NEW uid \in DOMAIN roster, NEW mats, NEW some \in SUBSET Food(uid, mats)
  PROVE  /\ some \subseteq DOMAIN roster /\ uid \notin some
         /\ IsFiniteSet(some) /\ Cardinality(some) \in Nat
<1>1. some \subseteq DOMAIN roster /\ uid \notin some
  BY DEF Food
<1>2. IsFiniteSet(DOMAIN roster)
  BY RosterIsFinite DEF RosterInv, Counts, IsRoster
<1>3. IsFiniteSet(some)
  BY <1>1, <1>2, FS_Subset
<1> QED BY <1>1, <1>3, FS_CardinalityType

LEMMA TranscendKeeps ==
  ASSUME RosterInv, NEW uid \in DOMAIN roster, NEW mats, Transcend(uid, mats)
  PROVE  RosterInv'
<1> DEFINE e == roster[uid]
           food == Food(uid, mats)
           alike == {m \in food : CharRow[roster[m].id].job = CharRow[roster[uid].id].job}
           points == Cardinality(food) + Cardinality(alike)
           top == Lesser(e.plus + points, MaxPlus)
<1>1. Grown(e) /\ e.plus \in Nat /\ e.plus <= MaxPlus /\ MaxPlus \in Nat
  BY CastIsGrown, Consts
<1>2. food \in SUBSET Food(uid, mats) /\ alike \in SUBSET Food(uid, mats)
  OBVIOUS
<1>3. /\ food \cap InParty = {} /\ Pay(1, 0) /\ Eats(uid, Plussed(e, top), food)
      /\ UNCHANGED <<forms, skins, impart, tutorial, ghost>> /\ shown' = All'
  BY DEF Transcend, Plussed, Whole
<1> HIDE DEF food, alike, e
<1>4. uid \notin food /\ Cardinality(food) \in Nat /\ Cardinality(alike) \in Nat
  BY <1>2, FoodFacts
<1>5. top \in Nat /\ e.plus <= top /\ top <= MaxPlus
  BY <1>1, <1>4 DEF Lesser
<1> HIDE DEF top
<1>6. /\ Grown(Plussed(e, top)) /\ Same(e, Plussed(e, top))
      /\ Plussed(e, top).book = e.book /\ Plussed(e, top).char = e.char
  BY <1>1, <1>5, PlussedGrows
<1> QED BY <1>3, <1>4, <1>6, PaidGrows DEF e

LEMMA UltraTranscendKeeps ==
  ASSUME RosterInv, NEW uid \in DOMAIN roster, NEW mats, UltraTranscend(uid, mats)
  PROVE  RosterInv'
<1> DEFINE e == roster[uid]
           food == {m \in Food(uid, mats) : roster[m].id = roster[uid].id /\ m \notin InParty}
           top == Lesser(e.ultra + UltraStep * Cardinality(food), MaxUltra)
<1>1. Grown(e) /\ e.ultra \in Nat /\ MaxUltra \in Nat /\ UltraStep \in Nat
  BY CastIsGrown, Consts
<1>2. food \in SUBSET Food(uid, mats) /\ food \cap InParty = {}
  OBVIOUS
<1>3. /\ Pay(1, 0) /\ Eats(uid, Ultra(e, top), food)
      /\ UNCHANGED <<forms, skins, impart, tutorial, ghost>>
      /\ shown' = OneAndRemove(shown, uid, food)
  BY DEF UltraTranscend, Duplicates, Ultra, Served
<1> HIDE DEF food, e
<1>4. uid \notin food /\ Cardinality(food) \in Nat
  BY <1>2, FoodFacts
<1>5. UltraStep * Cardinality(food) \in Nat
  BY <1>1, <1>4
<1>6. top \in Nat /\ top <= MaxUltra
  BY <1>1, <1>5 DEF Lesser
<1> HIDE DEF top
<1>7. /\ Grown(Ultra(e, top)) /\ Same(e, Ultra(e, top))
      /\ Ultra(e, top).book = e.book /\ Ultra(e, top).char = e.char
  BY <1>1, <1>6, UltraGrows
<1>8. shown' = All'
  BY <1>3, <1>4, OneTells
<1> QED BY <1>2, <1>3, <1>4, <1>7, <1>8, PaidGrows DEF e


(* Some elements are taken out, and one may gain what they had and more.   *)
LEMMA TotalFed ==
  ASSUME NEW S, IsFiniteSet(S), NEW f \in [S -> Nat], NEW food \in SUBSET S,
         NEW uid \in S \ food, NEW books \in [food -> Nat], NEW chars \in [food -> Nat],
         \A m \in food : f[m] = books[m] + chars[m],
         NEW g \in [S \ food -> Nat], \A u \in S \ food : u # uid => g[u] = f[u],
         NEW gain \in Nat, NEW in \in Nat, in = Total(books) + Total(chars),
         g[uid] <= f[uid] + in + gain
  PROVE  Total(g) <= Total(f) + gain
<1> DEFINE rest == S \ food
           k == [u \in rest \ {uid} |-> f[u]]
           both == [m \in food |-> f[m]]
           left == [u \in rest |-> f[u]]
<1>1. IsFiniteSet(food) /\ IsFiniteSet(rest) /\ IsFiniteSet(rest \ {uid})
  BY FS_Subset, FS_Difference
<1>2. /\ both \in [food -> Nat] /\ \A m \in food : both[m] = f[m]
      /\ \A m \in food : both[m] = books[m] + chars[m]
  OBVIOUS
<1>3. left \in [rest -> Nat] /\ left[uid] = f[uid]
  OBVIOUS
<1>4. k \in [rest \ {uid} -> Nat]
  OBVIOUS
<1>5. uid \in rest /\ g \in [rest -> Nat]
  OBVIOUS
<1>a. Part(both, f, food) /\ Part(left, f, rest)
  BY DEF Part
<1>b. Part(k, left, rest \ {uid}) /\ Part(k, g, rest \ {uid})
  BY DEF Part
<1> HIDE DEF both, left, k
<1>6. Total(both) = Total(books) + Total(chars)
  BY <1>1, <1>2, TotalOfBoth
<1>7. Total(f) = Total(both) + Total(left)
  BY <1>a, TotalSplit
<1>8. /\ Total(left) = left[uid] + Total(k)
      /\ Total(g) = g[uid] + Total(k)
  <2> HIDE DEF rest
  <2>1. Total(left) = left[uid] + Total(k)
    BY <1>1, <1>3, <1>5, <1>b, TotalTakeOut
  <2>2. Total(g) = g[uid] + Total(k)
    BY <1>1, <1>5, <1>b, TotalTakeOut
  <2> QED BY <2>1, <2>2
<1>9. Total(k) \in Nat
  BY <1>1, <1>4, TotalIsNat
<1>10. left[uid] = f[uid] /\ f[uid] \in Nat /\ g[uid] \in Nat
  BY <1>3, <1>5
<1> QED BY <1>6, <1>7, <1>8, <1>9, <1>10

LEMMA FoodLevels ==
  ASSUME RosterInv, NEW uid \in DOMAIN roster, NEW e, NEW food \in SUBSET DOMAIN roster,
         uid \notin food, Eats(uid, e, food), Grown(e), Same(roster[uid], e),
         NEW gain \in Nat,
         e.book + e.char <= roster[uid].book + roster[uid].char
                              + (Total([m \in food |-> roster[m].book])
                              + Total([m \in food |-> roster[m].char])) + gain
  PROVE  Levels(roster') <= Levels(roster) + gain
<1> DEFINE S == DOMAIN roster
           f == Book(roster)
           g == Book(roster')
           books == [m \in food |-> roster[m].book]
           chars == [m \in food |-> roster[m].char]
           in == Total(books) + Total(chars)
<1>1. /\ Change(roster, roster') /\ DOMAIN roster' = S \ food /\ roster'[uid] = e
      /\ \A u \in S \ food : u # uid => roster'[u] = roster[u]
  BY EatsIsChange
<1>2. made \in Nat /\ IsRoster(roster, made) /\ IsRoster(roster', made)
  BY <1>1, ChangeIsRoster DEF RosterInv, Counts
<1>3. /\ IsFiniteSet(S) /\ f \in [S -> Nat] /\ Levels(roster) = Total(f)
      /\ g \in [S \ food -> Nat] /\ Levels(roster') = Total(g)
  BY <1>1, <1>2, BookType
<1>4. /\ \A u \in S : f[u] = roster[u].book + roster[u].char
      /\ \A u \in S \ food : g[u] = roster'[u].book + roster'[u].char
  BY <1>1, BookOf
<1>5. \A u \in S : roster[u].book \in Nat /\ roster[u].char \in Nat
  BY CastIsGrown
<1>6. uid \in S \ food /\ food \in SUBSET S
  OBVIOUS
<1>7. /\ books \in [food -> Nat] /\ chars \in [food -> Nat]
      /\ \A m \in food : f[m] = books[m] + chars[m]
  BY <1>4, <1>5
<1>8. \A u \in S \ food : u # uid => g[u] = f[u]
  BY <1>1, <1>4
<1>9. g[uid] = e.book + e.char /\ f[uid] = roster[uid].book + roster[uid].char
  BY <1>1, <1>4, <1>6
<1>10. g[uid] <= f[uid] + in + gain
  BY <1>9
<1> HIDE DEF f, g, S, books, chars
<1>11. in \in Nat
  <2>1. IsFiniteSet(food)
    BY <1>3, <1>6, FS_Subset
  <2>2. Total(books) \in Nat /\ Total(chars) \in Nat
    BY <1>7, <2>1, TotalIsNat
  <2> QED BY <2>2
<1>12. in = Total(books) + Total(chars)
  OBVIOUS
<1> HIDE DEF in
<1>13. Total(g) <= Total(f) + gain
  BY <1>3, <1>6, <1>7, <1>8, <1>10, <1>11, <1>12, TotalFed
<1> QED BY <1>3, <1>13

(* A mentor's level moves, books fill up, and every material counts once.  *)
LEMMA SkillUpKeeps ==
  ASSUME RosterInv, NEW uid \in DOMAIN roster, NEW mats, SkillUp(uid, mats)
  PROVE  RosterInv'
<1> DEFINE food == Food(uid, mats)
           e == roster[uid]
           side(b) == {m \in food : CharRow[roster[m].id].bookside = b}
           on == side(TRUE)
           off == side(FALSE)
           books == Total([m \in food |-> roster[m].book])
           chars == Total([m \in food |-> roster[m].char])
           book == Lesser(e.book + books + Cardinality(on), MaxBook)
           more == Lesser(e.char + chars + Cardinality(off), CharRoom(book))
           char == Greater(more, 0)
<1>1. /\ Grown(e) /\ e.book \in Nat /\ e.char \in Nat
      /\ MaxBook \in Nat /\ MaxTotal \in Nat /\ MaxBook <= MaxTotal
  BY CastIsGrown, Consts
<1>2. /\ food \cap InParty = {} /\ Pay(1, 0) /\ Eats(uid, Taught(e, book, char), food)
      /\ fed' = fed + Cardinality(food)
      /\ UNCHANGED <<forms, skins, impart, tutorial, made, edits, chosen>>
      /\ shown' = All'
  BY DEF SkillUp, Taught, Whole
<1>3. /\ food \in SUBSET Food(uid, mats) /\ on \in SUBSET Food(uid, mats)
      /\ off \in SUBSET Food(uid, mats) /\ on \cap off = {} /\ on \cup off \subseteq food
  OBVIOUS
<1> HIDE DEF food, on, off
<1>4. /\ food \subseteq DOMAIN roster /\ uid \notin food /\ IsFiniteSet(food)
      /\ Cardinality(food) \in Nat
      /\ IsFiniteSet(on) /\ Cardinality(on) \in Nat
      /\ IsFiniteSet(off) /\ Cardinality(off) \in Nat
  BY <1>3, FoodFacts
<1>5. Cardinality(on) + Cardinality(off) <= Cardinality(food)
  <2>1. Cardinality(on \cup off) = Cardinality(on) + Cardinality(off) - Cardinality(on \cap off)
    BY <1>4, FS_Union
  <2>2. Cardinality(on \cap off) = 0
    BY <1>3, FS_EmptySet
  <2>3. Cardinality(on \cup off) <= Cardinality(food)
    BY <1>3, <1>4, FS_Subset
  <2> QED BY <1>4, <2>1, <2>2, <2>3
<1>6. books \in Nat /\ chars \in Nat
  <2> DEFINE fb == [m \in food |-> roster[m].book]
             fc == [m \in food |-> roster[m].char]
  <2>1. fb \in [food -> Nat] /\ fc \in [food -> Nat]
    BY <1>4, CastIsGrown
  <2> HIDE DEF fb, fc
  <2>2. Total(fb) \in Nat /\ Total(fc) \in Nat
    BY <1>4, <2>1, TotalIsNat
  <2> QED BY <2>2 DEF fb, fc
<1> HIDE DEF books, chars, e
<1>7. book \in Nat /\ book <= MaxBook /\ book <= e.book + books + Cardinality(on)
  BY <1>1, <1>4, <1>6 DEF Lesser
<1> HIDE DEF book
<1>8. char \in Nat /\ book + char <= MaxTotal /\ char <= e.char + chars + Cardinality(off)
  BY <1>1, <1>4, <1>6, <1>7 DEF Lesser, Greater, CharRoom
<1> HIDE DEF char
<1>9. /\ Grown(Taught(e, book, char)) /\ Same(e, Taught(e, book, char))
      /\ Taught(e, book, char).book = book /\ Taught(e, book, char).char = char
  BY <1>1, <1>7, <1>8, TaughtGrows
<1>10. book + char <= e.book + e.char + books + chars + Cardinality(food)
  BY <1>1, <1>4, <1>5, <1>6, <1>7, <1>8
<1>11. Levels(roster') <= Levels(roster) + Cardinality(food)
  <2> DEFINE t == Taught(e, book, char)
  <2>1. t.book + t.char <= e.book + e.char + (books + chars) + Cardinality(food)
    BY <1>1, <1>4, <1>6, <1>9, <1>10 DEF e
  <2> HIDE DEF t
  <2>2. Grown(t) /\ Same(e, t) /\ Eats(uid, t, food) /\ food \in SUBSET DOMAIN roster
    BY <1>2, <1>4, <1>9 DEF t
  <2> QED BY <1>4, <2>1, <2>2, FoodLevels DEF e, books, chars
<1>12. /\ Change(roster, roster') /\ DOMAIN roster' = DOMAIN roster \ food
  BY <1>2, <1>4, <1>9, EatsIsChange DEF e
<1>13. Levels(roster) <= fed /\ fed \in Nat /\ Levels(roster) \in Nat
  BY BookType DEF RosterInv, Counts, LevelsAreFed
<1>14. Levels(roster') \in Nat
  BY <1>12, ChangeIsRoster, BookType DEF RosterInv, Counts
<1>15. Levels(roster') <= fed'
  BY <1>2, <1>4, <1>11, <1>13, <1>14
<1>16. Counted
  BY <1>2, <1>4 DEF RosterInv, Counts, Counted, Pay
<1>17. InParty \cap (DOMAIN roster \ DOMAIN roster') = {}
  BY <1>2, <1>12
<1> QED BY <1>2, <1>12, <1>15, <1>16, <1>17, GrowKeeps


LEMMA GivenGrows ==
  ASSUME NEW e, Grown(e), e.book + e.char > 0
  PROVE  /\ Grown(Given(e)) /\ Same(e, Given(e))
         /\ e.book + e.char = Given(e).book + Given(e).char + 1
<1>1. /\ e \in CastSet /\ e.book \in Nat /\ e.char \in Nat /\ e.book <= MaxBook
      /\ e.book + e.char <= MaxTotal /\ MaxBook \in Nat /\ MaxTotal \in Nat
  BY Consts DEF Grown, CastSet
<1>2. PICK b \in Nat, c \in Nat :
        /\ b <= MaxBook /\ b + c <= MaxTotal /\ e.book + e.char = b + c + 1
        /\ Given(e) = Taught(e, b, c)
  <2>1. CASE e.char > 0
    <3>1. Given(e) = Taught(e, e.book, e.char - 1)
      BY <1>1, <2>1 DEF Given, Taught, CastSet
    <3>2. e.char - 1 \in Nat /\ e.book + (e.char - 1) <= MaxTotal
          /\ e.book + e.char = e.book + (e.char - 1) + 1
      BY <1>1, <2>1
    <3> QED BY <1>1, <3>1, <3>2
  <2>2. CASE ~(e.char > 0)
    <3>1. Given(e) = Taught(e, e.book - 1, e.char)
      BY <1>1, <2>2 DEF Given, Taught, CastSet
    <3>2. e.book - 1 \in Nat /\ e.book - 1 <= MaxBook /\ (e.book - 1) + e.char <= MaxTotal
          /\ e.book + e.char = (e.book - 1) + e.char + 1
      BY <1>1, <2>2
    <3> QED BY <1>1, <3>1, <3>2
  <2> QED BY <2>1, <2>2
<1>3. /\ Grown(Taught(e, b, c)) /\ Same(e, Taught(e, b, c))
      /\ Taught(e, b, c).book = b /\ Taught(e, b, c).char = c
  BY <1>2, TaughtGrows
<1> QED BY <1>2, <1>3

(* What a mentor gives and an apprentice takes is the same level.          *)
LEMMA InheritKeeps ==
  ASSUME RosterInv, NEW in \in DOMAIN roster, NEW out \in DOMAIN roster, Inherit(in, out)
  PROVE  RosterInv'
<1> DEFINE a == roster[in]
           m == roster[out]
           taught == Taught(a, a.book + 1, a.char)
<1>1. /\ Grown(a) /\ a \in CastSet /\ a.book \in Nat /\ a.char \in Nat /\ Grown(m)
      /\ MaxBook \in Nat /\ MaxTotal \in Nat /\ ImpartLimit \in Nat
  BY CastIsGrown, Consts
<1>2. /\ in # out /\ m.book + m.char > 0 /\ a.book < MaxBook /\ a.book + a.char < MaxTotal
      /\ Pay(0, 1) /\ UNCHANGED <<forms, skins, tutorial, ghost>> /\ shown' = All'
      /\ roster' = [roster EXCEPT ![in].book = @ + 1, ![out] = Given(m)]
  BY DEF Inherit, Whole
<1>3. PICK q \in Groups : impart[q] > 0 /\ impart' = [impart EXCEPT ![q] = @ - 1]
  BY DEF Inherit
<1>4. /\ Grown(taught) /\ Same(a, taught)
      /\ taught.book = a.book + 1 /\ taught.char = a.char
  <2>1. a.book + 1 \in Nat /\ a.book + 1 <= MaxBook /\ (a.book + 1) + a.char <= MaxTotal
    BY <1>1, <1>2
  <2> QED BY <1>1, <2>1, TaughtGrows
<1>5. /\ Grown(Given(m)) /\ Same(m, Given(m))
      /\ m.book + m.char = Given(m).book + Given(m).char + 1
  BY <1>1, <1>2, GivenGrows
<1>6. [a EXCEPT !.book = @ + 1] = taught
  BY <1>1 DEF Taught, CastSet
<1>7. roster = [u \in DOMAIN roster |-> roster[u]]
  BY DEF RosterInv, IsRoster
<1>8. /\ DOMAIN roster' = DOMAIN roster /\ roster' = [u \in DOMAIN roster |-> roster'[u]]
      /\ roster'[in] = taught /\ roster'[out] = Given(m)
      /\ \A u \in DOMAIN roster : u # in /\ u # out => roster'[u] = roster[u]
  <2> DEFINE mid == [roster EXCEPT ![in].book = @ + 1]
  <2>1. /\ DOMAIN mid = DOMAIN roster /\ mid[in] = [a EXCEPT !.book = @ + 1]
        /\ \A u \in DOMAIN roster : u # in => mid[u] = roster[u]
    BY <1>7
  <2>2. roster' = [mid EXCEPT ![out] = Given(m)]
    BY <1>2
  <2> HIDE DEF mid, taught
  <2> QED BY <1>2, <1>6, <2>1, <2>2
<1> HIDE DEF taught
<1>9. \A u \in DOMAIN roster : Grown(roster[u]) /\ Same(roster[u], roster[u])
  BY CastIsGrown DEF Same
<1>10. \A u \in DOMAIN roster : Grown(roster'[u]) /\ Same(roster[u], roster'[u])
  BY <1>4, <1>5, <1>8, <1>9
<1>11. Change(roster, roster')
  BY <1>8, <1>10 DEF Change
<1>12. Levels(roster') = Levels(roster)
  <2> DEFINE f == Book(roster)
             g == Book(roster')
             S == DOMAIN roster
  <2>1. made \in Nat /\ IsRoster(roster, made) /\ IsRoster(roster', made)
    BY <1>11, ChangeIsRoster DEF RosterInv, Counts
  <2>2. /\ IsFiniteSet(S) /\ f \in [S -> Nat] /\ Levels(roster) = Total(f)
        /\ g \in [S -> Nat] /\ Levels(roster') = Total(g)
    BY <1>8, <2>1, BookType
  <2>3. \A u \in S : f[u] = roster[u].book + roster[u].char
    BY BookOf
  <2>4. \A u \in S : g[u] = roster'[u].book + roster'[u].char
    BY <1>8, BookOf
  <2>5. g[in] = f[in] + 1 /\ f[out] = g[out] + 1
    BY <1>1, <1>4, <1>5, <1>8, <2>3, <2>4
  <2>6. \A u \in S : u # in /\ u # out => g[u] = f[u]
    BY <1>8, <2>3, <2>4
  <2>7. in \in S /\ out \in S /\ in # out
    BY <1>2
  <2> HIDE DEF f, g, S
  <2>8. Total(g) = Total(f)
    BY <2>2, <2>5, <2>6, <2>7, TotalMove
  <2> QED BY <2>2, <2>8
<1>13. Counted
  <2>1. impart' \in [Groups -> 0..ImpartLimit]
    <3>1. impart \in [Groups -> 0..ImpartLimit]
      BY DEF RosterInv, Counts
    <3>2. impart[q] - 1 \in 0..ImpartLimit
      BY <1>1, <1>3, <3>1
    <3> QED BY <1>3, <3>1, <3>2
  <2> QED BY <1>2, <2>1 DEF RosterInv, Counts, Counted, Pay, ghost
<1>14. Levels(roster') <= fed'
  BY <1>2, <1>12 DEF RosterInv, LevelsAreFed, ghost
<1> QED BY <1>2, <1>8, <1>11, <1>13, <1>14, GrowKeeps DEF ghost

LEMMA LockKeeps ==
  ASSUME RosterInv, NEW uid \in DOMAIN roster, Lock(uid)
  PROVE  RosterInv'
<1> DEFINE e == roster[uid]
<1>1. Grown(e)
  BY CastIsGrown
<1>2. /\ Grows(uid, Locked(e))
      /\ shown' = [shown EXCEPT !.roster[uid].lock = roster'[uid].lock]
      /\ UNCHANGED <<forms, skins, coins, gems, impart, tutorial, made, chosen, fed>>
  BY DEF Lock, Toggled, Locked
<1>3. /\ Grown(Locked(e)) /\ Same(e, Locked(e)) /\ Locked(e).book = e.book
      /\ Locked(e).char = e.char
  BY <1>1, LockedGrows
<1>4. Eats(uid, Locked(e), {})
  BY <1>2, GrowsIsEats
<1>5. shown' = All'
  <2>1. shown = [roster |-> roster, forms |-> forms, skins |-> skins]
    BY DEF RosterInv, ListAgrees, All
  <2>2. roster' = [roster EXCEPT ![uid] = Locked(e)] /\ roster = [u \in DOMAIN roster |-> roster[u]]
    BY <1>2 DEF Grows, RosterInv, IsRoster
  <2>3. roster'[uid].lock = ~e.lock
    BY <1>1, <2>2 DEF Locked, Grown, CastSet
  <2>4. [e EXCEPT !.lock = roster'[uid].lock] = Locked(e)
    BY <2>3 DEF Locked
  <2>5. [roster EXCEPT ![uid].lock = roster'[uid].lock] = [roster EXCEPT ![uid] = [roster[uid] EXCEPT !.lock = roster'[uid].lock]]
    OBVIOUS
  <2>6. shown' = [shown EXCEPT !.roster = roster']
    BY <1>2, <2>1, <2>2, <2>4, <2>5
  <2> QED BY <1>2, <2>1, <2>6 DEF All
<1>6. Counted
  BY <1>2 DEF RosterInv, Counts, Counted
<1>7. e.book + e.char <= e.book + e.char
  BY <1>1 DEF Grown, CastSet
<1> QED BY <1>2, <1>3, <1>4, <1>5, <1>6, <1>7, OneGrows


LEMMA BattleXpKeeps ==
  ASSUME RosterInv, NEW f \in Forms, BattleXp(f)
  PROVE  RosterInv'
<1> DEFINE up(u) == \E i \in 1..FormSlots : forms[<<f, i>>] = u
           higher(u) == IF up(u) /\ roster[u].lv < MaxLv(roster[u])
                          THEN [roster[u] EXCEPT !.lv = @ + 1] ELSE roster[u]
<1>1. /\ roster' = [u \in DOMAIN roster |-> higher(u)]
      /\ shown' = [shown EXCEPT !.roster =
                      [u \in DOMAIN shown.roster |->
                         IF u \in DOMAIN roster /\ up(u) THEN roster'[u] ELSE shown.roster[u]]]
      /\ UNCHANGED <<forms, skins, coins, gems, impart, tutorial, made, chosen, fed>>
  BY DEF BattleXp
<1>2. ASSUME NEW u \in DOMAIN roster
      PROVE  /\ Grown(higher(u)) /\ Same(roster[u], higher(u))
             /\ higher(u).book = roster[u].book /\ higher(u).char = roster[u].char
             /\ ~up(u) => higher(u) = roster[u]
  <2> DEFINE e == roster[u]
  <2>1. /\ Grown(e) /\ e \in CastSet /\ MaxLv(e) \in Nat /\ e.lv \in 1..MaxLv(e)
    BY CastIsGrown
  <2>2. CASE up(u) /\ e.lv < MaxLv(e)
    <3>1. higher(u) = Leveled(e, e.lv + 1)
      BY <2>2 DEF Leveled
    <3>2. e.lv + 1 \in 1..MaxLv(e)
      BY <2>1, <2>2
    <3>3. Grown(Leveled(e, e.lv + 1)) /\ Same(e, Leveled(e, e.lv + 1))
      BY <2>1, <3>2, LeveledGrows
    <3>4. Leveled(e, e.lv + 1).book = e.book /\ Leveled(e, e.lv + 1).char = e.char
      BY <2>1 DEF Leveled, CastSet
    <3> QED BY <2>2, <3>1, <3>3, <3>4
  <2>3. CASE ~(up(u) /\ e.lv < MaxLv(e))
    <3>1. higher(u) = e /\ Same(e, e)
      BY <2>3 DEF Same
    <3> QED BY <2>1, <3>1
  <2> QED BY <2>2, <2>3
<1> HIDE DEF higher
<1>3. /\ DOMAIN roster' = DOMAIN roster /\ \A u \in DOMAIN roster : roster'[u] = higher(u)
      /\ roster' = [u \in DOMAIN roster |-> roster'[u]]
  BY <1>1
<1>4. Change(roster, roster')
  BY <1>2, <1>3 DEF Change
<1>5. \A u \in DOMAIN roster' :
        roster'[u].book + roster'[u].char <= roster[u].book + roster[u].char
  <2>1. \A u \in DOMAIN roster : roster[u].book \in Nat /\ roster[u].char \in Nat
    BY CastIsGrown
  <2> QED BY <1>2, <1>3, <2>1
<1>6. Levels(roster') <= fed
  BY <1>4, <1>5, NoLevels
<1>7. shown' = All'
  <2>1. shown = [roster |-> roster, forms |-> forms, skins |-> skins]
    BY DEF RosterInv, ListAgrees, All
  <2>2. [u \in DOMAIN roster |-> IF u \in DOMAIN roster /\ up(u) THEN roster'[u] ELSE roster[u]]
          = roster'
    BY <1>2, <1>3
  <2>3. shown.roster = roster
    BY <2>1
  <2>4. shown' = [shown EXCEPT !.roster = roster']
    BY <1>1, <2>2, <2>3
  <2> QED BY <1>1, <2>1, <2>4 DEF All
<1>8. Counted
  BY <1>1 DEF RosterInv, Counts, Counted
<1>9. InParty \cap (DOMAIN roster \ DOMAIN roster') = {}
  BY <1>3
<1> QED BY <1>1, <1>4, <1>6, <1>7, <1>8, <1>9, GrowKeeps

LEMMA DecomposeKeeps ==
  ASSUME RosterInv, NEW uids, Decompose(uids)
  PROVE  RosterInv'
<1> DEFINE done == {u \in uids \cap DOMAIN roster : u \notin InParty /\ ~roster[u].lock}
<1>1. /\ roster' = Restrict(roster, DOMAIN roster \ done) /\ shown' = All'
      /\ UNCHANGED <<forms, skins, coins, gems, impart, tutorial, ghost>>
  BY DEF Decompose, Unbound, Whole
<1>2. done \cap InParty = {}
  OBVIOUS
<1> HIDE DEF done
<1>3. /\ DOMAIN roster' = DOMAIN roster \ done
      /\ roster' = [u \in DOMAIN roster' |-> roster'[u]]
      /\ \A u \in DOMAIN roster' : roster'[u] = roster[u]
  BY <1>1 DEF Restrict
<1>4. \A u \in DOMAIN roster : Grown(roster[u]) /\ Same(roster[u], roster[u])
                               /\ roster[u].book \in Nat /\ roster[u].char \in Nat
  BY CastIsGrown DEF Same
<1>5. Change(roster, roster')
  BY <1>3, <1>4 DEF Change
<1>6. \A u \in DOMAIN roster' :
        roster'[u].book + roster'[u].char <= roster[u].book + roster[u].char
  BY <1>3, <1>4
<1>7. Levels(roster') <= fed
  BY <1>5, <1>6, NoLevels
<1>8. Counted
  BY <1>1 DEF RosterInv, Counts, Counted, ghost
<1>9. InParty \cap (DOMAIN roster \ DOMAIN roster') = {}
  BY <1>2, <1>3
<1> QED BY <1>1, <1>5, <1>7, <1>8, <1>9, GrowKeeps DEF ghost

(* Sold casts leave every formation with the roster.                       *)
LEMMA SellKeeps ==
  ASSUME RosterInv, NEW uids, Sell(uids)
  PROVE  RosterInv'
<1>1. /\ uids \subseteq DOMAIN roster /\ roster' = Restrict(roster, DOMAIN roster \ uids)
      /\ forms' = Without(forms, uids) /\ Forget /\ shown' = All'
      /\ UNCHANGED <<skins, coins, gems, impart, tutorial, made, edits, fed>>
  BY DEF Sell, Whole
<1>2. /\ DOMAIN roster' = DOMAIN roster \ uids
      /\ roster' = [u \in DOMAIN roster' |-> roster'[u]]
      /\ \A u \in DOMAIN roster' : roster'[u] = roster[u]
  BY <1>1 DEF Restrict
<1>3. \A u \in DOMAIN roster : Grown(roster[u]) /\ Same(roster[u], roster[u])
                               /\ roster[u].book \in Nat /\ roster[u].char \in Nat
  BY CastIsGrown DEF Same
<1>4. Change(roster, roster')
  BY <1>2, <1>3 DEF Change
<1>5. \A u \in DOMAIN roster' :
        roster'[u].book + roster'[u].char <= roster[u].book + roster[u].char
  BY <1>2, <1>3
<1>6. Levels(roster') <= fed'
  BY <1>1, <1>4, <1>5, NoLevels
<1>7. Counts'
  BY <1>1 DEF RosterInv, Counts
<1>8. IsRoster(roster', made')
  BY <1>1, <1>4, ChangeIsRoster DEF RosterInv, Counts
<1>9. Dressed(roster', skins')
  BY <1>1, <1>2 DEF RosterInv, Dressed
<1>10. Placed'
  BY <1>1, <1>2 DEF RosterInv, Placed, Without, Empty
<1>11. PartyIsChosen'
  <2> SUFFICES ASSUME NEW p \in Places, forms'[p] \in DOMAIN roster'
               PROVE  roster'[forms'[p]].serial = chosen'[p]
    BY DEF PartyIsChosen
  <2>1. forms'[p] # Empty
    <3>1. ~(0 \in DOMAIN roster)
      BY DEF RosterInv, Counts, IsRoster
    <3> QED BY <1>2, <3>1 DEF Empty
  <2>2. forms'[p] = forms[p] /\ forms[p] \in DOMAIN roster
    BY <1>1, <1>2, <2>1 DEF Without
  <2>3. chosen'[p] = chosen[p]
    BY <1>1, <2>1 DEF Forget
  <2> QED BY <1>2, <2>2, <2>3 DEF RosterInv, PartyIsChosen
<1> QED BY <1>1, <1>6, <1>7, <1>8, <1>9, <1>10, <1>11 DEF RosterInv, ListAgrees, LevelsAreFed

LEMMA RemoveKeeps ==
  ASSUME RosterInv, NEW uid, RemoveFromAll(uid)
  PROVE  RosterInv'
<1>1. /\ forms' = Without(forms, {uid}) /\ Forget
      /\ shown' = [shown EXCEPT !.forms = forms']
      /\ UNCHANGED <<roster, skins, coins, gems, impart, tutorial, made, edits, fed>>
  BY DEF RemoveFromAll
<1>2. Counts' /\ IsRoster(roster', made') /\ Dressed(roster', skins') /\ Levels(roster') <= fed'
  BY <1>1 DEF RosterInv, Counts, LevelsAreFed
<1>3. Placed'
  BY <1>1 DEF RosterInv, Placed, Without, Empty
<1>4. PartyIsChosen'
  <2> SUFFICES ASSUME NEW p \in Places, forms'[p] \in DOMAIN roster'
               PROVE  roster'[forms'[p]].serial = chosen'[p]
    BY DEF PartyIsChosen
  <2>1. forms'[p] # Empty
    <3>1. ~(0 \in DOMAIN roster)
      BY DEF RosterInv, Counts, IsRoster
    <3> QED BY <1>1, <3>1 DEF Empty
  <2>2. forms'[p] = forms[p]
    BY <1>1, <2>1 DEF Without
  <2>3. chosen'[p] = chosen[p]
    BY <1>1, <2>1 DEF Forget
  <2> QED BY <1>1, <2>2, <2>3 DEF RosterInv, PartyIsChosen
<1>5. shown' = All'
  BY <1>1 DEF RosterInv, ListAgrees, All
<1> QED BY <1>2, <1>3, <1>4, <1>5 DEF RosterInv, ListAgrees, LevelsAreFed


LEMMA SetFormationKeeps ==
  ASSUME RosterInv, NEW f \in Forms, NEW sent, SetFormation(f, sent)
  PROVE  RosterInv'
<1> DEFINE slot == [i \in 1..FormSlots |->
                      IF i <= Len(sent) /\ sent[i] \in DOMAIN roster THEN sent[i] ELSE Empty]
<1>1. /\ forms' = [p \in Places |-> IF p[1] = f THEN slot[p[2]] ELSE forms[p]]
      /\ chosen' = [p \in Places |-> IF p[1] # f THEN chosen[p]
                                     ELSE IF slot[p[2]] = Empty THEN 0
                                     ELSE shown.roster[slot[p[2]]].serial]
      /\ shown' = [shown EXCEPT !.forms =
                      [p \in Places |-> IF p[1] = f THEN forms'[p] ELSE shown.forms[p]]]
      /\ UNCHANGED <<roster, skins, coins, gems, impart, tutorial, made, edits, fed>>
  BY DEF SetFormation
<1>2. shown = [roster |-> roster, forms |-> forms, skins |-> skins]
  BY DEF RosterInv, ListAgrees, All
<1>3. /\ \A i \in 1..FormSlots : slot[i] \in DOMAIN roster \cup {Empty}
      /\ Empty \notin DOMAIN roster /\ DOMAIN roster \subseteq Nat /\ Empty \in Nat
  BY DEF RosterInv, Counts, IsRoster, Empty
<1> HIDE DEF slot
<1>4. \A p \in Places : p[2] \in 1..FormSlots
  BY DEF Places
<1>5. \A p \in Places : forms'[p] = IF p[1] = f THEN slot[p[2]] ELSE forms[p]
  BY <1>1
<1>6. forms \in [Places -> Nat] /\ \A p \in Places : forms[p] \in DOMAIN roster \cup {Empty}
  BY DEF RosterInv, Placed
<1>7. Counts' /\ IsRoster(roster', made') /\ Dressed(roster', skins') /\ Levels(roster') <= fed'
  BY <1>1 DEF RosterInv, Counts, LevelsAreFed
<1>8. \A p \in Places : forms'[p] \in DOMAIN roster \cup {Empty}
  BY <1>3, <1>4, <1>5, <1>6
<1>9. Placed'
  <2>1. forms' = [p \in Places |-> forms'[p]]
    BY <1>1
  <2>2. \A p \in Places : forms'[p] \in Nat
    BY <1>3, <1>8
  <2> QED BY <1>1, <1>8, <2>1, <2>2 DEF Placed
<1>10. PartyIsChosen'
  <2> SUFFICES ASSUME NEW p \in Places, forms'[p] \in DOMAIN roster
               PROVE  roster[forms'[p]].serial = chosen'[p]
    BY <1>1 DEF PartyIsChosen
  <2>1. CASE p[1] = f
    <3>1. forms'[p] = slot[p[2]] /\ slot[p[2]] # Empty
      BY <1>3, <1>5, <2>1
    <3>2. chosen'[p] = shown.roster[slot[p[2]]].serial
      BY <1>1, <2>1, <3>1
    <3> QED BY <1>2, <3>1, <3>2
  <2>2. CASE p[1] # f
    <3>1. forms'[p] = forms[p] /\ chosen'[p] = chosen[p]
      BY <1>1, <1>5, <2>2
    <3> QED BY <3>1 DEF RosterInv, PartyIsChosen
  <2> QED BY <2>1, <2>2
<1>11. shown' = All'
  <2>1. [p \in Places |-> IF p[1] = f THEN forms'[p] ELSE forms[p]] = forms'
    BY <1>1
  <2>2. shown' = [shown EXCEPT !.forms = forms']
    BY <1>1, <1>2, <2>1
  <2> QED BY <1>1, <1>2, <2>2 DEF All
<1> QED BY <1>7, <1>9, <1>10, <1>11 DEF RosterInv, ListAgrees, LevelsAreFed

LEMMA UnlockSkinKeeps ==
  ASSUME RosterInv, NEW uid \in DOMAIN roster, NEW s \in Skins, UnlockSkin(uid, s)
  PROVE  RosterInv'
<1>1. /\ skins' = [skins EXCEPT ![roster[uid].id] = @ \cup {s}]
      /\ shown' = [shown EXCEPT !.skins = skins']
      /\ UNCHANGED <<roster, forms, coins, gems, impart, tutorial, made, chosen, fed>>
  BY DEF UnlockSkin
<1>2. roster[uid].id \in Chars /\ skins \in [Chars -> SUBSET Skins]
  BY CastIsGrown DEF CastSet, RosterInv, Counts
<1>3. skins' \in [Chars -> SUBSET Skins] /\ \A c \in Chars : skins[c] \subseteq skins'[c]
  BY <1>1, <1>2
<1>4. Counts' /\ IsRoster(roster', made') /\ Levels(roster') <= fed'
  BY <1>1, <1>3 DEF RosterInv, Counts, LevelsAreFed
<1>5. Dressed(roster', skins')
  <2>1. \A u \in DOMAIN roster : roster[u].id \in Chars
    BY CastIsGrown DEF CastSet
  <2> QED BY <1>1, <1>3, <2>1 DEF RosterInv, Dressed
<1>6. Placed' /\ PartyIsChosen'
  BY <1>1 DEF RosterInv, Placed, PartyIsChosen
<1>7. shown' = All'
  BY <1>1 DEF RosterInv, ListAgrees, All
<1> QED BY <1>4, <1>5, <1>6, <1>7 DEF RosterInv, ListAgrees, LevelsAreFed

LEMMA SetSkinKeeps ==
  ASSUME RosterInv, NEW uid \in DOMAIN roster, NEW s \in Skins \cup {NormalSkin},
         SetSkin(uid, s)
  PROVE  RosterInv'
<1> DEFINE e == roster[uid]
<1>1. /\ s = NormalSkin \/ s \in skins[e.id]
      /\ roster' = [roster EXCEPT ![uid] = Clad(e, s)]
      /\ shown' = [shown EXCEPT !.roster[uid].skin = s]
      /\ UNCHANGED <<forms, skins, coins, gems, impart, tutorial, ghost>>
  BY DEF SetSkin, Grows, Clad
<1>2. roster = [u \in DOMAIN roster |-> roster[u]] /\ made \in Nat
  BY DEF RosterInv, IsRoster, Counts
<1>3. \A u \in DOMAIN roster :
        Grown(roster[u]) /\ roster[u].book \in Nat /\ roster[u].char \in Nat
  BY CastIsGrown
<1>4. /\ Grown(Clad(e, s)) /\ Clad(e, s).skin = s
      /\ Clad(e, s).id = e.id /\ Clad(e, s).serial = e.serial
      /\ Clad(e, s).book = e.book /\ Clad(e, s).char = e.char
  BY <1>3, CladGrows
<1>5. /\ DOMAIN roster' = DOMAIN roster /\ roster' = [u \in DOMAIN roster |-> roster'[u]]
      /\ roster'[uid] = Clad(e, s)
      /\ \A u \in DOMAIN roster : u # uid => roster'[u] = roster[u]
  BY <1>1, <1>2
<1>6. \A u \in DOMAIN roster :
        /\ Grown(roster'[u]) /\ roster'[u].serial = roster[u].serial
        /\ roster'[u].book = roster[u].book /\ roster'[u].char = roster[u].char
  BY <1>3, <1>4, <1>5
<1>7. Counts'
  BY <1>1 DEF RosterInv, Counts, ghost
<1>8. IsRoster(roster', made')
  BY <1>1, <1>5, <1>6 DEF RosterInv, IsRoster, ghost
<1>9. Dressed(roster', skins')
  BY <1>1, <1>4, <1>5 DEF RosterInv, Dressed
<1>10. Placed' /\ PartyIsChosen'
  BY <1>1, <1>5, <1>6 DEF RosterInv, Placed, PartyIsChosen, ghost
<1>11. Levels(roster') <= fed'
  <2>1. Levels(roster') <= Levels(roster)
    <3>1. IsRoster(roster, made) /\ IsRoster(roster', made)
      BY <1>1, <1>8 DEF RosterInv, ghost
    <3>2. \A u \in DOMAIN roster' :
            /\ u \in DOMAIN roster
            /\ roster'[u].book + roster'[u].char <= roster[u].book + roster[u].char
      BY <1>3, <1>5, <1>6
    <3> QED BY <1>2, <3>1, <3>2, LevelsAtMost
  <2>2. Levels(roster') \in Nat /\ Levels(roster) \in Nat
    BY <1>1, <1>2, <1>8, BookType DEF RosterInv, ghost
  <2> QED BY <1>1, <2>1, <2>2 DEF RosterInv, Counts, LevelsAreFed, ghost
<1>12. shown' = All'
  <2>1. shown = [roster |-> roster, forms |-> forms, skins |-> skins]
    BY DEF RosterInv, ListAgrees, All
  <2>2. [roster EXCEPT ![uid].skin = s] = roster'
    BY <1>1 DEF Clad
  <2>3. shown' = [shown EXCEPT !.roster = roster']
    BY <1>1, <2>1, <2>2
  <2> QED BY <1>1, <2>1, <2>3 DEF All
<1> QED BY <1>7, <1>8, <1>9, <1>10, <1>11, <1>12 DEF RosterInv, ListAgrees, LevelsAreFed


LEMMA AddCharKeeps ==
  ASSUME RosterInv, NEW c \in Chars, AddChar(c)
  PROVE  RosterInv'
<1> DEFINE e == NewCast(c, CharRow[c].star, made')
<1>1. /\ made < CastsMax /\ made' = made + 1
      /\ roster' = [u \in DOMAIN roster \cup {NextUid} |-> IF u = NextUid THEN e ELSE roster[u]]
      /\ UNCHANGED <<forms, skins, coins, gems, impart, tutorial, edits, chosen, fed>>
      /\ shown' = All'
  BY DEF AddChar, Whole
<1>2. made \in Nat /\ made' \in Nat /\ DOMAIN roster \subseteq 1..made /\ CastsMax \in Nat
  <2>1. made \in Nat /\ DOMAIN roster \subseteq 1..made
    BY DEF RosterInv, Counts, IsRoster
  <2>2. CastsMax \in Nat
    BY Consts
  <2> QED BY <1>1, <2>1, <2>2
<1>3. NextUid \in 1..(made + 1) /\ NextUid \notin DOMAIN roster
  BY <1>1, <1>2, UidIsFree
<1>4. /\ Grown(e) /\ e.skin = NormalSkin /\ e.book + e.char = 0
  BY <1>2, NewIsGrown
<1> HIDE DEF e
<1>5. /\ DOMAIN roster' = DOMAIN roster \cup {NextUid} /\ roster'[NextUid] = e
      /\ roster' = [u \in DOMAIN roster' |-> roster'[u]]
      /\ \A u \in DOMAIN roster : roster'[u] = roster[u]
  BY <1>1, <1>3
<1>6. \A u \in DOMAIN roster :
        Grown(roster[u]) /\ roster[u].book \in Nat /\ roster[u].char \in Nat
  BY CastIsGrown
<1>7. Counts'
  BY <1>1, <1>2 DEF RosterInv, Counts
<1>8. IsRoster(roster', made')
  <2>1. DOMAIN roster' \subseteq 1..made'
    BY <1>1, <1>2, <1>3, <1>5
  <2>2. \A u \in DOMAIN roster' : Grown(roster'[u])
    BY <1>4, <1>5, <1>6
  <2> QED BY <1>5, <2>1, <2>2 DEF IsRoster
<1>9. Dressed(roster', skins')
  BY <1>1, <1>4, <1>5 DEF RosterInv, Dressed
<1>10. Placed'
  BY <1>1, <1>5 DEF RosterInv, Placed
<1>11. PartyIsChosen'
  <2>1. \A p \in Places : forms[p] # NextUid
    <3>1. NextUid # Empty
      BY <1>2, <1>3 DEF Empty
    <3> QED BY <1>3, <3>1 DEF RosterInv, Placed
  <2> QED BY <1>1, <1>5, <2>1 DEF RosterInv, PartyIsChosen
<1>12. Levels(roster') <= fed'
  <2>1. Levels(roster') <= Levels(roster)
    <3>1. IsRoster(roster, made)
      BY DEF RosterInv
    <3>2. \A u \in DOMAIN roster' :
            \/ roster'[u].book + roster'[u].char = 0
            \/ /\ u \in DOMAIN roster
               /\ roster'[u].book + roster'[u].char <= roster[u].book + roster[u].char
      BY <1>4, <1>5, <1>6
    <3> QED BY <1>2, <1>8, <3>1, <3>2, LevelsAtMost
  <2>2. Levels(roster') \in Nat /\ Levels(roster) \in Nat
    BY <1>2, <1>8, BookType DEF RosterInv
  <2> QED BY <1>1, <2>1, <2>2 DEF RosterInv, Counts, LevelsAreFed
<1> QED BY <1>1, <1>7, <1>8, <1>9, <1>10, <1>11, <1>12 DEF RosterInv, ListAgrees, LevelsAreFed

-----------------------------------------------------------------------------
(* The tutorial and the logins.                                            *)

SettledCast(e, t) ==
  IF e.id \notin TutorialCasts \/ t = "stamped" THEN e
  ELSE IF t = "over" /\ e.char >= TutorialLimit THEN Plain(e)
  ELSE IF t = "runs" /\ e.char < TutorialLimit THEN Boost(e)
  ELSE e

LEMMA SettledIs ==
  ASSUME NEW r, NEW t
  PROVE  Settled(r, t) = [u \in DOMAIN r |-> SettledCast(r[u], t)]
BY DEF Settled, SettledCast

LEMMA SettledCastGrows ==
  ASSUME NEW e, Grown(e), NEW t
  PROVE  Grown(SettledCast(e, t)) /\ Same(e, SettledCast(e, t))
<1>1. Same(e, e)
  BY DEF Same
<1>2. Grown(Plain(e)) /\ Same(e, Plain(e))
  BY PlainGrows
<1>3. e.id \in TutorialCasts => Grown(Boost(e)) /\ Same(e, Boost(e))
  BY BoostGrows
<1> QED BY <1>1, <1>2, <1>3 DEF SettledCast

LEMMA SettledIsChange ==
  ASSUME NEW r, NEW n \in Nat, IsRoster(r, n), NEW t
  PROVE  Change(r, Settled(r, t)) /\ DOMAIN Settled(r, t) = DOMAIN r
<1> DEFINE s == [u \in DOMAIN r |-> SettledCast(r[u], t)]
<1>1. \A u \in DOMAIN r : Grown(SettledCast(r[u], t)) /\ Same(r[u], SettledCast(r[u], t))
  BY SettledCastGrows DEF IsRoster
<1>2. Change(r, s) /\ DOMAIN s = DOMAIN r
  BY <1>1 DEF Change
<1> QED BY <1>2, SettledIs

LEMMA SettledStamped ==
  ASSUME NEW r, r = [u \in DOMAIN r |-> r[u]]
  PROVE  Settled(r, "stamped") = r
BY DEF Settled

LEMMA StampedIs ==
  ASSUME tutorial \in {"runs", "over", "stamped"}
  PROVE  Stamp(tutorial) \in {"runs", "stamped"}
         /\ (tutorial = "stamped" => Stamp(tutorial) = "stamped")
BY DEF Stamp

LEMMA ClaimKeeps ==
  ASSUME RosterInv, Claim
  PROVE  RosterInv'
<1>1. /\ tutorial' = "over"
      /\ UNCHANGED <<roster, forms, skins, coins, gems, impart, shown, ghost>>
  BY DEF Claim
<1> QED BY <1>1 DEF RosterInv, Counts, Placed, PartyIsChosen, ListAgrees, All, LevelsAreFed,
                    ghost

LEMMA ResetKeeps ==
  ASSUME RosterInv, Reset
  PROVE  RosterInv'
<1>1. /\ roster' = Settled(roster, tutorial) /\ tutorial' = Stamp(tutorial)
      /\ fed' = fed + Greater(Levels(roster') - Levels(roster), 0)
      /\ UNCHANGED <<forms, skins, coins, gems, impart, made, edits, chosen>> /\ shown' = All'
  BY DEF Reset, Whole
<1>2. /\ IsRoster(roster, made) /\ made \in Nat /\ fed \in Nat /\ Levels(roster) <= fed
      /\ tutorial \in {"runs", "over", "stamped"}
  BY DEF RosterInv, Counts, LevelsAreFed
<1>3. Change(roster, roster') /\ DOMAIN roster' = DOMAIN roster
  BY <1>1, <1>2, SettledIsChange
<1>4. IsRoster(roster', made)
  BY <1>2, <1>3, ChangeIsRoster
<1>5. Levels(roster') <= fed' /\ fed' \in Nat
  <2>1. Levels(roster') \in Nat /\ Levels(roster) \in Nat
    BY <1>2, <1>4, BookType
  <2>2. /\ Greater(Levels(roster') - Levels(roster), 0) \in Nat
        /\ Greater(Levels(roster') - Levels(roster), 0) >= Levels(roster') - Levels(roster)
    BY <2>1 DEF Greater
  <2> QED BY <1>1, <1>2, <2>1, <2>2
<1>6. Counted
  BY <1>1, <1>2, <1>5, StampedIs DEF RosterInv, Counts, Counted
<1>7. InParty \cap (DOMAIN roster \ DOMAIN roster') = {}
  BY <1>3
<1> QED BY <1>1, <1>3, <1>5, <1>6, <1>7, GrowKeeps

(* The starters, boosted or not, are casts within their caps.              *)
LEMMA StarterIsGrown ==
  ASSUME NEW i \in DOMAIN StarterTeam, NEW serial \in Nat
  PROVE  /\ Grown(Starter(i, serial)) /\ Starter(i, serial).serial = serial
         /\ Starter(i, serial).skin = NormalSkin
<1> DEFINE c == StarterTeam[i]
           e == NewCast(c, CharRow[c].star, serial)
<1>1. c \in Chars
  BY Consts
<1>2. Grown(e) /\ e.serial = serial /\ e.skin = NormalSkin
  BY <1>1, NewIsGrown
<1>3. Starter(i, serial) = IF e.id \in TutorialCasts THEN Boost(e) ELSE e
  BY DEF Starter
<1> HIDE DEF e
<1>4. e.id \in TutorialCasts => Grown(Boost(e)) /\ Same(e, Boost(e))
  BY <1>2, BoostGrows
<1> QED BY <1>2, <1>3, <1>4 DEF Same

LEMMA SeedIsRoster ==
  ASSUME NEW n \in Nat
  PROVE  LET s == [i \in DOMAIN StarterTeam |-> Starter(i, n + i)]
         IN  /\ IsRoster(s, n + Len(StarterTeam)) /\ n + Len(StarterTeam) \in Nat
             /\ \A i \in DOMAIN s : s[i].serial = n + i /\ s[i].skin = NormalSkin
             /\ DOMAIN s = 1..Len(StarterTeam)
<1> DEFINE s == [i \in DOMAIN StarterTeam |-> Starter(i, n + i)]
<1>1. Len(StarterTeam) \in Nat /\ DOMAIN StarterTeam = 1..Len(StarterTeam)
  BY Consts
<1>2. ASSUME NEW i \in DOMAIN StarterTeam
      PROVE  Grown(Starter(i, n + i)) /\ Starter(i, n + i).serial = n + i
             /\ Starter(i, n + i).skin = NormalSkin
  <2>1. n + i \in Nat
    BY <1>1
  <2> QED BY <2>1, StarterIsGrown
<1>3. IsRoster(s, n + Len(StarterTeam))
  BY <1>1, <1>2 DEF IsRoster
<1> QED BY <1>1, <1>2, <1>3


LEMMA LoginKeeps ==
  ASSUME RosterInv, Login
  PROVE  RosterInv'
<1> DEFINE r == Seeded(roster)
<1>1. /\ made' = IF DOMAIN roster = {} THEN made + Len(StarterTeam) ELSE made
      /\ roster' = Settled(r, tutorial) /\ tutorial' = Stamp(tutorial)
      /\ fed' = fed + Greater(Levels(r) - Levels(roster), 0)
                    + Greater(Levels(roster') - Levels(r), 0)
      /\ UNCHANGED <<forms, skins, coins, gems, impart, edits, chosen>> /\ shown' = All'
  BY DEF Login, Whole
<1>2. /\ made \in Nat /\ fed \in Nat /\ IsRoster(roster, made) /\ Levels(roster) <= fed
      /\ tutorial \in {"runs", "over", "stamped"}
  BY DEF RosterInv, Counts, LevelsAreFed
<1>3. tutorial' \in {"runs", "over", "stamped"}
  BY <1>1, <1>2, StampedIs
<1>4. IsRoster(r, made') /\ made' \in Nat
  <2>1. CASE DOMAIN roster = {}
    <3>1. r = [i \in DOMAIN StarterTeam |-> Starter(i, made + i)]
      BY <2>1 DEF Seeded
    <3> QED BY <1>1, <1>2, <2>1, <3>1, SeedIsRoster
  <2>2. CASE DOMAIN roster # {}
    BY <1>1, <1>2, <2>2 DEF Seeded
  <2> QED BY <2>1, <2>2
<1>5. Change(r, roster') /\ DOMAIN roster' = DOMAIN r
  BY <1>1, <1>4, SettledIsChange
<1>6. IsRoster(roster', made')
  BY <1>4, <1>5, ChangeIsRoster
<1>7. Levels(roster') <= fed' /\ fed' \in Nat
  <2>1. Levels(r) \in Nat /\ Levels(roster') \in Nat /\ Levels(roster) \in Nat
    BY <1>2, <1>4, <1>6, BookType
  <2> HIDE DEF r
  <2>2. /\ Greater(Levels(r) - Levels(roster), 0) \in Nat
        /\ Greater(Levels(r) - Levels(roster), 0) >= Levels(r) - Levels(roster)
        /\ Greater(Levels(roster') - Levels(r), 0) \in Nat
        /\ Greater(Levels(roster') - Levels(r), 0) >= Levels(roster') - Levels(r)
    BY <2>1 DEF Greater
  <2> QED BY <1>1, <1>2, <2>1, <2>2
<1>8. CASE DOMAIN roster # {}
  <2>1. r = roster /\ made' = made
    BY <1>1, <1>8 DEF Seeded
  <2>2. Counted
    BY <1>1, <1>2, <1>3, <1>7 DEF RosterInv, Counts, Counted
  <2>3. InParty \cap (DOMAIN roster \ DOMAIN roster') = {}
    BY <1>5, <2>1
  <2> QED BY <1>1, <1>5, <1>7, <2>1, <2>2, <2>3, GrowKeeps
<1>9. CASE DOMAIN roster = {}
  <2>1. \A p \in Places : forms[p] = Empty
    BY <1>9 DEF RosterInv, Placed
  <2>2. Empty \notin DOMAIN roster'
    BY <1>4, <1>6 DEF IsRoster, Empty
  <2>3. Counts'
    BY <1>1, <1>2, <1>3, <1>4, <1>7 DEF RosterInv, Counts
  <2>4. Dressed(roster', skins')
    <3>1. \A i \in DOMAIN r : r[i].skin = NormalSkin
      BY <1>2, <1>9, SeedIsRoster DEF Seeded
    <3>2. \A i \in DOMAIN roster' : roster'[i].skin = NormalSkin
      BY <1>5, <3>1 DEF Change, Same
    <3> QED BY <3>2 DEF Dressed
  <2>5. Placed'
    BY <1>1, <2>1 DEF RosterInv, Placed
  <2>6. PartyIsChosen'
    BY <1>1, <2>1, <2>2 DEF PartyIsChosen
  <2> QED BY <1>1, <1>6, <1>7, <2>3, <2>4, <2>5, <2>6 DEF RosterInv, ListAgrees, LevelsAreFed
<1> QED BY <1>8, <1>9

LEMMA InitInv == Init => RosterInv
<1> SUFFICES ASSUME Init PROVE RosterInv
  OBVIOUS
<1> DEFINE s == [i \in DOMAIN StarterTeam |-> Starter(i, 0 + i)]
<1>1. /\ IsRoster(s, 0 + Len(StarterTeam)) /\ 0 + Len(StarterTeam) \in Nat
      /\ \A i \in DOMAIN s : s[i].serial = 0 + i /\ s[i].skin = NormalSkin
      /\ DOMAIN s = 1..Len(StarterTeam)
  BY SeedIsRoster
<1>2. Len(StarterTeam) \in Nat /\ DOMAIN StarterTeam = 1..Len(StarterTeam)
      /\ 0 + Len(StarterTeam) = Len(StarterTeam)
  BY Consts
<1>3. \A i \in DOMAIN StarterTeam : 0 + i = i
  BY <1>2
<1>4. roster = s
  BY <1>3 DEF Init
<1> HIDE DEF s
<1>5. /\ IsRoster(roster, made) /\ made \in Nat /\ made = Len(StarterTeam)
      /\ \A i \in DOMAIN roster : roster[i].serial = i /\ roster[i].skin = NormalSkin
      /\ DOMAIN roster = DOMAIN StarterTeam
  BY <1>1, <1>2, <1>4 DEF Init
<1>6. Levels(roster) \in Nat /\ fed = Levels(roster)
  BY <1>5, BookType DEF Init
<1>7. Counts
  <2>1. Coins \in Nat /\ Gems \in Nat /\ ImpartLimit \in Nat
    BY Consts
  <2> QED BY <1>5, <1>6, <2>1 DEF Init, Counts
<1>8. Dressed(roster, skins)
  BY <1>5 DEF Dressed
<1>9. /\ forms = [p \in Places |-> IF p[2] \in DOMAIN StarterTeam THEN p[2] ELSE Empty]
      /\ chosen = forms
  BY DEF Init
<1>10. Placed
  <2>1. \A p \in Places : forms[p] \in DOMAIN roster \cup {Empty} /\ forms[p] \in Nat
    BY <1>2, <1>5, <1>9 DEF Empty
  <2> QED BY <1>9, <2>1 DEF Placed
<1>11. PartyIsChosen
  BY <1>5, <1>9 DEF PartyIsChosen
<1>12. shown = All /\ Levels(roster) <= fed
  BY <1>6 DEF Init
<1> QED BY <1>5, <1>7, <1>8, <1>10, <1>11, <1>12 DEF RosterInv, ListAgrees, LevelsAreFed

(* No request moves the tutorial: only the claim of its last quest does,   *)
(* and the stamp.                                                          *)
LEMMA RequestKeeps ==
  ASSUME RosterInv, Request
  PROVE  RosterInv' /\ tutorial' = tutorial
<1>1. DOMAIN shown.roster = DOMAIN roster
  BY DEF RosterInv, ListAgrees, All
<1>2. CASE \E c \in Chars : AddChar(c)
  BY <1>2, AddCharKeeps DEF AddChar
<1>3. CASE \E uids \in SUBSET DOMAIN shown.roster : Sell(uids) \/ Decompose(uids)
  BY <1>3, SellKeeps, DecomposeKeeps DEF Sell, Decompose
<1>4. CASE \E f \in Forms : BattleXp(f) \/ \E sent \in Teams : SetFormation(f, sent)
  <2>1. CASE \E f \in Forms : BattleXp(f)
    <3>1. tutorial' = tutorial
      BY <2>1 DEF BattleXp
    <3> QED BY <2>1, <3>1, BattleXpKeeps
  <2>2. CASE \E f \in Forms : \E sent \in Teams : SetFormation(f, sent)
    <3>1. tutorial' = tutorial
      BY <2>2 DEF SetFormation
    <3> QED BY <2>2, <3>1, SetFormationKeeps
  <2> QED BY <1>4, <2>1, <2>2
<1>5. ASSUME NEW u \in DOMAIN roster,
             \/ Lock(u) \/ RemoveFromAll(u) \/ LevelUp(u, 1) \/ RankUp(u) \/ SuperRankUp(u)
             \/ \E mats \in SUBSET DOMAIN shown.roster :
                  Transcend(u, mats) \/ UltraTranscend(u, mats) \/ SkillUp(u, mats)
             \/ \E out \in DOMAIN roster : Inherit(u, out)
             \/ \E s \in Skins : UnlockSkin(u, s)
             \/ \E s \in Skins \cup {NormalSkin} : SetSkin(u, s)
      PROVE  RosterInv' /\ tutorial' = tutorial
  <2>1. CASE Lock(u) \/ RemoveFromAll(u) \/ LevelUp(u, 1)
    BY <2>1, LockKeeps, RemoveKeeps, LevelUpKeeps DEF Lock, RemoveFromAll, LevelUp
  <2>2. CASE RankUp(u) \/ SuperRankUp(u)
    BY <2>2, RankUpKeeps, SuperRankUpKeeps DEF RankUp, SuperRankUp
  <2>3. CASE \E mats \in SUBSET DOMAIN shown.roster :
               Transcend(u, mats) \/ UltraTranscend(u, mats) \/ SkillUp(u, mats)
    BY <2>3, TranscendKeeps, UltraTranscendKeeps, SkillUpKeeps
       DEF Transcend, UltraTranscend, SkillUp
  <2>4. CASE \E out \in DOMAIN roster : Inherit(u, out)
    BY <2>4, InheritKeeps DEF Inherit
  <2>5. CASE \/ \E s \in Skins : UnlockSkin(u, s)
             \/ \E s \in Skins \cup {NormalSkin} : SetSkin(u, s)
    BY <2>5, UnlockSkinKeeps, SetSkinKeeps DEF UnlockSkin, SetSkin
  <2> QED BY <1>5, <2>1, <2>2, <2>3, <2>4, <2>5
<1> QED BY <1>1, <1>2, <1>3, <1>4, <1>5 DEF Request

(* No other request finds the quest claimed and the stamp missing: one is  *)
(* served after the claim only when the handler, or a login, has stamped.  *)
Freed ==
  /\ free => tutorial = "stamped"
  /\ serving = "lobby" => tutorial # "over"

LEMMA NextInv ==
  ASSUME RosterInv, Freed, [Next]_vars
  PROVE  RosterInv' /\ Freed'
<1>1. tutorial \in {"runs", "over", "stamped"}
  BY DEF RosterInv, Counts
<1>2. CASE Serve
  <2>1. RosterInv' /\ tutorial' = tutorial
    BY <1>2, RequestKeeps DEF Serve
  <2>2. Freed'
    BY <1>1, <1>2, <2>1 DEF Serve, Freed
  <2> QED BY <2>1, <2>2
<1>3. CASE Claim
  <2>1. Freed'
    BY <1>3 DEF Claim, Freed
  <2> QED BY <1>3, <2>1, ClaimKeeps
<1>4. CASE Reset
  <2>1. Freed'
    BY <1>1, <1>4, StampedIs DEF Reset, Freed
  <2> QED BY <1>4, <2>1, ResetKeeps
<1>5. CASE Login
  <2>1. Freed'
    BY <1>1, <1>5, StampedIs DEF Login, Freed
  <2> QED BY <1>5, <2>1, LoginKeeps
<1>6. CASE UNCHANGED vars
  <2>1. RosterInv'
    BY <1>6 DEF vars, acct, ghost, RosterInv, Counts, Placed, PartyIsChosen, ListAgrees, All,
                LevelsAreFed
  <2>2. Freed'
    BY <1>6 DEF vars, acct, Freed
  <2> QED BY <2>1, <2>2
<1> QED BY <1>2, <1>3, <1>4, <1>5, <1>6 DEF Next

THEOREM RosterSafe == Spec => [](RosterInv /\ Freed)
<1>1. Init => Freed
  BY DEF Init, Freed
<1>2. RosterInv /\ Freed /\ [Next]_vars => (RosterInv /\ Freed)'
  BY NextInv
<1> QED BY <1>1, <1>2, InitInv, PTL DEF Spec

(* Nobody is named who is gone or another: every slot of a formation and   *)
(* every cast on the client's screen is the cast that was meant, for any   *)
(* roster, and no cast has grown past a cap (set_formation, sell_chars,    *)
(* transcend_char, skill_up, inherit_char and their answers).              *)
THEOREM NamesSafe == Spec => []NamesAreLive
BY RosterSafe, InvSuffices, PTL

(* Skill levels are neither made nor doubled, however casts are fed,       *)
(* taught, boosted or made ordinary again (skill_up, inherit_char).        *)
THEOREM LevelsSafe == Spec => []LevelsAreFed
BY RosterSafe, InvSuffices, PTL

-----------------------------------------------------------------------------
(* What the player has grown.                                              *)

Kept(e, f) == NoWorse(e, f) /\ f.book + f.char >= e.book + e.char
AllKept == \A u \in DOMAIN roster \cap DOMAIN roster' : Kept(roster[u], roster'[u])

LEMMA Unaltered ==
  ASSUME RosterInv, NEW u \in DOMAIN roster
  PROVE  Kept(roster[u], roster[u])
<1>1. roster[u] \in CastSet
  BY CastIsGrown
<1> QED BY <1>1 DEF CastSet, Kept, NoWorse

LEMMA OneKept ==
  ASSUME RosterInv, NEW uid \in DOMAIN roster, NEW e, NEW gone, Eats(uid, e, gone),
         Kept(roster[uid], e)
  PROVE  AllKept
<1> SUFFICES ASSUME NEW u \in DOMAIN roster, u \in DOMAIN roster'
             PROVE  Kept(roster[u], roster'[u])
  BY DEF AllKept
<1>1. roster'[u] = IF u = uid THEN e ELSE roster[u]
  BY DEF Eats
<1>2. Kept(roster[u], roster[u])
  BY Unaltered
<1> QED BY <1>1, <1>2

(* What is sold, taken apart or added leaves the others as they are.       *)
LEMMA OthersKept ==
  ASSUME RosterInv, \A u \in DOMAIN roster \cap DOMAIN roster' : roster'[u] = roster[u]
  PROVE  AllKept
BY Unaltered DEF AllKept

LEMMA LevelsKept ==
  ASSUME RosterInv, NEW u \in DOMAIN roster, LevelUp(u, 1)
  PROVE  AllKept
<1> DEFINE e == roster[u]
           top == IF e.lv < MaxLv(e) THEN Lesser(e.lv + 1, MaxLv(e)) ELSE e.lv
<1>1. e \in CastSet /\ MaxLv(e) \in Nat /\ e.lv \in Nat
  BY CastIsGrown DEF CastSet
<1>2. top \in Nat /\ top >= e.lv
  <2> HIDE DEF e
  <2> QED BY <1>1 DEF Lesser
<1>3. Eats(u, Leveled(e, top), {})
  BY GrowsIsEats DEF LevelUp, Leveled
<1> HIDE DEF top
<1>4. Kept(e, Leveled(e, top))
  BY <1>1, <1>2 DEF CastSet, Kept, NoWorse, Leveled
<1> QED BY <1>3, <1>4, OneKept

LEMMA RanksKept ==
  ASSUME RosterInv, NEW u \in DOMAIN roster, RankUp(u) \/ SuperRankUp(u)
  PROVE  AllKept
<1> DEFINE e == roster[u]
<1>1. e \in CastSet /\ e.star <= MaxStar /\ MaxStar \in Nat
  BY CastIsGrown, Consts DEF Grown
<1>2. CASE RankUp(u)
  <2>1. Eats(u, Starred(e), {})
    BY <1>2, GrowsIsEats DEF RankUp, Starred
  <2>2. Kept(e, Starred(e))
    BY <1>1 DEF CastSet, Kept, NoWorse, Starred
  <2> QED BY <2>1, <2>2, OneKept
<1>3. CASE SuperRankUp(u)
  <2>1. Eats(u, Extra(e), {})
    BY <1>3, GrowsIsEats DEF SuperRankUp, SuperStarred, Extra
  <2>2. Kept(e, Extra(e))
    <3> DEFINE d == [e EXCEPT !.star = MaxStar]
    <3>1. d \in CastSet /\ Kept(e, d)
      BY <1>1 DEF CastSet, Kept, NoWorse
    <3>2. Extra(e) = [d EXCEPT !.ex = @ + 1]
      BY <1>1 DEF CastSet, Extra
    <3> HIDE DEF d
    <3>3. Kept(d, Extra(e)) /\ Extra(e) \in CastSet
      BY <3>1, <3>2 DEF CastSet, Kept, NoWorse
    <3> HIDE DEF e
    <3> QED BY <1>1, <3>1, <3>3 DEF CastSet, Kept, NoWorse
  <2> QED BY <2>1, <2>2, OneKept
<1> QED BY <1>2, <1>3

LEMMA TranscendedKept ==
  ASSUME RosterInv, NEW u \in DOMAIN roster, NEW mats, Transcend(u, mats)
  PROVE  AllKept
<1> DEFINE e == roster[u]
           food == Food(u, mats)
           alike == {m \in food : CharRow[roster[m].id].job = CharRow[roster[u].id].job}
           points == Cardinality(food) + Cardinality(alike)
           top == Lesser(e.plus + points, MaxPlus)
<1>1. e \in CastSet /\ e.plus \in Nat /\ e.plus <= MaxPlus /\ MaxPlus \in Nat
  BY CastIsGrown, Consts
<1>2. Eats(u, Plussed(e, top), food)
  BY DEF Transcend, Plussed
<1>3. food \in SUBSET Food(u, mats) /\ alike \in SUBSET Food(u, mats)
  OBVIOUS
<1> HIDE DEF food, alike, e
<1>4. Cardinality(food) \in Nat /\ Cardinality(alike) \in Nat
  BY <1>3, FoodFacts
<1>5. top \in Nat /\ e.plus <= top
  BY <1>1, <1>4 DEF Lesser
<1> HIDE DEF top
<1>6. Kept(e, Plussed(e, top))
  BY <1>1, <1>5 DEF CastSet, Kept, NoWorse, Plussed
<1> QED BY <1>2, <1>6, OneKept DEF e

LEMMA UltraKept ==
  ASSUME RosterInv, NEW u \in DOMAIN roster, NEW mats, UltraTranscend(u, mats)
  PROVE  AllKept
<1> DEFINE e == roster[u]
           food == {m \in Food(u, mats) : roster[m].id = roster[u].id /\ m \notin InParty}
           top == Lesser(e.ultra + UltraStep * Cardinality(food), MaxUltra)
<1>1. e \in CastSet /\ e.ultra \in Nat /\ MaxUltra \in Nat /\ UltraStep \in Nat
  BY CastIsGrown, Consts
<1>2. Eats(u, Ultra(e, top), food) /\ e.ultra < MaxUltra
  BY DEF UltraTranscend, Duplicates, Ultra
<1>3. food \in SUBSET Food(u, mats)
  OBVIOUS
<1> HIDE DEF food, e
<1>4. Cardinality(food) \in Nat
  BY <1>3, FoodFacts
<1>5. UltraStep * Cardinality(food) \in Nat
  BY <1>1, <1>4
<1>6. top \in Nat /\ e.ultra <= top
  BY <1>1, <1>2, <1>5 DEF Lesser
<1> HIDE DEF top
<1>7. Kept(e, Ultra(e, top))
  BY <1>1, <1>6 DEF CastSet, Kept, NoWorse, Ultra
<1> QED BY <1>2, <1>7, OneKept DEF e

(* What the book side leaves no room for is lost, but never a level that   *)
(* was there: only a full cast is cut.                                     *)
LEMMA TaughtKept ==
  ASSUME RosterInv, NEW u \in DOMAIN roster, NEW mats, SkillUp(u, mats)
  PROVE  AllKept
<1> DEFINE food == Food(u, mats)
           e == roster[u]
           on == {m \in food : CharRow[roster[m].id].bookside = TRUE}
           off == {m \in food : CharRow[roster[m].id].bookside = FALSE}
           fb == [m \in food |-> roster[m].book]
           fc == [m \in food |-> roster[m].char]
           books == Total(fb)
           chars == Total(fc)
           book == Lesser(e.book + books + Cardinality(on), MaxBook)
           more == Lesser(e.char + chars + Cardinality(off), CharRoom(book))
           char == Greater(more, 0)
<1>1. /\ e \in CastSet /\ e.book \in Nat /\ e.char \in Nat /\ e.book <= MaxBook
      /\ e.book + e.char <= MaxTotal
      /\ MaxBook \in Nat /\ MaxTotal \in Nat /\ MaxBook <= MaxTotal
  BY CastIsGrown, Consts DEF Grown
<1>2. Eats(u, Taught(e, book, char), food)
  BY DEF SkillUp, Taught
<1>3. /\ food \in SUBSET Food(u, mats) /\ on \in SUBSET Food(u, mats)
      /\ off \in SUBSET Food(u, mats)
  OBVIOUS
<1> HIDE DEF food, on, off
<1>4. /\ food \subseteq DOMAIN roster /\ IsFiniteSet(food)
      /\ Cardinality(on) \in Nat /\ Cardinality(off) \in Nat
  BY <1>3, FoodFacts
<1>5. books \in Nat /\ chars \in Nat
  <2>1. fb \in [food -> Nat] /\ fc \in [food -> Nat]
    BY <1>4, CastIsGrown
  <2> HIDE DEF fb, fc
  <2> QED BY <1>4, <2>1, TotalIsNat
<1> HIDE DEF books, chars, e
<1>6. book \in Nat /\ book <= MaxBook /\ book >= e.book
  BY <1>1, <1>4, <1>5 DEF Lesser
<1> HIDE DEF book
<1>7. char \in Nat /\ book + char >= e.book + e.char
  BY <1>1, <1>4, <1>5, <1>6 DEF Lesser, Greater, CharRoom
<1> HIDE DEF char
<1>8. Kept(e, Taught(e, book, char))
  BY <1>1, <1>6, <1>7 DEF CastSet, Kept, NoWorse, Taught
<1> QED BY <1>2, <1>8, OneKept DEF e

(* A lesson takes a level from the mentor, and lowers the group's count.   *)
LEMMA LessonKept ==
  ASSUME RosterInv, NEW in \in DOMAIN roster, NEW out \in DOMAIN roster, Inherit(in, out)
  PROVE  /\ impart' # impart
         /\ \A u \in DOMAIN roster \cap DOMAIN roster' : NoWorse(roster[u], roster'[u])
<1>1. /\ in # out /\ impart \in [Groups -> 0..ImpartLimit] /\ ImpartLimit \in Nat
      /\ roster' = [roster EXCEPT ![in].book = @ + 1, ![out] = Given(roster[out])]
  BY Consts DEF Inherit, RosterInv, Counts
<1>2. PICK q \in Groups : impart' = [impart EXCEPT ![q] = @ - 1]
  BY DEF Inherit
<1>3. impart' # impart
  <2>1. impart[q] \in Int /\ impart'[q] = impart[q] - 1
    BY <1>1, <1>2
  <2> QED BY <2>1
<1>4. \A u \in DOMAIN roster : roster[u] \in CastSet
  BY CastIsGrown
<1> DEFINE mid == [roster EXCEPT ![in].book = @ + 1]
<1>5. /\ roster = [u \in DOMAIN roster |-> roster[u]]
      /\ DOMAIN mid = DOMAIN roster /\ mid[in] = [roster[in] EXCEPT !.book = @ + 1]
      /\ \A u \in DOMAIN roster : u # in => mid[u] = roster[u]
  BY DEF RosterInv, IsRoster
<1>6. roster' = [mid EXCEPT ![out] = Given(roster[out])]
  BY <1>1
<1> HIDE DEF mid
<1>7. \A u \in DOMAIN roster :
        roster'[u] = IF u = out THEN Given(roster[out])
                     ELSE IF u = in THEN [roster[in] EXCEPT !.book = @ + 1] ELSE roster[u]
  BY <1>1, <1>5, <1>6
<1>8. ASSUME NEW e \in CastSet
      PROVE  /\ NoWorse(e, e) /\ NoWorse(e, Given(e)) /\ NoWorse(e, [e EXCEPT !.book = @ + 1])
  BY DEF CastSet, NoWorse, Given
<1> QED BY <1>3, <1>4, <1>7, <1>8

LEMMA FightsKept ==
  ASSUME RosterInv, NEW f \in Forms, BattleXp(f)
  PROVE  AllKept
<1> SUFFICES ASSUME NEW u \in DOMAIN roster PROVE Kept(roster[u], roster'[u])
  BY DEF AllKept
<1>1. roster[u] \in CastSet /\ Kept(roster[u], roster[u])
  BY CastIsGrown, Unaltered
<1>2. roster'[u] = roster[u] \/ roster'[u] = [roster[u] EXCEPT !.lv = @ + 1]
  BY DEF BattleXp
<1>3. Kept(roster[u], [roster[u] EXCEPT !.lv = @ + 1])
  BY <1>1 DEF CastSet, Kept, NoWorse
<1> QED BY <1>1, <1>2, <1>3

(* What is neither level, star nor rank.                                   *)
LEMMA LooksKept ==
  ASSUME RosterInv, NEW u \in DOMAIN roster, NEW s, Lock(u) \/ SetSkin(u, s)
  PROVE  AllKept
<1>1. roster[u] \in CastSet
  BY CastIsGrown
<1>2. CASE Lock(u)
  <2>1. Eats(u, Toggled(roster[u]), {})
    BY <1>2, GrowsIsEats DEF Lock
  <2>2. Kept(roster[u], Toggled(roster[u]))
    BY <1>1 DEF CastSet, Kept, NoWorse, Toggled
  <2> QED BY <2>1, <2>2, OneKept
<1>3. CASE SetSkin(u, s)
  <2>1. Eats(u, Clad(roster[u], s), {})
    BY <1>3, GrowsIsEats DEF SetSkin, Clad
  <2>2. Kept(roster[u], Clad(roster[u], s))
    BY <1>1 DEF CastSet, Kept, NoWorse, Clad
  <2> QED BY <2>1, <2>2, OneKept
<1> QED BY <1>2, <1>3

LEMMA GoneKept ==
  ASSUME RosterInv, NEW uids, Sell(uids) \/ Decompose(uids)
  PROVE  AllKept
<1>1. PICK out : roster' = Restrict(roster, DOMAIN roster \ out)
  BY DEF Sell, Decompose
<1>2. \A u \in DOMAIN roster \cap DOMAIN roster' : roster'[u] = roster[u]
  BY <1>1 DEF Restrict
<1> QED BY <1>2, OthersKept

LEMMA AddedKept ==
  ASSUME RosterInv, NEW c \in Chars, AddChar(c)
  PROVE  AllKept
<1>1. NextUid \notin DOMAIN roster
  BY UidIsFree, Consts DEF AddChar, RosterInv, Counts, IsRoster
<1>2. \A u \in DOMAIN roster : roster'[u] = roster[u]
  BY <1>1 DEF AddChar
<1> QED BY <1>2, OthersKept

(* What every step of the property has to leave.                           *)
StillGrown ==
  \A u \in DOMAIN roster \cap DOMAIN roster' :
    /\ NoWorse(roster[u], roster'[u])
    /\ impart' = impart =>
         roster'[u].book + roster'[u].char >= roster[u].book + roster[u].char

LEMMA RequestGrows ==
  ASSUME RosterInv, Request
  PROVE  StillGrown
<1>1. DOMAIN shown.roster = DOMAIN roster
  BY DEF RosterInv, ListAgrees, All
<1>2. AllKept => StillGrown
  BY DEF AllKept, Kept, StillGrown
<1>3. roster' = roster => StillGrown
  BY <1>2, OthersKept
<1>4. CASE \E c \in Chars : AddChar(c)
  BY <1>2, <1>4, AddedKept
<1>5. CASE \E uids \in SUBSET DOMAIN shown.roster : Sell(uids) \/ Decompose(uids)
  BY <1>2, <1>5, GoneKept
<1>6. CASE \E f \in Forms : BattleXp(f) \/ \E sent \in Teams : SetFormation(f, sent)
  <2>1. CASE \E f \in Forms : BattleXp(f)
    BY <1>2, <2>1, FightsKept
  <2>2. CASE \E f \in Forms : \E sent \in Teams : SetFormation(f, sent)
    BY <1>3, <2>2 DEF SetFormation
  <2> QED BY <1>6, <2>1, <2>2
<1>7. ASSUME NEW u \in DOMAIN roster,
             \/ Lock(u) \/ RemoveFromAll(u) \/ LevelUp(u, 1) \/ RankUp(u) \/ SuperRankUp(u)
             \/ \E mats \in SUBSET DOMAIN shown.roster :
                  Transcend(u, mats) \/ UltraTranscend(u, mats) \/ SkillUp(u, mats)
             \/ \E out \in DOMAIN roster : Inherit(u, out)
             \/ \E s \in Skins : UnlockSkin(u, s)
             \/ \E s \in Skins \cup {NormalSkin} : SetSkin(u, s)
      PROVE  StillGrown
  <2>1. CASE LevelUp(u, 1) \/ RankUp(u) \/ SuperRankUp(u)
    BY <1>2, <2>1, LevelsKept, RanksKept
  <2>2. CASE Lock(u) \/ \E s \in Skins \cup {NormalSkin} : SetSkin(u, s)
    BY <1>2, <2>2, LooksKept
  <2>3. CASE RemoveFromAll(u) \/ \E s \in Skins : UnlockSkin(u, s)
    BY <1>3, <2>3 DEF RemoveFromAll, UnlockSkin
  <2>4. CASE \E mats \in SUBSET DOMAIN shown.roster :
               Transcend(u, mats) \/ UltraTranscend(u, mats) \/ SkillUp(u, mats)
    BY <1>2, <2>4, TranscendedKept, UltraKept, TaughtKept
  <2>5. CASE \E out \in DOMAIN roster : Inherit(u, out)
    <3>1. /\ impart' # impart
          /\ \A v \in DOMAIN roster \cap DOMAIN roster' : NoWorse(roster[v], roster'[v])
      BY <2>5, LessonKept
    <3> QED BY <3>1 DEF StillGrown
  <2> QED BY <1>7, <2>1, <2>2, <2>3, <2>4, <2>5
<1> QED BY <1>1, <1>4, <1>5, <1>6, <1>7 DEF Request

(* The reset finds its stamp.                                              *)
LEMMA StampGrows ==
  ASSUME RosterInv, tutorial = "stamped", Reset \/ Login
  PROVE  StillGrown
<1>1. roster = [u \in DOMAIN roster |-> roster[u]]
  BY DEF RosterInv, IsRoster
<1>2. CASE DOMAIN roster = {}
  BY <1>2 DEF StillGrown
<1>3. CASE DOMAIN roster # {}
  <2>1. roster' = Settled(roster, "stamped")
    BY <1>3 DEF Reset, Login, Seeded
  <2>2. roster' = roster
    BY <1>1, <2>1, SettledStamped
  <2>3. AllKept
    BY <2>2, OthersKept
  <2> QED BY <2>3 DEF AllKept, Kept, StillGrown
<1> QED BY <1>2, <1>3

(* Once a request was served after the tutorial's last quest was claimed,  *)
(* no claim, crash, login or request takes a level, a star or a rank from  *)
(* a cast that stays, and only a lesson takes a skill level: the stamp is  *)
(* always in time (maybe_reset_tutorial_casts, level_up_char, skill_up,    *)
(* inherit_char and the rest).                                             *)
THEOREM GrownSafe == Spec => GrownIsKept
<1>1. RosterInv /\ Freed /\ [Next]_vars
        => [free => \A u \in DOMAIN roster \cap DOMAIN roster' :
                      /\ NoWorse(roster[u], roster'[u])
                      /\ impart' = impart =>
                           roster'[u].book + roster'[u].char >= roster[u].book + roster[u].char]_vars
  <2> SUFFICES ASSUME RosterInv, Freed, Next, free PROVE StillGrown
    BY DEF StillGrown
  <2>1. tutorial = "stamped"
    BY DEF Freed
  <2>2. CASE Serve
    BY <2>2, RequestGrows DEF Serve
  <2>3. CASE Claim
    BY <2>1, <2>3 DEF Claim
  <2>4. CASE Reset \/ Login
    BY <2>1, <2>4, StampGrows
  <2> QED BY <2>2, <2>3, <2>4 DEF Next
<1> QED BY <1>1, RosterSafe, PTL DEF Spec, GrownIsKept

-----------------------------------------------------------------------------
(* A bag of n pieces cannot use up the n + 1 numbers that are looked at.   *)
LEMMA PieceUidIsFree ==
  ASSUME NEW s, NEW b, IsBag(b, s)
  PROVE  FreeUid(b) \in Nat \ {0} /\ \A i \in DOMAIN b : b[i].uid # FreeUid(b)
<1> DEFINE n == Cardinality(DOMAIN b)
           range == (n + 1)..(2 * n + 1)
           spare == {u \in range : \A i \in DOMAIN b : b[i].uid # u}
<1>1. IsFiniteSet(DOMAIN b) /\ n \in Nat
  BY FS_CardinalityType DEF IsBag
<1>2. IsFiniteSet(range) /\ Cardinality(range) = n + 1
  BY <1>1, FS_Interval
<1>3. spare # {}
  <2> SUFFICES ASSUME spare = {} PROVE FALSE
    OBVIOUS
  <2> DEFINE f == [u \in range |-> CHOOSE i \in DOMAIN b : b[i].uid = u]
  <2>1. \A u \in range : f[u] \in DOMAIN b /\ b[f[u]].uid = u
    OBVIOUS
  <2>2. f \in [range -> DOMAIN b]
    BY <2>1
  <2>3. \A u, v \in range : f[u] = f[v] => u = v
    BY <2>1
  <2> HIDE DEF f, range
  <2>4. Cardinality(DOMAIN b) < Cardinality(range)
    BY <1>1, <1>2
  <2> QED BY <1>1, <1>2, <2>2, <2>3, <2>4, FS_PigeonHole
<1>4. IsFiniteSet(spare) /\ spare \subseteq Nat \ {0}
  <2>1. spare \in SUBSET range
    OBVIOUS
  <2> QED BY <1>1, <1>2, <2>1, FS_Subset
<1>5. Min(spare) \in spare
  BY <1>3, <1>4, MinIsLeast
<1>6. FreeUid(b) = Min(spare)
  BY DEF FreeUid
<1> QED BY <1>4, <1>5, <1>6

LEMMA SidIsFree ==
  ASSUME NEW s, NEW b, IsBag(b, s)
  PROVE  NextSid(b) \in Nat \ {0} /\ NextSid(b) \notin DOMAIN b
<1>1. DOMAIN b \subseteq Nat \ {0} /\ IsFiniteSet(DOMAIN b)
  BY DEF IsBag
<1>2. CASE DOMAIN b = {}
  BY <1>2 DEF NextSid
<1>3. CASE DOMAIN b # {}
  <2>1. Max(DOMAIN b) \in DOMAIN b /\ \A n \in DOMAIN b : n <= Max(DOMAIN b)
    BY <1>1, <1>3, MaxIsGreatest
  <2> QED BY <1>1, <1>3, <2>1 DEF NextSid
<1> QED BY <1>2, <1>3

-----------------------------------------------------------------------------
(* Accounts.                                                               *)

LEMMA RefFacts ==
  /\ \A s \in Storages, p \in Pieces : Ref(s, p) \in Marks /\ Ref(s, p) # Nothing
  /\ \A s, t \in Storages, p, q \in Pieces :
       Ref(s, p) = Ref(t, q) => s = t /\ p.uid = q.uid
  /\ Nothing \in Marks
<1>1. "none" \notin Storages
  BY DEF Storages
<1>2. \A p \in Pieces : p.uid \in Nat \ {0}
  BY DEF Pieces
<1> QED BY <1>1, <1>2 DEF Ref, Nothing, Marks

LEMMA InBag ==
  ASSUME NEW a, AccountOK(a), NEW s \in Storages, NEW i \in DOMAIN a.bag[s]
  PROVE  /\ a.bag[s][i] \in Pieces /\ i \in Nat \ {0}
         /\ KindRow[a.bag[s][i].kind].storage = s
         /\ \A j \in DOMAIN a.bag[s] : a.bag[s][i].uid = a.bag[s][j].uid => i = j
<1>1. IsBag(a.bag[s], s)
  BY DEF AccountOK
<1> QED BY <1>1 DEF IsBag

(* One field of an account is rewritten.                                   *)
LEMMA SetWorn ==
  ASSUME NEW a, AccountOK(a), NEW w \in [Casts -> [Slots -> Marks]]
  PROVE  LET b == [a EXCEPT !.worn = w]
         IN AccountOK(b) /\ b.casts = a.casts /\ b.worn = w /\ b.bag = a.bag /\ b.coins = a.coins
<1> DEFINE b == [a EXCEPT !.worn = w]
<1>1. a = [casts |-> a.casts, worn |-> a.worn, bag |-> a.bag, coins |-> a.coins]
  BY DEF AccountOK
<1>2. b = [casts |-> a.casts, worn |-> w, bag |-> a.bag, coins |-> a.coins]
  BY <1>1
<1> HIDE DEF b
<1>3. b.casts = a.casts /\ b.worn = w /\ b.bag = a.bag /\ b.coins = a.coins
  BY <1>2
<1>4. AccountOK(b)
  BY <1>2, <1>3 DEF AccountOK
<1> QED BY <1>3, <1>4 DEF b

LEMMA SetCoins ==
  ASSUME NEW a, AccountOK(a), NEW n \in Nat
  PROVE  LET b == [a EXCEPT !.coins = n]
         IN AccountOK(b) /\ b.casts = a.casts /\ b.worn = a.worn /\ b.bag = a.bag /\ b.coins = n
<1> DEFINE b == [a EXCEPT !.coins = n]
<1>1. a = [casts |-> a.casts, worn |-> a.worn, bag |-> a.bag, coins |-> a.coins]
  BY DEF AccountOK
<1>2. b = [casts |-> a.casts, worn |-> a.worn, bag |-> a.bag, coins |-> n]
  BY <1>1
<1> HIDE DEF b
<1>3. b.casts = a.casts /\ b.worn = a.worn /\ b.bag = a.bag /\ b.coins = n
  BY <1>2
<1>4. AccountOK(b)
  BY <1>2, <1>3 DEF AccountOK
<1> QED BY <1>3, <1>4 DEF b

LEMMA SetBag ==
  ASSUME NEW a, AccountOK(a), NEW s \in Storages, NEW g, IsBag(g, s)
  PROVE  LET b == [a EXCEPT !.bag[s] = g]
         IN /\ AccountOK(b) /\ b.casts = a.casts /\ b.worn = a.worn /\ b.coins = a.coins
            /\ b.bag[s] = g /\ \A t \in Storages \ {s} : b.bag[t] = a.bag[t]
            /\ b.bag = [a.bag EXCEPT ![s] = g]
<1> DEFINE b == [a EXCEPT !.bag[s] = g]
           h == [a.bag EXCEPT ![s] = g]
<1>1. a = [casts |-> a.casts, worn |-> a.worn, bag |-> a.bag, coins |-> a.coins]
  BY DEF AccountOK
<1>2. b = [casts |-> a.casts, worn |-> a.worn, bag |-> h, coins |-> a.coins]
  BY <1>1
<1>3. /\ a.bag = [t \in Storages |-> a.bag[t]] /\ \A t \in Storages : IsBag(a.bag[t], t)
  BY DEF AccountOK
<1>4. /\ h = [t \in Storages |-> h[t]] /\ h[s] = g /\ \A t \in Storages \ {s} : h[t] = a.bag[t]
  BY <1>3
<1> HIDE DEF b, h
<1>5. b.casts = a.casts /\ b.worn = a.worn /\ b.bag = h /\ b.coins = a.coins
  BY <1>2
<1>6. \A t \in Storages : IsBag(h[t], t)
  BY <1>3, <1>4
<1>7. AccountOK(b)
  BY <1>2, <1>4, <1>5, <1>6 DEF AccountOK
<1>8. b.bag[s] = g /\ \A t \in Storages \ {s} : b.bag[t] = a.bag[t]
  BY <1>4, <1>5
<1> QED BY <1>5, <1>7, <1>8 DEF b, h

(* The same casts wear the same pieces, and the bags have kept them.       *)
LEMMA BagKept ==
  ASSUME NEW a, NEW b, Neat(a), AccountOK(b), b.casts = a.casts, b.worn = a.worn,
         \A s \in Storages : \A i \in DOMAIN a.bag[s] :
           /\ i \in DOMAIN b.bag[s]
           /\ b.bag[s][i].uid = a.bag[s][i].uid /\ b.bag[s][i].kind = a.bag[s][i].kind
  PROVE  Neat(b)
<1>1. ASSUME NEW c \in Casts, NEW slot \in Slots, Fits(a, c, slot) PROVE Fits(b, c, slot)
  BY <1>1 DEF Fits, Ref, Home
<1>2. \A c \in Casts, slot \in Slots : Worn(b, c, slot)
  BY <1>1 DEF Neat, Worn
<1> QED BY <1>2 DEF Neat

(* What has left a bag is worn by nobody any more.                         *)
LEMMA Unworn ==
  ASSUME NEW a, NEW b, NEW R, Neat(a), AccountOK(b), b.casts = a.casts,
         b.worn = TakenOff(a.worn, R),
         \A s \in Storages : \A i \in DOMAIN a.bag[s] :
           \/ Ref(s, a.bag[s][i]) \in R
           \/ i \in DOMAIN b.bag[s] /\ b.bag[s][i] = a.bag[s][i]
  PROVE  Neat(b)
<1>1. \A c \in Casts, slot \in Slots :
        b.worn[c][slot] = IF a.worn[c][slot] \in R THEN Nothing ELSE a.worn[c][slot]
  BY DEF TakenOff
<1>2. ASSUME NEW c \in Casts, NEW slot \in Slots, Fits(a, c, slot) PROVE Fits(b, c, slot)
  BY <1>1, <1>2 DEF Fits
<1>3. \A c \in Casts, slot \in Slots : Worn(b, c, slot)
  BY <1>1, <1>2 DEF Neat, Worn
<1> QED BY <1>3 DEF Neat

(* One piece at most is put on, into a slot of its kind, and nobody else   *)
(* keeps it.                                                               *)
PutOn(a, b, c, t, r) ==
  /\ b.casts = a.casts /\ b.bag = a.bag
  /\ \A d \in Casts, slot \in Slots :
       \/ b.worn[d][slot] = Nothing
       \/ b.worn[d][slot] = a.worn[d][slot]
       \/ d = c /\ slot = t /\ b.worn[d][slot] = r
  /\ r # Nothing => /\ \E s \in Storages : \E i \in DOMAIN a.bag[s] :
                          r = Ref(s, a.bag[s][i]) /\ Home(s, a.bag[s][i], t)
                    /\ \A d \in Casts, slot \in Slots :
                          b.worn[d][slot] = r => d = c /\ slot = t

LEMMA Wears ==
  ASSUME NEW a, NEW b, Neat(a), AccountOK(b), NEW c \in a.casts, NEW t, NEW r,
         PutOn(a, b, c, t, r)
  PROVE  Neat(b)
<1> USE DEF PutOn
<1>1. ASSUME NEW d \in Casts, NEW slot \in Slots PROVE Fits(b, d, slot)
  <2>1. Fits(a, d, slot)
    BY DEF Neat, Worn
  <2> QED BY <2>1 DEF Fits
<1>2. ASSUME NEW d \in Casts, NEW slot \in Slots, b.worn[d][slot] # Nothing
      PROVE  /\ d \in b.casts
             /\ \A e \in Casts, u \in Slots : b.worn[e][u] = b.worn[d][slot] => e = d /\ u = slot
  <2>1. CASE r # Nothing /\ b.worn[d][slot] = r
    BY <2>1
  <2>2. CASE b.worn[d][slot] = a.worn[d][slot] /\ b.worn[d][slot] # r
    <3>1. Worn(a, d, slot)
      BY DEF Neat
    <3> QED BY <1>2, <2>2, <3>1 DEF Worn
  <2> QED BY <1>2, <2>1, <2>2
<1>3. \A d \in Casts, slot \in Slots : Worn(b, d, slot)
  BY <1>1, <1>2 DEF Worn
<1> QED BY <1>3 DEF Neat

LEMMA TakenOffFacts ==
  ASSUME NEW w \in [Casts -> [Slots -> Marks]], NEW R
  PROVE  /\ TakenOff(w, R) \in [Casts -> [Slots -> Marks]]
         /\ \A c \in Casts, s \in Slots :
              TakenOff(w, R)[c][s] = IF w[c][s] \in R THEN Nothing ELSE w[c][s]
BY RefFacts DEF TakenOff

-----------------------------------------------------------------------------
(* What the handlers do to an account.                                     *)

(* A piece is added under a new slot id and a new uid.                     *)
IsFiled(a, b, s, sid) ==
  /\ Neat(b) /\ b.casts = a.casts /\ b.worn = a.worn /\ b.coins = a.coins
  /\ sid \in Nat \ {0} /\ sid \notin DOMAIN a.bag[s]
  /\ DOMAIN b.bag[s] = DOMAIN a.bag[s] \cup {sid}
  /\ \A i \in DOMAIN a.bag[s] : b.bag[s][i] = a.bag[s][i] /\ b.bag[s][i].uid # b.bag[s][sid].uid
  /\ \A t \in Storages \ {s} : b.bag[t] = a.bag[t]

LEMMA FiledNeat ==
  ASSUME NEW a, Neat(a), NEW k \in Kinds, NEW s \in Storages, KindRow[k].storage = s
  PROVE  IsFiled(a, Filed(a, s, k), s, NextSid(a.bag[s]))
<1> DEFINE g == a.bag[s]
           sid == NextSid(g)
           new == [uid |-> FreeUid(g), kind |-> k, lv |-> 0, lock |-> FALSE]
           h == [i \in DOMAIN g \cup {sid} |-> IF i = sid THEN new ELSE g[i]]
           b == [a EXCEPT !.bag[s] = h]
<1>1. AccountOK(a) /\ IsBag(g, s)
  BY DEF Neat, AccountOK
<1>2. b = Filed(a, s, k)
  BY DEF Filed
<1>3. sid \in Nat \ {0} /\ sid \notin DOMAIN g
  BY <1>1, SidIsFree
<1>4. new \in Pieces /\ new.kind = k /\ \A i \in DOMAIN g : g[i].uid # new.uid
  BY <1>1, PieceUidIsFree, GearAssumption DEF GearAssumption, Pieces
<1>5. IsFiniteSet(DOMAIN g \cup {sid})
  BY <1>1, FS_AddElement DEF IsBag
<1> HIDE DEF sid, new, g
<1>6. /\ DOMAIN h = DOMAIN g \cup {sid} /\ h[sid] = new
      /\ \A i \in DOMAIN g : h[i] = g[i] /\ i # sid
  BY <1>3
<1> HIDE DEF h
<1>7. IsBag(h, s)
  <2>1. DOMAIN h \subseteq Nat \ {0} /\ IsFiniteSet(DOMAIN h)
    BY <1>1, <1>3, <1>5, <1>6 DEF IsBag
  <2>2. \A i \in DOMAIN h : h[i] \in Pieces /\ KindRow[h[i].kind].storage = s
    BY <1>1, <1>4, <1>6 DEF IsBag
  <2>3. h = [i \in DOMAIN h |-> h[i]]
    BY DEF h
  <2>4. \A i, j \in DOMAIN h : h[i].uid = h[j].uid => i = j
    BY <1>1, <1>4, <1>6 DEF IsBag
  <2> QED BY <2>1, <2>2, <2>3, <2>4 DEF IsBag
<1>8. /\ AccountOK(b) /\ b.casts = a.casts /\ b.worn = a.worn /\ b.coins = a.coins
      /\ b.bag[s] = h /\ \A t \in Storages \ {s} : b.bag[t] = a.bag[t]
  BY <1>1, <1>7, SetBag
<1> HIDE DEF b
<1>9. Neat(b)
  <2>1. \A t \in Storages : \A i \in DOMAIN a.bag[t] :
           i \in DOMAIN b.bag[t] /\ b.bag[t][i] = a.bag[t][i]
    BY <1>6, <1>8 DEF g
  <2> QED BY <1>8, <2>1, BagKept
<1>10. \A i \in DOMAIN g : h[i].uid # h[sid].uid
  BY <1>4, <1>6
<1> QED BY <1>2, <1>3, <1>6, <1>8, <1>9, <1>10 DEF IsFiled, g, sid

LEMMA DestroyedNeat ==
  ASSUME NEW a, Neat(a), NEW s \in Storages, NEW sids, sids \subseteq DOMAIN a.bag[s]
  PROVE  LET b == Destroyed(a, s, sids)
         IN /\ Neat(b) /\ b.casts = a.casts /\ b.coins = a.coins
            /\ b.worn \in [Casts -> [Slots -> Marks]]
            /\ DOMAIN b.bag[s] = DOMAIN a.bag[s] \ sids
            /\ \A i \in DOMAIN a.bag[s] \ sids : b.bag[s][i] = a.bag[s][i]
            /\ \A t \in Storages \ {s} : b.bag[t] = a.bag[t]
<1> DEFINE g == a.bag[s]
           h == Restrict(g, DOMAIN g \ sids)
           R == {Ref(s, g[i]) : i \in sids}
           w == TakenOff(a.worn, R)
           m == [a EXCEPT !.worn = w]
           b == [m EXCEPT !.bag[s] = h]
<1>1. AccountOK(a) /\ IsBag(g, s) /\ a.worn \in [Casts -> [Slots -> Marks]]
  BY DEF Neat, AccountOK
<1>2. w \in [Casts -> [Slots -> Marks]]
  BY <1>1, TakenOffFacts
<1>3. AccountOK(m) /\ m.casts = a.casts /\ m.worn = w /\ m.bag = a.bag /\ m.coins = a.coins
  BY <1>1, <1>2, SetWorn
<1>4. DOMAIN h = DOMAIN g \ sids /\ \A i \in DOMAIN g \ sids : h[i] = g[i]
  BY DEF Restrict
<1>5. h = [i \in DOMAIN h |-> h[i]]
  BY DEF Restrict
<1>6. DOMAIN h \in SUBSET DOMAIN g
  BY <1>4
<1> HIDE DEF h
<1>7. IsBag(h, s)
  BY <1>1, <1>4, <1>5, <1>6, FS_Subset DEF IsBag
<1>8. b = Destroyed(a, s, sids)
  <2> HIDE DEF R
  <2>1. a = [casts |-> a.casts, worn |-> a.worn, bag |-> a.bag, coins |-> a.coins]
    BY <1>1 DEF AccountOK
  <2>2. Destroyed(a, s, sids)
          = [a EXCEPT !.worn = w, !.bag[s] = Restrict(@, DOMAIN @ \ sids)]
    BY DEF Destroyed, R, w
  <2> HIDE DEF w
  <2>3. Destroyed(a, s, sids)
          = [casts |-> a.casts, worn |-> w, coins |-> a.coins,
             bag |-> [a.bag EXCEPT ![s] = Restrict(a.bag[s], DOMAIN a.bag[s] \ sids)]]
    BY <2>1, <2>2
  <2>4. h = Restrict(a.bag[s], DOMAIN a.bag[s] \ sids)
    BY DEF h
  <2>5. b = [casts |-> a.casts, worn |-> w, coins |-> a.coins, bag |-> [a.bag EXCEPT ![s] = h]]
    <3>1. m = [casts |-> a.casts, worn |-> w, bag |-> a.bag, coins |-> a.coins]
      BY <2>1
    <3> HIDE DEF m
    <3> QED BY <3>1
  <2> QED BY <2>3, <2>4, <2>5
<1>9. /\ AccountOK(b) /\ b.casts = a.casts /\ b.worn = w /\ b.coins = a.coins
      /\ b.bag[s] = h /\ \A t \in Storages \ {s} : b.bag[t] = a.bag[t]
  <2> HIDE DEF m
  <2> QED BY <1>3, <1>7, SetBag
<1> HIDE DEF b, m, w
<1>10. Neat(b)
  <2>1. ASSUME NEW t \in Storages, NEW i \in DOMAIN a.bag[t]
        PROVE  Ref(t, a.bag[t][i]) \in R \/ (i \in DOMAIN b.bag[t] /\ b.bag[t][i] = a.bag[t][i])
    <3>1. CASE t # s
      BY <1>9, <3>1
    <3>2. CASE t = s /\ i \in sids
      BY <3>2
    <3>3. CASE t = s /\ i \notin sids
      BY <1>4, <1>9, <3>3
    <3> QED BY <3>1, <3>2, <3>3
  <2> HIDE DEF R
  <2>2. b.worn = TakenOff(a.worn, R)
    BY <1>9 DEF w
  <2> QED BY <1>9, <2>1, <2>2, Unworn
<1> QED BY <1>2, <1>4, <1>8, <1>9, <1>10

(* The starshards of the array, none of them twice.                        *)
LEMMA RunesWornNeat ==
  ASSUME NEW a, Neat(a), NEW c \in a.casts,
         NEW sent \in [1..Cardinality(RuneSlots) -> Refs(a, "rune") \cup {Nothing}],
         \A i, j \in DOMAIN sent : sent[i] = sent[j] /\ i # j => sent[i] = Nothing
  PROVE  LET b == RunesWorn(a, c, sent)
         IN Neat(b) /\ b.casts = a.casts /\ b.bag = a.bag /\ b.coins = a.coins
            /\ b.worn \in [Casts -> [Slots -> Marks]]
<1> DEFINE n == Cardinality(RuneSlots)
           slots == [s \in Slots |-> IF s \in RuneSlots /\ s <= Len(sent) THEN sent[s]
                                     ELSE a.worn[c][s]]
           R == {slots[s] : s \in Slots} \ {Nothing}
           w == [TakenOff(a.worn, R) EXCEPT ![c] = slots]
           b == [a EXCEPT !.worn = w]
<1>1. AccountOK(a) /\ a.worn \in [Casts -> [Slots -> Marks]] /\ c \in Casts
  BY DEF Neat, AccountOK
<1>2. n \in Nat /\ RuneSlots = 1..n /\ RuneSlots \subseteq Slots
  BY FS_CardinalityType, GearAssumption DEF GearAssumption, Slots
<1>3. \A r \in Refs(a, "rune") :
        r \in Marks /\ r # Nothing /\ \E i \in DOMAIN a.bag["rune"] : r = Ref("rune", a.bag["rune"][i])
  <2>1. "rune" \in Storages
    BY DEF Storages
  <2> QED BY <1>1, <2>1, InBag, RefFacts DEF Refs
<1>4. DOMAIN sent = 1..n /\ \A i \in 1..n : sent[i] \in Refs(a, "rune") \cup {Nothing}
  OBVIOUS
<1>5. Len(sent) = n
  <2>1. sent \in [1..n -> Marks]
    BY <1>3, <1>4, RefFacts
  <2> HIDE DEF n
  <2> QED BY <1>2, <2>1
<1> HIDE DEF n
<1>6. \A s \in Slots : slots[s] = IF s \in RuneSlots THEN sent[s] ELSE a.worn[c][s]
  BY <1>2, <1>5
<1>7. slots \in [Slots -> Marks]
  <2>1. \A s \in Slots : slots[s] \in Marks
    BY <1>1, <1>2, <1>3, <1>4, <1>6, RefFacts
  <2> QED BY <2>1
<1> HIDE DEF slots
<1>8. /\ TakenOff(a.worn, R) \in [Casts -> [Slots -> Marks]]
      /\ \A d \in Casts, s \in Slots :
           TakenOff(a.worn, R)[d][s] = IF a.worn[d][s] \in R THEN Nothing ELSE a.worn[d][s]
  BY <1>1, TakenOffFacts
<1>9. /\ w \in [Casts -> [Slots -> Marks]] /\ w[c] = slots
      /\ \A d \in Casts \ {c} : w[d] = TakenOff(a.worn, R)[d]
  BY <1>1, <1>7, <1>8
<1>10. Nothing \notin R /\ \A s \in Slots : slots[s] # Nothing => slots[s] \in R
  OBVIOUS
<1> HIDE DEF w, R
<1>11. b = RunesWorn(a, c, sent)
  BY DEF RunesWorn, w, R, slots
<1>12. AccountOK(b) /\ b.casts = a.casts /\ b.worn = w /\ b.bag = a.bag /\ b.coins = a.coins
  BY <1>1, <1>9, SetWorn
<1> HIDE DEF b
<1>13. /\ \A s \in Slots : b.worn[c][s] = IF s \in RuneSlots THEN sent[s] ELSE a.worn[c][s]
       /\ \A d \in Casts \ {c}, s \in Slots :
            /\ b.worn[d][s] = Nothing \/ b.worn[d][s] = a.worn[d][s]
            /\ b.worn[d][s] \notin R
  BY <1>6, <1>8, <1>9, <1>10, <1>12
<1>14. \A s \in Slots : b.worn[c][s] # Nothing => b.worn[c][s] \in R
  BY <1>9, <1>10, <1>12
<1>15. ASSUME NEW s \in Slots, a.worn[c][s] \in Refs(a, "rune") PROVE s \in RuneSlots
  <2>1. PICK i \in DOMAIN a.bag["rune"] : a.worn[c][s] = Ref("rune", a.bag["rune"][i])
    BY <1>3, <1>15
  <2>2. Fits(a, c, s) /\ a.worn[c][s] # Nothing
    BY <1>1, <1>3, <1>15 DEF Neat, Worn
  <2>3. PICK t \in Storages : \E j \in DOMAIN a.bag[t] :
           a.worn[c][s] = Ref(t, a.bag[t][j]) /\ Home(t, a.bag[t][j], s)
    BY <2>2 DEF Fits
  <2>4. PICK j \in DOMAIN a.bag[t] : a.worn[c][s] = Ref(t, a.bag[t][j]) /\ Home(t, a.bag[t][j], s)
    BY <2>3
  <2>5. t = "rune"
    BY <2>1, <2>4 DEF Ref
  <2> QED BY <2>4, <2>5 DEF Home
<1>16. ASSUME NEW d \in Casts, NEW s \in Slots PROVE Fits(b, d, s)
  <2>1. Fits(a, d, s)
    BY DEF Neat, Worn
  <2>2. CASE d # c
    BY <1>12, <1>13, <2>1, <2>2 DEF Fits
  <2>3. CASE d = c /\ s \notin RuneSlots
    BY <1>12, <1>13, <2>1, <2>3 DEF Fits
  <2>4. CASE d = c /\ s \in RuneSlots
    <3>1. b.worn[d][s] = sent[s] /\ sent[s] \in Refs(a, "rune") \cup {Nothing}
      BY <1>2, <1>4, <1>13, <2>4
    <3>2. "rune" \in Storages /\ \A i \in DOMAIN a.bag["rune"] : Home("rune", a.bag["rune"][i], s)
      BY <2>4 DEF Storages, Home
    <3> QED BY <1>3, <1>12, <3>1, <3>2 DEF Fits
  <2> QED BY <2>2, <2>3, <2>4
<1>17. ASSUME NEW d \in Casts, NEW s \in Slots, b.worn[d][s] # Nothing,
              NEW e \in Casts, NEW u \in Slots, b.worn[e][u] = b.worn[d][s]
       PROVE  e = d /\ u = s
  <2>1. Worn(a, d, s)
    BY DEF Neat
  <2>2. CASE d # c
    <3>1. e # c
      BY <1>13, <1>14, <1>17, <2>2
    <3> QED BY <1>13, <1>17, <2>1, <2>2, <3>1 DEF Worn
  <2>3. CASE d = c
    <3>1. e = c
      BY <1>13, <1>14, <1>17, <2>3
    <3>2. CASE s \in RuneSlots
      <4>1. b.worn[d][s] = sent[s] /\ sent[s] \in Refs(a, "rune")
        BY <1>2, <1>4, <1>13, <1>17, <2>3, <3>2
      <4>2. u \in RuneSlots
        BY <1>13, <1>15, <1>17, <3>1, <4>1
      <4> QED BY <1>2, <1>4, <1>13, <1>17, <2>3, <3>1, <3>2, <4>1, <4>2
    <3>3. CASE s \notin RuneSlots
      <4>1. u \notin RuneSlots
        <5> SUFFICES ASSUME u \in RuneSlots PROVE FALSE
          OBVIOUS
        <5>1. b.worn[e][u] = sent[u] /\ sent[u] \in Refs(a, "rune")
          BY <1>2, <1>4, <1>13, <1>17, <3>1
        <5> QED BY <1>13, <1>15, <1>17, <2>3, <3>3, <5>1
      <4> QED BY <1>13, <1>17, <2>1, <2>3, <3>1, <3>3, <4>1 DEF Worn
    <3> QED BY <3>2, <3>3
  <2> QED BY <2>2, <2>3
<1>18. ASSUME NEW d \in Casts, NEW s \in Slots, b.worn[d][s] # Nothing PROVE d \in b.casts
  <2>1. Worn(a, d, s)
    BY DEF Neat
  <2> QED BY <1>12, <1>13, <1>18, <2>1 DEF Worn
<1>19. Neat(b)
  BY <1>12, <1>16, <1>17, <1>18 DEF Neat, Worn
<1> QED BY <1>9, <1>11, <1>12, <1>19

LEMMA PieceWornNeat ==
  ASSUME NEW a, Neat(a), NEW c \in a.casts, NEW t \in Slots, NEW r,
         \/ r = Nothing
         \/ \E s \in Storages : \E i \in DOMAIN a.bag[s] :
              r = Ref(s, a.bag[s][i]) /\ Home(s, a.bag[s][i], t)
  PROVE  LET b == MirrorWorn(a, c, r, t)
         IN Neat(b) /\ b.casts = a.casts /\ b.bag = a.bag /\ b.coins = a.coins
            /\ b.worn \in [Casts -> [Slots -> Marks]]
<1> DEFINE off == TakenOff(a.worn, {r} \ {Nothing})
           w == [off EXCEPT ![c][t] = r]
           b == [a EXCEPT !.worn = w]
<1>1. AccountOK(a) /\ a.worn \in [Casts -> [Slots -> Marks]] /\ c \in Casts
  BY DEF Neat, AccountOK
<1>2. r \in Marks
  BY <1>1, InBag, RefFacts
<1>3. /\ off \in [Casts -> [Slots -> Marks]]
      /\ \A d \in Casts, s \in Slots :
           off[d][s] = IF a.worn[d][s] \in {r} \ {Nothing} THEN Nothing ELSE a.worn[d][s]
  BY <1>1, TakenOffFacts
<1> HIDE DEF off
<1>4. /\ w \in [Casts -> [Slots -> Marks]]
      /\ \A d \in Casts, s \in Slots : w[d][s] = IF d = c /\ s = t THEN r ELSE off[d][s]
  BY <1>1, <1>2, <1>3
<1> HIDE DEF w
<1>5. AccountOK(b) /\ b.casts = a.casts /\ b.worn = w /\ b.bag = a.bag /\ b.coins = a.coins
  BY <1>1, <1>4, SetWorn
<1> HIDE DEF b
<1>6. \A d \in Casts, s \in Slots : \/ b.worn[d][s] = Nothing
                                    \/ b.worn[d][s] = a.worn[d][s]
                                    \/ d = c /\ s = t /\ b.worn[d][s] = r
  BY <1>3, <1>4, <1>5
<1>7. r # Nothing => \A d \in Casts, s \in Slots : b.worn[d][s] = r => d = c /\ s = t
  BY <1>3, <1>4, <1>5
<1>8. PutOn(a, b, c, t, r)
  BY <1>5, <1>6, <1>7 DEF PutOn
<1>9. b = MirrorWorn(a, c, r, t)
  BY DEF MirrorWorn, b, w, off
<1> QED BY <1>4, <1>5, <1>8, <1>9, Wears

LEMMA PactWornNeat ==
  ASSUME NEW a, Neat(a), NEW c \in a.casts, NEW r,
         \/ r = Nothing
         \/ \E i \in DOMAIN a.bag["pact"] : r = Ref("pact", a.bag["pact"][i])
  PROVE  LET b == PactWorn(a, c, r)
         IN Neat(b) /\ b.casts = a.casts /\ b.bag = a.bag /\ b.coins = a.coins
            /\ b.worn \in [Casts -> [Slots -> Marks]]
<1>1. AccountOK(a) /\ a.worn \in [Casts -> [Slots -> Marks]] /\ c \in Casts
  BY DEF Neat, AccountOK
<1>2. CASE r = Nothing
  <2> DEFINE row == [i \in Slots |-> IF i \in PactSlots THEN Nothing ELSE a.worn[c][i]]
             w == [a.worn EXCEPT ![c] = row]
             b == [a EXCEPT !.worn = w]
  <2>1. \A i \in Slots : row[i] \in Marks /\ (row[i] = Nothing \/ row[i] = a.worn[c][i])
    BY <1>1, RefFacts
  <2>2. row \in [Slots -> Marks]
    BY <2>1
  <2> HIDE DEF row
  <2>3. /\ w \in [Casts -> [Slots -> Marks]] /\ w[c] = row
        /\ \A d \in Casts \ {c} : w[d] = a.worn[d]
    BY <1>1, <2>2
  <2>4. b = PactWorn(a, c, r)
    <3>1. a = [casts |-> a.casts, worn |-> a.worn, bag |-> a.bag, coins |-> a.coins]
      BY <1>1 DEF AccountOK
    <3>2. PactWorn(a, c, r)
            = [a EXCEPT !.worn[c] = [i \in Slots |-> IF i \in PactSlots THEN Nothing ELSE @[i]]]
      BY <1>2 DEF PactWorn
    <3> QED BY <3>1, <3>2 DEF row
  <2> HIDE DEF w
  <2>5. AccountOK(b) /\ b.casts = a.casts /\ b.worn = w /\ b.bag = a.bag /\ b.coins = a.coins
    BY <1>1, <2>3, SetWorn
  <2> HIDE DEF b
  <2>6. \A d \in Casts, s \in Slots : b.worn[d][s] = Nothing \/ b.worn[d][s] = a.worn[d][s]
    BY <2>1, <2>3, <2>5
  <2>7. PutOn(a, b, c, 1, Nothing)
    BY <2>5, <2>6 DEF PutOn
  <2> QED BY <2>3, <2>4, <2>5, <2>7, Wears
<1>3. CASE r # Nothing
  <2> DEFINE off == TakenOff(a.worn, {r} \ {Nothing})
             spare == {s \in PactSlots : off[c][s] = Nothing}
             t == IF spare = {} THEN Min(PactSlots) ELSE Min(spare)
  <2>1. PactSlots \subseteq Nat /\ PactSlots # {} /\ IsFiniteSet(PactSlots)
    BY GearAssumption DEF GearAssumption
  <2>2. Min(PactSlots) \in PactSlots
    BY <2>1, MinIsLeast
  <2>3. spare # {} => Min(spare) \in spare
    <3>1. spare \in SUBSET PactSlots
      OBVIOUS
    <3> QED BY <2>1, <3>1, FS_Subset, MinIsLeast
  <2>4. t \in PactSlots /\ t \in Slots
    BY <2>2, <2>3 DEF Slots
  <2>5. \E s \in Storages : \E i \in DOMAIN a.bag[s] :
          r = Ref(s, a.bag[s][i]) /\ Home(s, a.bag[s][i], t)
    <3>1. PICK i \in DOMAIN a.bag["pact"] : r = Ref("pact", a.bag["pact"][i])
      BY <1>3
    <3>2. "pact" \in Storages /\ Home("pact", a.bag["pact"][i], t)
      BY <2>4 DEF Storages, Home
    <3> QED BY <3>1, <3>2
  <2>6. PactWorn(a, c, r) = MirrorWorn(a, c, r, t)
    BY <1>3 DEF PactWorn, MirrorWorn
  <2> HIDE DEF t
  <2> QED BY <2>4, <2>5, <2>6, PieceWornNeat
<1> QED BY <1>2, <1>3

LEMMA PurgedNeat ==
  ASSUME NEW a, Neat(a)
  PROVE  Neat(Purged(a))
<1> DEFINE m == Destroyed(a, "mirror", Doomed(a, "mirror"))
           p == Destroyed(m, "pact", Doomed(m, "pact"))
           q == Destroyed(p, "rune", Doomed(p, "rune"))
<1>1. "mirror" \in Storages /\ "pact" \in Storages /\ "rune" \in Storages
  BY DEF Storages
<1>2. \A b, s : Doomed(b, s) \subseteq DOMAIN b.bag[s]
  BY DEF Doomed
<1>3. Neat(m)
  BY <1>1, <1>2, DestroyedNeat
<1> HIDE DEF m
<1>4. Neat(p)
  BY <1>1, <1>2, <1>3, DestroyedNeat
<1> HIDE DEF p
<1>5. Neat(q)
  BY <1>1, <1>2, <1>4, DestroyedNeat
<1> QED BY <1>5 DEF Purged, m, p

EditedTo(a, s, i, p, n) == [a EXCEPT !.bag[s][i] = p, !.coins = @ - n]

(* A level or a lock is rewritten, and paid for.                           *)
LEMMA EditedNeat ==
  ASSUME NEW a, Neat(a), NEW s \in Storages, NEW i \in DOMAIN a.bag[s], NEW p \in Pieces,
         p.uid = a.bag[s][i].uid, p.kind = a.bag[s][i].kind,
         NEW n \in Nat, n <= a.coins
  PROVE  LET b == EditedTo(a, s, i, p, n)
         IN /\ Neat(b) /\ b.casts = a.casts /\ b.worn = a.worn
            /\ DOMAIN b.bag[s] = DOMAIN a.bag[s]
            /\ \A t \in Storages \ {s} : b.bag[t] = a.bag[t]
<1> DEFINE g == a.bag[s]
           h == [g EXCEPT ![i] = p]
           m == [a EXCEPT !.bag[s] = h]
           b == [m EXCEPT !.coins = a.coins - n]
<1>1. AccountOK(a) /\ IsBag(g, s) /\ a.coins \in Nat
  BY DEF Neat, AccountOK
<1>2. /\ DOMAIN h = DOMAIN g /\ h[i] = p /\ h = [j \in DOMAIN h |-> h[j]]
      /\ \A j \in DOMAIN g \ {i} : h[j] = g[j]
  BY <1>1 DEF IsBag
<1>3. [a EXCEPT !.bag[s][i] = p, !.coins = @ - n] = b
  <2>1. a = [casts |-> a.casts, worn |-> a.worn, bag |-> a.bag, coins |-> a.coins]
    BY <1>1 DEF AccountOK
  <2>2. [a.bag EXCEPT ![s][i] = p] = [a.bag EXCEPT ![s] = h]
    BY <1>1 DEF AccountOK
  <2> DEFINE e == [a.bag EXCEPT ![s][i] = p]
  <2>3. [a EXCEPT !.bag[s][i] = p, !.coins = @ - n]
          = [casts |-> a.casts, worn |-> a.worn, bag |-> e, coins |-> a.coins - n]
    <3>1. [a EXCEPT !.bag[s][i] = p, !.coins = @ - n] = [a EXCEPT !.bag = e, !.coins = @ - n]
      OBVIOUS
    <3> HIDE DEF e
    <3>2. [a EXCEPT !.bag = e, !.coins = @ - n]
            = [casts |-> a.casts, worn |-> a.worn, bag |-> e, coins |-> a.coins - n]
      <4> DEFINE d == [a EXCEPT !.bag = e]
      <4>1. d = [casts |-> a.casts, worn |-> a.worn, bag |-> e, coins |-> a.coins]
        BY <2>1
      <4>2. [a EXCEPT !.bag = e, !.coins = @ - n] = [d EXCEPT !.coins = @ - n]
        OBVIOUS
      <4> HIDE DEF d
      <4> QED BY <4>1, <4>2
    <3> QED BY <3>1, <3>2
  <2> HIDE DEF h
  <2>4. m = [casts |-> a.casts, worn |-> a.worn, bag |-> [a.bag EXCEPT ![s] = h],
             coins |-> a.coins]
    BY <2>1
  <2> HIDE DEF m
  <2>5. b = [casts |-> a.casts, worn |-> a.worn, bag |-> [a.bag EXCEPT ![s] = h],
             coins |-> a.coins - n]
    BY <2>4
  <2> QED BY <2>2, <2>3, <2>5
<1> HIDE DEF g, h
<1>4. IsBag(h, s)
  BY <1>1, <1>2 DEF IsBag, g
<1>5. /\ AccountOK(m) /\ m.casts = a.casts /\ m.worn = a.worn /\ m.coins = a.coins
      /\ m.bag[s] = h /\ \A t \in Storages \ {s} : m.bag[t] = a.bag[t]
  BY <1>1, <1>4, SetBag
<1> HIDE DEF m
<1>6. a.coins - n \in Nat
  BY <1>1
<1>7. AccountOK(b) /\ b.casts = m.casts /\ b.worn = m.worn /\ b.bag = m.bag
  BY <1>5, <1>6, SetCoins
<1> HIDE DEF b
<1>8. \A t \in Storages : \A j \in DOMAIN a.bag[t] :
        /\ j \in DOMAIN b.bag[t]
        /\ b.bag[t][j].uid = a.bag[t][j].uid /\ b.bag[t][j].kind = a.bag[t][j].kind
  BY <1>2, <1>5, <1>7 DEF g
<1>9. Neat(b)
  BY <1>5, <1>7, <1>8, BagKept
<1>10. EditedTo(a, s, i, p, n) = b
  BY <1>3 DEF EditedTo
<1> QED BY <1>2, <1>5, <1>7, <1>9, <1>10 DEF g

LEMMA CoinsNeat ==
  ASSUME NEW a, Neat(a), NEW n \in Nat
  PROVE  LET b == [a EXCEPT !.coins = n]
         IN Neat(b) /\ b.casts = a.casts /\ b.worn = a.worn /\ b.bag = a.bag
<1> DEFINE b == [a EXCEPT !.coins = n]
<1>1. AccountOK(b) /\ b.casts = a.casts /\ b.worn = a.worn /\ b.bag = a.bag
  BY SetCoins DEF Neat
<1> HIDE DEF b
<1>2. Neat(b)
  BY <1>1, BagKept
<1> QED BY <1>1, <1>2 DEF b

LEMMA FusedNeat ==
  ASSUME NEW a, Neat(a), NEW k \in Kinds, KindRow[k].storage = "mirror", a.coins >= 1,
         NEW sids, sids \subseteq DOMAIN a.bag["mirror"]
  PROVE  LET b == Fused(a, sids, k)
             sid == NextSid(a.bag["mirror"])
         IN /\ Neat(b) /\ b.casts = a.casts
            /\ sid \notin DOMAIN a.bag["mirror"]
            /\ DOMAIN b.bag["mirror"] = (DOMAIN a.bag["mirror"] \cup {sid}) \ sids
            /\ \A i \in DOMAIN a.bag["mirror"] \ sids : b.bag["mirror"][i] = a.bag["mirror"][i]
            /\ \A t \in Storages \ {"mirror"} : b.bag[t] = a.bag[t]
<1> DEFINE f == Filed(a, "mirror", k)
           d == Destroyed(f, "mirror", sids)
           sid == NextSid(a.bag["mirror"])
<1>1. "mirror" \in Storages /\ a.coins \in Nat
  BY DEF Storages, Neat, AccountOK
<1>2. /\ Neat(f) /\ f.casts = a.casts /\ f.coins = a.coins
      /\ sid \notin DOMAIN a.bag["mirror"]
      /\ DOMAIN f.bag["mirror"] = DOMAIN a.bag["mirror"] \cup {sid}
      /\ \A i \in DOMAIN a.bag["mirror"] : f.bag["mirror"][i] = a.bag["mirror"][i]
      /\ \A t \in Storages \ {"mirror"} : f.bag[t] = a.bag[t]
  <2>1. IsFiled(a, f, "mirror", sid)
    BY <1>1, FiledNeat
  <2> HIDE DEF f, sid
  <2> QED BY <2>1 DEF IsFiled
<1> HIDE DEF f, sid
<1>3. /\ Neat(d) /\ d.casts = f.casts /\ d.coins = f.coins
      /\ DOMAIN d.bag["mirror"] = DOMAIN f.bag["mirror"] \ sids
      /\ \A i \in DOMAIN f.bag["mirror"] \ sids : d.bag["mirror"][i] = f.bag["mirror"][i]
      /\ \A t \in Storages \ {"mirror"} : d.bag[t] = f.bag[t]
  BY <1>1, <1>2, DestroyedNeat
<1> HIDE DEF d
<1>4. d.coins - 1 \in Nat
  BY <1>1, <1>2, <1>3
<1> DEFINE b == [d EXCEPT !.coins = d.coins - 1]
<1>5. Neat(b) /\ b.casts = d.casts /\ b.worn = d.worn /\ b.bag = d.bag
  BY <1>3, <1>4, CoinsNeat
<1>6. b = Fused(a, sids, k)
  BY DEF Fused, d, f
<1> HIDE DEF b
<1> QED BY <1>2, <1>3, <1>5, <1>6 DEF sid

(* A cast joins or leaves, and wears nothing then.                         *)
LEMMA RosterNeat ==
  ASSUME NEW a, Neat(a), NEW c \in Casts, NEW cs \in SUBSET Casts, a.casts \ {c} \subseteq cs
  PROVE  LET b == [a EXCEPT !.casts = cs, !.worn[c] = Bare]
         IN Neat(b) /\ b.bag = a.bag
<1> DEFINE w == [a.worn EXCEPT ![c] = Bare]
           m == [a EXCEPT !.casts = cs]
           b == [m EXCEPT !.worn = w]
<1>1. AccountOK(a) /\ a.worn \in [Casts -> [Slots -> Marks]]
  BY DEF Neat, AccountOK
<1>2. a = [casts |-> a.casts, worn |-> a.worn, bag |-> a.bag, coins |-> a.coins]
  BY <1>1 DEF AccountOK
<1>3. Bare \in [Slots -> Marks] /\ \A s \in Slots : Bare[s] = Nothing
  BY RefFacts DEF Bare
<1>4. /\ w \in [Casts -> [Slots -> Marks]] /\ w[c] = Bare
      /\ \A d \in Casts \ {c} : w[d] = a.worn[d]
  BY <1>1, <1>3
<1>5. b = [a EXCEPT !.casts = cs, !.worn[c] = Bare]
  BY <1>2
<1> HIDE DEF w
<1>6. b = [casts |-> cs, worn |-> w, bag |-> a.bag, coins |-> a.coins]
  <2>1. m = [casts |-> cs, worn |-> a.worn, bag |-> a.bag, coins |-> a.coins]
    BY <1>2
  <2> HIDE DEF m
  <2> QED BY <2>1
<1> HIDE DEF b
<1>7. b.casts = cs /\ b.worn = w /\ b.bag = a.bag /\ b.coins = a.coins
  BY <1>6
<1>8. AccountOK(b)
  BY <1>1, <1>4, <1>6, <1>7 DEF AccountOK
<1>9. \A d \in Casts, s \in Slots : Worn(b, d, s)
  <2>1. \A d \in Casts, s \in Slots :
           b.worn[d][s] = IF d = c THEN Nothing ELSE a.worn[d][s]
    BY <1>3, <1>4, <1>7
  <2>2. ASSUME NEW d \in Casts, NEW s \in Slots, Worn(a, d, s) PROVE Worn(b, d, s)
    BY <1>7, <2>1, <2>2 DEF Worn, Fits
  <2> QED BY <2>2 DEF Neat
<1> QED BY <1>5, <1>7, <1>8, <1>9 DEF Neat

-----------------------------------------------------------------------------
(* What the client makes of an answer.                                     *)

(* What the client has been told of a bag, and of an account.              *)
Hidden(s, U) == IF s = "mirror" THEN U ELSE {}
Seen(g, s, U) == Restrict(g, DOMAIN g \ Hidden(s, U))
SeenBags(a, U) == [s \in Storages |-> Seen(a.bag[s], s, U)]
View(a, U) == [casts |-> a.casts, worn |-> a.worn, bag |-> SeenBags(a, U)]

LEMMA SeenIs ==
  ASSUME NEW g, NEW s, NEW U
  PROVE  Seen(g, s, U) = [i \in DOMAIN g \ Hidden(s, U) |-> g[i]]
<1>1. (DOMAIN g \ Hidden(s, U)) \cap DOMAIN g = DOMAIN g \ Hidden(s, U)
  OBVIOUS
<1> QED BY <1>1 DEF Seen, Restrict

LEMMA ViewIsKnown ==
  ASSUME NEW a, AccountOK(a), NEW U
  PROVE  [AllOf(a) EXCEPT !.bag["mirror"] = Restrict(@, DOMAIN @ \ U)] = View(a, U)
<1> DEFINE h == Restrict(a.bag["mirror"], DOMAIN a.bag["mirror"] \ U)
           e == [a.bag EXCEPT !["mirror"] = h]
<1>1. /\ a.bag = [s \in Storages |-> a.bag[s]]
      /\ \A s \in Storages : a.bag[s] = [i \in DOMAIN a.bag[s] |-> a.bag[s][i]]
  BY DEF AccountOK, IsBag
<1>2. "mirror" \in Storages
  BY DEF Storages
<1>3. \A s \in Storages \ {"mirror"} : Seen(a.bag[s], s, U) = a.bag[s]
  BY <1>1 DEF Seen, Hidden, Restrict
<1>4. Seen(a.bag["mirror"], "mirror", U) = h
  BY DEF Seen, Hidden
<1> HIDE DEF h
<1>5. e = SeenBags(a, U)
  BY <1>1, <1>2, <1>3, <1>4 DEF SeenBags
<1>6. [AllOf(a) EXCEPT !.bag["mirror"] = Restrict(@, DOMAIN @ \ U)]
        = [casts |-> a.casts, worn |-> a.worn, bag |-> e]
  BY DEF AllOf, h
<1> QED BY <1>5, <1>6 DEF View

(* Nothing is hidden after a login.                                        *)
LEMMA AllIsView ==
  ASSUME NEW a, AccountOK(a)
  PROVE  AllOf(a) = View(a, {})
<1>1. /\ a.bag = [s \in Storages |-> a.bag[s]]
      /\ \A s \in Storages : a.bag[s] = [i \in DOMAIN a.bag[s] |-> a.bag[s][i]]
  BY DEF AccountOK, IsBag
<1>2. \A s \in Storages : Seen(a.bag[s], s, {}) = a.bag[s]
  BY <1>1 DEF Seen, Hidden, Restrict
<1>3. SeenBags(a, {}) = a.bag
  BY <1>1, <1>2 DEF SeenBags
<1> QED BY <1>3 DEF AllOf, View

LEMMA EquipTold ==
  ASSUME NEW m, AccountOK(m), NEW a, a.worn \in [Casts -> [Slots -> Marks]], NEW U,
         NEW cs, Changed(m, a) \subseteq cs
  PROVE  UpdateEquip(View(m, U), a, cs)
           = [casts |-> m.casts, worn |-> a.worn, bag |-> SeenBags(m, U)]
<1> DEFINE w == [c \in Casts |-> IF c \in cs THEN a.worn[c] ELSE m.worn[c]]
           g == SeenBags(m, U)
<1>1. w = a.worn
  BY DEF Changed
<1> HIDE DEF g
<1>2. UpdateEquip(View(m, U), a, cs) = [casts |-> m.casts, worn |-> w, bag |-> g]
  BY DEF UpdateEquip, View, g
<1> QED BY <1>1, <1>2 DEF g

LEMMA BagTold ==
  ASSUME NEW m, AccountOK(m), NEW a, AccountOK(a), NEW s \in Storages, NEW cs, NEW w,
         NEW U, NEW V,
         \A t \in Storages \ {s} : Seen(a.bag[t], t, V) = Seen(m.bag[t], t, U),
         NEW live, NEW gone,
         ((DOMAIN m.bag[s] \ Hidden(s, U)) \cup live) \ gone = DOMAIN a.bag[s] \ Hidden(s, V),
         \A i \in DOMAIN a.bag[s] \ Hidden(s, V) : i \in live \/ m.bag[s][i] = a.bag[s][i]
  PROVE  BagChange([casts |-> cs, worn |-> w, bag |-> SeenBags(m, U)], a, s, live, gone)
           = [casts |-> cs, worn |-> w, bag |-> SeenBags(a, V)]
<1> DEFINE old == SeenBags(m, U)
           D == (DOMAIN old[s] \cup live) \ gone
           h == [i \in D |-> IF i \in live THEN a.bag[s][i] ELSE old[s][i]]
           bag == [old EXCEPT ![s] = h]
           v == [casts |-> cs, worn |-> w, bag |-> old]
<1>1. /\ old[s] = Seen(m.bag[s], s, U) /\ DOMAIN old[s] = DOMAIN m.bag[s] \ Hidden(s, U)
      /\ \A i \in DOMAIN old[s] : old[s][i] = m.bag[s][i]
  <2>1. old[s] = Seen(m.bag[s], s, U)
    BY DEF SeenBags
  <2> HIDE DEF old
  <2> QED BY <2>1, SeenIs
<1>2. D = DOMAIN a.bag[s] \ Hidden(s, V)
  BY <1>1
<1>3. \A i \in D : h[i] = a.bag[s][i]
  BY <1>1, <1>2
<1>4. h = Seen(a.bag[s], s, V)
  <2>1. Seen(a.bag[s], s, V) = [i \in D |-> a.bag[s][i]]
    BY <1>2, SeenIs
  <2>2. h = [i \in D |-> h[i]]
    OBVIOUS
  <2> HIDE DEF h, D
  <2> QED BY <1>3, <2>1, <2>2
<1>5. BagChange(v, a, s, live, gone) = [v EXCEPT !.bag[s] = h]
  BY DEF BagChange
<1> HIDE DEF h, D
<1>6. bag = SeenBags(a, V)
  <2>1. old = [t \in Storages |-> Seen(m.bag[t], t, U)]
    BY DEF SeenBags
  <2> HIDE DEF old
  <2> QED BY <1>4, <2>1 DEF SeenBags
<1>7. [v EXCEPT !.bag[s] = h] = [casts |-> cs, worn |-> w, bag |-> bag]
  OBVIOUS
<1> HIDE DEF bag, v, old
<1> QED BY <1>5, <1>6, <1>7 DEF v, old

-----------------------------------------------------------------------------
(* The steps.                                                              *)

GearInv ==
  /\ Neat(mem) /\ Neat(disk) /\ rolls \in 0..RollsMax
  /\ Careful => untold \subseteq DOMAIN mem.bag["mirror"] /\ client = View(mem, untold)

(* An answer that is sent after the account has been saved.                *)
LEMMA Handled ==
  ASSUME GearInv, NEW a, Neat(a), NEW v, Handler(a, v), rolls' \in 0..RollsMax,
         Careful => untold' \subseteq DOMAIN a.bag["mirror"] /\ v = View(a, untold')
  PROVE  GearInv'
<1>1. mem' = a /\ disk' = a /\ client' = v
  BY DEF Handler
<1> HIDE DEF View
<1>2. /\ Neat(mem') /\ Neat(disk')
      /\ Careful => untold' \subseteq DOMAIN mem'.bag["mirror"] /\ client' = View(mem', untold')
  BY <1>1
<1> QED BY <1>2 DEF GearInv, Neat, AccountOK, IsBag, Worn, Fits, Home, Ref, View, SeenBags,
                 Seen, Hidden

LEMMA ClientForm ==
  ASSUME GearInv, Careful
  PROVE  /\ client = [casts |-> mem.casts, worn |-> mem.worn, bag |-> SeenBags(mem, untold)]
         /\ client = View(mem, untold) /\ AccountOK(mem)
         /\ untold \subseteq DOMAIN mem.bag["mirror"]
         /\ \A s \in Storages :
              /\ DOMAIN client.bag[s] = DOMAIN mem.bag[s] \ Hidden(s, untold)
              /\ \A i \in DOMAIN client.bag[s] : client.bag[s][i] = mem.bag[s][i]
<1>1. /\ client = View(mem, untold) /\ AccountOK(mem)
      /\ untold \subseteq DOMAIN mem.bag["mirror"]
  BY DEF GearInv, Neat
<1>2. client = [casts |-> mem.casts, worn |-> mem.worn, bag |-> SeenBags(mem, untold)]
  BY <1>1 DEF View
<1>3. \A s \in Storages :
        /\ DOMAIN client.bag[s] = DOMAIN mem.bag[s] \ Hidden(s, untold)
        /\ \A i \in DOMAIN client.bag[s] : client.bag[s][i] = mem.bag[s][i]
  <2> DEFINE g == SeenBags(mem, untold)
  <2>1. client.bag = g
    BY <1>2
  <2>2. \A s \in Storages :
          /\ DOMAIN g[s] = DOMAIN mem.bag[s] \ Hidden(s, untold)
          /\ \A i \in DOMAIN mem.bag[s] \ Hidden(s, untold) : g[s][i] = mem.bag[s][i]
    <3>1. ASSUME NEW s \in Storages PROVE g[s] = Seen(mem.bag[s], s, untold)
      BY DEF SeenBags
    <3> HIDE DEF g
    <3> QED BY <3>1, SeenIs
  <2> QED BY <2>1, <2>2
<1> QED BY <1>1, <1>2, <1>3

(* A Soulmirror that is drawn is shown with its whole bag.                 *)
LEMMA DrawStep ==
  ASSUME GearInv, NEW k \in Kinds, DrawMirror(k)
  PROVE  GearInv'
<1> DEFINE s == "mirror"
           a == Filed(mem, s, k)
           v == WholeBag(client, a, s, {})
           sid == NextSid(mem.bag[s])
<1>1. s \in Storages /\ KindRow[k].storage = s
  BY DEF Storages, DrawMirror
<1>2. Neat(mem)
  BY DEF GearInv
<1>3. IsFiled(mem, a, s, sid)
  BY <1>1, <1>2, FiledNeat
<1>4. Handler(a, v) /\ rolls < RollsMax /\ rolls' = rolls + 1 /\ untold' = {}
  BY DEF DrawMirror
<1>5. rolls' \in 0..RollsMax
  BY <1>4, GearAssumption DEF GearInv, GearAssumption
<1> HIDE DEF a, sid
<1>6. ASSUME Careful PROVE v = View(a, {})
  <2> DEFINE live == DOMAIN a.bag[s]
  <2>1. /\ client = [casts |-> mem.casts, worn |-> mem.worn, bag |-> SeenBags(mem, untold)]
        /\ AccountOK(mem) /\ AccountOK(a)
    BY <1>3, <1>6, ClientForm DEF IsFiled, Neat
  <2>2. /\ a.casts = mem.casts /\ a.worn = mem.worn
        /\ \A t \in Storages \ {s} : a.bag[t] = mem.bag[t]
        /\ DOMAIN mem.bag[s] \subseteq DOMAIN a.bag[s]
    BY <1>3 DEF IsFiled
  <2>3. \A t \in Storages \ {s} : Seen(a.bag[t], t, {}) = Seen(mem.bag[t], t, untold)
    BY <2>2 DEF Seen, Hidden
  <2>4. ((DOMAIN mem.bag[s] \ Hidden(s, untold)) \cup live) \ {} = DOMAIN a.bag[s] \ Hidden(s, {})
    BY <2>2 DEF Hidden
  <2>5. \A i \in DOMAIN a.bag[s] \ Hidden(s, {}) : i \in live \/ mem.bag[s][i] = a.bag[s][i]
    OBVIOUS
  <2>6. v = BagChange(client, a, s, live, {})
    BY DEF WholeBag
  <2> HIDE DEF live, s
  <2>7. v = [casts |-> mem.casts, worn |-> mem.worn, bag |-> SeenBags(a, {})]
    BY <1>1, <2>1, <2>3, <2>4, <2>5, <2>6, BagTold
  <2> QED BY <2>2, <2>7 DEF View
<1>7. Neat(a)
  BY <1>3 DEF IsFiled
<1> HIDE DEF v
<1> QED BY <1>4, <1>5, <1>6, <1>7, Handled

(* What is paid is shown if it is a starshard, and stays untold if it is a *)
(* Soulmirror.                                                             *)
LEMMA RewardStep ==
  ASSUME GearInv, NEW k \in Kinds, Reward(k)
  PROVE  GearInv'
<1> DEFINE s == KindRow[k].storage
           a == Filed(mem, s, k)
           v == WholeBag(client, a, "rune", {})
           sid == NextSid(mem.bag[s])
           V == IF s = "mirror" THEN untold \cup {sid} ELSE untold
<1>1. s \in {"rune", "mirror"} /\ s \in Storages /\ "rune" \in Storages /\ "mirror" \in Storages
  BY GearAssumption DEF GearAssumption, KindRows, Reward, Storages
<1>2. Neat(mem)
  BY DEF GearInv
<1>3. IsFiled(mem, a, s, sid)
  BY <1>1, <1>2, FiledNeat
<1>4. Handler(a, v) /\ rolls < RollsMax /\ rolls' = rolls + 1 /\ untold' = V
  BY DEF Reward
<1>5. rolls' \in 0..RollsMax
  BY <1>4, GearAssumption DEF GearInv, GearAssumption
<1> HIDE DEF a, sid
<1>6. ASSUME Careful PROVE V \subseteq DOMAIN a.bag["mirror"] /\ v = View(a, V)
  <2> DEFINE live == DOMAIN a.bag["rune"]
  <2>1. /\ client = [casts |-> mem.casts, worn |-> mem.worn, bag |-> SeenBags(mem, untold)]
        /\ AccountOK(mem) /\ AccountOK(a) /\ untold \subseteq DOMAIN mem.bag["mirror"]
    BY <1>3, <1>6, ClientForm DEF IsFiled, Neat
  <2>2. /\ a.casts = mem.casts /\ a.worn = mem.worn
        /\ \A t \in Storages \ {s} : a.bag[t] = mem.bag[t]
        /\ DOMAIN a.bag[s] = DOMAIN mem.bag[s] \cup {sid} /\ sid \notin DOMAIN mem.bag[s]
        /\ \A i \in DOMAIN mem.bag[s] : a.bag[s][i] = mem.bag[s][i]
    BY <1>3 DEF IsFiled
  <2> HIDE DEF s
  <2>3. V \subseteq DOMAIN a.bag["mirror"]
    BY <1>1, <2>1, <2>2
  <2>4. ASSUME NEW t \in Storages \ {"rune"}
        PROVE  Seen(a.bag[t], t, V) = Seen(mem.bag[t], t, untold)
    <3>1. CASE t # s
      <4>1. a.bag[t] = mem.bag[t]
        BY <2>2, <3>1
      <4>2. Hidden(t, V) = Hidden(t, untold)
        BY <1>1, <2>4, <3>1 DEF Hidden
      <4> QED BY <4>1, <4>2 DEF Seen
    <3>2. CASE t = s
      <4>1. t = "mirror" /\ V = untold \cup {sid}
        BY <1>1, <2>4, <3>2
      <4>2. DOMAIN a.bag[t] \ Hidden(t, V) = DOMAIN mem.bag[t] \ Hidden(t, untold)
        BY <2>2, <3>2, <4>1 DEF Hidden
      <4>3. \A i \in DOMAIN mem.bag[t] \ Hidden(t, untold) : a.bag[t][i] = mem.bag[t][i]
        BY <2>2, <3>2
      <4> QED BY <4>2, <4>3 DEF Seen, Restrict
    <3> QED BY <3>1, <3>2
  <2>5. /\ Hidden("rune", untold) = {} /\ Hidden("rune", V) = {}
        /\ DOMAIN mem.bag["rune"] \subseteq live
    BY <1>1, <2>2 DEF Hidden
  <2>6. /\ ((DOMAIN mem.bag["rune"] \ Hidden("rune", untold)) \cup live) \ {}
               = DOMAIN a.bag["rune"] \ Hidden("rune", V)
        /\ \A i \in DOMAIN a.bag["rune"] \ Hidden("rune", V) :
             i \in live \/ mem.bag["rune"][i] = a.bag["rune"][i]
    BY <2>5
  <2>7. v = BagChange(client, a, "rune", live, {})
    BY DEF WholeBag
  <2> HIDE DEF live, V
  <2>8. v = [casts |-> mem.casts, worn |-> mem.worn, bag |-> SeenBags(a, V)]
    BY <1>1, <2>1, <2>4, <2>6, <2>7, BagTold
  <2> QED BY <2>2, <2>3, <2>8 DEF View
<1>7. Neat(a)
  BY <1>3 DEF IsFiled
<1> HIDE DEF v, V
<1> QED BY <1>4, <1>5, <1>6, <1>7, Handled

(* Wearing, moving and taking off.                                         *)
LEMMA WearStep ==
  ASSUME GearInv, NEW a, Neat(a), a.casts = mem.casts, a.bag = mem.bag, NEW c,
         WearReply(a, c)
  PROVE  GearInv'
<1> DEFINE cs == Changed(mem, a) \cup {c}
           v == UpdateEquip(client, a, cs)
<1>1. Handler(a, v) /\ rolls' = rolls /\ untold' = untold
  BY DEF WearReply
<1>2. rolls' \in 0..RollsMax
  BY <1>1 DEF GearInv
<1>3. ASSUME Careful
      PROVE  untold' \subseteq DOMAIN a.bag["mirror"] /\ v = View(a, untold')
  <2>1. client = View(mem, untold) /\ AccountOK(mem) /\ untold \subseteq DOMAIN mem.bag["mirror"]
    BY <1>3, ClientForm
  <2>2. a.worn \in [Casts -> [Slots -> Marks]] /\ Changed(mem, a) \subseteq cs
    BY DEF Neat, AccountOK
  <2> HIDE DEF cs
  <2>3. v = [casts |-> mem.casts, worn |-> a.worn, bag |-> SeenBags(mem, untold)]
    BY <2>1, <2>2, EquipTold
  <2>4. SeenBags(a, untold) = SeenBags(mem, untold)
    BY DEF SeenBags
  <2>5. v = View(a, untold)
    BY <2>3, <2>4 DEF View
  <2> QED BY <1>1, <2>1, <2>5
<1> HIDE DEF v
<1> QED BY <1>1, <1>2, <1>3, Handled

LEMMA WearRunesStep ==
  ASSUME GearInv, NEW c \in Casts, NEW sent \in Sent, WearRunes(c, sent)
  PROVE  GearInv'
<1> DEFINE a == RunesWorn(mem, c, sent)
           n == Cardinality(RuneSlots)
<1>1. Neat(mem) /\ c \in mem.casts
  BY DEF GearInv, WearRunes
<1>2. /\ sent \in [1..n -> Refs(mem, "rune") \cup {Nothing}]
      /\ \A i, j \in DOMAIN sent : sent[i] = sent[j] /\ i # j => sent[i] = Nothing
  BY DEF Sent, WearRunes
<1> HIDE DEF n
<1>3. Neat(a) /\ a.casts = mem.casts /\ a.bag = mem.bag
  BY <1>1, <1>2, RunesWornNeat DEF n
<1>4. WearReply(a, c)
  BY DEF WearRunes
<1> HIDE DEF a
<1> QED BY <1>3, <1>4, WearStep

LEMMA WearMirrorStep ==
  ASSUME GearInv, NEW c \in Casts, NEW s \in MirrorSlots,
         NEW i \in Shown("mirror") \cup {0}, WearMirror(c, i, s)
  PROVE  GearInv'
<1> DEFINE r == IF i = 0 THEN Nothing ELSE Ref("mirror", mem.bag["mirror"][i])
           a == MirrorWorn(mem, c, r, s)
<1>1. Neat(mem) /\ c \in mem.casts /\ s \in Slots
  BY DEF GearInv, WearMirror, Slots
<1>2. \/ r = Nothing
      \/ \E st \in Storages : \E j \in DOMAIN mem.bag[st] :
           r = Ref(st, mem.bag[st][j]) /\ Home(st, mem.bag[st][j], s)
  <2>1. CASE i = 0
    BY <2>1
  <2>2. CASE i # 0
    <3>1. "mirror" \in Storages /\ i \in DOMAIN mem.bag["mirror"]
      BY <2>2 DEF Storages, Shown
    <3>2. r = Ref("mirror", mem.bag["mirror"][i]) /\ Home("mirror", mem.bag["mirror"][i], s)
      BY <2>2 DEF WearMirror, Home
    <3> HIDE DEF r
    <3> QED BY <3>1, <3>2
  <2> QED BY <2>1, <2>2
<1>3. WearReply(a, c)
  BY DEF WearMirror
<1> HIDE DEF r
<1>4. Neat(a) /\ a.casts = mem.casts /\ a.bag = mem.bag
  BY <1>1, <1>2, PieceWornNeat
<1> HIDE DEF a
<1> QED BY <1>3, <1>4, WearStep

LEMMA WearPactStep ==
  ASSUME GearInv, NEW c \in Casts, NEW i \in Shown("pact") \cup {0}, WearPact(c, i)
  PROVE  GearInv'
<1> DEFINE r == IF i = 0 THEN Nothing ELSE Ref("pact", mem.bag["pact"][i])
           a == PactWorn(mem, c, r)
<1>1. Neat(mem) /\ c \in mem.casts
  BY DEF GearInv, WearPact
<1>2. r = Nothing \/ \E j \in DOMAIN mem.bag["pact"] : r = Ref("pact", mem.bag["pact"][j])
  BY DEF Shown
<1>3. WearReply(a, c)
  BY DEF WearPact
<1> HIDE DEF r
<1>4. Neat(a) /\ a.casts = mem.casts /\ a.bag = mem.bag
  BY <1>1, <1>2, PactWornNeat
<1> HIDE DEF a
<1> QED BY <1>3, <1>4, WearStep

(* What a request names is taken apart up to the first refusal.            *)
LEMMA ListForm ==
  ASSUME NEW D, NEW list \in SeqOf(D, BatchMax)
  PROVE  Len(list) \in Nat /\ DOMAIN list = 1..Len(list) /\ list \in [1..Len(list) -> D]
<1>1. PICK m \in 0..BatchMax : list \in [1..m -> D]
  BY DEF SeqOf
<1>2. m \in Nat
  BY <1>1, GearAssumption DEF GearAssumption
<1>3. Len(list) = m /\ DOMAIN list = 1..m
  BY <1>1, <1>2
<1> QED BY <1>1, <1>2, <1>3

LEMMA BeforeInBag ==
  ASSUME NEW a, NEW s \in Storages, NEW D, NEW list \in SeqOf(D, BatchMax)
  PROVE  Before(a, s, list) \subseteq DOMAIN a.bag[s]
<1>1. Len(list) \in Nat /\ DOMAIN list = 1..Len(list)
  BY ListForm
<1>2. ASSUME NEW n \in 1..Len(list), \A k \in 1..n : ~Refused(a, s, list[k])
      PROVE  list[n] \in DOMAIN a.bag[s]
  <2>1. n \in 1..n
    BY <1>1
  <2>2. ~Refused(a, s, list[n])
    BY <1>2, <2>1
  <2> QED BY <2>2 DEF Refused
<1> QED BY <1>1, <1>2 DEF Before

LEMMA BeforeIsAll ==
  ASSUME NEW a, NEW s \in Storages, NEW D, NEW list \in SeqOf(D, BatchMax),
         IsInjective(list), \A n \in DOMAIN list : ~Refused(a, s, list[n])
  PROVE  Cardinality(Before(a, s, list)) = Len(list)
<1> DEFINE gone == Before(a, s, list)
           m == Len(list)
<1>1. m \in Nat /\ DOMAIN list = 1..m /\ list \in [1..m -> D]
  BY ListForm
<1> HIDE DEF m
<1>2. \A i \in 1..m : \A k \in 1..i : k \in 1..m
  BY <1>1
<1>3. {i \in 1..m : \A k \in 1..i : ~Refused(a, s, list[k])} = 1..m
  BY <1>1, <1>2
<1>4. gone = {list[n] : n \in 1..m}
  BY <1>1, <1>3 DEF Before
<1> HIDE DEF gone
<1>5. \A i, j \in 1..m : list[i] = list[j] => i = j
  BY <1>1 DEF IsInjective
<1>6. list \in Bijection(1..m, gone)
  BY <1>1, <1>4, <1>5 DEF Bijection, Injection, Surjection, IsInjective
<1>7. ExistsBijection(1..m, gone)
  BY <1>6 DEF ExistsBijection
<1>8. Cardinality(gone) = m
  BY <1>1, <1>7, FS_CountingElements
<1> QED BY <1>8 DEF m, gone

LEMMA DismantleStep ==
  ASSUME GearInv, NEW s \in {"mirror", "pact"}, NEW list \in Lists(s), Dismantle(s, list)
  PROVE  GearInv'
<1> DEFINE gone == Before(mem, s, list)
           a == Destroyed(mem, s, gone)
           paid == IF s = "pact" THEN [a EXCEPT !.coins = @ + Cardinality(gone)] ELSE a
           told == UpdateEquip(client, paid, Changed(mem, paid))
           live == IF s = "pact" THEN DOMAIN paid.bag[s] ELSE {}
           v == BagChange(told, paid, s, live, gone)
<1>1. s \in Storages /\ Neat(mem) /\ AccountOK(mem) /\ IsBag(mem.bag[s], s)
  BY DEF Storages, GearInv, Neat, AccountOK
<1>2. list \in SeqOf(DOMAIN client.bag[s], BatchMax) /\ IsInjective(list)
  BY DEF Lists
<1>3. gone \subseteq DOMAIN mem.bag[s]
  BY <1>1, <1>2, BeforeInBag
<1>4. Careful => Cardinality(gone) = Len(list)
  <2> SUFFICES ASSUME Careful PROVE Cardinality(gone) = Len(list)
    OBVIOUS
  <2>1. /\ DOMAIN client.bag[s] \subseteq DOMAIN mem.bag[s]
        /\ \A i \in DOMAIN client.bag[s] : client.bag[s][i] = mem.bag[s][i]
    BY <1>1, ClientForm
  <2>2. \A n \in DOMAIN list : list[n] \in DOMAIN client.bag[s] /\ list[n] \in DOMAIN mem.bag[s]
    BY <1>2, <2>1 DEF SeqOf
  <2>3. \A n \in DOMAIN list : ~Refused(mem, s, list[n])
    BY <2>1, <2>2 DEF Dismantle, Refused
  <2>4. IsFiniteSet(DOMAIN mem.bag[s])
    BY <1>1 DEF IsBag
  <2> QED BY <1>1, <1>2, <2>3, BeforeIsAll
<1>5. \/ Cardinality(gone) = Len(list) /\ Handler(paid, v)
      \/ Cardinality(gone) # Len(list) /\ mem' = a /\ UNCHANGED <<disk, client>>
  BY DEF Dismantle, Returned
<1>6. rolls' = rolls /\ untold' = untold
  BY DEF Dismantle, Returned
<1>14. Careful => gone \cap Hidden(s, untold) = {}
  <2> SUFFICES ASSUME Careful PROVE gone \cap Hidden(s, untold) = {}
    OBVIOUS
  <2>1. DOMAIN client.bag[s] = DOMAIN mem.bag[s] \ Hidden(s, untold)
    BY <1>1, ClientForm
  <2>2. \A n \in DOMAIN list : list[n] \in DOMAIN client.bag[s]
    BY <1>2 DEF SeqOf
  <2> QED BY <2>1, <2>2 DEF Before
<1>7. Cardinality(gone) \in Nat
  <2>1. IsFiniteSet(DOMAIN mem.bag[s]) /\ gone \in SUBSET DOMAIN mem.bag[s]
    BY <1>1, <1>3 DEF IsBag
  <2> QED BY <2>1, FS_Subset, FS_CardinalityType
<1> HIDE DEF gone
<1>8. /\ Neat(a) /\ a.casts = mem.casts /\ a.coins = mem.coins
      /\ DOMAIN a.bag[s] = DOMAIN mem.bag[s] \ gone
      /\ \A i \in DOMAIN mem.bag[s] \ gone : a.bag[s][i] = mem.bag[s][i]
      /\ \A t \in Storages \ {s} : a.bag[t] = mem.bag[t]
  BY <1>1, <1>3, DestroyedNeat
<1> HIDE DEF a
<1>9. Neat(paid) /\ paid.casts = a.casts /\ paid.bag = a.bag
  <2>1. a.coins + Cardinality(gone) \in Nat
    BY <1>7, <1>8 DEF Neat, AccountOK
  <2> DEFINE p == [a EXCEPT !.coins = a.coins + Cardinality(gone)]
  <2>2. Neat(p) /\ p.casts = a.casts /\ p.bag = a.bag
    BY <1>8, <2>1, CoinsNeat
  <2> QED BY <1>8, <2>2
<1> HIDE DEF paid
<1>10. ASSUME Careful
       PROVE  untold' \subseteq DOMAIN paid.bag["mirror"] /\ v = View(paid, untold')
  <2>1. client = View(mem, untold) /\ untold \subseteq DOMAIN mem.bag["mirror"]
    BY <1>10, ClientForm
  <2>2. AccountOK(paid) /\ paid.worn \in [Casts -> [Slots -> Marks]]
    BY <1>9 DEF Neat, AccountOK
  <2>3. told = [casts |-> mem.casts, worn |-> paid.worn, bag |-> SeenBags(mem, untold)]
    BY <1>1, <2>1, <2>2, EquipTold
  <2>4. /\ DOMAIN paid.bag[s] = DOMAIN mem.bag[s] \ gone
        /\ live = {} \/ (live = DOMAIN paid.bag[s] /\ s = "pact")
    BY <1>8, <1>9
  <2>5. ((DOMAIN mem.bag[s] \ Hidden(s, untold)) \cup live) \ gone
          = DOMAIN paid.bag[s] \ Hidden(s, untold)
    BY <2>4 DEF Hidden
  <2>6. \A i \in DOMAIN paid.bag[s] \ Hidden(s, untold) :
           i \in live \/ mem.bag[s][i] = paid.bag[s][i]
    BY <1>8, <1>9
  <2>7. \A t \in Storages \ {s} : paid.bag[t] = mem.bag[t]
    BY <1>8, <1>9
  <2>8. \A t \in Storages \ {s} : Seen(paid.bag[t], t, untold) = Seen(mem.bag[t], t, untold)
    BY <2>7
  <2>9. untold \subseteq DOMAIN paid.bag["mirror"]
    <3>1. CASE s = "mirror"
      BY <1>10, <1>14, <2>1, <2>4, <3>1 DEF Hidden
    <3>2. CASE s # "mirror"
      BY <2>1, <2>7, <3>2 DEF Storages
    <3> QED BY <3>1, <3>2
  <2> HIDE DEF told, live
  <2>10. v = [casts |-> mem.casts, worn |-> paid.worn, bag |-> SeenBags(paid, untold)]
    BY <1>1, <2>2, <2>3, <2>5, <2>6, <2>8, BagTold
  <2> QED BY <1>6, <1>8, <1>9, <2>9, <2>10 DEF View
<1> HIDE DEF v
<1>11. rolls' \in 0..RollsMax
  BY <1>6 DEF GearInv
<1>12. CASE Cardinality(gone) = Len(list) /\ Handler(paid, v)
  BY <1>9, <1>10, <1>11, <1>12, Handled
<1>13. CASE Cardinality(gone) # Len(list) /\ mem' = a /\ UNCHANGED <<disk, client>>
  <2>1. ~Careful
    BY <1>4, <1>13
  <2>2. Neat(mem') /\ Neat(disk')
    BY <1>8, <1>13 DEF GearInv
  <2> QED BY <1>11, <2>1, <2>2 DEF GearInv, Neat, AccountOK, IsBag, Worn, Fits, Home, Ref
<1> QED BY <1>5, <1>12, <1>13

LEMMA FuseStep ==
  ASSUME GearInv, NEW sids, NEW k \in Kinds, Fuse(sids, k)
  PROVE  GearInv'
<1> DEFINE b == Fused(mem, sids, k)
           sid == NextSid(mem.bag["mirror"])
           new == {i \in DOMAIN b.bag["mirror"] :
                     i \notin DOMAIN mem.bag["mirror"] \/ b.bag["mirror"][i] # mem.bag["mirror"][i]}
           told == UpdateEquip(client, b, Changed(mem, b))
           v == BagChange(told, b, "mirror", new, sids)
<1>1. Neat(mem) /\ AccountOK(mem) /\ "mirror" \in Storages
  BY DEF GearInv, Neat, Storages
<1>2. /\ mem.coins >= 1 /\ sids \subseteq DOMAIN mem.bag["mirror"]
      /\ sids \subseteq DOMAIN client.bag["mirror"]
      /\ KindRow[k].fusable /\ Handler(b, v) /\ rolls' = rolls /\ untold' = untold
  BY DEF Fuse, Outcomes, Shown
<1>3. KindRow[k].storage = "mirror"
  BY <1>2, GearAssumption DEF GearAssumption
<1>4. /\ Neat(b) /\ b.casts = mem.casts
      /\ sid \notin DOMAIN mem.bag["mirror"]
      /\ DOMAIN b.bag["mirror"] = (DOMAIN mem.bag["mirror"] \cup {sid}) \ sids
      /\ \A i \in DOMAIN mem.bag["mirror"] \ sids : b.bag["mirror"][i] = mem.bag["mirror"][i]
      /\ \A t \in Storages \ {"mirror"} : b.bag[t] = mem.bag[t]
  BY <1>1, <1>2, <1>3, FusedNeat
<1> HIDE DEF b, sid
<1>5. ASSUME Careful
      PROVE  untold' \subseteq DOMAIN b.bag["mirror"] /\ v = View(b, untold')
  <2>1. /\ client = View(mem, untold) /\ untold \subseteq DOMAIN mem.bag["mirror"]
        /\ Hidden("mirror", untold) = untold
        /\ DOMAIN client.bag["mirror"] = DOMAIN mem.bag["mirror"] \ untold
    BY <1>1, <1>5, ClientForm DEF Hidden
  <2>2. AccountOK(b) /\ b.worn \in [Casts -> [Slots -> Marks]]
    BY <1>4 DEF Neat, AccountOK
  <2>3. told = [casts |-> mem.casts, worn |-> b.worn, bag |-> SeenBags(mem, untold)]
    BY <1>1, <2>1, <2>2, EquipTold
  <2>4. /\ \A i \in untold : i \in DOMAIN b.bag["mirror"] /\ i \notin new
        /\ sid \in DOMAIN b.bag["mirror"] /\ sid \in new /\ sid \notin sids
    <3>1. \A i \in untold : i \in DOMAIN mem.bag["mirror"] /\ i \notin sids
      BY <1>2, <2>1
    <3>2. sid \notin sids
      BY <1>2, <1>4
    <3> QED BY <1>4, <3>1, <3>2
  <2>5. ((DOMAIN mem.bag["mirror"] \ Hidden("mirror", untold)) \cup new) \ sids
          = DOMAIN b.bag["mirror"] \ Hidden("mirror", untold)
    <3>1. new \subseteq DOMAIN b.bag["mirror"]
      OBVIOUS
    <3> HIDE DEF new
    <3> QED BY <1>2, <1>4, <2>1, <2>4, <3>1
  <2>6. \A i \in DOMAIN b.bag["mirror"] \ Hidden("mirror", untold) :
           i \in new \/ mem.bag["mirror"][i] = b.bag["mirror"][i]
    OBVIOUS
  <2>7. \A t \in Storages \ {"mirror"} : Seen(b.bag[t], t, untold) = Seen(mem.bag[t], t, untold)
    BY <1>4
  <2> HIDE DEF told, new
  <2>8. v = [casts |-> mem.casts, worn |-> b.worn, bag |-> SeenBags(b, untold)]
    BY <1>1, <2>2, <2>3, <2>5, <2>6, <2>7, BagTold
  <2>9. v = View(b, untold)
    BY <1>4, <2>8 DEF View
  <2> HIDE DEF v
  <2> QED BY <1>2, <2>4, <2>9
<1> HIDE DEF v
<1>6. rolls' \in 0..RollsMax
  BY <1>2 DEF GearInv
<1> QED BY <1>2, <1>4, <1>5, <1>6, Handled

LEMMA ForgeStep ==
  ASSUME GearInv, NEW from, NEW to, Forge(from, to)
  PROVE  GearInv'
<1> DEFINE d == Destroyed(mem, "pact", {from})
           b == [d EXCEPT !.coins = @ - 1]
           told == UpdateEquip(client, b, Changed(mem, b))
           v == WholeBag(told, b, "pact", {from})
<1>1. Neat(mem) /\ AccountOK(mem) /\ "pact" \in Storages /\ mem.coins \in Nat
  BY DEF GearInv, Neat, AccountOK, Storages
<1>2. /\ mem.coins >= 1 /\ {from} \subseteq DOMAIN mem.bag["pact"]
      /\ Handler(b, v) /\ rolls' = rolls /\ untold' = untold
  BY DEF Forge, Forged, Shown
<1>3. /\ Neat(d) /\ d.casts = mem.casts /\ d.coins = mem.coins
      /\ DOMAIN d.bag["pact"] = DOMAIN mem.bag["pact"] \ {from}
      /\ \A t \in Storages \ {"pact"} : d.bag[t] = mem.bag[t]
  BY <1>1, <1>2, DestroyedNeat
<1> HIDE DEF d
<1>4. d.coins - 1 \in Nat
  BY <1>1, <1>2, <1>3
<1>5. Neat(b) /\ b.casts = d.casts /\ b.bag = d.bag
  BY <1>3, <1>4, CoinsNeat
<1> HIDE DEF b
<1>6. ASSUME Careful
      PROVE  untold' \subseteq DOMAIN b.bag["mirror"] /\ v = View(b, untold')
  <2>1. client = View(mem, untold) /\ untold \subseteq DOMAIN mem.bag["mirror"]
    BY <1>6, ClientForm
  <2>2. AccountOK(b) /\ b.worn \in [Casts -> [Slots -> Marks]]
    BY <1>5 DEF Neat, AccountOK
  <2>3. told = [casts |-> mem.casts, worn |-> b.worn, bag |-> SeenBags(mem, untold)]
    BY <1>1, <2>1, <2>2, EquipTold
  <2> DEFINE live == DOMAIN b.bag["pact"]
  <2>4. ((DOMAIN mem.bag["pact"] \ Hidden("pact", untold)) \cup live) \ {from}
          = DOMAIN b.bag["pact"] \ Hidden("pact", untold)
    BY <1>3, <1>5 DEF Hidden
  <2>5. \A i \in DOMAIN b.bag["pact"] \ Hidden("pact", untold) :
           i \in live \/ mem.bag["pact"][i] = b.bag["pact"][i]
    OBVIOUS
  <2>6. \A t \in Storages \ {"pact"} : b.bag[t] = mem.bag[t]
    BY <1>3, <1>5
  <2>7. \A t \in Storages \ {"pact"} : Seen(b.bag[t], t, untold) = Seen(mem.bag[t], t, untold)
    BY <2>6
  <2> HIDE DEF told
  <2>8. v = BagChange(told, b, "pact", live, {from})
    BY DEF WholeBag
  <2> HIDE DEF live
  <2>9. v = [casts |-> mem.casts, worn |-> b.worn, bag |-> SeenBags(b, untold)]
    BY <1>1, <2>2, <2>3, <2>4, <2>5, <2>7, <2>8, BagTold
  <2>10. v = View(b, untold)
    BY <1>3, <1>5, <2>9 DEF View
  <2> HIDE DEF v
  <2> QED BY <1>2, <2>1, <2>6, <2>10 DEF Storages
<1> HIDE DEF v
<1>7. rolls' \in 0..RollsMax
  BY <1>2 DEF GearInv
<1> QED BY <1>2, <1>5, <1>6, <1>7, Handled

(* A piece is raised, locked or unlocked.                                  *)
LEMMA EditedStep ==
  ASSUME GearInv, NEW s \in Storages, NEW i \in DOMAIN mem.bag[s], NEW p \in Pieces,
         p.uid = mem.bag[s][i].uid, p.kind = mem.bag[s][i].kind,
         NEW n \in Nat, n <= mem.coins, Edited(s, i, p, n)
  PROVE  GearInv'
<1> DEFINE b == EditedTo(mem, s, i, p, n)
           v == WholeBag(client, b, s, {})
<1>1. Neat(mem) /\ AccountOK(mem)
  BY DEF GearInv, Neat
<1> DEFINE V == IF s = "mirror" THEN {} ELSE untold
<1>2. Handler(b, v) /\ rolls' = rolls /\ untold' = V
  BY DEF Edited, EditedTo
<1>3. /\ Neat(b) /\ b.casts = mem.casts /\ b.worn = mem.worn
      /\ DOMAIN b.bag[s] = DOMAIN mem.bag[s]
      /\ \A t \in Storages \ {s} : b.bag[t] = mem.bag[t]
  BY <1>1, EditedNeat
<1> HIDE DEF b
<1>4. ASSUME Careful
      PROVE  V \subseteq DOMAIN b.bag["mirror"] /\ v = View(b, V)
  <2> DEFINE live == DOMAIN b.bag[s]
  <2>1. /\ client = [casts |-> mem.casts, worn |-> mem.worn, bag |-> SeenBags(mem, untold)]
        /\ untold \subseteq DOMAIN mem.bag["mirror"]
    BY <1>4, ClientForm
  <2>2. AccountOK(b)
    BY <1>3 DEF Neat
  <2>3. ((DOMAIN mem.bag[s] \ Hidden(s, untold)) \cup live) \ {} = DOMAIN b.bag[s] \ Hidden(s, V)
    BY <1>3 DEF Hidden
  <2>4. \A j \in DOMAIN b.bag[s] \ Hidden(s, V) : j \in live \/ mem.bag[s][j] = b.bag[s][j]
    OBVIOUS
  <2>5. \A t \in Storages \ {s} : Seen(b.bag[t], t, V) = Seen(mem.bag[t], t, untold)
    BY <1>3 DEF Seen, Hidden
  <2>6. V \subseteq DOMAIN b.bag["mirror"]
    BY <1>3, <2>1 DEF Storages
  <2>7. v = BagChange(client, b, s, live, {})
    BY DEF WholeBag
  <2> HIDE DEF live, V
  <2>8. v = [casts |-> mem.casts, worn |-> mem.worn, bag |-> SeenBags(b, V)]
    BY <1>1, <2>1, <2>2, <2>3, <2>4, <2>5, <2>7, BagTold
  <2> QED BY <1>3, <2>6, <2>8 DEF View
<1> HIDE DEF V
<1> HIDE DEF v
<1>5. rolls' \in 0..RollsMax
  BY <1>2 DEF GearInv
<1> QED BY <1>2, <1>3, <1>4, <1>5, Handled

LEMMA UpgradeStep ==
  ASSUME GearInv, NEW s \in Storages, NEW i \in DOMAIN mem.bag[s],
         NEW n \in 1..MaxLevel, Upgrade(s, i, n)
  PROVE  GearInv'
<1> DEFINE p == mem.bag[s][i]
           S == {p.lv + n, MaxLevel}
           to == Min(S)
           q == [p EXCEPT !.lv = to]
<1>1. p \in Pieces /\ mem.coins \in Nat /\ MaxLevel \in Nat
  BY GearAssumption DEF GearInv, Neat, AccountOK, IsBag, GearAssumption
<1>2. p.lv \in Nat /\ S \subseteq Nat /\ S # {} /\ MaxLevel \in S /\ IsFiniteSet(S)
  <2>1. p.lv \in Nat
    BY <1>1 DEF Pieces
  <2>2. IsFiniteSet({p.lv + n}) /\ IsFiniteSet({MaxLevel})
    BY FS_Singleton
  <2>3. IsFiniteSet({p.lv + n} \cup {MaxLevel})
    BY <2>2, FS_Union
  <2>4. S = {p.lv + n} \cup {MaxLevel}
    OBVIOUS
  <2>5. p.lv + n \in Nat
    BY <1>1, <2>1
  <2> HIDE DEF p
  <2>6. S \subseteq Nat /\ S # {} /\ MaxLevel \in S
    BY <1>1, <2>5
  <2> HIDE DEF S
  <2> QED BY <2>1, <2>3, <2>4, <2>6
<1> HIDE DEF S
<1>3. to \in S /\ to <= MaxLevel
  BY <1>2, MinIsLeast
<1>4. to \in 0..MaxLevel
  <2> HIDE DEF to
  <2>1. to \in Nat
    BY <1>2, <1>3
  <2> QED BY <1>1, <1>3, <2>1
<1>5. to > p.lv /\ mem.coins >= to - p.lv /\ Edited(s, i, q, to - p.lv)
  BY DEF Upgrade, Raised, S
<1> HIDE DEF to
<1>6. q \in Pieces /\ q.uid = p.uid /\ q.kind = p.kind
  BY <1>1, <1>4 DEF Pieces
<1>7. to - p.lv \in Nat /\ to - p.lv <= mem.coins
  BY <1>1, <1>2, <1>4, <1>5
<1> HIDE DEF q
<1> DEFINE price == to - p.lv
<1> HIDE DEF price
<1>8. Edited(s, i, q, price) /\ price \in Nat /\ price <= mem.coins
  BY <1>5, <1>7 DEF price
<1> QED BY <1>6, <1>8, EditedStep

LEMMA SetLockStep ==
  ASSUME GearInv, NEW s \in Storages, NEW i \in DOMAIN mem.bag[s],
         NEW lock \in BOOLEAN, SetLock(s, i, lock)
  PROVE  GearInv'
<1> DEFINE p == mem.bag[s][i]
           q == [p EXCEPT !.lock = lock]
<1>1. p \in Pieces /\ mem.coins \in Nat
  BY DEF GearInv, Neat, AccountOK, IsBag
<1>2. q \in Pieces /\ q.uid = p.uid /\ q.kind = p.kind
  BY <1>1 DEF Pieces
<1>3. Edited(s, i, q, 0)
  BY DEF SetLock
<1>4. 0 \in Nat /\ 0 <= mem.coins
  BY <1>1
<1> HIDE DEF q
<1> QED BY <1>2, <1>3, <1>4, EditedStep

(* The roster.                                                             *)
LEMMA RosterStep ==
  ASSUME GearInv, NEW c \in Casts, NEW cs \in SUBSET Casts, mem.casts \ {c} \subseteq cs,
         NEW a, a = [mem EXCEPT !.casts = cs, !.worn[c] = Bare],
         Handler(a, AllChars(client, a)), UNCHANGED <<rolls, untold>>
  PROVE  GearInv'
<1> DEFINE b == [mem EXCEPT !.casts = cs, !.worn[c] = Bare]
           v == AllChars(client, a)
<1>1. Neat(mem)
  BY DEF GearInv
<1>2. Neat(b) /\ b.bag = mem.bag
  BY <1>1, RosterNeat
<1> HIDE DEF b
<1>3. Neat(a) /\ a.bag = mem.bag
  BY <1>2 DEF b
<1>4. ASSUME Careful
      PROVE  untold' \subseteq DOMAIN a.bag["mirror"] /\ v = View(a, untold')
  <2> DEFINE g == SeenBags(mem, untold)
  <2>1. /\ client = [casts |-> mem.casts, worn |-> mem.worn, bag |-> g]
        /\ untold \subseteq DOMAIN mem.bag["mirror"]
    BY <1>4, ClientForm
  <2>2. g = SeenBags(a, untold)
    BY <1>3 DEF SeenBags
  <2> HIDE DEF g
  <2>3. ASSUME NEW x, NEW y
        PROVE  [client EXCEPT !.casts = x, !.worn = y] = [casts |-> x, worn |-> y, bag |-> g]
    <3> DEFINE u == [client EXCEPT !.casts = x]
    <3>1. u = [casts |-> x, worn |-> mem.worn, bag |-> g]
      BY <2>1
    <3>2. [client EXCEPT !.casts = x, !.worn = y] = [u EXCEPT !.worn = y]
      BY <2>1
    <3> HIDE DEF u
    <3> QED BY <3>1, <3>2
  <2>4. v = [casts |-> a.casts, worn |-> a.worn, bag |-> g]
    BY <2>3 DEF AllChars
  <2>5. v = View(a, untold)
    BY <2>2, <2>4 DEF View
  <2> HIDE DEF v
  <2> QED BY <1>3, <2>1, <2>5
<1>5. rolls' \in 0..RollsMax
  BY DEF GearInv
<1> HIDE DEF v
<1>6. Handler(a, v)
  BY DEF v
<1> QED BY <1>3, <1>4, <1>5, <1>6, Handled

LEMMA JoinStep ==
  ASSUME GearInv, NEW c \in Casts, Join(c)
  PROVE  GearInv'
<1> DEFINE cs == mem.casts \cup {c}
           a == [mem EXCEPT !.casts = cs, !.worn[c] = Bare]
<1>1. cs \in SUBSET Casts /\ mem.casts \ {c} \subseteq cs
  BY DEF GearInv, Neat, AccountOK
<1>2. Handler(a, AllChars(client, a)) /\ UNCHANGED <<rolls, untold>>
  BY DEF Join
<1> HIDE DEF cs
<1>3. a = [mem EXCEPT !.casts = cs, !.worn[c] = Bare]
  OBVIOUS
<1> HIDE DEF a
<1> QED BY <1>1, <1>2, <1>3, RosterStep

LEMMA PartStep ==
  ASSUME GearInv, NEW c \in Casts, Depart(c)
  PROVE  GearInv'
<1> DEFINE cs == mem.casts \ {c}
           a == [mem EXCEPT !.casts = cs, !.worn[c] = Bare]
<1>1. cs \in SUBSET Casts /\ mem.casts \ {c} \subseteq cs
  BY DEF GearInv, Neat, AccountOK
<1>2. Handler(a, AllChars(client, a)) /\ UNCHANGED <<rolls, untold>>
  BY DEF Depart
<1> HIDE DEF cs
<1>3. a = [mem EXCEPT !.casts = cs, !.worn[c] = Bare]
  OBVIOUS
<1> HIDE DEF a
<1> QED BY <1>1, <1>2, <1>3, RosterStep

(* A login reads the file and tells the client all of it.                  *)
LEMMA ReloginStep ==
  ASSUME GearInv, Relogin
  PROVE  GearInv'
<1>1. /\ Neat(disk) /\ mem' = Purged(disk) /\ disk' = mem' /\ client' = AllOf(mem')
      /\ untold' = {} /\ rolls' = rolls
  BY DEF GearInv, Relogin
<1>2. Neat(mem') /\ Neat(disk') /\ AccountOK(mem')
  BY <1>1, PurgedNeat DEF Neat
<1>3. client' = View(mem', untold') /\ untold' \subseteq DOMAIN mem'.bag["mirror"]
  BY <1>1, <1>2, AllIsView
<1>4. rolls' \in 0..RollsMax
  BY <1>1 DEF GearInv
<1> HIDE DEF View
<1> QED BY <1>2, <1>3, <1>4 DEF GearInv, Neat, AccountOK, IsBag, Worn, Fits, Home, Ref,
                              View, SeenBags, Seen, Hidden

-----------------------------------------------------------------------------
LEMMA InvInit ==
  ASSUME GearInit
  PROVE  GearInv
<1>1. /\ Neat(disk) /\ mem = Purged(disk) /\ client = AllOf(mem) /\ rolls = 0
      /\ untold = {}
  BY SaveAssumption DEF GearInit, SaveAssumption
<1>2. Neat(mem) /\ AccountOK(mem)
  BY <1>1, PurgedNeat DEF Neat
<1>3. 0 \in 0..RollsMax
  BY GearAssumption DEF GearAssumption
<1>4. client = View(mem, untold)
  BY <1>1, <1>2, AllIsView
<1> QED BY <1>1, <1>2, <1>3, <1>4 DEF GearInv

(* One step for each request.                                              *)
LEMMA InvNext ==
  ASSUME GearInv, [GearNext]_gearVars
  PROVE  GearInv'
<1>1. ASSUME NEW k \in Kinds, DrawMirror(k) \/ Reward(k) PROVE GearInv'
  BY <1>1, DrawStep, RewardStep
<1>2. ASSUME NEW c \in Casts, NEW sent \in Sent, WearRunes(c, sent) PROVE GearInv'
  BY <1>2, WearRunesStep
<1>3. ASSUME NEW c \in Casts, NEW s \in MirrorSlots,
             NEW i \in Shown("mirror") \cup {0}, WearMirror(c, i, s)
      PROVE  GearInv'
  BY <1>3, WearMirrorStep
<1>4. ASSUME NEW c \in Casts, NEW i \in Shown("pact") \cup {0}, WearPact(c, i)
      PROVE  GearInv'
  BY <1>4, WearPactStep
<1>5. ASSUME NEW c \in Casts, Join(c) \/ Depart(c) PROVE GearInv'
  BY <1>5, JoinStep, PartStep
<1>6. ASSUME NEW s \in {"mirror", "pact"}, NEW list \in Lists(s), Dismantle(s, list)
      PROVE  GearInv'
  BY <1>6, DismantleStep
<1>7. ASSUME NEW sids, NEW k \in Kinds, Fuse(sids, k) PROVE GearInv'
  BY <1>7, FuseStep
<1>8. ASSUME NEW from, NEW to, Forge(from, to) PROVE GearInv'
  BY <1>8, ForgeStep
<1>9. ASSUME NEW s \in Storages, NEW i \in Shown(s), NEW n \in 1..MaxLevel,
             Upgrade(s, i, n)
      PROVE  GearInv'
  BY <1>9, UpgradeStep DEF Shown
<1>10. ASSUME NEW s \in Storages, NEW i \in Shown(s), NEW lock \in BOOLEAN,
              SetLock(s, i, lock)
       PROVE  GearInv'
  BY <1>10, SetLockStep DEF Shown
<1>11. CASE Relogin
  BY <1>11, ReloginStep
<1>12. CASE UNCHANGED gearVars
  <2>1. Neat(mem') /\ Neat(disk') /\ rolls' \in 0..RollsMax
    BY <1>12 DEF gearVars, GearInv
  <2>2. Careful => untold' \subseteq DOMAIN mem'.bag["mirror"] /\ client' = View(mem', untold')
    BY <1>12 DEF gearVars, GearInv
  <2> HIDE DEF View
  <2> QED BY <2>1, <2>2 DEF GearInv, Neat, AccountOK, IsBag, Worn, Fits, Home, Ref, View,
                         SeenBags, Seen, Hidden
<1> QED
  BY <1>1, <1>2, <1>3, <1>4, <1>5, <1>6, <1>7, <1>8, <1>9, <1>10, <1>11, <1>12 DEF GearNext

LEMMA InvAlways == GearSpec => []GearInv
<1>1. GearInit => GearInv
  BY InvInit
<1>2. GearInv /\ [GearNext]_gearVars => GearInv'
  BY InvNext
<1> QED BY <1>1, <1>2, PTL DEF GearSpec

(* A piece is worn by one cast, in one slot of its kind, and is in the bag,*)
(* whatever is worn, moved, dismantled, fused, forged, released or loaded  *)
(* with internal pieces in it.                                             *)
THEOREM WornSafe == GearSpec => []WornOnce
<1>1. GearInv => WornOnce
  BY DEF GearInv, Neat, WornOnce, GearOK
<1> QED BY <1>1, InvAlways, PTL

(* After every answer the client shows what the account holds but the      *)
(* Soulmirrors that were paid and whose bag has not been sent since, when  *)
(* the panel leaves locked mirrors out of what it asks to dismantle.       *)
THEOREM ClientSafe == ASSUME Careful PROVE GearSpec => []ClientShowsSent
<1>1. GearInv => ClientShowsSent
  <2> SUFFICES ASSUME GearInv PROVE ClientShowsSent
    OBVIOUS
  <2>1. client = View(mem, untold) /\ AccountOK(mem)
    BY ClientForm
  <2> HIDE DEF View
  <2>2. [AllOf(mem) EXCEPT !.bag["mirror"] = Restrict(@, DOMAIN @ \ untold)] = View(mem, untold)
    BY <2>1, ViewIsKnown
  <2> QED BY <2>1, <2>2 DEF ClientShowsSent, Known
<1> QED BY <1>1, InvAlways, PTL

=============================================================================
