---------------------------- MODULE Lobby_proofs ----------------------------
(***************************************************************************)
(* The counters and the rooms of the lobby.  At the counters, for any      *)
(* goods, banners, wheels, prices and cycles: no limit is passed, none     *)
(* keeps closed what is due again, and no balance leaves its bounds.  In   *)
(* the rooms, for any casts, difficulties and connections: a tap counts    *)
(* once, and the lobby shows the numbers a fight uses.                     *)
(*                                                                         *)
(* A counter is a purse operation followed by one of the books of the      *)
(* counters (the windows of the goods, the roll, the wheel): the lemmas on *)
(* the purse say that it holds and that the books are as they were, those  *)
(* on the counters what the step makes of the books.                       *)
(***************************************************************************)
EXTENDS MCMarket, Finite_proofs, FiniteSetTheorems, SequenceTheorems, TLAPS

-----------------------------------------------------------------------------
(* The purse.                                                              *)

AccountFields == {"cur", "bag", "energy", "gear", "casts", "quests", "sp", "db",
                  "shop", "roll", "kept", "freeDay", "wheel", "wheelDay"}
Held(a) == DOMAIN a = AccountFields /\ PurseOK(a)

(* What the counters keep of an account beside its purse.                  *)
SameBooks(a, b) ==
  /\ b.shop = a.shop /\ b.roll = a.roll /\ b.kept = a.kept
  /\ b.freeDay = a.freeDay /\ b.wheel = a.wheel /\ b.wheelDay = a.wheelDay

LEMMA BooksAgain ==
  ASSUME NEW a, NEW b, NEW c, SameBooks(a, b), SameBooks(b, c)
  PROVE  SameBooks(a, c)
BY DEF SameBooks

LEMMA CappedBounds ==
  ASSUME NEW v \in Int, NEW h \in 0..BalanceMax
  PROVE  Capped(v, h) \in 0..BalanceMax /\ Capped(v, h) + h <= BalanceMax
BY PurseAssumption DEF PurseAssumption, Capped

LEMMA CurrencyHeld ==
  ASSUME NEW a, Held(a), NEW k \in Currencies, NEW n \in Int
  PROVE  Held(AddCurrency(a, k, n)) /\ SameBooks(a, AddCurrency(a, k, n))
<1> DEFINE c == Capped(a.cur[k] + n, Headroom(a, k))
           cur == [a.cur EXCEPT ![k] = c]
           b == [a EXCEPT !.cur = cur]
<1>1. AddCurrency(a, k, n) = b
  BY DEF AddCurrency, Held, AccountFields
<1>2. /\ a.cur \in [Currencies -> 0..BalanceMax] /\ BalanceMax \in Nat
      /\ a.cur["cash"] \in 0..BalanceMax /\ a.cur["paid"] \in 0..BalanceMax
      /\ a.cur["cash"] + a.cur["paid"] <= BalanceMax
  BY PurseAssumption DEF PurseAssumption, Held, PurseOK, Diamonds, Currencies
<1>3. Headroom(a, k) \in 0..BalanceMax /\ a.cur[k] + n \in Int
  BY <1>2 DEF Headroom
<1>4. c \in 0..BalanceMax /\ c + Headroom(a, k) <= BalanceMax
  BY <1>3, CappedBounds
<1> HIDE DEF c
<1>5. cur \in [Currencies -> 0..BalanceMax]
  BY <1>2, <1>4
<1>6. cur["cash"] + cur["paid"] <= BalanceMax
  BY <1>2, <1>4 DEF Headroom, Currencies
<1> HIDE DEF cur
<1>7. Held(b)
  BY <1>5, <1>6 DEF Held, AccountFields, PurseOK, Diamonds
<1>8. SameBooks(a, b)
  BY DEF Held, AccountFields, SameBooks
<1> QED BY <1>1, <1>7, <1>8

LEMMA ProductType ==
  ASSUME NEW m \in Nat, NEW n \in Nat
  PROVE  m * n \in Nat
OBVIOUS

LEMMA HandOverHeld ==
  ASSUME NEW a, Held(a), NEW w \in Payouts, NEW n \in Nat
  PROVE  Held(HandOver(a, w, n)) /\ SameBooks(a, HandOver(a, w, n))
<1> DEFINE b == AddCurrency(a, "cash", n * w.cur["cash"])
           c == AddCurrency(b, "paid", n * w.cur["paid"])
           d == AddCurrency(c, "coin", n * w.cur["coin"])
           energy == IF w.energy = 0 THEN d.energy ELSE Capped(d.energy + n * w.energy, 0)
           gear == d.gear + AtLeastOne(n) * w.gear
           casts == d.casts + AtLeastOne(n) * w.casts
           bag == [i \in Items |->
                     IF w.bag[i] = 0 THEN d.bag[i] ELSE Capped(d.bag[i] + n * w.bag[i], 0)]
           e == [d EXCEPT !.energy = energy, !.gear = gear, !.casts = casts, !.bag = bag]
<1>1. /\ w.cur["cash"] \in Nat /\ w.cur["paid"] \in Nat /\ w.cur["coin"] \in Nat
      /\ w.energy \in Nat /\ w.gear \in Nat /\ w.casts \in Nat /\ w.bag \in [Items -> Nat]
  BY DEF Payouts, Currencies
<1>2. /\ n * w.cur["cash"] \in Int /\ n * w.cur["paid"] \in Int /\ n * w.cur["coin"] \in Int
      /\ n * w.energy \in Nat /\ \A i \in Items : n * w.bag[i] \in Nat
      /\ AtLeastOne(n) * w.gear \in Nat /\ AtLeastOne(n) * w.casts \in Nat
  <2>1. AtLeastOne(n) \in Nat
    BY DEF AtLeastOne
  <2> QED BY <1>1, <2>1, ProductType
<1>3. Held(b) /\ SameBooks(a, b)
  BY <1>2, CurrencyHeld DEF Currencies
<1> HIDE DEF b
<1>4. Held(c) /\ SameBooks(b, c)
  BY <1>2, <1>3, CurrencyHeld DEF Currencies
<1> HIDE DEF c
<1>5. Held(d) /\ SameBooks(c, d)
  BY <1>2, <1>4, CurrencyHeld DEF Currencies
<1>6. HandOver(a, w, n) = e
  <2> HIDE DEF e
  <2>1. HandOver(a, w, n) =
          [d EXCEPT !.energy = IF w.energy = 0 THEN @ ELSE Capped(@ + n * w.energy, 0),
                    !.gear = @ + AtLeastOne(n) * w.gear,
                    !.casts = @ + AtLeastOne(n) * w.casts,
                    !.bag = [i \in Items |->
                       IF w.bag[i] = 0 THEN @[i] ELSE Capped(@[i] + n * w.bag[i], 0)]]
    BY DEF HandOver, b, c
  <2> HIDE DEF d
  <2> QED BY <1>5, <2>1 DEF e, Held, AccountFields
<1> HIDE DEF d
<1>7. /\ d.energy \in Nat /\ d.gear \in Nat /\ d.casts \in Nat
      /\ d.bag \in [Items -> 0..BalanceMax] /\ BalanceMax \in Nat
  BY <1>5, PurseAssumption DEF PurseAssumption, Held, PurseOK
<1>8. energy \in Nat /\ gear \in Nat /\ casts \in Nat
  <2>1. d.energy + n * w.energy \in Int /\ 0 \in 0..BalanceMax
    BY <1>2, <1>7
  <2>2. Capped(d.energy + n * w.energy, 0) \in 0..BalanceMax
    BY <2>1, CappedBounds
  <2> QED BY <1>1, <1>2, <1>7, <2>2
<1>9. bag \in [Items -> 0..BalanceMax]
  <2>1. ASSUME NEW i \in Items PROVE Capped(d.bag[i] + n * w.bag[i], 0) \in 0..BalanceMax
    <3>1. d.bag[i] + n * w.bag[i] \in Int /\ 0 \in 0..BalanceMax
      BY <1>2, <1>7
    <3> QED BY <3>1, CappedBounds
  <2> QED BY <1>7, <2>1
<1> HIDE DEF energy, gear, casts, bag
<1>10. Held(e)
  BY <1>5, <1>8, <1>9 DEF Held, AccountFields, PurseOK, Diamonds
<1>11. SameBooks(d, e)
  BY <1>5 DEF Held, AccountFields, SameBooks
<1> HIDE DEF e
<1> QED BY <1>3, <1>4, <1>5, <1>6, <1>10, <1>11, BooksAgain

LEMMA RewardHeld ==
  ASSUME NEW a, Held(a), NEW i \in Items, NEW n \in Nat
  PROVE  /\ Held(GrantGoods(a, i, n)) /\ SameBooks(a, GrantGoods(a, i, n))
         /\ Held(GrantReward(a, i, n)) /\ SameBooks(a, GrantReward(a, i, n))
<1>1. Held(HandOver(a, Worth[i], n)) /\ SameBooks(a, HandOver(a, Worth[i], n))
  BY HandOverHeld, PurseAssumption DEF PurseAssumption
<1>2. Held(GrantItem(a, i, n)) /\ SameBooks(a, GrantItem(a, i, n))
  <2> DEFINE c == Capped(a.bag[i] + n, 0)
             bag == [a.bag EXCEPT ![i] = c]
             b == [a EXCEPT !.bag = bag]
  <2>1. a.bag \in [Items -> 0..BalanceMax] /\ BalanceMax \in Nat
    BY PurseAssumption DEF PurseAssumption, Held, PurseOK
  <2>2. c \in 0..BalanceMax
    <3>1. a.bag[i] + n \in Int /\ 0 \in 0..BalanceMax
      BY <2>1
    <3> QED BY <3>1, CappedBounds
  <2>3. GrantItem(a, i, n) = b
    BY DEF GrantItem, Held, AccountFields
  <2> HIDE DEF c
  <2>4. bag \in [Items -> 0..BalanceMax]
    BY <2>1, <2>2
  <2> HIDE DEF bag
  <2>5. Held(b) /\ SameBooks(a, b)
    BY <2>4 DEF Held, AccountFields, PurseOK, Diamonds, SameBooks
  <2> QED BY <2>3, <2>5
<1> QED BY <1>1, <1>2 DEF GrantGoods, GrantReward

LEMMA CountHeld ==
  ASSUME NEW a, Held(a), NEW case, NEW value, NEW n \in Nat
  PROVE  Held(Count(a, case, value, n)) /\ SameBooks(a, Count(a, case, value, n))
<1> DEFINE hit == Moved(case, value)
           db == Shared(a, hit, n, FALSE)
           sp == [q \in Quests |->
                    IF /\ q \in hit /\ QuestRow[q].sp /\ ~a.sp[q].done
                       /\ Completed(a, QuestRow[q].pre)
                      THEN [a.sp[q] EXCEPT !.cnt = Bumped(@, n, FALSE)] ELSE a.sp[q]]
           b == [a EXCEPT !.db = db, !.sp = sp]
<1>1. Count(a, case, value, n) = b
  BY DEF Count, Bump, Held, AccountFields
<1>2. \A k \in DOMAIN db : db[k] \in Nat
  BY DEF Shared, Bumped, Held, PurseOK
<1>3. sp \in [Quests -> [cnt : Nat, done : BOOLEAN]]
  <2> SUFFICES ASSUME NEW q \in Quests PROVE sp[q] \in [cnt : Nat, done : BOOLEAN]
    OBVIOUS
  <2>1. a.sp[q] \in [cnt : Nat, done : BOOLEAN]
    BY DEF Held, PurseOK
  <2>2. [a.sp[q] EXCEPT !.cnt = Bumped(@, n, FALSE)] \in [cnt : Nat, done : BOOLEAN]
    BY <2>1 DEF Bumped
  <2> QED BY <2>1, <2>2
<1> HIDE DEF db, sp
<1>4. Held(b) /\ SameBooks(a, b)
  BY <1>2, <1>3 DEF Held, AccountFields, PurseOK, Diamonds, SameBooks
<1> QED BY <1>1, <1>4

LEMMA SpendHeld ==
  ASSUME NEW a, Held(a), NEW what \in Currencies \cup Items, NEW n \in Nat, CanPay(a, what, n)
  PROVE  Held(Spend(a, what, n)) /\ SameBooks(a, Spend(a, what, n))
<1>1. /\ a.cur \in [Currencies -> 0..BalanceMax] /\ BalanceMax \in Nat
      /\ a.cur["cash"] \in 0..BalanceMax /\ a.cur["paid"] \in 0..BalanceMax
      /\ a.cur["cash"] + a.cur["paid"] <= BalanceMax
      /\ a.bag \in [Items -> 0..BalanceMax]
  BY PurseAssumption DEF PurseAssumption, Held, PurseOK, Diamonds, Currencies
<1>2. SameBooks(a, a)
  BY DEF SameBooks
<1>3. CASE what = "cash"
  <2> DEFINE free == IF a.cur["cash"] < n THEN a.cur["cash"] ELSE n
             cur == [a.cur EXCEPT !["cash"] = @ - free, !["paid"] = @ - (n - free)]
             b == [a EXCEPT !.cur = cur]
  <2>1. CASE n = 0
    BY <1>2, <1>3, <2>1 DEF Spend, SpendDiamonds
  <2>2. CASE n > 0
    <3>1. n <= a.cur["cash"] + a.cur["paid"]
      BY <1>1, <1>3, <2>2 DEF CanPay, Holds, Diamonds
    <3>2. /\ free \in 0..a.cur["cash"] /\ n - free \in 0..a.cur["paid"]
      BY <1>1, <3>1
    <3> HIDE DEF free
    <3>3. /\ cur \in [Currencies -> 0..BalanceMax]
          /\ cur["cash"] = a.cur["cash"] - free /\ cur["paid"] = a.cur["paid"] - (n - free)
      BY <1>1, <3>2 DEF Currencies
    <3>4. cur["cash"] + cur["paid"] <= BalanceMax
      BY <1>1, <3>2, <3>3
    <3>5. Spend(a, what, n) = Count(b, "diamond", AnyValue, n)
      <4>1. [a EXCEPT !.cur["cash"] = @ - free, !.cur["paid"] = @ - (n - free)] = b
        <5>1. "cur" \in DOMAIN a /\ DOMAIN a.cur = Currencies
          BY <1>1 DEF Held, AccountFields
        <5> QED BY <5>1 DEF Currencies
      <4>2. Spend(a, what, n) = SpendDiamonds(a, n)
        BY <1>3 DEF Spend
      <4> HIDE DEF cur, b
      <4>3. ~(n <= 0)
        BY <2>2
      <4>4. SpendDiamonds(a, n) = Count([a EXCEPT !.cur["cash"] = @ - free,
                                                  !.cur["paid"] = @ - (n - free)],
                                        "diamond", AnyValue, n)
        BY <4>3, Zenon DEF SpendDiamonds, free
      <4> QED BY <4>1, <4>2, <4>4
    <3> HIDE DEF cur
    <3>6. Held(b) /\ SameBooks(a, b)
      BY <3>3, <3>4 DEF Held, AccountFields, PurseOK, Diamonds, SameBooks
    <3> HIDE DEF b
    <3> QED BY <3>5, <3>6, CountHeld, BooksAgain
  <2> QED BY <2>1, <2>2
<1>4. CASE what \in {"paid", "coin"}
  <2> DEFINE cur == [a.cur EXCEPT ![what] = @ - n]
             b == [a EXCEPT !.cur = cur]
  <2>1. n <= a.cur[what] /\ what \in Currencies
    BY <1>1, <1>4 DEF CanPay, Holds, Currencies
  <2>2. cur \in [Currencies -> 0..BalanceMax] /\ cur["cash"] + cur["paid"] <= BalanceMax
    BY <1>1, <1>4, <2>1 DEF Currencies
  <2>3. Spend(a, what, n) = b
    BY <1>4 DEF Spend, Held, AccountFields
  <2> HIDE DEF cur
  <2>4. Held(b) /\ SameBooks(a, b)
    BY <2>2 DEF Held, AccountFields, PurseOK, Diamonds, SameBooks
  <2> QED BY <2>3, <2>4
<1>5. CASE what \notin Currencies
  <2> DEFINE bag == [a.bag EXCEPT ![what] = IF n <= 0 THEN @ ELSE @ - n]
             b == [a EXCEPT !.bag = bag]
  <2>1. what \in Items /\ what # "cash" /\ what \notin {"paid", "coin"}
    BY <1>5 DEF Currencies
  <2>2. n <= 0 \/ n <= a.bag[what]
    BY <1>1, <2>1 DEF CanPay, Holds
  <2>3. bag \in [Items -> 0..BalanceMax]
    BY <1>1, <2>1, <2>2
  <2>4. Spend(a, what, n) = b
    BY <2>1 DEF Spend, Held, AccountFields
  <2> HIDE DEF bag
  <2>5. Held(b) /\ SameBooks(a, b)
    BY <2>3 DEF Held, AccountFields, PurseOK, Diamonds, SameBooks
  <2> QED BY <2>4, <2>5
<1> QED BY <1>3, <1>4, <1>5 DEF Currencies

-----------------------------------------------------------------------------
(* Windows.                                                                *)

Windowed == [window : Nat, n : Nat]
Records == [n : Nat, reset : Nat]

(* What the record of a good says of the window t, the last it was bought  *)
(* in: everything, until it is rolled; or nothing, once that window is     *)
(* over.                                                                   *)
Recorded(g, rec, t) ==
  LET c == GoodsRow[g].cycle
  IN IF c = 0 THEN rec.n = t.n /\ rec.reset = 0 /\ t.window = 0
     ELSE /\ t.window <= now \div c
          /\ \/ rec.n = t.n /\ rec.reset = (t.window + 1) * c
             \/ /\ rec.n = 0 /\ (t.n = 0 \/ t.window < now \div c)
                /\ rec.reset = 0 \/ \E v \in Nat : v <= now \div c /\ rec.reset = (v + 1) * c

DayFields == {"goods", "free", "spins", "shown", "rolls", "won"}
DayOK ==
  /\ DOMAIN today = DayFields /\ today.goods \in [Goods -> Windowed]
  /\ today.free \in 0..1 /\ today.spins \in [Wheels -> Nat]
  /\ \A g \in Goods : GoodsRow[g].limit > 0 => today.goods[g].n <= GoodsRow[g].limit

(* The counters of a copy agree with what happened.                        *)
Counters(a) ==
  /\ \A g \in Goods : Recorded(g, a.shop[g], today.goods[g])
  /\ today.free > 0 => a.freeDay = now
  /\ \A w \in Wheels : today.spins[w] = IF a.wheelDay = now THEN a.wheel[w].day ELSE 0

CopyOK(a) == DOMAIN a = AccountFields /\ AccountOK(a) /\ Counters(a)

MarketInv == now \in 0..LastDay /\ DayOK /\ CopyOK(mem) /\ CopyOK(disk)

LEMMA DayBounds ==
  ASSUME NEW n \in Nat, NEW d \in Nat \ {0}
  PROVE  n \div d \in Nat /\ d * (n \div d) <= n /\ n < d * (n \div d) + d
OBVIOUS

LEMMA TimesMonotone ==
  ASSUME NEW m \in Nat, NEW n \in Nat, m <= n, NEW d \in Nat
  PROVE  d * m <= d * n
OBVIOUS

(* The window v is over when its reset has come.                           *)
LEMMA ResetFacts ==
  ASSUME NEW n \in Nat, NEW d \in Nat \ {0}, NEW v \in Nat
  PROVE  /\ (v + 1) * d \in Nat \ {0}
         /\ (v + 1) * d <= n <=> v < n \div d
<1> DEFINE w == n \div d
<1>1. w \in Nat /\ d * w <= n /\ n < d * w + d
  BY DayBounds
<1> HIDE DEF w
<1>2. (v + 1) * d = d * (v + 1) /\ d * (w + 1) = d * w + d /\ d * (v + 1) \in Nat
      /\ d * w \in Nat /\ d * (v + 1) = d * v + d /\ d * v \in Nat
  BY <1>1
<1>3. v < w => d * (v + 1) <= d * w
  BY <1>1, TimesMonotone
<1>4. ~(v < w) => d * (w + 1) <= d * (v + 1)
  BY <1>1, TimesMonotone
<1>5. (v + 1) * d <= n <=> v < w
  BY <1>1, <1>2, <1>3, <1>4
<1> QED BY <1>2, <1>5 DEF w

LEMMA RowFacts ==
  ASSUME NEW g \in Goods
  PROVE  /\ GoodsRow[g].cycle \in Nat /\ GoodsRow[g].limit \in Nat /\ GoodsRow[g].once \in Nat
         /\ GoodsRow[g].item \in Items /\ GoodsRow[g].per \in Nat
         /\ GoodsRow[g].cost \in Currencies \cup Items /\ GoodsRow[g].price \in Nat
BY MarketAssumption DEF MarketAssumption, GoodsRows

LEMMA FreshFacts ==
  ASSUME now \in Nat, NEW g \in Goods, NEW rec \in Records, NEW t \in Windowed,
         Recorded(g, rec, t)
  PROVE  LET f == Fresh(g, rec)
         IN /\ f \in Records /\ Recorded(g, f, t)
            /\ f.n = IF t.window = Window(g) THEN t.n ELSE 0
            /\ f.reset \in {0, NextReset(GoodsRow[g].cycle)}
<1> DEFINE c == GoodsRow[g].cycle
           W == now \div c
           f == Fresh(g, rec)
<1>1. c \in Nat /\ t.window \in Nat /\ t.n \in Nat /\ rec.n \in Nat /\ rec.reset \in Nat
  BY RowFacts DEF Records, Windowed
<1>2. CASE c = 0
  BY <1>1, <1>2 DEF Fresh, Expired, Recorded, Window, NextReset
<1>3. CASE c # 0
  <2>1. W \in Nat /\ Window(g) = W /\ NextReset(c) = (W + 1) * c /\ c \in Nat \ {0}
    BY <1>1, <1>3, DayBounds DEF Window, NextReset
  <2>2. /\ t.window <= W
        /\ \/ rec.n = t.n /\ rec.reset = (t.window + 1) * c
           \/ /\ rec.n = 0 /\ (t.n = 0 \/ t.window < W)
              /\ rec.reset = 0 \/ \E v \in Nat : v <= W /\ rec.reset = (v + 1) * c
    BY <1>3 DEF Recorded
  <2>3. \A v \in Nat : (v + 1) * c \in Nat \ {0} /\ ((v + 1) * c <= now <=> v < W)
    BY <2>1, ResetFacts
  <2>4. ASSUME NEW r, r \in Records,
               \/ r.n = t.n /\ r.reset = (t.window + 1) * c
               \/ /\ r.n = 0 /\ (t.n = 0 \/ t.window < W)
                  /\ r.reset = 0 \/ \E v \in Nat : v <= W /\ r.reset = (v + 1) * c
        PROVE  Recorded(g, r, t)
    BY <1>3, <2>2, <2>4 DEF Recorded
  <2> HIDE DEF W, c
  <2>5. CASE rec.reset <= now /\ rec # [n |-> 0, reset |-> 0]
    <3>1. f = [n |-> 0, reset |-> NextReset(c)]
      BY <1>1, <1>3, <2>5 DEF Fresh, Expired, c
    <3>2. f \in Records
      BY <2>1, <2>3, <3>1 DEF Records
    <3>3. f.n = 0 /\ f.reset = (W + 1) * c /\ W <= W
      BY <2>1, <3>1
    <3>4. t.n = 0 \/ t.window < W
      BY <1>1, <2>2, <2>3, <2>5
    <3>5. Recorded(g, f, t)
      <4> HIDE DEF f
      <4> QED BY <2>1, <2>4, <3>2, <3>3, <3>4
    <3> HIDE DEF f
    <3>6. f.n = IF t.window = Window(g) THEN t.n ELSE 0
      BY <1>1, <2>1, <3>3, <3>4
    <3> QED BY <2>1, <3>2, <3>3, <3>5, <3>6 DEF c, f
  <2>6. CASE ~(rec.reset <= now /\ rec # [n |-> 0, reset |-> 0])
    <3>1. f = rec
      BY <2>6 DEF Fresh, Expired
    <3>2. CASE rec = [n |-> 0, reset |-> 0]
      <4>1. rec.n = 0 /\ rec.reset = 0
        BY <3>2
      <4>2. t.n = 0 \/ t.window < W
        BY <1>1, <2>2, <2>3, <4>1
      <4>3. rec.n = IF t.window = Window(g) THEN t.n ELSE 0
        BY <1>1, <2>1, <4>1, <4>2
      <4> QED BY <3>1, <4>1, <4>3
    <3>3. CASE ~(rec.reset <= now)
      <4>1. \A v \in Nat : v <= W /\ rec.reset = (v + 1) * c => v = W
        BY <1>1, <2>1, <2>3, <3>3
      <4>2. rec.reset # 0
        BY <3>3
      <4>3. rec.reset = (W + 1) * c
        BY <1>1, <2>1, <2>2, <4>1, <4>2
      <4>4. rec.n = IF t.window = Window(g) THEN t.n ELSE 0
        <5>1. CASE rec.n = t.n /\ rec.reset = (t.window + 1) * c
          <6>1. t.window = W
            BY <1>1, <2>2, <4>1, <5>1
          <6> QED BY <2>1, <5>1, <6>1
        <5>2. CASE rec.n = 0 /\ (t.n = 0 \/ t.window < W)
          BY <1>1, <2>1, <5>2
        <5> QED BY <2>2, <5>1, <5>2
      <4> QED BY <2>1, <3>1, <4>3, <4>4 DEF c
    <3> QED BY <2>6, <3>2, <3>3
  <2> QED BY <2>5, <2>6
<1> QED BY <1>2, <1>3

-----------------------------------------------------------------------------
(* What the counters leave of an account.                                  *)

RollOK(r) == r \in [box : Banners \cup {0}, n : Nat, cost : Currencies \cup Items, price : Nat]

LEMMA ExpireFacts ==
  ASSUME now \in Nat, DayOK, NEW a, CopyOK(a)
  PROVE  /\ CopyOK(Expire(a)) /\ Expire(a).cur = a.cur /\ Expire(a).bag = a.bag
         /\ \A g \in Goods : Expire(a).shop[g] = Fresh(g, a.shop[g])
<1> DEFINE shop == [g \in Goods |-> Fresh(g, a.shop[g])]
           b == [a EXCEPT !.shop = shop]
<1>1. Expire(a) = b
  BY DEF Expire, CopyOK, AccountFields
<1>2. ASSUME NEW g \in Goods
      PROVE  shop[g] \in Records /\ Recorded(g, shop[g], today.goods[g])
  <2>1. a.shop[g] \in Records /\ today.goods[g] \in Windowed /\ Recorded(g, a.shop[g], today.goods[g])
    BY DEF CopyOK, AccountOK, Counters, DayOK, Records
  <2> QED BY <2>1, FreshFacts
<1>3. shop \in [Goods -> Records]
  BY <1>2
<1>4. \A g \in Goods : shop[g] = Fresh(g, a.shop[g])
  OBVIOUS
<1> HIDE DEF shop
<1>5. /\ DOMAIN b = AccountFields /\ b.shop = shop /\ b.cur = a.cur /\ b.bag = a.bag
      /\ b.energy = a.energy /\ b.gear = a.gear /\ b.casts = a.casts /\ b.quests = a.quests
      /\ b.sp = a.sp /\ b.db = a.db /\ b.roll = a.roll /\ b.kept = a.kept
      /\ b.freeDay = a.freeDay /\ b.wheel = a.wheel /\ b.wheelDay = a.wheelDay
  BY DEF CopyOK, AccountFields
<1> HIDE DEF b
<1>6. AccountOK(b)
  BY <1>3, <1>5 DEF CopyOK, AccountOK, PurseOK, Diamonds, Records
<1>7. Counters(b)
  BY <1>2, <1>5 DEF CopyOK, Counters
<1> QED BY <1>1, <1>4, <1>5, <1>6, <1>7 DEF CopyOK

LEMMA WheelDayFacts ==
  ASSUME now \in Nat, DayOK, NEW a, CopyOK(a)
  PROVE  CopyOK(NewWheelDay(a)) /\ NewWheelDay(a).wheelDay = now
<1>1. CASE a.wheelDay = now
  BY <1>1 DEF NewWheelDay
<1>2. CASE a.wheelDay # now
  <2> DEFINE wheel == [w \in Wheels |-> [a.wheel[w] EXCEPT !.day = 0]]
             b == [a EXCEPT !.wheelDay = now, !.wheel = wheel]
  <2>1. NewWheelDay(a) = b
    BY <1>2 DEF NewWheelDay, CopyOK, AccountFields
  <2>2. /\ wheel \in [Wheels -> [day : 0..DrawMax, sum : 0..(DrawMax - 1)]]
        /\ \A w \in Wheels : wheel[w].day = 0
    <3>1. a.wheel \in [Wheels -> [day : 0..DrawMax, sum : 0..(DrawMax - 1)]] /\ DrawMax \in Nat
      BY MarketAssumption DEF MarketAssumption, CopyOK, AccountOK
    <3> QED BY <3>1
  <2> HIDE DEF wheel
  <2>3. /\ DOMAIN b = AccountFields /\ b.shop = a.shop /\ b.cur = a.cur /\ b.bag = a.bag
        /\ b.energy = a.energy /\ b.gear = a.gear /\ b.casts = a.casts /\ b.quests = a.quests
        /\ b.sp = a.sp /\ b.db = a.db /\ b.roll = a.roll /\ b.kept = a.kept
        /\ b.freeDay = a.freeDay /\ b.wheel = wheel /\ b.wheelDay = now
    BY DEF CopyOK, AccountFields
  <2> HIDE DEF b
  <2>4. AccountOK(b)
    BY <2>2, <2>3 DEF CopyOK, AccountOK, PurseOK, Diamonds
  <2>5. Counters(b)
    BY <1>2, <2>2, <2>3 DEF CopyOK, Counters
  <2> QED BY <2>1, <2>3, <2>4, <2>5 DEF CopyOK
<1> QED BY <1>1, <1>2

LEMMA CopyIsHeld ==
  ASSUME NEW a, CopyOK(a)
  PROVE  Held(a)
BY DEF CopyOK, Held, AccountOK

(* The rest of a copy beside its purse.                                    *)
RestOK(a) ==
  /\ a.shop \in [Goods -> Records] /\ RollOK(a.roll)
  /\ a.kept \in Nat /\ a.freeDay \in -1..now /\ a.wheelDay \in -1..now
  /\ a.wheel \in [Wheels -> [day : 0..DrawMax, sum : 0..(DrawMax - 1)]]

LEMMA CopyParts ==
  ASSUME NEW a
  PROVE  CopyOK(a) <=> Held(a) /\ RestOK(a) /\ Counters(a)
BY DEF CopyOK, Held, AccountOK, RestOK, RollOK, Records

LEMMA RestSame ==
  ASSUME NEW a, NEW b, SameBooks(a, b)
  PROVE  (RestOK(a) => RestOK(b)) /\ (Counters(a) => Counters(b))
BY DEF SameBooks, RestOK, Counters

(* A step that happens to no counter.                                      *)
LEMMA QuietStep ==
  ASSUME MarketInv, UNCHANGED <<now, today>>, NEW a, NEW b, CopyOK(a), CopyOK(b),
         mem' = a, disk' = b
  PROVE  MarketInv'
<1>1. CopyOK(mem)'
  BY DEF CopyOK, AccountOK, PurseOK, Diamonds, Counters, Recorded
<1>2. CopyOK(disk)'
  BY DEF CopyOK, AccountOK, PurseOK, Diamonds, Counters, Recorded
<1>3. DayOK' /\ now' \in 0..LastDay
  BY DEF MarketInv, DayOK
<1> QED BY <1>1, <1>2, <1>3 DEF MarketInv

(* A step that is saved.                                                   *)
LEMMA SavedStep ==
  ASSUME MarketInv, now' = now, NEW b, Held(b), RestOK(b), mem' = b, disk' = mem',
         DayOK', Counters(mem)'
  PROVE  MarketInv'
<1>1. Held(mem)' /\ RestOK(mem)'
  BY DEF Held, PurseOK, Diamonds, RestOK, RollOK
<1>2. CopyOK(mem)'
  BY <1>1, CopyParts DEF CopyOK, Held, AccountOK, RestOK, RollOK, Records
<1>3. CopyOK(disk)'
  BY <1>2 DEF CopyOK, AccountOK, PurseOK, Diamonds, Counters
<1> QED BY <1>2, <1>3 DEF MarketInv

LEMMA PurchaseFacts ==
  ASSUME MarketInv, NEW a, CopyOK(a), NEW g \in Goods, NEW n \in Nat, ~Refused(a, g, n)
  PROVE  LET b == Purchase(a, g, n)
             f == Fresh(g, a.shop[g])
         IN /\ Held(b) /\ b.roll = a.roll /\ b.kept = a.kept /\ b.freeDay = a.freeDay
            /\ b.wheel = a.wheel /\ b.wheelDay = a.wheelDay
            /\ b.shop = [Expire(a).shop EXCEPT ![g] = Bought(f, g, n)]
<1> DEFINE row == GoodsRow[g]
           f == Fresh(g, a.shop[g])
           e == Expire(a)
           spent == Spend(e, row.cost, row.price * n)
           given == GrantGoods(spent, row.item, row.per * n)
           stamped == [given EXCEPT !.shop[g] = Bought(@, g, n)]
           b == Count(stamped, "buy", g, n)
<1>1. Purchase(a, g, n) = b
  BY DEF Purchase
<1>2. /\ now \in Nat /\ DayOK
      /\ row.price * n \in Nat /\ row.per * n \in Nat /\ row.item \in Items
      /\ row.cost \in Currencies \cup Items
  BY RowFacts, ProductType DEF MarketInv
<1>3. CopyOK(e) /\ e.cur = a.cur /\ e.bag = a.bag /\ e.shop[g] = f
  BY <1>2, ExpireFacts
<1>4. CanPay(e, row.cost, row.price * n)
  <2>1. CanPay(a, row.cost, row.price * n)
    BY DEF Refused
  <2> HIDE DEF e, row
  <2> QED BY <1>3, <2>1 DEF CanPay, Holds, Diamonds
<1>6. Held(e) /\ DOMAIN a = AccountFields
  BY <1>3, CopyIsHeld DEF CopyOK
<1>7. /\ e.roll = a.roll /\ e.kept = a.kept /\ e.freeDay = a.freeDay
      /\ e.wheel = a.wheel /\ e.wheelDay = a.wheelDay
  BY <1>6 DEF Expire, AccountFields
<1> HIDE DEF e
<1>8. Held(spent) /\ SameBooks(e, spent)
  BY <1>2, <1>4, <1>6, SpendHeld
<1> HIDE DEF spent
<1>9. Held(given) /\ SameBooks(spent, given)
  BY <1>2, <1>8, RewardHeld
<1>10. SameBooks(e, given)
  BY <1>8, <1>9, BooksAgain
<1> HIDE DEF given
<1>11. /\ Held(stamped) /\ stamped.roll = given.roll /\ stamped.kept = given.kept
       /\ stamped.freeDay = given.freeDay /\ stamped.wheel = given.wheel
       /\ stamped.wheelDay = given.wheelDay
       /\ stamped.shop = [given.shop EXCEPT ![g] = Bought(given.shop[g], g, n)]
  BY <1>9 DEF Held, AccountFields, PurseOK, Diamonds
<1>12. stamped.shop = [e.shop EXCEPT ![g] = Bought(f, g, n)]
  BY <1>3, <1>10, <1>11 DEF SameBooks
<1> HIDE DEF stamped
<1>13. Held(b) /\ SameBooks(stamped, b)
  BY <1>11, CountHeld
<1> HIDE DEF b, f
<1> QED BY <1>1, <1>7, <1>10, <1>11, <1>12, <1>13 DEF SameBooks, e, f

LEMMA BuyKeeps ==
  ASSUME MarketInv, NEW g \in Goods, NEW n \in Amounts, Buy(g, n)
  PROVE  MarketInv'
<1> DEFINE row == GoodsRow[g]
           f == Fresh(g, mem.shop[g])
           W == Window(g)
           t == [window |-> W, n |-> TakenNow(g) + n]
<1>1. /\ now' = now /\ now \in 0..LastDay /\ now \in Nat /\ DayOK /\ CopyOK(mem) /\ CopyOK(disk)
      /\ n \in Nat \ {0}
  BY MarketAssumption DEF MarketAssumption, Buy, MarketInv
<1>2. CASE Refused(mem, g, n)
  <2>1. UNCHANGED <<now, today>> /\ disk' = disk /\ (mem' = mem \/ mem' = Expire(mem))
    BY <1>2 DEF Buy
  <2>2. CopyOK(Expire(mem))
    BY <1>1, ExpireFacts
  <2> QED BY <1>1, <2>1, <2>2, QuietStep
<1>3. CASE ~Refused(mem, g, n)
  <2> DEFINE b == Purchase(mem, g, n)
  <2>1. /\ mem' = b /\ disk' = mem'
        /\ today' = [today EXCEPT !.goods[g] = t]
    BY <1>3 DEF Buy
  <2>2. /\ Held(b) /\ b.roll = mem.roll /\ b.kept = mem.kept /\ b.freeDay = mem.freeDay
        /\ b.wheel = mem.wheel /\ b.wheelDay = mem.wheelDay
        /\ b.shop = [Expire(mem).shop EXCEPT ![g] = Bought(f, g, n)]
    BY <1>1, <1>3, PurchaseFacts
  <2> HIDE DEF b
  <2>3. /\ CopyOK(Expire(mem)) /\ \A h \in Goods : Expire(mem).shop[h] = Fresh(h, mem.shop[h])
        /\ Expire(mem).shop \in [Goods -> Records]
    BY <1>1, ExpireFacts DEF CopyOK, AccountOK, Records
  <2>4. /\ today.goods[g] \in Windowed /\ mem.shop[g] \in Records
        /\ Recorded(g, mem.shop[g], today.goods[g])
    BY <1>1 DEF CopyOK, AccountOK, Counters, DayOK, Records
  <2>5. /\ f \in Records /\ Recorded(g, f, today.goods[g]) /\ f.n = TakenNow(g)
        /\ f.reset \in {0, NextReset(row.cycle)}
    BY <1>1, <2>4, FreshFacts DEF TakenNow
  <2> HIDE DEF f
  <2>6. W \in Nat /\ NextReset(row.cycle) \in Nat /\ TakenNow(g) \in Nat
    <3>1. row.cycle = 0 => Window(g) = 0 /\ NextReset(row.cycle) = 0
      BY DEF Window, NextReset
    <3>2. row.cycle # 0 => /\ Window(g) = now \div row.cycle /\ now \div row.cycle \in Nat
                           /\ NextReset(row.cycle) = (now \div row.cycle + 1) * row.cycle
      BY <1>1, RowFacts, DayBounds DEF Window, NextReset
    <3>3. row.cycle # 0 => (now \div row.cycle + 1) * row.cycle \in Nat
      BY <1>1, <3>2, RowFacts, ResetFacts
    <3> QED BY <2>5, <3>1, <3>2, <3>3 DEF Records
  <2>7. Bought(f, g, n) = [n |-> TakenNow(g) + n, reset |-> NextReset(row.cycle)]
    BY <2>5 DEF Bought
  <2>8. Recorded(g, Bought(f, g, n), t) /\ t \in Windowed /\ Bought(f, g, n) \in Records
    <3>1. t \in Windowed /\ Bought(f, g, n) \in Records
      BY <1>1, <2>6, <2>7 DEF Windowed, Records
    <3>2. row.cycle = 0 => Window(g) = 0 /\ NextReset(row.cycle) = 0
      BY DEF Window, NextReset
    <3>3. row.cycle # 0 => /\ Window(g) = now \div row.cycle /\ now \div row.cycle \in Nat
                           /\ NextReset(row.cycle) = (now \div row.cycle + 1) * row.cycle
      BY <1>1, RowFacts, DayBounds DEF Window, NextReset
    <3> QED BY <2>7, <3>1, <3>2, <3>3 DEF Recorded
  <2>9. /\ today'.goods = [today.goods EXCEPT ![g] = t] /\ today'.free = today.free
        /\ today'.spins = today.spins /\ DOMAIN today' = DayFields
    <3> HIDE DEF t
    <3> QED BY <1>1, <2>1 DEF DayOK, DayFields
  <2>10. DayOK'
    <3>1. row.limit > 0 => TakenNow(g) + n <= row.limit
      BY <1>1, <1>3, <2>5, <2>6, RowFacts DEF Refused, f
    <3>2. t.n = TakenNow(g) + n
      OBVIOUS
    <3> HIDE DEF t
    <3>3. today'.goods \in [Goods -> Windowed]
      BY <1>1, <2>8, <2>9 DEF DayOK
    <3>4. \A h \in Goods : GoodsRow[h].limit > 0 => today'.goods[h].n <= GoodsRow[h].limit
      BY <1>1, <2>9, <3>1, <3>2 DEF DayOK
    <3> QED BY <1>1, <2>9, <3>3, <3>4 DEF DayOK
  <2>11. RestOK(b)
    <3>1. b.shop \in [Goods -> Records]
      BY <2>2, <2>3, <2>8
    <3> QED BY <1>1, <2>2, <3>1, CopyParts DEF RestOK
  <2>12. Counters(mem)'
    <3> HIDE DEF t
    <3>1. ASSUME NEW h \in Goods PROVE Recorded(h, b.shop[h], today'.goods[h])
      <4>1. CASE h = g
        BY <1>1, <2>2, <2>3, <2>8, <2>9, <4>1 DEF DayOK
      <4>2. CASE h # g
        BY <1>1, <2>2, <2>3, <2>9, <4>2 DEF DayOK, CopyOK, Counters
      <4> QED BY <4>1, <4>2
    <3>2. \A h \in Goods : Recorded(h, mem.shop[h], today.goods[h])'
      BY <1>1, <2>1, <3>1 DEF Recorded
    <3>3. /\ today'.free > 0 => b.freeDay = now
          /\ \A w \in Wheels : today'.spins[w] = IF b.wheelDay = now THEN b.wheel[w].day ELSE 0
      BY <1>1, <2>2, <2>9 DEF CopyOK, Counters
    <3> QED BY <1>1, <2>1, <3>2, <3>3 DEF Counters
  <2> QED BY <1>1, <2>1, <2>2, <2>10, <2>11, <2>12, SavedStep
<1> QED BY <1>2, <1>3

LEMMA BrowseKeeps == MarketInv /\ Browse => MarketInv'
<1> SUFFICES ASSUME MarketInv, Browse PROVE MarketInv'
  OBVIOUS
<1>1. now \in Nat /\ DayOK /\ CopyOK(mem) /\ CopyOK(disk)
  BY MarketAssumption DEF MarketAssumption, MarketInv
<1>2. CopyOK(Expire(mem))
  BY <1>1, ExpireFacts
<1> QED BY <1>1, <1>2, QuietStep DEF Browse

-----------------------------------------------------------------------------
(* The banners.                                                            *)

LEMMA CommitFacts ==
  ASSUME NEW a, Held(a), RestOK(a)
  PROVE  LET b == Commit(a)
         IN /\ Held(b) /\ RestOK(b)
            /\ b.shop = a.shop /\ b.freeDay = a.freeDay /\ b.wheel = a.wheel
            /\ b.wheelDay = a.wheelDay
<1> DEFINE r == a.roll
           spent == Spend(a, r.cost, r.price)
           given == IF r.box \in Mirrors THEN [spent EXCEPT !.gear = @ + r.n]
                                         ELSE [spent EXCEPT !.casts = @ + r.n]
           once == Count(given, "gacha", 0, r.n)
           counted == Count(once, "gacha", r.box, r.n)
           b == [counted EXCEPT !.kept = @ + 1, !.roll = NoRoll]
<1>1. CASE r = NoRoll \/ ~CanPay(a, r.cost, r.price)
  <2>1. Commit(a) = a
    BY <1>1 DEF Commit
  <2> QED BY <2>1
<1>2. CASE ~(r = NoRoll \/ ~CanPay(a, r.cost, r.price))
  <2>1. Commit(a) = b
    BY <1>2 DEF Commit
  <2>2. r.n \in Nat /\ r.cost \in Currencies \cup Items /\ r.price \in Nat
    BY DEF RestOK, RollOK
  <2>3. Held(spent) /\ SameBooks(a, spent)
    BY <1>2, <2>2, SpendHeld
  <2> HIDE DEF spent
  <2>4. Held(given) /\ SameBooks(spent, given)
    BY <2>2, <2>3 DEF Held, AccountFields, PurseOK, Diamonds, SameBooks
  <2> HIDE DEF given
  <2>5. Held(once) /\ SameBooks(given, once)
    BY <2>2, <2>4, CountHeld
  <2> HIDE DEF once
  <2>6. Held(counted) /\ SameBooks(once, counted)
    BY <2>2, <2>5, CountHeld
  <2>7. SameBooks(a, counted)
    BY <2>3, <2>4, <2>5, <2>6 DEF SameBooks
  <2> HIDE DEF counted
  <2>8. RestOK(counted)
    BY <2>7, RestSame
  <2>9. RollOK(NoRoll)
    BY DEF RollOK, NoRoll, Currencies
  <2>10. /\ Held(b) /\ RestOK(b) /\ b.shop = counted.shop /\ b.freeDay = counted.freeDay
         /\ b.wheel = counted.wheel /\ b.wheelDay = counted.wheelDay
    BY <2>6, <2>8, <2>9 DEF Held, AccountFields, PurseOK, Diamonds, RestOK, RollOK
  <2> HIDE DEF b
  <2> QED BY <2>1, <2>7, <2>10 DEF SameBooks
<1> QED BY <1>1, <1>2

(* What is kept is no business of a day's allowances.                      *)
LEMMA KeptFacts ==
  ASSUME NEW t, DOMAIN t = DayFields
  PROVE  /\ DOMAIN Kept(t) = DayFields /\ Kept(t).goods = t.goods
         /\ Kept(t).free = t.free /\ Kept(t).spins = t.spins
BY DEF Kept, DayFields

LEMMA CollectKeeps == MarketInv /\ Collect => MarketInv'
<1> SUFFICES ASSUME MarketInv, Collect PROVE MarketInv'
  OBVIOUS
<1> DEFINE b == Commit(mem)
<1>1. /\ DayOK /\ CopyOK(mem) /\ Held(mem) /\ RestOK(mem) /\ Counters(mem)
      /\ mem' = b /\ disk' = mem' /\ today' = Kept(today) /\ now' = now
  BY CopyParts DEF MarketInv, Collect
<1>2. /\ Held(b) /\ RestOK(b) /\ b.shop = mem.shop /\ b.freeDay = mem.freeDay
      /\ b.wheel = mem.wheel /\ b.wheelDay = mem.wheelDay
  BY <1>1, CommitFacts
<1> HIDE DEF b
<1>3. /\ DOMAIN today' = DayFields /\ today'.goods = today.goods
      /\ today'.free = today.free /\ today'.spins = today.spins
  BY <1>1, KeptFacts DEF DayOK
<1>4. DayOK'
  BY <1>1, <1>3 DEF DayOK
<1>5. Counters(mem)'
  BY <1>1, <1>2, <1>3 DEF Counters, Recorded
<1> QED BY <1>1, <1>2, <1>4, <1>5, SavedStep

LEMMA DrawnFacts ==
  ASSUME now \in Nat, NEW a, Held(a), RestOK(a), NEW box \in Banners,
         NEW i \in DOMAIN Options[box]
  PROVE  LET b == Drawn(a, box, i)
         IN /\ Held(b) /\ RestOK(b) /\ b.shop = a.shop /\ b.wheel = a.wheel
            /\ b.wheelDay = a.wheelDay
            /\ PriceOf(a, box, i) = 0 => b.freeDay = now /\ a.freeDay # now
            /\ PriceOf(a, box, i) # 0 => b.freeDay = a.freeDay
<1> DEFINE o == Options[box][i]
           b == Drawn(a, box, i)
<1>1. o \in DrawOptions
  BY ElementOfSeq, MarketAssumption DEF MarketAssumption
<1>2. /\ o.cost \in Currencies \cup Items /\ o.price \in Nat \ {0} /\ o.n \in Nat
  BY <1>1 DEF DrawOptions
<1> HIDE DEF o
<1>3. /\ PriceOf(a, box, i) \in Nat
      /\ PriceOf(a, box, i) = 0 => a.freeDay # now
  BY <1>2 DEF PriceOf, FreePull, o
<1>4. RollSize(a, box, o.n) \in Nat
  BY <1>2 DEF RollSize
<1>5. RollOK([box |-> box, n |-> RollSize(a, box, o.n), cost |-> o.cost,
              price |-> PriceOf(a, box, i)])
  BY <1>2, <1>3, <1>4 DEF RollOK
<1>6. /\ DOMAIN b = AccountFields /\ b.shop = a.shop /\ b.wheel = a.wheel
      /\ b.wheelDay = a.wheelDay /\ b.kept = a.kept /\ b.cur = a.cur /\ b.bag = a.bag
      /\ b.energy = a.energy /\ b.gear = a.gear /\ b.casts = a.casts
      /\ b.quests = a.quests /\ b.sp = a.sp /\ b.db = a.db
      /\ b.roll = [box |-> box, n |-> RollSize(a, box, o.n), cost |-> o.cost,
                   price |-> PriceOf(a, box, i)]
      /\ b.freeDay = IF PriceOf(a, box, i) = 0 THEN now ELSE a.freeDay
  BY DEF Drawn, o, Held, AccountFields
<1> HIDE DEF b
<1>7. Held(b)
  BY <1>6 DEF Held, PurseOK, Diamonds
<1>8. RestOK(b)
  BY <1>5, <1>6 DEF RestOK
<1> QED BY <1>3, <1>6, <1>7, <1>8 DEF b

LEMMA DrawKeeps ==
  ASSUME MarketInv, NEW box \in Banners, NEW i \in DOMAIN Options[box], Draw(box, i)
  PROVE  MarketInv'
<1> DEFINE p == PriceOf(mem, box, i)
           d == Drawn(mem, box, i)
           t == [today EXCEPT !.free = @ + (IF p = 0 THEN 1 ELSE 0),
                              !.shown = [cost |-> Options[box][i].cost, price |-> p]]
<1>1. /\ now \in Nat /\ DayOK /\ CopyOK(mem) /\ Held(mem) /\ RestOK(mem) /\ Counters(mem)
      /\ (mem' = d \/ mem' = Commit(d)) /\ disk' = mem' /\ today' = Kept(t) /\ now' = now
  BY CopyParts, MarketAssumption DEF MarketAssumption, MarketInv, Draw
<1>2. /\ Held(d) /\ RestOK(d) /\ d.shop = mem.shop /\ d.wheel = mem.wheel
      /\ d.wheelDay = mem.wheelDay
      /\ p = 0 => d.freeDay = now /\ mem.freeDay # now
      /\ p # 0 => d.freeDay = mem.freeDay
  BY <1>1, DrawnFacts
<1> HIDE DEF d
<1>3. PICK b : /\ mem' = b /\ Held(b) /\ RestOK(b) /\ b.shop = mem.shop
               /\ b.wheel = mem.wheel /\ b.wheelDay = mem.wheelDay /\ b.freeDay = d.freeDay
  BY <1>1, <1>2, CommitFacts
<1> HIDE DEF p
<1>4. /\ DOMAIN t = DayFields /\ t.goods = today.goods /\ t.spins = today.spins
      /\ t.free = today.free + (IF p = 0 THEN 1 ELSE 0)
  BY <1>1 DEF DayOK, DayFields
<1> HIDE DEF t
<1>5. /\ DOMAIN today' = DayFields /\ today'.goods = today.goods /\ today'.spins = today.spins
      /\ today'.free = today.free + (IF p = 0 THEN 1 ELSE 0)
  BY <1>1, <1>4, KeptFacts
<1>6. today.free \in 0..1 /\ (p = 0 => today.free = 0)
  BY <1>1, <1>2 DEF DayOK, Counters
<1>7. DayOK'
  BY <1>1, <1>5, <1>6 DEF DayOK
<1>8. today'.free > 0 => mem'.freeDay = now'
  BY <1>1, <1>2, <1>3, <1>5, <1>6 DEF Counters
<1>9. Counters(mem)'
  BY <1>1, <1>3, <1>5, <1>8 DEF Counters, Recorded
<1> QED BY <1>1, <1>3, <1>7, <1>9, SavedStep

-----------------------------------------------------------------------------
(* The wheel, and the clock.                                               *)

LEMMA WheelFacts ==
  /\ \A w \in Wheels : WheelCost[w].what \in Currencies \cup Items /\ WheelCost[w].n \in Nat
  /\ \A s \in Slots : s.item \in Items /\ s.n \in Nat
  /\ Bonus.item \in Items /\ Bonus.n \in Nat /\ DrawMax \in Nat \ {0}
BY MarketAssumption DEF MarketAssumption

LEMMA SpunFacts ==
  ASSUME NEW a, Held(a), RestOK(a), NEW w \in Wheels, NEW slot \in Slots,
         a.wheel[w].day < DrawMax, CanPay(a, WheelCost[w].what, WheelCost[w].n)
  PROVE  LET b == Spun(a, w, slot)
         IN /\ Held(b) /\ RestOK(b) /\ b.shop = a.shop /\ b.freeDay = a.freeDay
            /\ b.wheelDay = a.wheelDay
            /\ \A v \in Wheels :
                 b.wheel[v].day = IF v = w THEN a.wheel[v].day + 1 ELSE a.wheel[v].day
<1> DEFINE spent == Spend(a, WheelCost[w].what, WheelCost[w].n)
           given == GrantReward(spent, slot.item, slot.n)
           won == Count(given, "roulette", AnyValue, 1)
           full == a.wheel[w].sum + 1 >= DrawMax
           extra == IF full THEN GrantReward(won, Bonus.item, Bonus.n) ELSE won
           turn == [day |-> a.wheel[w].day + 1,
                    sum |-> IF full THEN 0 ELSE a.wheel[w].sum + 1]
           wheel == [a.wheel EXCEPT ![w] = turn]
           b == [extra EXCEPT !.wheel = wheel]
<1>1. Held(spent) /\ SameBooks(a, spent)
  BY WheelFacts, SpendHeld
<1>2. Held(given) /\ SameBooks(spent, given)
  <2> HIDE DEF spent
  <2> QED BY <1>1, WheelFacts, RewardHeld
<1>3. Held(won) /\ SameBooks(given, won)
  <2> HIDE DEF given
  <2>1. 1 \in Nat
    OBVIOUS
  <2> QED BY <1>2, <2>1, CountHeld
<1>4. Held(extra) /\ SameBooks(won, extra)
  <2> HIDE DEF won, full
  <2>1. SameBooks(won, won)
    BY DEF SameBooks
  <2> QED BY <1>3, <2>1, WheelFacts, RewardHeld
<1>5. Spun(a, w, slot) = [extra EXCEPT !.wheel[w] = [day |-> @.day + 1,
                                        sum |-> IF full THEN 0 ELSE @.sum + 1]]
  BY DEF Spun
<1> HIDE DEF spent, given, won, extra
<1>6. SameBooks(a, extra)
  BY <1>1, <1>2, <1>3, <1>4 DEF SameBooks
<1>7. Spun(a, w, slot) = b
  <2>1. extra.wheel = a.wheel /\ "wheel" \in DOMAIN extra /\ w \in DOMAIN extra.wheel
    BY <1>4, <1>6 DEF SameBooks, Held, AccountFields, RestOK
  <2> QED BY <1>5, <2>1
<1>8. /\ wheel \in [Wheels -> [day : 0..DrawMax, sum : 0..(DrawMax - 1)]]
      /\ \A v \in Wheels :
           wheel[v].day = IF v = w THEN a.wheel[v].day + 1 ELSE a.wheel[v].day
  <2>1. a.wheel \in [Wheels -> [day : 0..DrawMax, sum : 0..(DrawMax - 1)]]
    BY DEF RestOK
  <2>2. turn \in [day : 0..DrawMax, sum : 0..(DrawMax - 1)] /\ turn.day = a.wheel[w].day + 1
    BY <2>1, WheelFacts
  <2> HIDE DEF turn
  <2> QED BY <2>1, <2>2
<1> HIDE DEF wheel
<1>9. /\ Held(b) /\ b.wheel = wheel /\ b.shop = extra.shop /\ b.freeDay = extra.freeDay
      /\ b.wheelDay = extra.wheelDay /\ b.roll = extra.roll /\ b.kept = extra.kept
  BY <1>4 DEF Held, AccountFields, PurseOK, Diamonds
<1> HIDE DEF b
<1>10. RestOK(b)
  BY <1>6, <1>8, <1>9 DEF RestOK, SameBooks
<1> QED BY <1>6, <1>7, <1>8, <1>9, <1>10 DEF SameBooks

LEMMA SpinKeeps ==
  ASSUME MarketInv, NEW w \in Wheels, NEW slot \in Slots, Spin(w, slot)
  PROVE  MarketInv'
<1> DEFINE a == NewWheelDay(mem)
           b == Spun(a, w, slot)
           refused == \/ a.wheel[w].day >= DrawMax
                      \/ ~CanPay(a, WheelCost[w].what, WheelCost[w].n)
           t == [today EXCEPT !.spins[w] = @ + 1,
                              !.won = @ + slot.n * Worth[slot.item].cur["cash"]]
<1>1. now \in Nat /\ DayOK /\ CopyOK(mem) /\ CopyOK(disk) /\ now' = now
  BY MarketAssumption DEF MarketAssumption, MarketInv, Spin
<1>2. CopyOK(a) /\ a.wheelDay = now
  BY <1>1, WheelDayFacts
<1>3. IF refused THEN mem' = a /\ disk' = disk /\ today' = today
                 ELSE mem' = b /\ disk' = mem' /\ today' = t
  BY DEF Spin
<1> HIDE DEF a, t
<1>4. CASE refused
  BY <1>1, <1>2, <1>3, <1>4, QuietStep
<1>5. CASE ~refused
  <2>1. Held(a) /\ RestOK(a) /\ Counters(a)
    BY <1>2, CopyParts
  <2>2. a.wheel[w].day < DrawMax /\ CanPay(a, WheelCost[w].what, WheelCost[w].n)
    BY <1>5, <2>1, WheelFacts DEF RestOK
  <2>3. /\ Held(b) /\ RestOK(b) /\ b.shop = a.shop /\ b.freeDay = a.freeDay
        /\ b.wheelDay = a.wheelDay
        /\ \A v \in Wheels :
             b.wheel[v].day = IF v = w THEN a.wheel[v].day + 1 ELSE a.wheel[v].day
    BY <2>1, <2>2, SpunFacts
  <2> HIDE DEF b
  <2>4. /\ DOMAIN t = DayFields /\ t.goods = today.goods /\ t.free = today.free
        /\ t.spins = [today.spins EXCEPT ![w] = today.spins[w] + 1]
    BY <1>1 DEF t, DayOK, DayFields
  <2>5. today' = t /\ mem' = b /\ disk' = mem'
    BY <1>3, <1>5
  <2>6. DayOK'
    <3>1. t.spins \in [Wheels -> Nat]
      BY <1>1, <2>4 DEF DayOK
    <3> QED BY <1>1, <2>4, <2>5, <3>1 DEF DayOK
  <2>7. \A v \in Wheels : t.spins[v] = IF b.wheelDay = now THEN b.wheel[v].day ELSE 0
    BY <1>1, <1>2, <2>1, <2>3, <2>4 DEF Counters, DayOK
  <2>8. Counters(mem)'
    BY <1>1, <2>1, <2>3, <2>4, <2>5, <2>7 DEF Counters, Recorded
  <2> QED BY <1>1, <2>3, <2>5, <2>6, <2>8, SavedStep
<1> QED BY <1>4, <1>5

LEMMA ReloginKeeps == MarketInv /\ Relogin => MarketInv'
<1> SUFFICES ASSUME MarketInv, Relogin PROVE MarketInv'
  OBVIOUS
<1> DEFINE a == NewWheelDay(disk)
<1>1. now \in Nat /\ DayOK /\ CopyOK(disk) /\ UNCHANGED <<now, today>>
  BY MarketAssumption DEF MarketAssumption, MarketInv, Relogin
<1>2. CopyOK(a)
  BY <1>1, WheelDayFacts
<1>3. mem' = a /\ (disk' = a \/ disk' = disk)
  BY DEF Relogin
<1> QED BY <1>1, <1>2, <1>3, QuietStep

(* Windows only get later.                                                 *)
LEMMA WindowsPass ==
  ASSUME NEW n \in Nat, NEW d \in Nat \ {0}
  PROVE  n \div d <= (n + 1) \div d
<1> DEFINE v == n \div d
           w == (n + 1) \div d
<1>1. v \in Nat /\ d * v <= n /\ w \in Nat /\ n + 1 < d * w + d
  BY DayBounds
<1> HIDE DEF v, w
<1>2. SUFFICES ASSUME w + 1 <= v PROVE FALSE
  BY <1>1 DEF v, w
<1>3. d * (w + 1) <= d * v /\ d * (w + 1) = d * w + d /\ d * w \in Nat /\ d * v \in Nat
  BY <1>1, <1>2, TimesMonotone
<1> QED BY <1>1, <1>3

LEMMA TickKeeps == MarketInv /\ Tick => MarketInv'
<1> SUFFICES ASSUME MarketInv, Tick PROVE MarketInv'
  OBVIOUS
<1>1. /\ now \in Nat /\ now' = now + 1 /\ now' \in 0..LastDay /\ DayOK
      /\ CopyOK(mem) /\ CopyOK(disk) /\ mem' = mem /\ disk' = disk
  BY MarketAssumption DEF MarketAssumption, MarketInv, Tick
<1>2. /\ DOMAIN today' = DayFields /\ today'.goods = today.goods /\ today'.free = 0
      /\ today'.spins = [w \in Wheels |-> 0]
  BY <1>1 DEF Tick, DayOK, DayFields
<1>3. DayOK'
  BY <1>1, <1>2 DEF DayOK
<1>4. ASSUME NEW a, CopyOK(a)
      PROVE  /\ \A g \in Goods : Recorded(g, a.shop[g], today.goods[g])'
             /\ a.wheelDay # now' /\ a.freeDay \in -1..now' /\ a.wheelDay \in -1..now'
  <2>1. ASSUME NEW g \in Goods PROVE Recorded(g, a.shop[g], today.goods[g])'
    <3>1. CASE GoodsRow[g].cycle = 0
      BY <1>1, <1>2, <1>4, <3>1 DEF CopyOK, Counters, Recorded
    <3>2. CASE GoodsRow[g].cycle # 0
      <4> DEFINE c == GoodsRow[g].cycle
      <4>1. c \in Nat \ {0}
        BY <3>2, RowFacts
      <4>2. /\ now \div c \in Nat /\ now' \div c \in Nat /\ now \div c <= now' \div c
        BY <1>1, <4>1, WindowsPass, DayBounds
      <4>3. Recorded(g, a.shop[g], today.goods[g]) /\ today.goods[g].window \in Nat
        BY <1>4, <1>1 DEF CopyOK, Counters, DayOK, Windowed
      <4>4. DEFINE V == now \div c
                   W == now' \div c
      <4> HIDE DEF V, W
      <4> QED BY <1>2, <3>2, <4>2, <4>3 DEF Recorded, V, W
    <3> QED BY <3>1, <3>2
  <2>2. a.freeDay \in -1..now /\ a.wheelDay \in -1..now
    BY <1>4 DEF CopyOK, AccountOK
  <2> QED BY <1>1, <2>1, <2>2
<1>5. CopyOK(mem)'
  <2>1. Counters(mem)'
    BY <1>1, <1>2, <1>4 DEF Counters
  <2>2. AccountOK(mem)'
    BY <1>1, <1>4 DEF CopyOK, AccountOK, PurseOK, Diamonds
  <2> QED BY <1>1, <2>1, <2>2 DEF CopyOK
<1>6. CopyOK(disk)'
  <2>1. Counters(disk)'
    BY <1>1, <1>2, <1>4 DEF Counters
  <2>2. AccountOK(disk)'
    BY <1>1, <1>4 DEF CopyOK, AccountOK, PurseOK, Diamonds
  <2> QED BY <1>1, <2>1, <2>2 DEF CopyOK
<1> QED BY <1>1, <1>3, <1>5, <1>6 DEF MarketInv

-----------------------------------------------------------------------------
(* No allowance is passed.                                                 *)

LEMMA MarketInit == Init => MarketInv
<1> SUFFICES ASSUME Init PROVE MarketInv
  OBVIOUS
<1>1. /\ now = 0 /\ mem = NewAccount /\ disk = NewAccount
      /\ DOMAIN today = DayFields /\ today.goods = [g \in Goods |-> [window |-> 0, n |-> 0]]
      /\ today.free = 0 /\ today.spins = [w \in Wheels |-> 0]
  BY DEF Init, DayFields
<1>2. 0 \in 0..LastDay
  BY MarketAssumption DEF MarketAssumption
<1>3. DayOK
  BY <1>1, RowFacts DEF DayOK, Windowed
<1> DEFINE a == NewAccount
<1>4. /\ DOMAIN a = AccountFields /\ a.cur = Start.cur /\ a.bag = Start.bag
      /\ a.energy = Start.energy /\ a.gear = 0 /\ a.casts = 0 /\ a.quests = {}
      /\ a.sp = [q \in Quests |-> NothingDone] /\ \A k \in DOMAIN a.db : a.db[k] = 0
      /\ a.shop = [g \in Goods |-> [n |-> 0, reset |-> 0]] /\ a.roll = NoRoll
      /\ a.kept = 0 /\ a.freeDay = -1 /\ a.wheelDay = -1
      /\ a.wheel = [w \in Wheels |-> [day |-> 0, sum |-> 0]]
  BY DEF NewAccount, FreshPurse, AccountFields
<1> HIDE DEF a
<1>5. Held(a)
  BY <1>4, MarketAssumption
     DEF Held, PurseOK, Diamonds, MarketAssumption, NothingDone
<1>6. RestOK(a)
  <2>1. RollOK(NoRoll)
    BY DEF RollOK, NoRoll, Currencies
  <2>2. -1 \in -1..now
    BY <1>1
  <2> QED BY <1>4, <2>1, <2>2, WheelFacts DEF RestOK, Records
<1>7. Counters(a)
  <2>1. ASSUME NEW g \in Goods PROVE Recorded(g, a.shop[g], today.goods[g])
    <3>1. a.shop[g].n = 0 /\ a.shop[g].reset = 0 /\ today.goods[g].n = 0 /\ today.goods[g].window = 0
      BY <1>1, <1>4
    <3>2. GoodsRow[g].cycle # 0 => now \div GoodsRow[g].cycle \in Nat
      BY <1>1, RowFacts, DayBounds
    <3> QED BY <3>1, <3>2 DEF Recorded
  <2> QED BY <1>1, <1>4, <2>1 DEF Counters
<1> QED BY <1>1, <1>2, <1>3, <1>5, <1>6, <1>7, CopyParts DEF MarketInv, a

LEMMA MarketNext == MarketInv /\ [Next]_vars => MarketInv'
<1> SUFFICES ASSUME MarketInv, [Next]_vars PROVE MarketInv'
  OBVIOUS
<1>1. ASSUME NEW g \in Goods, NEW n \in Amounts, Buy(g, n) PROVE MarketInv'
  BY <1>1, BuyKeeps
<1>2. CASE Browse
  BY <1>2, BrowseKeeps
<1>3. ASSUME NEW box \in Banners, NEW i \in DOMAIN Options[box], Draw(box, i) PROVE MarketInv'
  BY <1>3, DrawKeeps
<1>4. CASE Collect
  BY <1>4, CollectKeeps
<1>5. ASSUME NEW w \in Wheels, NEW slot \in Slots, Spin(w, slot) PROVE MarketInv'
  BY <1>5, SpinKeeps
<1>6. CASE Relogin
  BY <1>6, ReloginKeeps
<1>7. CASE Tick
  BY <1>7, TickKeeps
<1>8. CASE UNCHANGED vars
  <2>1. mem' = mem /\ disk' = disk /\ UNCHANGED <<now, today>>
    BY <1>8 DEF vars
  <2> QED BY <2>1, QuietStep DEF MarketInv
<1> QED BY <1>1, <1>2, <1>3, <1>4, <1>5, <1>6, <1>7, <1>8 DEF Next

LEMMA MarketSuffices == MarketInv => AllowancesHold
<1> SUFFICES ASSUME MarketInv PROVE AllowancesHold
  OBVIOUS
<1>1. now \in Nat /\ DayOK /\ CopyOK(mem) /\ CopyOK(disk)
  BY MarketAssumption DEF MarketAssumption, MarketInv
<1>2. TypeOK
  BY <1>1 DEF TypeOK, MarketInv, CopyOK
<1>3. CapsFollowTheWindow
  <2> SUFFICES ASSUME NEW g \in Goods
               PROVE  LET sold == Fresh(g, mem.shop[g]).n
                      IN sold = TakenNow(g) /\ (GoodsRow[g].limit > 0 => sold <= GoodsRow[g].limit)
    BY DEF CapsFollowTheWindow
  <2>1. /\ today.goods[g] \in Windowed /\ mem.shop[g] \in Records
        /\ Recorded(g, mem.shop[g], today.goods[g])
        /\ GoodsRow[g].limit > 0 => today.goods[g].n <= GoodsRow[g].limit
    BY <1>1 DEF CopyOK, AccountOK, Counters, DayOK, Records
  <2>2. Fresh(g, mem.shop[g]).n = TakenNow(g)
    BY <1>1, <2>1, FreshFacts DEF TakenNow
  <2> QED BY <2>1, <2>2, RowFacts DEF TakenNow, Windowed
<1>4. DailyAllowances
  <2>1. today.free \in 0..1 /\ mem.wheel \in [Wheels -> [day : 0..DrawMax, sum : 0..(DrawMax - 1)]]
    BY <1>1 DEF DayOK, CopyOK, AccountOK
  <2>2. \A w \in Wheels : today.spins[w] = IF mem.wheelDay = now THEN mem.wheel[w].day ELSE 0
    BY <1>1 DEF CopyOK, Counters
  <2> QED BY <2>1, <2>2, WheelFacts DEF DailyAllowances
<1> QED BY <1>2, <1>3, <1>4 DEF AllowancesHold

(* For any goods, cycles, limits, prices, banners, wheels and amounts,     *)
(* and any balances an account can start with: a good sells what its       *)
(* window allows and no more, a day gives one free pull and DrawMax spins  *)
(* of a wheel whatever connection asks, and no balance leaves its bounds   *)
(* (buy_shop_goods, gacha_draw, gacha_commit, roulette_draw).              *)
THEOREM AllowancesSafe == Spec => []AllowancesHold
<1>1. Init => MarketInv
  BY MarketInit
<1>2. MarketInv /\ [Next]_vars => MarketInv'
  BY MarketNext
<1>3. MarketInv => AllowancesHold
  BY MarketSuffices
<1> QED BY <1>1, <1>2, <1>3, PTL DEF Spec

-----------------------------------------------------------------------------
(* The diamonds.                                                           *)

DiamondKey == <<"diamond", 0>>
GoodsKey(g) == <<"buy", g>>
Keys == {CaseKey(q) : q \in {r \in Quests : ~QuestRow[r].sp}}

(* An account whose counters are all numbers.                              *)
Countable(a) == Held(a) /\ DOMAIN a.db = Keys

LEMMA KeyFacts ==
  ASSUME NEW a, Countable(a)
  PROVE  /\ DiamondKey \in Keys => a.db[DiamondKey] \in Nat
         /\ \A k \in Keys : a.db[k] \in Nat
         /\ Diamonds(a) \in Nat /\ a.cur["cash"] \in Nat /\ a.cur["paid"] \in Nat
         /\ a.bag \in [Items -> 0..BalanceMax] /\ BalanceMax \in Nat
BY PurseAssumption DEF Countable, Held, PurseOK, Diamonds, Currencies, PurseAssumption

LEMMA CountedKeys ==
  ASSUME NEW case, NEW value, Counting(case, value)
  PROVE  <<case, value>> \in Keys
BY DEF Counting, Keys

(* A bump moves the counters of its case and value, and nothing else.      *)
LEMMA CountTally ==
  ASSUME NEW a, Countable(a), NEW case, NEW value, NEW n \in Nat
  PROVE  LET b == Count(a, case, value, n)
         IN /\ Countable(b) /\ b.cur = a.cur /\ b.bag = a.bag
            /\ \A c, v : Counting(c, v) =>
                 b.db[<<c, v>>] = a.db[<<c, v>>]
                   + (IF c = case /\ (value = AnyValue \/ value = v) THEN n ELSE 0)
<1> DEFINE hit == Moved(case, value)
           db == Shared(a, hit, n, FALSE)
           sp == [q \in Quests |->
                    IF /\ q \in hit /\ QuestRow[q].sp /\ ~a.sp[q].done
                       /\ Completed(a, QuestRow[q].pre)
                      THEN [a.sp[q] EXCEPT !.cnt = Bumped(@, n, FALSE)] ELSE a.sp[q]]
           b == Count(a, case, value, n)
<1>1. b.db = db /\ b.cur = a.cur /\ b.bag = a.bag
  BY DEF Count, Bump, Countable, Held, AccountFields
<1>2. DOMAIN db = Keys
  BY DEF Shared, Countable
<1>3. Held(b)
  BY CountHeld DEF Countable
<1> HIDE DEF b
<1>4. ASSUME NEW c, NEW v, Counting(c, v)
      PROVE  db[<<c, v>>] = a.db[<<c, v>>]
               + (IF c = case /\ (value = AnyValue \/ value = v) THEN n ELSE 0)
  <2> DEFINE k == <<c, v>>
             moved == \E q \in hit : ~QuestRow[q].sp /\ CaseKey(q) = k
  <2>1. k \in Keys /\ k \in DOMAIN a.db /\ a.db[k] \in Nat
    BY <1>4, CountedKeys, KeyFacts DEF Countable
  <2>2. db[k] = IF moved THEN a.db[k] + n ELSE a.db[k]
    BY <2>1 DEF Shared, Bumped
  <2>3. moved <=> c = case /\ (value = AnyValue \/ value = v)
    BY <1>4 DEF Counting, Moved, CaseKey
  <2> HIDE DEF moved, db
  <2> QED BY <2>1, <2>2, <2>3
<1> QED BY <1>1, <1>2, <1>3, <1>4 DEF Countable, b

LEMMA CappedAtMost ==
  ASSUME NEW v \in Nat, NEW h \in 0..BalanceMax
  PROVE  Capped(v, h) <= v
BY PurseAssumption DEF PurseAssumption, Capped

LEMMA CurrencyGain ==
  ASSUME NEW a, Held(a), NEW k \in Currencies, NEW n \in Nat
  PROVE  LET b == AddCurrency(a, k, n)
         IN /\ b.db = a.db /\ b.bag = a.bag
            /\ Diamonds(b) <= Diamonds(a) + (IF k = "coin" THEN 0 ELSE n)
<1> DEFINE c == Capped(a.cur[k] + n, Headroom(a, k))
           b == AddCurrency(a, k, n)
<1>1. /\ a.cur \in [Currencies -> 0..BalanceMax] /\ BalanceMax \in Nat
      /\ a.cur["cash"] \in 0..BalanceMax /\ a.cur["paid"] \in 0..BalanceMax
  BY PurseAssumption DEF PurseAssumption, Held, PurseOK, Currencies
<1>2. Headroom(a, k) \in 0..BalanceMax /\ a.cur[k] + n \in Nat /\ a.cur[k] + n \in Int
  BY <1>1 DEF Headroom
<1>3. c <= a.cur[k] + n /\ c \in 0..BalanceMax
  BY <1>2, CappedAtMost, CappedBounds
<1>4. b.db = a.db /\ b.bag = a.bag /\ b.cur = [a.cur EXCEPT ![k] = c]
  BY DEF AddCurrency, Held, AccountFields
<1> HIDE DEF c, b
<1>5. Diamonds(b) <= Diamonds(a) + (IF k = "coin" THEN 0 ELSE n)
  <2>1. CASE k = "cash"
    BY <1>1, <1>2, <1>3, <1>4, <2>1 DEF Diamonds, Currencies
  <2>2. CASE k = "paid"
    BY <1>1, <1>2, <1>3, <1>4, <2>2 DEF Diamonds, Currencies
  <2>3. CASE k = "coin"
    BY <1>1, <1>4, <2>3 DEF Diamonds, Currencies
  <2> QED BY <2>1, <2>2, <2>3 DEF Currencies
<1> QED BY <1>4, <1>5 DEF b

(* Handing over brings the diamonds of the payout at most.                 *)
LEMMA HandOverGain ==
  ASSUME NEW a, Held(a), NEW w \in Payouts, NEW n \in Nat
  PROVE  LET b == HandOver(a, w, n)
         IN /\ b.db = a.db
            /\ Diamonds(b) <= Diamonds(a) + (n * w.cur["cash"] + n * w.cur["paid"])
            /\ \A i \in Items : b.bag[i] = IF w.bag[i] = 0 THEN a.bag[i]
                                           ELSE Capped(a.bag[i] + n * w.bag[i], 0)
<1> DEFINE b == AddCurrency(a, "cash", n * w.cur["cash"])
           c == AddCurrency(b, "paid", n * w.cur["paid"])
           d == AddCurrency(c, "coin", n * w.cur["coin"])
           e == HandOver(a, w, n)
<1>1. /\ w.cur["cash"] \in Nat /\ w.cur["paid"] \in Nat /\ w.cur["coin"] \in Nat
  BY DEF Payouts, Currencies
<1>2. /\ n * w.cur["cash"] \in Nat /\ n * w.cur["paid"] \in Nat /\ n * w.cur["coin"] \in Nat
      /\ n * w.cur["cash"] \in Int /\ n * w.cur["paid"] \in Int /\ n * w.cur["coin"] \in Int
  <2>1. \A x \in Nat : n * x \in Nat /\ n * x \in Int
    OBVIOUS
  <2> QED BY <1>1, <2>1
<1>3. /\ Held(b) /\ b.db = a.db /\ b.bag = a.bag
      /\ Diamonds(b) <= Diamonds(a) + n * w.cur["cash"]
  BY <1>2, CurrencyHeld, CurrencyGain DEF Currencies
<1> HIDE DEF b
<1>4. /\ Held(c) /\ c.db = b.db /\ c.bag = b.bag
      /\ Diamonds(c) <= Diamonds(b) + n * w.cur["paid"]
  BY <1>2, <1>3, CurrencyHeld, CurrencyGain DEF Currencies
<1> HIDE DEF c
<1>5. /\ Held(d) /\ d.db = c.db /\ d.bag = c.bag /\ Diamonds(d) <= Diamonds(c) + 0
  BY <1>2, <1>4, CurrencyHeld, CurrencyGain DEF Currencies
<1>6. /\ e.db = d.db /\ e.cur = d.cur
      /\ e.bag = [i \in Items |-> IF w.bag[i] = 0 THEN d.bag[i]
                                  ELSE Capped(d.bag[i] + n * w.bag[i], 0)]
  <2>1. e = [d EXCEPT !.energy = IF w.energy = 0 THEN @ ELSE Capped(@ + n * w.energy, 0),
                    !.gear = @ + AtLeastOne(n) * w.gear,
                    !.casts = @ + AtLeastOne(n) * w.casts,
                    !.bag = [i \in Items |->
                       IF w.bag[i] = 0 THEN @[i] ELSE Capped(@[i] + n * w.bag[i], 0)]]
    BY DEF HandOver, b, c
  <2> HIDE DEF d, e
  <2> QED BY <1>5, <2>1 DEF Held, AccountFields
<1> HIDE DEF d, e
<1>7. Diamonds(e) = Diamonds(d)
  BY <1>6 DEF Diamonds
<1>8. Diamonds(a) \in Int /\ Diamonds(b) \in Int /\ Diamonds(c) \in Int /\ Diamonds(d) \in Int
  BY <1>3, <1>4, <1>5, PurseAssumption
     DEF PurseAssumption, Held, PurseOK, Diamonds, Currencies
<1>9. Diamonds(e) <= Diamonds(a) + (n * w.cur["cash"] + n * w.cur["paid"])
  BY <1>2, <1>3, <1>4, <1>5, <1>7, <1>8
<1>10. \A i \in Items : e.bag[i] = IF w.bag[i] = 0 THEN a.bag[i]
                                   ELSE Capped(a.bag[i] + n * w.bag[i], 0)
  BY <1>3, <1>4, <1>5, <1>6
<1> QED BY <1>3, <1>4, <1>5, <1>6, <1>9, <1>10 DEF e

(* Nothing but what is charged leaves, and only from what pays.            *)
LEMMA SpendBooked ==
  ASSUME NEW a, Countable(a), NEW what \in Currencies \cup Items, NEW n \in Nat,
         CanPay(a, what, n)
  PROVE  LET b == Spend(a, what, n)
         IN /\ Countable(b)
            /\ \A i \in Items : i # what => b.bag[i] = a.bag[i]
            /\ \A c, v : Counting(c, v) =>
                 b.db[<<c, v>>] = a.db[<<c, v>>]
                   + (IF what = "cash" /\ c = "diamond" THEN n ELSE 0)
            /\ Diamonds(b) + (IF what = "cash" THEN n ELSE 0) <= Diamonds(a)
<1> DEFINE b == Spend(a, what, n)
<1>1. /\ a.cur \in [Currencies -> 0..BalanceMax] /\ BalanceMax \in Nat
      /\ a.cur["cash"] \in Nat /\ a.cur["paid"] \in Nat /\ Diamonds(a) \in Nat
      /\ a.bag \in [Items -> 0..BalanceMax]
      /\ \A k \in Keys : a.db[k] \in Nat
  BY KeyFacts DEF Countable, Held, PurseOK
<1>2. \A c, v : Counting(c, v) => a.db[<<c, v>>] \in Nat
  BY <1>1, CountedKeys
<1>3. Held(a) /\ Held(b)
  BY SpendHeld DEF Countable
<1>4. CASE what = "cash"
  <2> DEFINE free == IF a.cur["cash"] < n THEN a.cur["cash"] ELSE n
             cur == [a.cur EXCEPT !["cash"] = @ - free, !["paid"] = @ - (n - free)]
             d == [a EXCEPT !.cur = cur]
  <2>1. CASE n = 0
    <3>1. b = a
      BY <1>4, <2>1 DEF Spend, SpendDiamonds
    <3> HIDE DEF b
    <3> QED BY <1>1, <1>2, <1>4, <2>1, <3>1 DEF b
  <2>2. CASE n > 0
    <3>1. n <= a.cur["cash"] + a.cur["paid"]
      BY <1>1, <1>4, <2>2 DEF CanPay, Holds, Diamonds
    <3>2. free \in 0..a.cur["cash"] /\ n - free \in 0..a.cur["paid"] /\ free \in Int
      BY <1>1, <3>1
    <3> HIDE DEF free
    <3>3. /\ cur["cash"] = a.cur["cash"] - free /\ cur["paid"] = a.cur["paid"] - (n - free)
          /\ cur \in [Currencies -> 0..BalanceMax]
      BY <1>1, <3>2 DEF Currencies
    <3>4. cur["cash"] + cur["paid"] = a.cur["cash"] + a.cur["paid"] - n
      BY <1>1, <3>2, <3>3
    <3>5. b = Count(d, "diamond", AnyValue, n)
      <4>1. [a EXCEPT !.cur["cash"] = @ - free, !.cur["paid"] = @ - (n - free)] = d
        <5>1. "cur" \in DOMAIN a /\ DOMAIN a.cur = Currencies
          BY <1>1, <1>3 DEF Held, AccountFields
        <5> QED BY <5>1 DEF Currencies
      <4>2. Spend(a, what, n) = SpendDiamonds(a, n)
        BY <1>4 DEF Spend
      <4> HIDE DEF cur, d
      <4>3. ~(n <= 0)
        BY <2>2
      <4>4. SpendDiamonds(a, n) = Count([a EXCEPT !.cur["cash"] = @ - free,
                                                  !.cur["paid"] = @ - (n - free)],
                                        "diamond", AnyValue, n)
        BY <4>3, Zenon DEF SpendDiamonds, free
      <4> QED BY <4>1, <4>2, <4>4
    <3> HIDE DEF cur, b
    <3>6. /\ d.cur = cur /\ d.bag = a.bag /\ d.db = a.db
          /\ DOMAIN d = AccountFields /\ d.energy = a.energy /\ d.gear = a.gear
          /\ d.casts = a.casts /\ d.quests = a.quests /\ d.sp = a.sp
      BY <1>3 DEF Held, AccountFields
    <3> HIDE DEF d
    <3>7. Countable(d)
      <4>1. a.cur["cash"] + a.cur["paid"] <= BalanceMax
        BY <1>3 DEF Held, PurseOK, Diamonds
      <4>2. Diamonds(d) <= BalanceMax
        BY <1>1, <2>2, <3>4, <3>6, <4>1 DEF Diamonds
      <4> QED BY <1>3, <3>3, <3>6, <4>2 DEF Countable, Held, PurseOK
    <3>8. /\ Countable(b) /\ b.cur = d.cur /\ b.bag = d.bag
          /\ \A c, v : Counting(c, v) =>
               b.db[<<c, v>>] = d.db[<<c, v>>] + (IF c = "diamond" THEN n ELSE 0)
      BY <3>5, <3>7, CountTally
    <3>9. Diamonds(b) + n <= Diamonds(a)
      BY <1>1, <3>4, <3>6, <3>8 DEF Diamonds
    <3> QED BY <1>4, <3>6, <3>8, <3>9 DEF b
  <2> QED BY <2>1, <2>2
<1>5. CASE what # "cash"
  <2> DEFINE cur == IF what \in {"paid", "coin"} THEN [a.cur EXCEPT ![what] = @ - n] ELSE a.cur
             bag == IF what \in {"paid", "coin"} THEN a.bag
                    ELSE [a.bag EXCEPT ![what] = IF n <= 0 THEN @ ELSE @ - n]
  <2>1. b.cur = cur /\ b.bag = bag /\ b.db = a.db
    <3>1. CASE what \in {"paid", "coin"}
      <4>1. b = [a EXCEPT !.cur[what] = @ - n]
        BY <1>5, <3>1 DEF Spend
      <4> QED BY <1>3, <3>1, <4>1 DEF Held, AccountFields
    <3>2. CASE what \notin {"paid", "coin"}
      <4>1. b = [a EXCEPT !.bag[what] = IF n <= 0 THEN @ ELSE @ - n]
        BY <1>5, <3>2 DEF Spend
      <4> QED BY <1>3, <3>2, <4>1 DEF Held, AccountFields
    <3> QED BY <3>1, <3>2
  <2> HIDE DEF b
  <2>2. Diamonds(b) <= Diamonds(a)
    BY <1>1, <2>1 DEF Diamonds, Currencies
  <2>3. \A i \in Items : i # what => b.bag[i] = a.bag[i]
    BY <1>1, <2>1
  <2>4. Countable(b)
    BY <1>3, <2>1 DEF Countable, b
  <2>5. Diamonds(b) \in Nat
    BY <2>4, KeyFacts
  <2> QED BY <1>1, <1>2, <1>5, <2>1, <2>2, <2>3, <2>4, <2>5 DEF b
<1> QED BY <1>4, <1>5

(* What the missions count is what was owed, and what is left the rest; a  *)
(* roll that is held was shown last, at its price.                         *)
Funds == Start.cur["cash"] + Start.cur["paid"]
Charged(a, t) == SpentOn(a) + t.rolls
Ledger(a, t) ==
  /\ Countable(a)
  /\ a.db[DiamondKey] = Charged(a, t)
  /\ Diamonds(a) + Charged(a, t) <= Funds + t.won
  /\ a.roll # NoRoll => t.shown.cost = a.roll.cost /\ t.shown.price = a.roll.price
LedgerInv ==
  /\ MarketInv
  /\ today.rolls \in Nat /\ today.won \in Nat /\ today.shown.price \in Nat
  /\ Ledger(mem, today) /\ Ledger(disk, today)

LEMMA LedgerConsts ==
  /\ IsFiniteSet(Goods) /\ IsFiniteSet(Wheels) /\ IsFiniteSet(DiamondGoods)
  /\ Goods \subseteq Nat /\ DiamondGoods \subseteq Goods
  /\ \A g \in Goods : g # AnyValue
  /\ Funds \in Nat
<1>1. /\ IsFiniteSet(Goods) /\ IsFiniteSet(Wheels) /\ Goods \subseteq Nat
      /\ Start.cur \in [Currencies -> 0..BalanceMax]
  BY MarketAssumption DEF MarketAssumption
<1>2. DiamondGoods \subseteq Goods
  BY DEF DiamondGoods
<1>3. IsFiniteSet(DiamondGoods)
  BY <1>1, <1>2, FS_Subset
<1>4. \A g \in Goods : g # AnyValue
  BY <1>1, PurseAssumption DEF PurseAssumption, Values
<1>5. Funds \in Nat
  BY <1>1, PurseAssumption DEF PurseAssumption, Funds, Currencies
<1> QED BY <1>1, <1>2, <1>3, <1>4, <1>5

LEMMA GoodsKeys ==
  ASSUME CountersApart, NEW a, Countable(a)
  PROVE  /\ a.db[DiamondKey] \in Nat
         /\ \A g \in DiamondGoods : a.db[GoodsKey(g)] \in Nat
<1>1. DiamondKey \in Keys /\ \A g \in DiamondGoods : GoodsKey(g) \in Keys
  BY CountedKeys DEF CountersApart, DiamondKey, GoodsKey
<1> QED BY <1>1, KeyFacts

LEMMA SpentSame ==
  ASSUME NEW a, NEW b, \A g \in DiamondGoods : b.db[GoodsKey(g)] = a.db[GoodsKey(g)]
  PROVE  SpentOn(b) = SpentOn(a)
<1> DEFINE f == [g \in DiamondGoods |-> GoodsRow[g].price * a.db[<<"buy", g>>]]
           h == [g \in DiamondGoods |-> GoodsRow[g].price * b.db[<<"buy", g>>]]
<1>1. f = h
  BY DEF GoodsKey
<1> HIDE DEF f, h
<1>2. SumFunction(f) = SumFunction(h)
  BY <1>1
<1> QED BY <1>2 DEF SpentOn, f, h

LEMMA SpentType ==
  ASSUME CountersApart, NEW a, Countable(a)
  PROVE  SpentOn(a) \in Nat
<1> DEFINE f == [g \in DiamondGoods |-> GoodsRow[g].price * a.db[<<"buy", g>>]]
<1>1. ASSUME NEW g \in DiamondGoods PROVE f[g] \in Nat
  <2>1. GoodsRow[g].price \in Nat /\ a.db[<<"buy", g>>] \in Nat
    BY GoodsKeys, RowFacts, LedgerConsts DEF GoodsKey
  <2>2. f[g] = GoodsRow[g].price * a.db[<<"buy", g>>]
    OBVIOUS
  <2> HIDE DEF f
  <2> QED BY <2>1, <2>2, ProductType
<1>2. DOMAIN f = DiamondGoods /\ SpentOn(a) = SumFunctionOnSet(f, DOMAIN f)
  BY DEF SpentOn, SumFunction
<1> HIDE DEF f
<1> QED BY <1>1, <1>2, LedgerConsts, SumNat

LEMMA SpentMore ==
  ASSUME CountersApart, NEW a, Countable(a), NEW b, Countable(b),
         NEW g \in DiamondGoods, NEW n \in Nat,
         \A h \in DiamondGoods :
           b.db[GoodsKey(h)] = a.db[GoodsKey(h)] + (IF h = g THEN n ELSE 0)
  PROVE  SpentOn(b) = SpentOn(a) + GoodsRow[g].price * n
<1> DEFINE f == [h \in DiamondGoods |-> GoodsRow[h].price * a.db[<<"buy", h>>]]
           k == [h \in DiamondGoods |-> GoodsRow[h].price * b.db[<<"buy", h>>]]
<1>1. ASSUME NEW h \in DiamondGoods
      PROVE  /\ f[h] \in Int /\ k[h] \in Int
             /\ h # g => k[h] = f[h]
             /\ h = g => k[h] - f[h] = GoodsRow[g].price * n
  <2> DEFINE p == GoodsRow[h].price
             x == a.db[GoodsKey(h)]
             y == b.db[GoodsKey(h)]
  <2>1. p \in Nat /\ x \in Nat /\ y \in Nat
    BY GoodsKeys, RowFacts, LedgerConsts
  <2>2. y = x + (IF h = g THEN n ELSE 0) /\ f[h] = p * x /\ k[h] = p * y
    BY DEF GoodsKey
  <2>3. h = g => GoodsRow[g].price = p
    OBVIOUS
  <2> HIDE DEF p, x, y, f, k
  <2>4. p * x \in Int /\ p * y \in Int /\ p * n \in Int /\ p * (x + n) = p * x + p * n
        /\ x + 0 = x
    BY <2>1
  <2> QED BY <2>1, <2>2, <2>3, <2>4
<1>2. /\ DOMAIN f = DiamondGoods /\ SpentOn(a) = SumFunctionOnSet(f, DOMAIN f)
      /\ DOMAIN k = DiamondGoods /\ SpentOn(b) = SumFunctionOnSet(k, DOMAIN k)
  BY DEF SpentOn, SumFunction
<1> HIDE DEF f, k
<1>3. SumFunctionOnSet(k, DiamondGoods) = SumFunctionOnSet(f, DiamondGoods) + (k[g] - f[g])
  <2>1. \A h \in DiamondGoods : f[h] \in Int /\ k[h] \in Int /\ (h # g => k[h] = f[h])
    BY <1>1
  <2>2. IsFiniteSet(DiamondGoods)
    BY LedgerConsts
  <2> QED BY <2>1, <2>2, SumChange
<1> QED BY <1>1, <1>2, <1>3

(* A look at the shop or at the wheel costs nothing.                       *)
LEMMA LookKeeps ==
  ASSUME NEW a, NEW t, Ledger(a, t), NEW b, Held(b), b.db = a.db, b.cur = a.cur, b.bag = a.bag,
         b.roll = a.roll, \A w \in Wheels : b.wheel[w].sum = a.wheel[w].sum,
         NEW u, u.rolls = t.rolls, u.won = t.won, u.shown = t.shown
  PROVE  Ledger(b, u)
<1>1. SpentOn(b) = SpentOn(a) /\ Diamonds(b) = Diamonds(a)
  BY SpentSame DEF Diamonds
<1> QED BY <1>1 DEF Ledger, Charged, Countable

LEMMA LookLedger ==
  ASSUME now \in Nat, DayOK, NEW a, CopyOK(a), Ledger(a, today)
  PROVE  Ledger(Expire(a), today) /\ Ledger(NewWheelDay(a), today)
<1>1. Ledger(Expire(a), today)
  <2> DEFINE b == Expire(a)
  <2>1. Held(b)
    BY ExpireFacts, CopyIsHeld
  <2>2. b.db = a.db /\ b.cur = a.cur /\ b.bag = a.bag /\ b.roll = a.roll /\ b.wheel = a.wheel
    BY DEF Expire, CopyOK, AccountFields
  <2> HIDE DEF b
  <2> QED BY <2>1, <2>2, LookKeeps DEF b
<1>2. Ledger(NewWheelDay(a), today)
  <2> DEFINE b == NewWheelDay(a)
  <2>1. Held(b)
    BY WheelDayFacts, CopyIsHeld
  <2>2. b.db = a.db /\ b.cur = a.cur /\ b.bag = a.bag /\ b.roll = a.roll
    BY DEF NewWheelDay, CopyOK, AccountFields
  <2>3. \A w \in Wheels : b.wheel[w].sum = a.wheel[w].sum
    <3>1. a.wheel \in [Wheels -> [day : 0..DrawMax, sum : 0..(DrawMax - 1)]]
      BY DEF CopyOK, AccountOK
    <3> QED BY <3>1 DEF NewWheelDay, CopyOK, AccountFields
  <2> HIDE DEF b
  <2> QED BY <2>1, <2>2, <2>3, LookKeeps DEF b
<1> QED BY <1>1, <1>2

(* What is handed over brings the diamonds it is worth, and no other item. *)
LEMMA RewardGain ==
  ASSUME NEW a, Held(a), NEW i \in Items, NEW n \in Nat,
         NEW b \in {GrantGoods(a, i, n), GrantReward(a, i, n)}
  PROVE  /\ b.db = a.db
         /\ Diamonds(b) <= Diamonds(a)
              + (n * Worth[i].cur["cash"] + n * Worth[i].cur["paid"])
         /\ \A j \in Items : Worth[i].bag[j] = 0 /\ i # j => b.bag[j] = a.bag[j]
         /\ Worth[i].bag[i] = 1 /\ b = GrantReward(a, i, n)
              => b.bag[i] = Capped(a.bag[i] + n, 0)
<1> DEFINE w == Worth[i]
<1>1. w \in Payouts /\ w.cur["cash"] \in Nat /\ w.cur["paid"] \in Nat
  BY PurseAssumption DEF PurseAssumption, Payouts, Currencies
<1>2. Diamonds(a) \in Int /\ a.bag \in [Items -> 0..BalanceMax]
  BY PurseAssumption DEF PurseAssumption, Held, PurseOK, Diamonds, Currencies
<1>3. CASE b = HandOver(a, w, n)
  <2>1. /\ b.db = a.db
        /\ Diamonds(b) <= Diamonds(a) + (n * w.cur["cash"] + n * w.cur["paid"])
        /\ \A j \in Items : b.bag[j] = IF w.bag[j] = 0 THEN a.bag[j]
                                       ELSE Capped(a.bag[j] + n * w.bag[j], 0)
    BY <1>1, <1>3, HandOverGain
  <2> HIDE DEF w
  <2>2. w.bag[i] = 1 => n * w.bag[i] = n
    OBVIOUS
  <2> QED BY <2>1, <2>2 DEF w
<1>4. CASE b = GrantItem(a, i, n)
  <2> DEFINE c == Capped(a.bag[i] + n, 0)
  <2>1. b.db = a.db /\ b.cur = a.cur /\ b.bag = [a.bag EXCEPT ![i] = c]
    BY <1>4 DEF GrantItem, Held, AccountFields
  <2> HIDE DEF c
  <2>2. /\ b.bag[i] = c /\ \A j \in Items : i # j => b.bag[j] = a.bag[j]
        /\ Diamonds(b) = Diamonds(a)
    BY <1>2, <2>1 DEF Diamonds
  <2>3. n * w.cur["cash"] \in Nat /\ n * w.cur["paid"] \in Nat
    BY <1>1, ProductType
  <2> HIDE DEF w
  <2>4. Diamonds(b) <= Diamonds(a) + (n * w.cur["cash"] + n * w.cur["paid"])
    BY <1>2, <2>2, <2>3
  <2> QED BY <2>1, <2>2, <2>4 DEF w, c
<1> QED BY <1>3, <1>4 DEF GrantGoods, GrantReward

(* A purchase is charged to the ledger, and booked to its good.            *)
LEMMA PurchaseLedger ==
  ASSUME CountersApart, MarketInv, NEW a, CopyOK(a), Ledger(a, today),
         NEW g \in Goods, NEW n \in Nat, ~Refused(a, g, n),
         NEW u, u.rolls = today.rolls, u.won = today.won, u.shown = today.shown,
         today.rolls \in Nat, today.won \in Nat
  PROVE  Ledger(Purchase(a, g, n), u)
<1> DEFINE row == GoodsRow[g]
           p == row.price * n
           e == Expire(a)
           spent == Spend(e, row.cost, p)
           given == GrantGoods(spent, row.item, row.per * n)
           stamped == [given EXCEPT !.shop[g] = Bought(@, g, n)]
           b == Count(stamped, "buy", g, n)
           charge == IF row.cost = "cash" THEN p ELSE 0
<1>1. Purchase(a, g, n) = b
  BY DEF Purchase
<1>2. /\ now \in Nat /\ DayOK /\ p \in Nat /\ row.per * n \in Nat /\ row.item \in Items
      /\ row.cost \in Currencies \cup Items /\ charge \in Nat
  <2>1. p \in Nat /\ row.per * n \in Nat
    BY RowFacts, ProductType
  <2> HIDE DEF p
  <2> QED BY <2>1, RowFacts DEF MarketInv
<1>3. CopyOK(e) /\ Ledger(e, today) /\ e.cur = a.cur /\ e.bag = a.bag
  BY <1>2, ExpireFacts, LookLedger
<1>4. CanPay(e, row.cost, p)
  <2>1. CanPay(a, row.cost, p)
    BY DEF Refused
  <2> HIDE DEF e, row, p
  <2> QED BY <1>3, <2>1 DEF CanPay, Holds, Diamonds
<1>5. b.roll = a.roll /\ b.wheel = a.wheel /\ e.roll = a.roll /\ e.wheel = a.wheel
  <2>1. b.roll = a.roll /\ b.wheel = a.wheel
    <3>1. Purchase(a, g, n).roll = a.roll /\ Purchase(a, g, n).wheel = a.wheel
      BY PurchaseFacts
    <3> HIDE DEF b
    <3> QED BY <1>1, <3>1
  <2>2. e.roll = a.roll /\ e.wheel = a.wheel
    BY DEF Expire, CopyOK, AccountFields
  <2> QED BY <2>1, <2>2
<1>6. Countable(e)
  BY <1>3 DEF Ledger
<1> HIDE DEF e, p
<1>7. /\ Countable(spent) /\ Held(spent)
      /\ \A i \in Items : i # row.cost => spent.bag[i] = e.bag[i]
      /\ \A c, v : Counting(c, v) =>
           spent.db[<<c, v>>] = e.db[<<c, v>>]
             + (IF row.cost = "cash" /\ c = "diamond" THEN p ELSE 0)
      /\ Diamonds(spent) + charge <= Diamonds(e)
  BY <1>2, <1>4, <1>6, SpendBooked DEF Countable
<1> HIDE DEF spent
<1>8. Worth[row.item].cur["cash"] = 0 /\ Worth[row.item].cur["paid"] = 0
  BY DEF CountersApart
<1>9. /\ Held(given) /\ given.db = spent.db /\ Diamonds(given) <= Diamonds(spent)
      /\ \A j \in Items : Worth[row.item].bag[j] = 0 /\ row.item # j
                            => given.bag[j] = spent.bag[j]
  <2> DEFINE m == row.per * n
  <2> HIDE DEF m
  <2>1. m \in Nat /\ m * 0 = 0 /\ given = GrantGoods(spent, row.item, m)
    BY <1>2 DEF m
  <2>2. Held(given)
    BY <1>2, <1>7, <2>1, RewardHeld
  <2>3. Diamonds(spent) \in Int /\ Diamonds(given) \in Int
    BY <1>7, <2>2, PurseAssumption DEF PurseAssumption, Held, PurseOK, Diamonds, Currencies
  <2>4. /\ given.db = spent.db
        /\ Diamonds(given) <= Diamonds(spent) + (m * Worth[row.item].cur["cash"]
                                                 + m * Worth[row.item].cur["paid"])
        /\ \A j \in Items : Worth[row.item].bag[j] = 0 /\ row.item # j
                              => given.bag[j] = spent.bag[j]
    BY <1>2, <1>7, <2>1, RewardGain
  <2> HIDE DEF given
  <2> QED BY <1>8, <2>1, <2>2, <2>3, <2>4
<1> HIDE DEF given
<1>10. /\ Countable(stamped) /\ stamped.db = given.db /\ stamped.cur = given.cur
       /\ stamped.bag = given.bag
  BY <1>7, <1>9 DEF Held, AccountFields, PurseOK, Diamonds, Countable
<1> HIDE DEF stamped
<1>11. /\ Countable(b) /\ b.cur = stamped.cur /\ b.bag = stamped.bag
       /\ \A c, v : Counting(c, v) =>
            b.db[<<c, v>>] = stamped.db[<<c, v>>]
              + (IF c = "buy" /\ (g = AnyValue \/ g = v) THEN n ELSE 0)
  BY <1>10, CountTally
<1> HIDE DEF b, row
<1>12. ASSUME NEW c, NEW v, Counting(c, v)
       PROVE  b.db[<<c, v>>] = e.db[<<c, v>>]
                + (IF row.cost = "cash" /\ c = "diamond" THEN p ELSE 0)
                + (IF c = "buy" /\ g = v THEN n ELSE 0)
  <2>1. e.db[<<c, v>>] \in Nat /\ g # AnyValue
    BY <1>6, <1>12, CountedKeys, KeyFacts, LedgerConsts
  <2> QED BY <1>2, <1>7, <1>9, <1>10, <1>11, <1>12, <2>1
<1>13. b.db[DiamondKey] = e.db[DiamondKey] + charge
  <2>1. Counting("diamond", 0) /\ e.db[DiamondKey] \in Nat
    BY <1>6, GoodsKeys DEF CountersApart
  <2> QED BY <1>2, <1>12, <2>1 DEF DiamondKey
<1>14. \A h \in DiamondGoods : b.db[GoodsKey(h)] = e.db[GoodsKey(h)] + (IF h = g THEN n ELSE 0)
  <2> SUFFICES ASSUME NEW h \in DiamondGoods
               PROVE  b.db[GoodsKey(h)] = e.db[GoodsKey(h)] + (IF h = g THEN n ELSE 0)
    OBVIOUS
  <2>1. Counting("buy", h) /\ e.db[GoodsKey(h)] \in Nat
    BY <1>6, GoodsKeys DEF CountersApart
  <2> QED BY <1>12, <2>1 DEF GoodsKey
<1>15. SpentOn(b) = SpentOn(e) + charge
  <2>0. SpentOn(e) \in Nat
    BY <1>6, SpentType
  <2>1. CASE row.cost = "cash"
    <3>1. g \in DiamondGoods
      BY <2>1 DEF DiamondGoods, row
    <3>2. SpentOn(b) = SpentOn(e) + GoodsRow[g].price * n
      BY <1>6, <1>11, <1>14, <3>1, SpentMore
    <3> QED BY <2>1, <3>2 DEF p, row
  <2>2. CASE row.cost # "cash"
    <3>1. g \notin DiamondGoods
      BY <2>2 DEF DiamondGoods, row
    <3>2. \A h \in DiamondGoods : b.db[GoodsKey(h)] = e.db[GoodsKey(h)]
      BY <1>6, <1>14, <3>1, GoodsKeys
    <3> QED BY <2>0, <2>2, <3>2, SpentSame
  <2> QED BY <2>1, <2>2
<1>16. /\ b.db[DiamondKey] = Charged(b, u)
       /\ Diamonds(b) + Charged(b, u) <= Funds + u.won
  <2>1. SpentOn(e) \in Nat /\ Diamonds(b) \in Nat /\ Diamonds(e) \in Nat /\ Funds \in Nat
        /\ Diamonds(spent) \in Nat
    BY <1>6, <1>7, <1>11, SpentType, KeyFacts, LedgerConsts
  <2>2. Diamonds(b) = Diamonds(given) /\ Diamonds(given) \in Nat
    BY <1>10, <1>11, <2>1 DEF Diamonds
  <2>3. e.db[DiamondKey] = SpentOn(e) + today.rolls
        /\ Diamonds(e) + (SpentOn(e) + today.rolls) <= Funds + today.won
    BY <1>3 DEF Ledger, Charged
  <2> QED BY <1>2, <1>7, <1>9, <1>13, <1>15, <2>1, <2>2, <2>3 DEF Charged
<1>18. b.roll # NoRoll => u.shown.cost = b.roll.cost /\ u.shown.price = b.roll.price
  BY <1>3, <1>5 DEF Ledger
<1> QED BY <1>1, <1>11, <1>16, <1>18 DEF Ledger

(* A roll is charged when it is kept, at the price it was shown at.        *)
LEMMA CommitBooked ==
  ASSUME NEW a, Countable(a), RestOK(a), a.roll # NoRoll, CanPay(a, a.roll.cost, a.roll.price)
  PROVE  LET b == Commit(a)
             r == a.roll
             charge == IF r.cost = "cash" THEN r.price ELSE 0
         IN /\ Countable(b) /\ b.kept = a.kept + 1 /\ b.roll = NoRoll /\ b.wheel = a.wheel
            /\ \A i \in Items : i # r.cost => b.bag[i] = a.bag[i]
            /\ \A c, v : Counting(c, v) /\ c # "gacha" =>
                 b.db[<<c, v>>] = a.db[<<c, v>>] + (IF c = "diamond" THEN charge ELSE 0)
            /\ Diamonds(b) + charge <= Diamonds(a)
<1> DEFINE r == a.roll
           charge == IF r.cost = "cash" THEN r.price ELSE 0
           spent == Spend(a, r.cost, r.price)
           given == IF r.box \in Mirrors THEN [spent EXCEPT !.gear = @ + r.n]
                                         ELSE [spent EXCEPT !.casts = @ + r.n]
           once == Count(given, "gacha", 0, r.n)
           counted == Count(once, "gacha", r.box, r.n)
           b == [counted EXCEPT !.kept = @ + 1, !.roll = NoRoll]
<1>1. Commit(a) = b
  BY DEF Commit
<1>2. r.n \in Nat /\ r.cost \in Currencies \cup Items /\ r.price \in Nat /\ charge \in Nat
  BY DEF RestOK, RollOK
<1>3. /\ Countable(spent) /\ Held(spent)
      /\ \A i \in Items : i # r.cost => spent.bag[i] = a.bag[i]
      /\ \A c, v : Counting(c, v) =>
           spent.db[<<c, v>>] = a.db[<<c, v>>]
             + (IF r.cost = "cash" /\ c = "diamond" THEN r.price ELSE 0)
      /\ Diamonds(spent) + charge <= Diamonds(a)
  BY <1>2, SpendBooked DEF Countable
<1>4. spent.kept = a.kept /\ spent.wheel = a.wheel
  BY <1>2, SpendHeld DEF Countable, SameBooks
<1> HIDE DEF spent
<1>5. /\ Countable(given) /\ given.db = spent.db /\ given.cur = spent.cur
      /\ given.bag = spent.bag /\ given.kept = spent.kept /\ given.wheel = spent.wheel
  BY <1>2, <1>3 DEF Held, AccountFields, PurseOK, Diamonds, Countable
<1> HIDE DEF given
<1>6. /\ Countable(once) /\ once.cur = given.cur /\ once.bag = given.bag
      /\ \A c, v : Counting(c, v) /\ c # "gacha" =>
           once.db[<<c, v>>] = given.db[<<c, v>>] + 0
      /\ once.kept = given.kept /\ once.wheel = given.wheel
  BY <1>2, <1>5, CountTally, CountHeld DEF Countable, SameBooks
<1> HIDE DEF once
<1>7. /\ Countable(counted) /\ counted.cur = once.cur /\ counted.bag = once.bag
      /\ \A c, v : Counting(c, v) /\ c # "gacha" =>
           counted.db[<<c, v>>] = once.db[<<c, v>>] + 0
      /\ counted.kept = once.kept /\ counted.wheel = once.wheel
  BY <1>2, <1>6, CountTally, CountHeld DEF Countable, SameBooks
<1> HIDE DEF counted
<1>8. /\ Countable(b) /\ b.db = counted.db /\ b.cur = counted.cur /\ b.bag = counted.bag
      /\ b.kept = counted.kept + 1 /\ b.roll = NoRoll /\ b.wheel = counted.wheel
  BY <1>7 DEF Held, AccountFields, PurseOK, Diamonds, Countable
<1> HIDE DEF b
<1>9. ASSUME NEW c, NEW v, Counting(c, v), c # "gacha"
      PROVE  b.db[<<c, v>>] = a.db[<<c, v>>] + (IF c = "diamond" THEN charge ELSE 0)
  <2>1. a.db[<<c, v>>] \in Nat
    BY <1>9, CountedKeys, KeyFacts
  <2>2. spent.db[<<c, v>>] = a.db[<<c, v>>]
          + (IF r.cost = "cash" /\ c = "diamond" THEN r.price ELSE 0)
    BY <1>3, <1>9
  <2>3. /\ given.db[<<c, v>>] = spent.db[<<c, v>>]
        /\ once.db[<<c, v>>] = given.db[<<c, v>>] + 0
        /\ counted.db[<<c, v>>] = once.db[<<c, v>>] + 0
        /\ b.db[<<c, v>>] = counted.db[<<c, v>>]
    BY <1>5, <1>6, <1>7, <1>8, <1>9
  <2> HIDE DEF r
  <2> QED BY <1>2, <2>1, <2>2, <2>3
<1>10. Diamonds(b) + charge <= Diamonds(a)
  <2>1. Diamonds(b) = Diamonds(spent)
    BY <1>5, <1>6, <1>7, <1>8 DEF Diamonds
  <2> QED BY <1>3, <2>1
<1>11. \A i \in Items : i # r.cost => b.bag[i] = a.bag[i]
  BY <1>3, <1>5, <1>6, <1>7, <1>8
<1>12. b.kept = a.kept + 1 /\ b.wheel = a.wheel
  BY <1>4, <1>5, <1>6, <1>7, <1>8
<1> QED BY <1>1, <1>8, <1>9, <1>10, <1>11, <1>12

LEMMA CommitLedger ==
  ASSUME CountersApart, NEW a, RestOK(a), NEW t, Ledger(a, t), t.rolls \in Nat, t.won \in Nat,
         NEW u, u.won = t.won, u.shown = t.shown,
         u.rolls = t.rolls + (IF Commit(a).kept > a.kept /\ t.shown.cost = "cash"
                                THEN t.shown.price ELSE 0)
  PROVE  Ledger(Commit(a), u)
<1> DEFINE b == Commit(a)
           r == a.roll
           charge == IF r.cost = "cash" THEN r.price ELSE 0
<1>1. Countable(a) /\ a.kept \in Nat
  BY DEF Ledger, RestOK
<1>2. CASE r = NoRoll \/ ~CanPay(a, r.cost, r.price)
  <2>1. b = a
    BY <1>2 DEF Commit
  <2>2. u.rolls = t.rolls
    BY <1>1, <2>1
  <2>3. Ledger(a, u)
    BY <2>2 DEF Ledger, Charged
  <2> QED BY <2>1, <2>3
<1>3. CASE r # NoRoll /\ CanPay(a, r.cost, r.price)
  <2>1. /\ Countable(b) /\ b.kept = a.kept + 1 /\ b.roll = NoRoll /\ b.wheel = a.wheel
        /\ \A i \in Items : i # r.cost => b.bag[i] = a.bag[i]
        /\ \A c, v : Counting(c, v) /\ c # "gacha" =>
             b.db[<<c, v>>] = a.db[<<c, v>>] + (IF c = "diamond" THEN charge ELSE 0)
        /\ Diamonds(b) + charge <= Diamonds(a)
    BY <1>1, <1>3, CommitBooked
  <2> HIDE DEF b
  <2>2. t.shown.cost = r.cost /\ t.shown.price = r.price /\ r.price \in Nat /\ charge \in Nat
    BY <1>3 DEF Ledger, RestOK, RollOK
  <2> HIDE DEF r
  <2>3. u.rolls = t.rolls + charge
    BY <1>1, <2>1, <2>2 DEF b
  <2> HIDE DEF charge
  <2>4. SpentOn(b) = SpentOn(a)
    <3>1. \A g \in DiamondGoods : b.db[GoodsKey(g)] = a.db[GoodsKey(g)]
      <4> SUFFICES ASSUME NEW g \in DiamondGoods PROVE b.db[GoodsKey(g)] = a.db[GoodsKey(g)]
        OBVIOUS
      <4>1. Counting("buy", g) /\ a.db[GoodsKey(g)] \in Nat
        BY <1>1, GoodsKeys DEF CountersApart
      <4>2. b.db[<<"buy", g>>] = a.db[<<"buy", g>>] + 0
        BY <2>1, <4>1
      <4> QED BY <4>1, <4>2 DEF GoodsKey
    <3> QED BY <3>1, SpentSame
  <2>5. b.db[DiamondKey] = a.db[DiamondKey] + charge /\ a.db[DiamondKey] \in Nat
    <3>1. Counting("diamond", 0) /\ a.db[DiamondKey] \in Nat
      BY <1>1, GoodsKeys DEF CountersApart
    <3> QED BY <2>1, <3>1 DEF DiamondKey
  <2>6. /\ b.db[DiamondKey] = Charged(b, u)
        /\ Diamonds(b) + Charged(b, u) <= Funds + u.won
    <3>1. SpentOn(a) \in Nat /\ Diamonds(a) \in Nat /\ Diamonds(b) \in Nat /\ Funds \in Nat
      BY <1>1, <2>1, SpentType, KeyFacts, LedgerConsts
    <3>2. /\ a.db[DiamondKey] = SpentOn(a) + t.rolls
          /\ Diamonds(a) + (SpentOn(a) + t.rolls) <= Funds + t.won
      BY DEF Ledger, Charged
    <3> QED BY <2>1, <2>2, <2>3, <2>4, <2>5, <3>1, <3>2 DEF Charged
  <2> QED BY <2>1, <2>6 DEF Ledger, b
<1> QED BY <1>2, <1>3

(* A draw holds a roll at the price it shows.                              *)
LEMMA DrawnLedger ==
  ASSUME NEW a, Held(a), RestOK(a), now \in Nat, NEW t, Ledger(a, t),
         NEW box \in Banners, NEW i \in DOMAIN Options[box],
         NEW u, u.rolls = t.rolls, u.won = t.won,
         u.shown = [cost |-> Options[box][i].cost, price |-> PriceOf(a, box, i)]
  PROVE  Ledger(Drawn(a, box, i), u) /\ Drawn(a, box, i).kept = a.kept
<1> DEFINE o == Options[box][i]
           b == Drawn(a, box, i)
<1>1. /\ b.wheel = a.wheel /\ b.kept = a.kept /\ b.cur = a.cur /\ b.bag = a.bag /\ b.db = a.db
      /\ b.roll = [box |-> box, n |-> RollSize(a, box, o.n), cost |-> o.cost,
                   price |-> PriceOf(a, box, i)]
  BY DEF Drawn, Held, AccountFields
<1>2. Held(b)
  BY DrawnFacts
<1> HIDE DEF b
<1>3. b.roll.cost = u.shown.cost /\ b.roll.price = u.shown.price /\ b.roll.cost = o.cost
  BY <1>1
<1>4. SpentOn(b) = SpentOn(a) /\ Diamonds(b) = Diamonds(a)
  BY <1>1, SpentSame DEF Diamonds
<1> QED BY <1>1, <1>2, <1>3, <1>4 DEF Ledger, Charged, Countable, b

(* A spin moves the round, and the bonus closes it.                        *)
LEMMA SpunLedger ==
  ASSUME CountersApart, NEW a, RestOK(a), NEW t, Ledger(a, t), t.rolls \in Nat, t.won \in Nat,
         NEW w \in Wheels, NEW slot \in Slots, a.wheel[w].day < DrawMax,
         CanPay(a, WheelCost[w].what, WheelCost[w].n),
         NEW u, u.rolls = t.rolls, u.shown = t.shown,
         u.won = t.won + slot.n * Worth[slot.item].cur["cash"]
  PROVE  Ledger(Spun(a, w, slot), u)
<1> DEFINE gain == slot.n * Worth[slot.item].cur["cash"]
           spent == Spend(a, WheelCost[w].what, WheelCost[w].n)
           given == GrantReward(spent, slot.item, slot.n)
           won == Count(given, "roulette", AnyValue, 1)
           full == a.wheel[w].sum + 1 >= DrawMax
           extra == IF full THEN GrantReward(won, Bonus.item, Bonus.n) ELSE won
           b == Spun(a, w, slot)
<1>1. Countable(a)
  BY DEF Ledger
<1>2. /\ Worth[slot.item].cur["cash"] \in Nat /\ Worth[slot.item].cur["paid"] = 0
      /\ gain \in Nat /\ slot.n * 0 = 0
  <2>1. Worth[slot.item] \in Payouts /\ Worth[slot.item].cur["paid"] = 0 /\ slot.n \in Nat
    BY WheelFacts, PurseAssumption DEF PurseAssumption, CountersApart
  <2>2. Worth[slot.item].cur["cash"] \in Nat
    BY <2>1 DEF Payouts, Currencies
  <2> QED BY <2>1, <2>2, ProductType
<1>3. /\ Countable(spent) /\ Held(spent)
      /\ \A i \in Items : i # WheelCost[w].what => spent.bag[i] = a.bag[i]
      /\ \A c, v : Counting(c, v) => spent.db[<<c, v>>] = a.db[<<c, v>>] + 0
      /\ Diamonds(spent) + 0 <= Diamonds(a)
  <2>1. WheelCost[w].what # "cash"
    BY DEF CountersApart
  <2> QED BY <1>1, <2>1, WheelFacts, SpendBooked DEF Countable
<1>4. spent.roll = a.roll /\ spent.wheel = a.wheel
  BY <1>1, WheelFacts, SpendHeld DEF Countable, SameBooks
<1> HIDE DEF spent
<1>5. /\ Held(given) /\ given.db = spent.db /\ Diamonds(given) <= Diamonds(spent) + gain
      /\ \A j \in Items : Worth[slot.item].bag[j] = 0 /\ slot.item # j
                            => given.bag[j] = spent.bag[j]
      /\ given.roll = spent.roll /\ given.wheel = spent.wheel
  <2>1. Held(given) /\ given.roll = spent.roll /\ given.wheel = spent.wheel
    BY <1>3, WheelFacts, RewardHeld DEF SameBooks
  <2>2. Diamonds(spent) \in Int /\ Diamonds(given) \in Int
    BY <1>3, <2>1, PurseAssumption DEF PurseAssumption, Held, PurseOK, Diamonds, Currencies
  <2>3. slot.item \in Items /\ slot.n \in Nat
    BY WheelFacts
  <2>4. /\ given.db = spent.db
        /\ Diamonds(given) <= Diamonds(spent)
             + (slot.n * Worth[slot.item].cur["cash"] + slot.n * Worth[slot.item].cur["paid"])
        /\ \A j \in Items : Worth[slot.item].bag[j] = 0 /\ slot.item # j
                              => given.bag[j] = spent.bag[j]
    BY <1>3, <2>3, RewardGain
  <2> HIDE DEF given
  <2>5. slot.n * Worth[slot.item].cur["paid"] = 0
    BY <1>2
  <2> QED BY <1>2, <2>1, <2>2, <2>4, <2>5
<1> HIDE DEF given
<1>6. Countable(given)
  BY <1>3, <1>5 DEF Countable
<1>7. /\ Countable(won) /\ Held(won) /\ won.cur = given.cur /\ won.bag = given.bag
      /\ \A c, v : Counting(c, v) =>
           won.db[<<c, v>>] = given.db[<<c, v>>] + (IF c = "roulette" THEN 1 ELSE 0)
      /\ won.roll = given.roll /\ won.wheel = given.wheel
  <2>1. 1 \in Nat
    OBVIOUS
  <2> QED BY <1>6, <2>1, CountTally, CountHeld DEF Countable, SameBooks
<1> HIDE DEF won, full
<1>8. /\ Held(extra) /\ extra.db = won.db /\ Diamonds(extra) <= Diamonds(won)
      /\ extra.roll = won.roll /\ extra.wheel = won.wheel
  <2>1. Diamonds(won) \in Int
    BY <1>7, PurseAssumption DEF PurseAssumption, Held, PurseOK, Diamonds, Currencies
  <2>2. CASE ~full
    BY <1>7, <2>1, <2>2
  <2>3. CASE full
    <3> DEFINE e == GrantReward(won, Bonus.item, Bonus.n)
    <3>1. Held(e) /\ e.roll = won.roll /\ e.wheel = won.wheel
      BY <1>7, WheelFacts, RewardHeld DEF SameBooks
    <3>2. /\ Worth[Bonus.item].cur["cash"] = 0 /\ Worth[Bonus.item].cur["paid"] = 0
          /\ Bonus.n * 0 = 0
      BY WheelFacts DEF CountersApart
    <3>3. Bonus.item \in Items /\ Bonus.n \in Nat
      BY WheelFacts
    <3>4. /\ e.db = won.db
          /\ Diamonds(e) <= Diamonds(won) + (Bonus.n * Worth[Bonus.item].cur["cash"]
                                             + Bonus.n * Worth[Bonus.item].cur["paid"])
      BY <1>7, <3>3, RewardGain
    <3> HIDE DEF e
    <3>5. Diamonds(e) \in Int
      BY <3>1, PurseAssumption DEF PurseAssumption, Held, PurseOK, Diamonds, Currencies
    <3>6. Diamonds(e) <= Diamonds(won)
      BY <2>1, <3>2, <3>4, <3>5
    <3>7. extra = e
      BY <2>3 DEF e
    <3> HIDE DEF extra
    <3> QED BY <2>3, <3>1, <3>2, <3>4, <3>6, <3>7
  <2> QED BY <2>2, <2>3
<1>9. b = [extra EXCEPT !.wheel[w] = [day |-> @.day + 1, sum |-> IF full THEN 0 ELSE @.sum + 1]]
  BY DEF Spun, extra, won, given, spent, full
<1> HIDE DEF extra, b
<1>10. /\ b.db = extra.db /\ b.cur = extra.cur /\ b.bag = extra.bag /\ b.roll = extra.roll
       /\ b.wheel[w].sum = (IF full THEN 0 ELSE a.wheel[w].sum + 1)
       /\ \A v \in Wheels : v # w => b.wheel[v].sum = a.wheel[v].sum
  <2>1. /\ extra.wheel = a.wheel /\ DOMAIN extra = AccountFields /\ DOMAIN a.wheel = Wheels
        /\ w \in DOMAIN extra.wheel
    BY <1>4, <1>5, <1>7, <1>8 DEF Held, RestOK
  <2> QED BY <1>9, <2>1 DEF AccountFields
<1>11. Held(b) /\ RestOK(b)
  BY <1>1, SpunFacts DEF b, Countable
<1>12. Countable(b)
  BY <1>7, <1>8, <1>10, <1>11 DEF Countable
<1>13. ASSUME NEW c, NEW v, Counting(c, v)
       PROVE  b.db[<<c, v>>] = a.db[<<c, v>>] + (IF c = "roulette" THEN 1 ELSE 0)
              /\ a.db[<<c, v>>] \in Nat
  <2>1. a.db[<<c, v>>] \in Nat
    BY <1>1, <1>13, CountedKeys, KeyFacts
  <2> QED BY <1>3, <1>5, <1>7, <1>8, <1>10, <1>13, <2>1
<1>14. SpentOn(b) = SpentOn(a)
  <2>1. \A g \in DiamondGoods : b.db[GoodsKey(g)] = a.db[GoodsKey(g)]
    BY <1>13 DEF CountersApart, GoodsKey
  <2> QED BY <2>1, SpentSame
<1>15. b.db[DiamondKey] = a.db[DiamondKey]
  BY <1>13 DEF CountersApart, DiamondKey
<1>16. /\ b.db[DiamondKey] = Charged(b, u)
       /\ Diamonds(b) + Charged(b, u) <= Funds + u.won
  <2>1. /\ SpentOn(a) \in Nat /\ Diamonds(a) \in Nat /\ Diamonds(b) \in Nat /\ Funds \in Nat
        /\ Diamonds(spent) \in Nat /\ Diamonds(given) \in Nat /\ Diamonds(won) \in Nat
    BY <1>1, <1>3, <1>6, <1>7, <1>12, SpentType, KeyFacts, LedgerConsts
  <2>2. Diamonds(b) = Diamonds(extra) /\ Diamonds(won) = Diamonds(given)
    BY <1>7, <1>10 DEF Diamonds
  <2>3. Diamonds(b) <= Diamonds(a) + gain
    BY <1>2, <1>3, <1>5, <1>8, <2>1, <2>2
  <2>4. /\ a.db[DiamondKey] = SpentOn(a) + t.rolls
        /\ Diamonds(a) + (SpentOn(a) + t.rolls) <= Funds + t.won
    BY DEF Ledger, Charged
  <2> HIDE DEF gain
  <2>5. u.won = t.won + gain
    BY DEF gain
  <2> QED BY <1>2, <1>14, <1>15, <2>1, <2>3, <2>4, <2>5 DEF Charged
<1>18. b.roll # NoRoll => u.shown.cost = b.roll.cost /\ u.shown.price = b.roll.price
  BY <1>4, <1>5, <1>7, <1>8, <1>10 DEF Ledger
<1> QED BY <1>12, <1>16, <1>18 DEF Ledger, b

(* The ledger as it is when both copies are those of after the step.       *)
LEMMA LedgerSuffices ==
  ASSUME MarketInv', NEW a, NEW b, NEW u, mem' = a, disk' = b, today' = u,
         u.rolls \in Nat, u.won \in Nat, u.shown.price \in Nat, Ledger(a, u), Ledger(b, u)
  PROVE  LedgerInv'
<1>1. Ledger(mem, today)' /\ Ledger(disk, today)'
  BY DEF Ledger, Charged, SpentOn, Countable, Held, PurseOK, Diamonds
<1> QED BY <1>1 DEF LedgerInv

(* A step that charges nothing to anyone.                                  *)
LEMMA LedgerQuiet ==
  ASSUME LedgerInv, MarketInv', NEW a, NEW b, mem' = a, disk' = b,
         today'.rolls = today.rolls, today'.won = today.won, today'.shown = today.shown,
         Ledger(a, today), Ledger(b, today)
  PROVE  LedgerInv'
<1> DEFINE u == today'
<1>1. u.rolls = today.rolls /\ u.won = today.won /\ u.shown = today.shown
  OBVIOUS
<1> HIDE DEF u
<1>2. Ledger(a, u) /\ Ledger(b, u)
  BY <1>1 DEF Ledger, Charged
<1>3. u.rolls \in Nat /\ u.won \in Nat /\ u.shown.price \in Nat /\ today' = u
  BY <1>1 DEF LedgerInv, u
<1> QED BY <1>2, <1>3, LedgerSuffices

(* What a kept roll costs, and the rest of the day's books.                *)
LEMMA KeptBooks ==
  ASSUME NEW t, DOMAIN t = DayFields
  PROVE  /\ Kept(t).won = t.won /\ Kept(t).shown = t.shown
         /\ Kept(t).rolls = IF mem'.kept > mem.kept /\ t.shown.cost = "cash"
                              THEN t.rolls + t.shown.price ELSE t.rolls
BY DEF Kept, DayFields

LEMMA BuyLedger ==
  ASSUME CountersApart, LedgerInv, NEW g \in Goods, NEW n \in Amounts, Buy(g, n)
  PROVE  LedgerInv'
<1>1. MarketInv' /\ MarketInv /\ now \in Nat /\ DayOK /\ CopyOK(mem) /\ n \in Nat
  BY BuyKeeps, MarketAssumption DEF MarketAssumption, LedgerInv, MarketInv
<1>2. /\ today.rolls \in Nat /\ today.won \in Nat /\ today.shown.price \in Nat
      /\ Ledger(mem, today) /\ Ledger(disk, today)
  BY DEF LedgerInv
<1>3. CASE Refused(mem, g, n)
  <2>1. /\ today' = today /\ disk' = disk
        /\ mem' = IF GoodsRow[g].once > 0 /\ n > GoodsRow[g].once THEN mem ELSE Expire(mem)
    BY <1>3 DEF Buy
  <2>2. Ledger(Expire(mem), today)
    BY <1>1, <1>2, LookLedger
  <2> QED BY <1>1, <1>2, <2>1, <2>2, LedgerQuiet
<1>4. CASE ~Refused(mem, g, n)
  <2> DEFINE b == Purchase(mem, g, n)
             u == [today EXCEPT !.goods[g] = [window |-> Window(g), n |-> TakenNow(g) + n]]
  <2>1. mem' = b /\ disk' = b /\ today' = u
    BY <1>4 DEF Buy
  <2>2. u.rolls = today.rolls /\ u.won = today.won /\ u.shown = today.shown
    BY <1>1 DEF DayOK, DayFields
  <2> HIDE DEF u
  <2>3. Ledger(b, u)
    BY <1>1, <1>2, <1>4, <2>2, PurchaseLedger
  <2> HIDE DEF b
  <2> QED BY <1>1, <1>2, <2>1, <2>2, <2>3, LedgerSuffices
<1> QED BY <1>3, <1>4

LEMMA BrowseLedger == LedgerInv /\ Browse => LedgerInv'
<1> SUFFICES ASSUME LedgerInv, Browse PROVE LedgerInv'
  OBVIOUS
<1>1. MarketInv' /\ MarketInv /\ now \in Nat /\ DayOK /\ CopyOK(mem)
  BY BrowseKeeps, MarketAssumption DEF MarketAssumption, LedgerInv, MarketInv
<1>2. Ledger(Expire(mem), today) /\ Ledger(disk, today)
  BY <1>1, LookLedger DEF LedgerInv
<1> QED BY <1>1, <1>2, LedgerQuiet DEF Browse

LEMMA CollectLedger == CountersApart /\ LedgerInv /\ Collect => LedgerInv'
<1> SUFFICES ASSUME CountersApart, LedgerInv, Collect PROVE LedgerInv'
  OBVIOUS
<1> DEFINE b == Commit(mem)
           u == Kept(today)
<1>1. /\ MarketInv' /\ MarketInv /\ DayOK /\ RestOK(mem)
      /\ today.rolls \in Nat /\ today.won \in Nat /\ today.shown.price \in Nat
      /\ Ledger(mem, today)
  BY CollectKeeps, CopyParts DEF LedgerInv, MarketInv
<1>2. mem' = b /\ disk' = b /\ today' = u
  BY DEF Collect
<1>3. /\ u.won = today.won /\ u.shown = today.shown
      /\ u.rolls = IF mem'.kept > mem.kept /\ today.shown.cost = "cash"
                     THEN today.rolls + today.shown.price ELSE today.rolls
  BY <1>1, KeptBooks DEF DayOK
<1> HIDE DEF u
<1>4. u.rolls = today.rolls + (IF b.kept > mem.kept /\ today.shown.cost = "cash"
                                 THEN today.shown.price ELSE 0)
  BY <1>1, <1>2, <1>3
<1>5. Ledger(b, u)
  BY <1>1, <1>3, <1>4, CommitLedger
<1>6. u.rolls \in Nat /\ u.won \in Nat /\ u.shown.price \in Nat
  BY <1>1, <1>3
<1> HIDE DEF b
<1> QED BY <1>1, <1>2, <1>5, <1>6, LedgerSuffices

LEMMA DrawLedger ==
  ASSUME CountersApart, LedgerInv, NEW box \in Banners, NEW i \in DOMAIN Options[box],
         Draw(box, i)
  PROVE  LedgerInv'
<1> DEFINE p == PriceOf(mem, box, i)
           d == Drawn(mem, box, i)
           shown == [cost |-> Options[box][i].cost, price |-> p]
           t == [today EXCEPT !.free = @ + (IF p = 0 THEN 1 ELSE 0), !.shown = shown]
           u == Kept(t)
<1>1. /\ MarketInv' /\ MarketInv /\ DayOK /\ now \in Nat /\ Held(mem) /\ RestOK(mem)
      /\ today.rolls \in Nat /\ today.won \in Nat /\ Ledger(mem, today)
  BY DrawKeeps, CopyParts, MarketAssumption DEF MarketAssumption, LedgerInv, MarketInv
<1>2. /\ mem' = IF box = Debut THEN d ELSE Commit(d)
      /\ disk' = mem' /\ today' = u
  BY DEF Draw
<1>3. p \in Nat
  <2>1. Options[box][i] \in DrawOptions
    BY ElementOfSeq, MarketAssumption DEF MarketAssumption
  <2> QED BY <2>1 DEF PriceOf, DrawOptions
<1>4. shown.cost = Options[box][i].cost /\ shown.price = p
  OBVIOUS
<1>5. /\ DOMAIN t = DayFields /\ t.rolls = today.rolls /\ t.won = today.won /\ t.shown = shown
  <2> HIDE DEF shown, p
  <2> QED BY <1>1 DEF DayOK, DayFields
<1>6. Ledger(d, t) /\ d.kept = mem.kept
  <2> HIDE DEF t, d
  <2> QED BY <1>1, <1>5, DrawnLedger DEF d
<1>7. Held(d) /\ RestOK(d)
  BY <1>1, DrawnFacts
<1> HIDE DEF t, shown, p, d
<1>8. /\ u.won = t.won /\ u.shown = t.shown
      /\ u.rolls = IF mem'.kept > mem.kept /\ t.shown.cost = "cash"
                     THEN t.rolls + t.shown.price ELSE t.rolls
  BY <1>5, KeptBooks
<1> HIDE DEF u
<1>9. u.rolls \in Nat /\ u.won \in Nat /\ u.shown.price \in Nat
  BY <1>1, <1>3, <1>4, <1>5, <1>8
<1>10. CASE box = Debut
  <2>1. mem' = d
    BY <1>2, <1>10
  <2>2. u.rolls = t.rolls
    BY <1>1, <1>6, <1>8, <2>1 DEF RestOK
  <2>3. Ledger(d, u)
    BY <1>6, <1>8, <2>2 DEF Ledger, Charged
  <2> QED BY <1>1, <1>2, <1>9, <2>1, <2>3, LedgerSuffices
<1>11. CASE box # Debut
  <2> DEFINE b == Commit(d)
  <2>1. mem' = b
    BY <1>2, <1>11
  <2>2. u.rolls = t.rolls + (IF b.kept > d.kept /\ t.shown.cost = "cash"
                               THEN t.shown.price ELSE 0)
    BY <1>1, <1>5, <1>6, <1>8, <2>1
  <2>3. t.rolls \in Nat /\ t.won \in Nat
    BY <1>1, <1>5
  <2>4. Ledger(b, u)
    BY <1>6, <1>7, <1>8, <2>2, <2>3, CommitLedger
  <2> HIDE DEF b
  <2> QED BY <1>1, <1>2, <1>9, <2>1, <2>4, LedgerSuffices
<1> QED BY <1>10, <1>11

LEMMA SpinLedger ==
  ASSUME CountersApart, LedgerInv, NEW w \in Wheels, NEW slot \in Slots, Spin(w, slot)
  PROVE  LedgerInv'
<1> DEFINE a == NewWheelDay(mem)
           b == Spun(a, w, slot)
           refused == \/ a.wheel[w].day >= DrawMax
                      \/ ~CanPay(a, WheelCost[w].what, WheelCost[w].n)
           gain == slot.n * Worth[slot.item].cur["cash"]
           u == [today EXCEPT !.spins[w] = @ + 1, !.won = @ + gain]
<1>1. /\ MarketInv' /\ MarketInv /\ DayOK /\ now \in Nat /\ CopyOK(mem)
      /\ today.rolls \in Nat /\ today.won \in Nat /\ today.shown.price \in Nat
      /\ Ledger(mem, today) /\ Ledger(disk, today)
  BY SpinKeeps, MarketAssumption DEF MarketAssumption, LedgerInv, MarketInv
<1>2. Ledger(a, today) /\ CopyOK(a) /\ RestOK(a)
  BY <1>1, LookLedger, WheelDayFacts, CopyParts
<1>3. IF refused THEN mem' = a /\ disk' = disk /\ today' = today
                 ELSE mem' = b /\ disk' = mem' /\ today' = u
  BY DEF Spin
<1> HIDE DEF a
<1>4. CASE refused
  BY <1>1, <1>2, <1>3, <1>4, LedgerQuiet
<1>5. CASE ~refused
  <2>1. a.wheel[w].day < DrawMax /\ CanPay(a, WheelCost[w].what, WheelCost[w].n)
    BY <1>2, <1>5, WheelFacts DEF RestOK
  <2>2. u.rolls = today.rolls /\ u.shown = today.shown /\ u.won = today.won + gain
    <3> HIDE DEF gain
    <3> QED BY <1>1 DEF DayOK, DayFields
  <2>3. gain \in Nat
    <3>1. Worth[slot.item] \in Payouts /\ slot.n \in Nat
      BY WheelFacts, PurseAssumption DEF PurseAssumption
    <3>2. Worth[slot.item].cur["cash"] \in Nat
      BY <3>1 DEF Payouts, Currencies
    <3> QED BY <3>1, <3>2, ProductType
  <2>4. mem' = b /\ disk' = b /\ today' = u
    BY <1>3, <1>5
  <2> HIDE DEF u
  <2>5. Ledger(b, u)
    BY <1>1, <1>2, <2>1, <2>2, SpunLedger
  <2> HIDE DEF b, gain
  <2>6. u.rolls \in Nat /\ u.won \in Nat /\ u.shown.price \in Nat
    BY <1>1, <2>2, <2>3
  <2> QED BY <1>1, <2>4, <2>5, <2>6, LedgerSuffices
<1> QED BY <1>4, <1>5

LEMMA ReloginLedger == LedgerInv /\ Relogin => LedgerInv'
<1> SUFFICES ASSUME LedgerInv, Relogin PROVE LedgerInv'
  OBVIOUS
<1> DEFINE a == NewWheelDay(disk)
<1>1. MarketInv' /\ MarketInv /\ now \in Nat /\ DayOK /\ CopyOK(disk) /\ Ledger(disk, today)
  BY ReloginKeeps, MarketAssumption DEF MarketAssumption, LedgerInv, MarketInv
<1>2. Ledger(a, today)
  BY <1>1, LookLedger
<1>3. mem' = a /\ (disk' = a \/ disk' = disk) /\ today' = today
  BY DEF Relogin
<1> HIDE DEF a
<1> QED BY <1>1, <1>2, <1>3, LedgerQuiet

LEMMA TickLedger == LedgerInv /\ Tick => LedgerInv'
<1> SUFFICES ASSUME LedgerInv, Tick PROVE LedgerInv'
  OBVIOUS
<1>1. MarketInv' /\ DayOK /\ Ledger(mem, today) /\ Ledger(disk, today)
  BY TickKeeps DEF LedgerInv, MarketInv
<1>2. /\ mem' = mem /\ disk' = disk
      /\ today' = [today EXCEPT !.free = 0, !.spins = [w \in Wheels |-> 0]]
  BY DEF Tick
<1>3. today'.rolls = today.rolls /\ today'.won = today.won /\ today'.shown = today.shown
  BY <1>1, <1>2 DEF DayOK, DayFields
<1> QED BY <1>1, <1>2, <1>3, LedgerQuiet

LEMMA LedgerInit == CountersApart /\ Init => LedgerInv
<1> SUFFICES ASSUME CountersApart, Init PROVE LedgerInv
  OBVIOUS
<1> DEFINE a == NewAccount
<1>1. MarketInv /\ mem = a /\ disk = a /\ CopyOK(a)
  BY MarketInit DEF Init, MarketInv
<1>2. /\ today.shown = [cost |-> "cash", price |-> 0] /\ today.rolls = 0 /\ today.won = 0
  BY DEF Init
<1>3. /\ a.cur = Start.cur /\ a.bag = Start.bag /\ a.roll = NoRoll
      /\ a.db = [k \in Keys |-> 0] /\ a.wheel = [w \in Wheels |-> [day |-> 0, sum |-> 0]]
  BY DEF NewAccount, FreshPurse, Keys
<1> HIDE DEF a
<1>4. Countable(a)
  BY <1>1, <1>3, CopyIsHeld DEF Countable
<1>5. SpentOn(a) = 0
  <2> DEFINE f == [g \in DiamondGoods |-> GoodsRow[g].price * a.db[<<"buy", g>>]]
  <2>1. ASSUME NEW g \in DiamondGoods PROVE f[g] = 0
    <3>1. GoodsKey(g) \in Keys
      BY CountedKeys DEF CountersApart, GoodsKey
    <3>2. a.db[<<"buy", g>>] = 0 /\ GoodsRow[g].price \in Nat
      BY <1>3, <3>1, RowFacts, LedgerConsts DEF GoodsKey
    <3> QED BY <3>2
  <2>2. DOMAIN f = DiamondGoods /\ SpentOn(a) = SumFunctionOnSet(f, DOMAIN f)
    BY DEF SpentOn, SumFunction
  <2> HIDE DEF f
  <2> QED BY <2>1, <2>2, LedgerConsts, SumNought
<1>7. a.db[DiamondKey] = 0 /\ Diamonds(a) = Funds
  <2>1. DiamondKey \in Keys
    BY CountedKeys DEF CountersApart, DiamondKey
  <2> QED BY <1>3, <2>1 DEF Diamonds, Funds
<1>9. Ledger(a, today)
  BY <1>2, <1>3, <1>4, <1>5, <1>7, LedgerConsts DEF Ledger, Charged
<1> QED BY <1>1, <1>2, <1>9 DEF LedgerInv

LEMMA LedgerNext == CountersApart /\ LedgerInv /\ [Next]_vars => LedgerInv'
<1> SUFFICES ASSUME CountersApart, LedgerInv, [Next]_vars PROVE LedgerInv'
  OBVIOUS
<1>1. ASSUME NEW g \in Goods, NEW n \in Amounts, Buy(g, n) PROVE LedgerInv'
  BY <1>1, BuyLedger
<1>2. CASE Browse
  BY <1>2, BrowseLedger
<1>3. ASSUME NEW box \in Banners, NEW i \in DOMAIN Options[box], Draw(box, i) PROVE LedgerInv'
  BY <1>3, DrawLedger
<1>4. CASE Collect
  BY <1>4, CollectLedger
<1>5. ASSUME NEW w \in Wheels, NEW slot \in Slots, Spin(w, slot) PROVE LedgerInv'
  BY <1>5, SpinLedger
<1>6. CASE Relogin
  BY <1>6, ReloginLedger
<1>7. CASE Tick
  BY <1>7, TickLedger
<1>8. CASE UNCHANGED vars
  <2>1. mem' = mem /\ disk' = disk /\ today' = today /\ MarketInv'
    BY <1>8, MarketNext DEF vars, LedgerInv
  <2> QED BY <2>1, LedgerQuiet DEF LedgerInv
<1> QED BY <1>1, <1>2, <1>3, <1>4, <1>5, <1>6, <1>7, <1>8 DEF Next

LEMMA LedgerGives == LedgerInv => DiamondsBalance
BY DEF LedgerInv, Ledger, Charged, DiamondsBalance, Owed, DiamondKey, Funds

(* For any goods, banners, wheels, prices and prizes of which the missions *)
(* tell the diamonds: the counter of the diamond mission is what the goods *)
(* bought and the rolls kept came to, a roll at the price it was shown at, *)
(* and the balance never is more than the rest (spend_diamonds,            *)
(* buy_shop_goods, gacha_commit).                                          *)
THEOREM DiamondsSafe == ASSUME CountersApart PROVE Spec => []DiamondsBalance
<1>1. Init => LedgerInv
  BY LedgerInit
<1>2. LedgerInv /\ [Next]_vars => LedgerInv'
  BY LedgerNext
<1>3. LedgerInv => DiamondsBalance
  BY LedgerGives
<1> QED BY <1>1, <1>2, <1>3, PTL DEF Spec

-----------------------------------------------------------------------------
(* Taps.                                                                   *)

Requests == [kind : {"answer"}, row : Situations, n : Answers]
            \cup [kind : {"support"}, row : Girls \X Supports, n : Nat]
Levels == [Girls -> [Supports -> Nat]]

TapShape ==
  /\ DOMAIN bonds = {"karma", "cast", "rank", "bag", "set", "lv", "chosen", "difficulty"}
  /\ bonds.chosen \in [Situations -> [Difficulties -> Answers \cup {Undecided}]]
  /\ bonds.difficulty \in Difficulties /\ bonds.lv \in Levels
  /\ DOMAIN screen = {"sheet", "worn", "rank", "set", "lv", "scene"} /\ screen.lv \in Levels
  /\ sent \in Seq(Requests)
  /\ paid \in [Situations -> [Difficulties \X Answers -> Nat]]
  /\ IsFiniteSet(taps) /\ taps \subseteq Girls \X Supports \X Nat

(* What was paid is what was chosen.                                       *)
PaidAsChosen ==
  \A s \in Situations, d \in Difficulties, o \in Answers :
    paid[s][<<d, o>>] = IF bonds.chosen[s][d] = o THEN 1 ELSE 0
(* No answer was chosen twice.                                             *)
ChosenApart ==
  \A s \in Situations, d, e \in Difficulties :
    d # e /\ bonds.chosen[s][d] = bonds.chosen[s][e] => bonds.chosen[s][d] = Undecided

(* A scene on the screen is as the account has it; an answer on its way to *)
(* an undecided scene has not been given on another difficulty.            *)
ScenesAreNow ==
  /\ screen.scene # NoScene => \E s \in Situations : screen.scene = SyncTags(s)
  /\ \A i \in DOMAIN sent :
       sent[i].kind = "answer" /\ FirstTime(sent[i].row) => sent[i].n \notin Taken(sent[i].row)

(* A support has risen from every level below its own by a tap.            *)
RisenByTaps ==
  /\ \A g \in Girls, r \in Supports : \A n \in Nat : n < bonds.lv[g][r] => <<g, r, n>> \in taps
  /\ \A i \in DOMAIN sent :
       sent[i].kind = "support" => <<sent[i].row[1], sent[i].row[2], sent[i].n>> \in taps

TapInv == TapShape /\ PaidAsChosen /\ ChosenApart /\ ScenesAreNow /\ RisenByTaps

LEMMA BondConsts ==
  /\ IsFiniteSet(Answers) /\ Answers = 0..(Cardinality(Answers) - 1) /\ Cardinality(Answers) <= 4
  /\ 1 \in Difficulties /\ IsFiniteSet(Difficulties)
  /\ Cardinality(Answers) >= Cardinality(Difficulties)
BY BondAssumption, Zenon DEF BondAssumption

LEMMA UndecidedIsNone == Undecided \notin Answers /\ Answers \subseteq Digits /\ IsFiniteSet(Answers)
<1>1. \E n \in Nat : Answers = 0..(n - 1) /\ n <= 4
  BY FS_CardinalityType, BondConsts
<1> QED BY <1>1, BondConsts DEF Undecided, Digits

(* The answers of the other difficulties leave one to give.                *)
LEMMA OneIsLeft ==
  ASSUME NEW s \in Situations, TapShape
  PROVE  Answers \ Taken(s) # {}
<1> DEFINE others == Difficulties \ {bonds.difficulty}
           given == [d \in others |-> bonds.chosen[s][d]]
<1>1. /\ IsFiniteSet(others) /\ Cardinality(others) = Cardinality(Difficulties) - 1
  BY FS_RemoveElement, BondConsts DEF TapShape
<1>2. given \in Surjection(others, Taken(s))
  BY DEF Taken, Surjection
<1>3. IsFiniteSet(Taken(s)) /\ Cardinality(Taken(s)) <= Cardinality(others)
  BY <1>1, <1>2, FS_Surjection
<1>4. Cardinality(Taken(s)) < Cardinality(Answers)
  <2>1. /\ Cardinality(Taken(s)) \in Nat /\ Cardinality(others) \in Nat
        /\ Cardinality(Answers) \in Nat /\ Cardinality(Difficulties) \in Nat
    BY <1>1, <1>3, FS_CardinalityType, BondConsts
  <2> QED BY <2>1, <1>1, <1>3, BondConsts
<1>5. ASSUME Answers \subseteq Taken(s) PROVE FALSE
  <2>1. Cardinality(Answers) <= Cardinality(Taken(s))
    BY <1>3, <1>5, FS_Subset
  <2>2. Cardinality(Taken(s)) \in Nat /\ Cardinality(Answers) \in Nat
    BY <1>3, FS_CardinalityType, BondConsts
  <2> QED BY <2>1, <2>2, <1>4
<1> QED BY <1>5

(* What the client makes of the tags of a scene.                           *)
LEMMA TagFacts ==
  ASSUME NEW s \in Situations, TapShape
  PROVE  /\ SyncTags(s).at = s
         /\ Replays(SyncTags(s)) <=> ~FirstTime(s)
         /\ FirstTime(s) => Open(SyncTags(s)) = Answers \ Taken(s)
         /\ Open(SyncTags(s)) \cap Answers # {}
<1> USE UndecidedIsNone
<1>1. bonds.chosen[s][bonds.difficulty] \in Answers \cup {Undecided}
  BY DEF TapShape
<1>2. CASE ~FirstTime(s)
  <2>1. SyncTags(s) = [at |-> s, pos |-> bonds.chosen[s][bonds.difficulty],
                       mask |-> [p \in Digits |-> p + 1]]
    BY <1>2 DEF SyncTags, FirstTime
  <2>2. bonds.chosen[s][bonds.difficulty] \in Digits
    BY <1>1, <1>2 DEF FirstTime
  <2>3. Replays(SyncTags(s))
    BY <2>1, <2>2 DEF Replays, Digits
  <2>4. Open(SyncTags(s)) = {bonds.chosen[s][bonds.difficulty]}
    BY <2>1, <2>2, <2>3 DEF Open, Digits
  <2> QED BY <1>1, <1>2, <2>1, <2>3, <2>4 DEF FirstTime
<1>3. CASE FirstTime(s)
  <2> DEFINE mask == [p \in Digits |-> IF p \in Taken(s) THEN p + 1 ELSE 0]
             free == {p \in Digits : mask[p] = 0}
  <2>1. SyncTags(s) = [at |-> s, pos |-> Min(free), mask |-> mask]
    BY <1>3 DEF SyncTags, FirstTime
  <2>2. free = Digits \ Taken(s)
    BY DEF Digits
  <2>3. free # {}
    BY <2>2, OneIsLeft
  <2>4. \E x \in free : \A y \in free : x <= y
    <3> HIDE DEF free
    <3>1. free \subseteq {0, 1, 2, 3}
      BY <2>2 DEF Digits
    <3>2. CASE 0 \in free
      BY <3>1, <3>2
    <3>3. CASE 0 \notin free /\ 1 \in free
      BY <3>1, <3>3
    <3>4. CASE 0 \notin free /\ 1 \notin free /\ 2 \in free
      BY <3>1, <3>4
    <3>5. CASE free = {3}
      BY <3>5
    <3> QED BY <2>3, <3>1, <3>2, <3>3, <3>4, <3>5
  <2>5. Min(free) \in free
    <3> HIDE DEF free
    <3> QED BY <2>4 DEF Min
  <2>6. ~Replays(SyncTags(s))
    BY <2>1, <2>5 DEF Replays
  <2>7. Open(SyncTags(s)) = Answers \ {mask[p] - 1 : p \in Digits}
    BY <2>1, <2>6 DEF Open
  <2>8. \A o \in Answers : o \in {mask[p] - 1 : p \in Digits} <=> o \in Taken(s)
    <3>1. \A p \in Digits : mask[p] - 1 = IF p \in Taken(s) THEN p ELSE -1
      BY DEF Digits
    <3> QED BY <3>1 DEF Undecided
  <2>9. Open(SyncTags(s)) = Answers \ Taken(s)
    BY <2>7, <2>8
  <2>10. SyncTags(s).at = s
    BY <2>1
  <2> QED
    <3> HIDE DEF mask, free
    <3> QED BY <1>3, <2>6, <2>9, <2>10, OneIsLeft
<1> QED BY <1>2, <1>3

(* What no answer and no support takes part in.                            *)
LEMMA AsideKeeps ==
  ASSUME TapInv, DOMAIN bonds' = DOMAIN bonds, bonds'.chosen = bonds.chosen,
         bonds'.difficulty = bonds.difficulty, bonds'.lv = bonds.lv,
         DOMAIN screen' = DOMAIN screen, screen'.scene = screen.scene,
         screen'.lv \in {screen.lv, bonds.lv}, UNCHANGED <<sent, paid, taps>>
  PROVE  TapInv'
<1>1. \A s \in Situations : FirstTime(s)' = FirstTime(s) /\ Taken(s)' = Taken(s)
  BY DEF FirstTime, Taken
<1>2. \A s \in Situations : SyncTags(s)' = SyncTags(s)
  BY <1>1 DEF SyncTags, FirstTime, Taken
<1>3. TapShape'
  BY DEF TapInv, TapShape
<1>4. PaidAsChosen' /\ ChosenApart'
  BY DEF TapInv, PaidAsChosen, ChosenApart
<1>5. ScenesAreNow'
  <2>1. \A i \in DOMAIN sent : sent[i].kind = "answer" => sent[i].row \in Situations
    BY DEF TapInv, TapShape, Requests
  <2> QED BY <1>1, <1>2, <2>1 DEF TapInv, ScenesAreNow
<1>6. RisenByTaps'
  BY DEF TapInv, RisenByTaps
<1> QED BY <1>3, <1>4, <1>5, <1>6 DEF TapInv

LEMMA RequestFacts ==
  ASSUME TapShape, NEW i \in DOMAIN sent
  PROVE  /\ sent[i] \in Requests
         /\ sent[i].kind = "answer" => sent[i].row \in Situations /\ sent[i].n \in Answers
         /\ sent[i].kind = "support" => /\ sent[i].row \in Girls \X Supports
                                        /\ sent[i].n \in Nat
BY DEF TapShape, Requests

LEMMA OneMore ==
  ASSUME NEW S, NEW q \in Seq(S), NEW m \in S
  PROVE  /\ Append(q, m) \in Seq(S)
         /\ \A i \in DOMAIN Append(q, m) :
              Append(q, m)[i] = m \/ (i \in DOMAIN q /\ Append(q, m)[i] = q[i])
BY AppendProperties

LEMMA EnterStageKeeps ==
  ASSUME TapInv, NEW d \in Difficulties, EnterStage(d)
  PROVE  TapInv'
<1>1. /\ bonds' = [bonds EXCEPT !.difficulty = d] /\ DOMAIN bonds' = DOMAIN bonds
      /\ UNCHANGED <<screen, sent, paid, taps>> /\ sent = <<>> /\ screen.scene = NoScene
  BY DEF EnterStage
<1>2. bonds'.chosen = bonds.chosen /\ bonds'.lv = bonds.lv /\ bonds'.difficulty = d
  BY <1>1 DEF TapInv, TapShape
<1>3. TapShape'
  BY <1>1, <1>2 DEF TapInv, TapShape
<1>4. PaidAsChosen' /\ ChosenApart'
  BY <1>1, <1>2 DEF TapInv, PaidAsChosen, ChosenApart
<1>5. ScenesAreNow'
  BY <1>1 DEF ScenesAreNow
<1>6. RisenByTaps'
  BY <1>1, <1>2 DEF TapInv, RisenByTaps
<1> QED BY <1>3, <1>4, <1>5, <1>6 DEF TapInv

LEMMA AvgSyncKeeps ==
  ASSUME TapInv, NEW s \in Situations, AvgSync(s)
  PROVE  TapInv'
<1>1. /\ screen' = [screen EXCEPT !.scene = SyncTags(s)] /\ sent = <<>>
      /\ UNCHANGED <<bonds, sent, paid, taps>>
  BY DEF AvgSync
<1>2. /\ DOMAIN screen' = DOMAIN screen /\ screen'.lv = screen.lv /\ screen'.scene = SyncTags(s)
  BY <1>1 DEF TapInv, TapShape
<1>3. TapShape'
  BY <1>1, <1>2 DEF TapInv, TapShape
<1>4. PaidAsChosen' /\ ChosenApart' /\ RisenByTaps'
  BY <1>1 DEF TapInv, PaidAsChosen, ChosenApart, RisenByTaps
<1>5. ScenesAreNow'
  <2>1. SyncTags(s)' = SyncTags(s)
    BY <1>1 DEF SyncTags, Taken
  <2> QED BY <1>1, <1>2, <2>1 DEF ScenesAreNow
<1> QED BY <1>3, <1>4, <1>5 DEF TapInv

LEMMA TapAnswerKeeps ==
  ASSUME TapInv, NEW o \in Answers, TapAnswer(o)
  PROVE  TapInv'
<1>1. PICK s \in Situations : screen.scene = SyncTags(s)
  BY DEF TapAnswer, TapInv, ScenesAreNow
<1>2. o \in Open(SyncTags(s)) /\ screen.scene.at = s
  BY <1>1, TagFacts DEF TapAnswer, TapInv
<1>3. CASE Replays(screen.scene)
  <2>1. /\ screen' = [screen EXCEPT !.scene = NoScene]
        /\ UNCHANGED <<bonds, sent, paid, taps>>
    BY <1>3 DEF TapAnswer
  <2>2. DOMAIN screen' = DOMAIN screen /\ screen'.lv = screen.lv /\ screen'.scene = NoScene
    BY <2>1 DEF TapInv, TapShape
  <2>3. TapShape'
    BY <2>1, <2>2 DEF TapInv, TapShape
  <2>4. PaidAsChosen' /\ ChosenApart' /\ RisenByTaps'
    BY <2>1 DEF TapInv, PaidAsChosen, ChosenApart, RisenByTaps
  <2>5. ScenesAreNow'
    BY <2>1, <2>2 DEF TapInv, ScenesAreNow, FirstTime, Taken
  <2> QED BY <2>3, <2>4, <2>5 DEF TapInv
<1>4. CASE ~Replays(screen.scene)
  <2> DEFINE m == [kind |-> "answer", row |-> s, n |-> o]
  <2>1. /\ sent' = Append(sent, m)
        /\ UNCHANGED <<bonds, screen, paid, taps>>
    BY <1>2, <1>4 DEF TapAnswer
  <2>2. FirstTime(s) /\ o \notin Taken(s)
    BY <1>1, <1>2, <1>4, TagFacts DEF TapInv
  <2>3. m \in Requests /\ sent \in Seq(Requests)
    BY DEF Requests, TapInv, TapShape
  <2>4. TapShape'
    <3>1. sent' \in Seq(Requests)
      BY <2>1, <2>3, OneMore
    <3> QED BY <2>1, <3>1, Zenon DEF TapInv, TapShape
  <2>5. PaidAsChosen' /\ ChosenApart'
    BY <2>1 DEF TapInv, PaidAsChosen, ChosenApart
  <2>6. \A i \in DOMAIN sent' : sent'[i] = m \/ (i \in DOMAIN sent /\ sent'[i] = sent[i])
    <3> HIDE DEF m
    <3> QED BY <2>1, <2>3, OneMore
  <2>7. ScenesAreNow'
    <3>1. ASSUME NEW t PROVE FirstTime(t)' = FirstTime(t) /\ Taken(t)' = Taken(t)
                             /\ SyncTags(t)' = SyncTags(t)
      BY <2>1 DEF FirstTime, Taken, SyncTags
    <3> QED BY <2>1, <2>2, <2>6, <3>1 DEF TapInv, ScenesAreNow
  <2>8. RisenByTaps'
    BY <2>1, <2>6 DEF TapInv, RisenByTaps
  <2> QED BY <2>4, <2>5, <2>7, <2>8 DEF TapInv
<1> QED BY <1>3, <1>4

LEMMA TapSupportKeeps ==
  ASSUME TapInv, NEW g \in Girls, NEW r \in Supports, TapSupport(g, r)
  PROVE  TapInv'
<1> DEFINE m == [kind |-> "support", row |-> <<g, r>>, n |-> screen.lv[g][r]]
<1>1. /\ sent' = Append(sent, m)
      /\ taps' = taps \cup {<<g, r, screen.lv[g][r]>>}
      /\ UNCHANGED <<bonds, screen, paid>>
  BY DEF TapSupport
<1>2. screen.lv[g][r] \in Nat
  BY DEF TapInv, TapShape, Levels
<1>3. m \in Requests /\ sent \in Seq(Requests)
  BY <1>2 DEF Requests, TapInv, TapShape
<1>4. IsFiniteSet(taps') /\ taps' \subseteq Girls \X Supports \X Nat
  <2>1. IsFiniteSet(taps) /\ taps \subseteq Girls \X Supports \X Nat
    BY DEF TapInv, TapShape
  <2>2. IsFiniteSet(taps')
    BY <1>1, <2>1, FS_AddElement
  <2> QED BY <1>1, <1>2, <2>1, <2>2
<1>5. TapShape'
  <2>1. sent' \in Seq(Requests)
    BY <1>1, <1>3, OneMore
  <2> QED BY <1>1, <1>4, <2>1, Zenon DEF TapInv, TapShape
<1>6. PaidAsChosen' /\ ChosenApart'
  BY <1>1 DEF TapInv, PaidAsChosen, ChosenApart
<1>7. \A i \in DOMAIN sent' : sent'[i] = m \/ (i \in DOMAIN sent /\ sent'[i] = sent[i])
  <2> HIDE DEF m
  <2> QED BY <1>1, <1>3, OneMore
<1>8. ScenesAreNow'
  <2>1. ASSUME NEW t PROVE FirstTime(t)' = FirstTime(t) /\ Taken(t)' = Taken(t)
                           /\ SyncTags(t)' = SyncTags(t)
    BY <1>1 DEF FirstTime, Taken, SyncTags
  <2> QED BY <1>1, <1>7, <2>1 DEF TapInv, ScenesAreNow
<1>9. RisenByTaps'
  BY <1>1, <1>7 DEF TapInv, RisenByTaps
<1> QED BY <1>5, <1>6, <1>8, <1>9 DEF TapInv

LEMMA TailFacts ==
  ASSUME NEW S, NEW q \in Seq(S), q # <<>>
  PROVE  /\ 1 \in DOMAIN q /\ Head(q) = q[1] /\ Tail(q) \in Seq(S)
         /\ \A i \in DOMAIN Tail(q) : i + 1 \in DOMAIN q /\ Tail(q)[i] = q[i + 1]
<1>1. 1 \in DOMAIN q /\ Head(q) = q[1] /\ Tail(q) \in Seq(S)
  OBVIOUS
<1>2. /\ Len(q) \in Nat \ {0} /\ DOMAIN q = 1..Len(q)
      /\ DOMAIN Tail(q) = 1..(Len(q) - 1)
      /\ \A i \in 1..(Len(q) - 1) : Tail(q)[i] = q[i + 1]
  OBVIOUS
<1> QED BY <1>1, <1>2

(* A choice is made once, of what no other difficulty has.                 *)
LEMMA AnswerKeeps ==
  ASSUME TapInv, Handle, sent[1].kind = "answer"
  PROVE  TapInv'
<1> DEFINE s == sent[1].row
           o == sent[1].n
           d == bonds.difficulty
<1>1. /\ sent # <<>> /\ sent \in Seq(Requests) /\ sent' = Tail(sent)
      /\ AvgChoice(s, o) /\ 1 \in DOMAIN sent
  BY TailFacts DEF Handle, TapInv, TapShape
<1>2. s \in Situations /\ o \in Answers /\ d \in Difficulties
  BY <1>1, RequestFacts DEF TapInv, TapShape
<1>3. /\ sent' \in Seq(Requests)
      /\ \A i \in DOMAIN sent' : i + 1 \in DOMAIN sent /\ sent'[i] = sent[i + 1]
  BY <1>1, TailFacts
<1>4. \A i \in DOMAIN sent' : \E j \in DOMAIN sent : sent'[i] = sent[j]
  BY <1>3
<1>5. UNCHANGED taps /\ screen'.scene = NoScene /\ DOMAIN screen' = DOMAIN screen
  <2>1. CASE FirstTime(s)
    BY <1>1, <2>1 DEF AvgChoice, Register, TapInv, TapShape
  <2>2. CASE ~FirstTime(s)
    BY <1>1, <2>2 DEF AvgChoice, TapInv, TapShape
  <2> QED BY <2>1, <2>2
<1>6. CASE ~FirstTime(s)
  <2>1. UNCHANGED <<bonds, paid>> /\ screen'.lv = screen.lv
    BY <1>1, <1>6 DEF AvgChoice, TapInv, TapShape
  <2>2. TapShape'
    BY <1>3, <1>5, <2>1, Zenon DEF TapInv, TapShape
  <2>3. PaidAsChosen' /\ ChosenApart'
    BY <2>1 DEF TapInv, PaidAsChosen, ChosenApart
  <2>4. ScenesAreNow'
    <3>1. ASSUME NEW t PROVE FirstTime(t)' = FirstTime(t) /\ Taken(t)' = Taken(t)
      BY <2>1 DEF FirstTime, Taken
    <3> QED BY <1>4, <1>5, <3>1 DEF TapInv, ScenesAreNow
  <2>5. RisenByTaps'
    BY <1>4, <1>5, <2>1 DEF TapInv, RisenByTaps
  <2> QED BY <2>2, <2>3, <2>4, <2>5 DEF TapInv
<1>7. CASE FirstTime(s)
  <2>1. /\ bonds' = [bonds EXCEPT !.chosen[s][d] = o,
                       !.karma[KarmaGirl(s)] = Climbed(@, KarmaReward(s, o))]
        /\ paid' = [paid EXCEPT ![s][<<d, o>>] = @ + 1]
        /\ screen'.lv = bonds'.lv
    BY <1>1, <1>7 DEF AvgChoice, Register
  <2>2. /\ DOMAIN bonds' = DOMAIN bonds /\ bonds'.lv = bonds.lv
        /\ bonds'.difficulty = d
        /\ bonds'.chosen = [bonds.chosen EXCEPT ![s][d] = o]
    BY <2>1 DEF TapInv, TapShape
  <2>3. /\ bonds.chosen \in [Situations -> [Difficulties -> Answers \cup {Undecided}]]
        /\ bonds.chosen[s][d] = Undecided
        /\ paid \in [Situations -> [Difficulties \X Answers -> Nat]]
    BY <1>7 DEF TapInv, TapShape, FirstTime
  <2>4. /\ bonds'.chosen \in [Situations -> [Difficulties -> Answers \cup {Undecided}]]
        /\ \A t \in Situations, e \in Difficulties :
             bonds'.chosen[t][e] = IF t = s /\ e = d THEN o ELSE bonds.chosen[t][e]
    BY <1>2, <2>2, <2>3
  <2>5. /\ paid' \in [Situations -> [Difficulties \X Answers -> Nat]]
        /\ \A t \in Situations, x \in Difficulties \X Answers :
             paid'[t][x] = IF t = s /\ x = <<d, o>> THEN paid[t][x] + 1 ELSE paid[t][x]
    <3> HIDE DEF s, o, d
    <3>1. paid' = [paid EXCEPT ![s] = [paid[s] EXCEPT ![<<d, o>>] = paid[s][<<d, o>>] + 1]]
      BY <2>1
    <3>2. /\ <<d, o>> \in Difficulties \X Answers
          /\ paid[s] \in [Difficulties \X Answers -> Nat]
      BY <1>2, <2>3
    <3>3. paid[s][<<d, o>>] + 1 \in Nat
      BY <3>2
    <3> DEFINE row == [paid[s] EXCEPT ![<<d, o>>] = paid[s][<<d, o>>] + 1]
    <3>4. /\ row \in [Difficulties \X Answers -> Nat]
          /\ \A x \in Difficulties \X Answers :
               row[x] = IF x = <<d, o>> THEN paid[s][x] + 1 ELSE paid[s][x]
      BY <3>2, <3>3
    <3> HIDE DEF row
    <3>5. paid' = [paid EXCEPT ![s] = row]
      BY <3>1 DEF row
    <3> QED BY <1>2, <2>3, <3>4, <3>5
  <2>6. o \notin Taken(s)
    BY <1>1, <1>7 DEF TapInv, ScenesAreNow
  <2>7. TapShape'
    <3>1. /\ DOMAIN bonds' = DOMAIN bonds /\ bonds'.difficulty \in Difficulties
          /\ bonds'.lv = bonds.lv /\ screen'.lv = bonds.lv
      BY <1>2, <2>1, <2>2
    <3>2. bonds'.chosen \in [Situations -> [Difficulties -> Answers \cup {Undecided}]]
      BY <2>4
    <3>3. paid' \in [Situations -> [Difficulties \X Answers -> Nat]]
      BY <2>5
    <3>4. DOMAIN screen' = DOMAIN screen /\ UNCHANGED taps /\ sent' \in Seq(Requests)
      BY <1>3, <1>5
    <3> HIDE DEF s, o, d
    <3> QED BY <3>1, <3>2, <3>3, <3>4, Zenon DEF TapInv, TapShape
  <2>8. PaidAsChosen'
    <3> SUFFICES ASSUME NEW t \in Situations, NEW e \in Difficulties, NEW a \in Answers
                 PROVE  paid'[t][<<e, a>>] = IF bonds'.chosen[t][e] = a THEN 1 ELSE 0
      BY DEF PaidAsChosen
    <3> HIDE DEF s, o, d
    <3>1. paid[t][<<e, a>>] = IF bonds.chosen[t][e] = a THEN 1 ELSE 0
      BY DEF TapInv, PaidAsChosen
    <3>2. paid'[t][<<e, a>>] = IF t = s /\ e = d /\ a = o THEN paid[t][<<e, a>>] + 1
                               ELSE paid[t][<<e, a>>]
      BY <2>5
    <3>3. bonds'.chosen[t][e] = IF t = s /\ e = d THEN o ELSE bonds.chosen[t][e]
      BY <2>4
    <3>4. bonds.chosen[s][d] # a
      BY <2>3, UndecidedIsNone
    <3> QED BY <3>1, <3>2, <3>3, <3>4
  <2>11. ChosenApart'
    <3>2. \A e \in Difficulties : e # d => bonds.chosen[s][e] # o
      BY <2>6 DEF Taken
    <3>3. \A t \in Situations, e, f \in Difficulties :
            e # f /\ bonds'.chosen[t][e] = bonds'.chosen[t][f] => bonds'.chosen[t][e] = Undecided
      <4> SUFFICES ASSUME NEW t \in Situations, NEW e \in Difficulties, NEW f \in Difficulties,
                          e # f, bonds'.chosen[t][e] = bonds'.chosen[t][f]
                   PROVE  bonds'.chosen[t][e] = Undecided
        OBVIOUS
      <4> HIDE DEF s, o, d
      <4>1. CASE t # s
        <5>1. bonds'.chosen[t][e] = bonds.chosen[t][e] /\ bonds'.chosen[t][f] = bonds.chosen[t][f]
          BY <2>4, <4>1
        <5> QED BY <5>1 DEF TapInv, ChosenApart
      <4>2. CASE t = s /\ e # d /\ f # d
        <5>1. bonds'.chosen[t][e] = bonds.chosen[t][e] /\ bonds'.chosen[t][f] = bonds.chosen[t][f]
          BY <2>4, <4>2
        <5> QED BY <5>1 DEF TapInv, ChosenApart
      <4>3. CASE t = s /\ (e = d \/ f = d)
        <5>1. PICK h \in Difficulties : h # d /\ bonds'.chosen[s][h] = o
          BY <2>4, <4>3
        <5>2. bonds.chosen[s][h] = o
          BY <1>2, <2>4, <5>1
        <5> QED BY <3>2, <5>1, <5>2
      <4> QED BY <4>1, <4>2, <4>3
    <3> QED BY <3>3 DEF ChosenApart
  <2>9. ScenesAreNow'
    <3>1. \A t \in Situations : FirstTime(t)' => FirstTime(t) /\ Taken(t)' = Taken(t)
      <4> SUFFICES ASSUME NEW t \in Situations, FirstTime(t)'
                   PROVE  FirstTime(t) /\ Taken(t)' = Taken(t)
        OBVIOUS
      <4>1. t # s
        BY <1>2, <2>2, <2>4, UndecidedIsNone DEF FirstTime
      <4>2. bonds'.chosen[t] = bonds.chosen[t]
        BY <2>2, <2>3, <4>1
      <4> QED BY <2>2, <4>2 DEF FirstTime, Taken
    <3>2. \A j \in DOMAIN sent : sent[j].kind = "answer" => sent[j].row \in Situations
      BY RequestFacts DEF TapInv
    <3> QED BY <1>4, <1>5, <3>1, <3>2 DEF TapInv, ScenesAreNow
  <2>10. RisenByTaps'
    BY <1>4, <1>5, <2>2 DEF TapInv, RisenByTaps
  <2> QED BY <2>7, <2>8, <2>9, <2>10, <2>11 DEF TapInv
<1> QED BY <1>6, <1>7

(* A level is taken from where the account is, by a tap.                   *)
LEMMA SupportKeeps ==
  ASSUME TapInv, Handle, sent[1].kind # "answer"
  PROVE  TapInv'
<1> DEFINE g == sent[1].row[1]
           r == sent[1].row[2]
           n == sent[1].n
<1>1. /\ sent # <<>> /\ sent \in Seq(Requests) /\ sent' = Tail(sent)
      /\ KizunaLvUp(g, r, n) /\ 1 \in DOMAIN sent
  BY TailFacts DEF Handle, TapInv, TapShape
<1>2. /\ sent[1].kind = "support" /\ g \in Girls /\ r \in Supports /\ n \in Nat
  BY <1>1, RequestFacts DEF TapInv, TapShape, Requests
<1>3. /\ sent' \in Seq(Requests)
      /\ \A i \in DOMAIN sent' : i + 1 \in DOMAIN sent /\ sent'[i] = sent[i + 1]
  BY <1>1, TailFacts
<1>4. \A i \in DOMAIN sent' : \E j \in DOMAIN sent : sent'[i] = sent[j]
  BY <1>3
<1>5. <<g, r, n>> \in taps
  BY <1>1, <1>2 DEF TapInv, RisenByTaps
<1>6. /\ UNCHANGED <<paid, taps>>
      /\ bonds' = IF bonds.lv[g][r] = n THEN [bonds EXCEPT !.lv[g][r] = @ + 1] ELSE bonds
      /\ screen' = [screen EXCEPT !.lv[g][r] = bonds'.lv[g][r]]
  BY <1>1 DEF KizunaLvUp, FromHere
<1>7. bonds.lv \in Levels /\ screen.lv \in Levels
  BY DEF TapInv, TapShape
<1>8. /\ DOMAIN bonds' = DOMAIN bonds /\ bonds'.chosen = bonds.chosen
      /\ bonds'.difficulty = bonds.difficulty
      /\ bonds'.lv = IF bonds.lv[g][r] = n THEN [bonds.lv EXCEPT ![g][r] = @ + 1] ELSE bonds.lv
  BY <1>6 DEF TapInv, TapShape
<1>9. /\ bonds'.lv \in Levels
      /\ \A h \in Girls, q \in Supports :
           bonds'.lv[h][q] = IF h = g /\ q = r /\ bonds.lv[g][r] = n THEN n + 1
                             ELSE bonds.lv[h][q]
  <2> HIDE DEF g, r, n
  <2>1. CASE bonds.lv[g][r] = n
    <3>1. bonds'.lv = [bonds.lv EXCEPT ![g] = [bonds.lv[g] EXCEPT ![r] = n + 1]]
      BY <1>8, <2>1
    <3>2. n + 1 \in Nat /\ bonds.lv[g] \in [Supports -> Nat]
      BY <1>2, <1>7 DEF Levels
    <3>3. [bonds.lv[g] EXCEPT ![r] = n + 1] \in [Supports -> Nat]
      BY <3>2
    <3> QED BY <1>2, <1>7, <2>1, <3>1, <3>2, <3>3 DEF Levels
  <2>2. CASE bonds.lv[g][r] # n
    BY <1>7, <1>8, <2>2
  <2> QED BY <2>1, <2>2
<1>10. /\ DOMAIN screen' = DOMAIN screen /\ screen'.scene = screen.scene
       /\ screen'.lv = [screen.lv EXCEPT ![g][r] = bonds'.lv[g][r]]
  BY <1>6 DEF TapInv, TapShape
<1>11. TapShape'
  <2> HIDE DEF g, r, n
  <2>1. bonds'.lv[g][r] \in Nat /\ screen.lv[g] \in [Supports -> Nat]
    BY <1>2, <1>7, <1>9 DEF Levels
  <2>2. [screen.lv[g] EXCEPT ![r] = bonds'.lv[g][r]] \in [Supports -> Nat]
    BY <2>1
  <2>3. screen'.lv \in Levels
    BY <1>2, <1>7, <1>10, <2>2 DEF Levels
  <2>4. sent' \in Seq(Requests) /\ UNCHANGED <<paid, taps>> /\ DOMAIN screen' = DOMAIN screen
    BY <1>3, <1>6, <1>10
  <2>5. /\ DOMAIN bonds' = DOMAIN bonds /\ bonds'.chosen = bonds.chosen
        /\ bonds'.difficulty = bonds.difficulty /\ bonds'.lv \in Levels
    BY <1>8, <1>9
  <2> QED BY <2>3, <2>4, <2>5, Zenon DEF TapInv, TapShape
<1>12. PaidAsChosen' /\ ChosenApart'
  <2>1. paid' = paid /\ bonds'.chosen = bonds.chosen
    BY <1>6, <1>8
  <2> QED BY <2>1 DEF TapInv, PaidAsChosen, ChosenApart
<1>13. ScenesAreNow'
  <2>1. ASSUME NEW t PROVE FirstTime(t)' = FirstTime(t) /\ Taken(t)' = Taken(t)
                           /\ SyncTags(t)' = SyncTags(t)
    BY <1>8 DEF FirstTime, Taken, SyncTags
  <2> QED BY <1>4, <1>10, <2>1 DEF TapInv, ScenesAreNow
<1>14. RisenByTaps'
  <2>1. \A h \in Girls, q \in Supports : \A k \in Nat : k < bonds'.lv[h][q] => <<h, q, k>> \in taps
    <3> SUFFICES ASSUME NEW h \in Girls, NEW q \in Supports, NEW k \in Nat,
                        k < bonds'.lv[h][q]
                 PROVE  <<h, q, k>> \in taps
      OBVIOUS
    <3>1. CASE k < bonds.lv[h][q]
      BY <3>1 DEF TapInv, RisenByTaps
    <3>2. CASE ~(k < bonds.lv[h][q])
      <4>1. h = g /\ q = r /\ bonds.lv[g][r] = n /\ k < n + 1 /\ ~(k < n)
        BY <1>2, <1>9, <3>2
      <4> QED BY <1>2, <1>5, <4>1
    <3> QED BY <3>1, <3>2
  <2> QED BY <1>4, <1>6, <2>1 DEF TapInv, RisenByTaps
<1> QED BY <1>11, <1>12, <1>13, <1>14 DEF TapInv

LEMMA WholeSheetFacts ==
  ASSUME TapInv, WholeSheet, bonds'.lv = bonds.lv
  PROVE  /\ DOMAIN screen' = DOMAIN screen /\ screen'.scene = screen.scene
         /\ screen'.lv \in {screen.lv, bonds.lv}
BY DEF WholeSheet, Register, TapInv, TapShape

(* The handlers of presents, sheets, ranks and sets of supports.           *)
LEMMA AsideActions ==
  ASSUME TapInv,
         \/ \E g \in Girls, basket \in Baskets : Give(g, basket)
         \/ \E g \in Girls, rows \in SUBSET Supports : KizunaSet(g, rows)
         \/ \E u \in Copies : \E e : Grow(u, e)
         \/ \E u \in Copies : LimitUp(u)
         \/ \E u, out \in Copies : LimitImpart(u, out)
         \/ \E u \in Copies, pieces \in SUBSET Pieces : Dress(u, pieces)
         \/ BookRankUp \/ SyncIdData
  PROVE  TapInv'
<1> DEFINE Unmoved == /\ DOMAIN bonds' = DOMAIN bonds /\ bonds'.chosen = bonds.chosen
                   /\ bonds'.difficulty = bonds.difficulty /\ bonds'.lv = bonds.lv
<1>1. ASSUME NEW g \in Girls, NEW basket \in Baskets, Give(g, basket) PROVE TapInv'
  <2>1. Unmoved /\ UNCHANGED <<sent, paid, taps>>
    BY <1>1 DEF Give, TapInv, TapShape
  <2>2. \/ WholeSheet
        \/ UNCHANGED screen
    BY <1>1 DEF Give
  <2> QED BY <2>1, <2>2, WholeSheetFacts, AsideKeeps
<1>2. ASSUME NEW g \in Girls, NEW rows \in SUBSET Supports, KizunaSet(g, rows) PROVE TapInv'
  <2>1. Unmoved /\ UNCHANGED <<sent, paid, taps>>
    BY <1>2 DEF KizunaSet, TapInv, TapShape
  <2>2. /\ DOMAIN screen' = DOMAIN screen /\ screen'.scene = screen.scene
        /\ screen'.lv = screen.lv
    BY <1>2 DEF KizunaSet, TapInv, TapShape
  <2> QED BY <2>1, <2>2, AsideKeeps
<1>3. ASSUME NEW u \in Copies, NEW e, Grow(u, e) PROVE TapInv'
  <2>1. Unmoved /\ UNCHANGED <<sent, paid, taps>>
    BY <1>3 DEF Grow, TapInv, TapShape
  <2>2. /\ DOMAIN screen' = DOMAIN screen /\ screen'.scene = screen.scene
        /\ screen'.lv = screen.lv
    BY <1>3 DEF Grow, OneSheet, TapInv, TapShape
  <2> QED BY <2>1, <2>2, AsideKeeps
<1>4. ASSUME NEW u \in Copies, LimitUp(u) PROVE TapInv'
  <2>1. Unmoved /\ UNCHANGED <<sent, paid, taps>> /\ WholeSheet
    BY <1>4 DEF LimitUp, TapInv, TapShape
  <2> QED BY <2>1, WholeSheetFacts, AsideKeeps
<1>5. ASSUME NEW u \in Copies, NEW out \in Copies, LimitImpart(u, out) PROVE TapInv'
  <2>1. Unmoved /\ UNCHANGED <<sent, paid, taps>> /\ WholeSheet
    BY <1>5 DEF LimitImpart, TapInv, TapShape
  <2> QED BY <2>1, WholeSheetFacts, AsideKeeps
<1>6. ASSUME NEW u \in Copies, NEW pieces \in SUBSET Pieces, Dress(u, pieces) PROVE TapInv'
  <2>1. Unmoved /\ UNCHANGED <<sent, paid, taps>>
    BY <1>6 DEF Dress, TapInv, TapShape
  <2>2. /\ DOMAIN screen' = DOMAIN screen /\ screen'.scene = screen.scene
        /\ screen'.lv = screen.lv
    BY <1>6 DEF Dress, TapInv, TapShape
  <2> QED BY <2>1, <2>2, AsideKeeps
<1>7. ASSUME BookRankUp PROVE TapInv'
  <2>1. Unmoved /\ UNCHANGED <<sent, paid, taps>>
    BY <1>7 DEF BookRankUp, TapInv, TapShape
  <2>2. /\ DOMAIN screen' = DOMAIN screen /\ screen'.scene = screen.scene
        /\ screen'.lv = screen.lv
    BY <1>7 DEF BookRankUp, TapInv, TapShape
  <2> QED BY <2>1, <2>2, AsideKeeps
<1>8. ASSUME SyncIdData PROVE TapInv'
  <2>1. UNCHANGED <<bonds, sent, paid, taps>>
    BY <1>8 DEF SyncIdData
  <2>2. /\ DOMAIN screen' = DOMAIN screen /\ screen'.scene = screen.scene
        /\ screen'.lv = bonds.lv
    BY <1>8 DEF SyncIdData, TapInv, TapShape
  <2> QED BY <2>1, <2>2, AsideKeeps
<1> QED BY <1>1, <1>2, <1>3, <1>4, <1>5, <1>6, <1>7, <1>8

LEMMA ReenterKeeps ==
  ASSUME TapInv, Reenter
  PROVE  TapInv'
<1>1. /\ sent' = <<>> /\ UNCHANGED <<bonds, paid, taps>>
      /\ DOMAIN screen' = DOMAIN screen /\ screen'.scene = NoScene /\ screen'.lv = bonds.lv
  BY DEF Reenter, Register, TapInv, TapShape
<1>2. sent' \in Seq(Requests) /\ DOMAIN sent' = {}
  BY <1>1
<1>3. TapShape'
  BY <1>1, <1>2 DEF TapInv, TapShape
<1>4. PaidAsChosen' /\ ChosenApart'
  BY <1>1 DEF TapInv, PaidAsChosen, ChosenApart
<1>5. ScenesAreNow' /\ RisenByTaps'
  BY <1>1, <1>2 DEF TapInv, ScenesAreNow, RisenByTaps
<1> QED BY <1>3, <1>4, <1>5 DEF TapInv

LEMMA TapInit == BondInit => TapInv
<1> SUFFICES ASSUME BondInit PROVE TapInv
  OBVIOUS
<1>1. /\ DOMAIN bonds = {"karma", "cast", "rank", "bag", "set", "lv", "chosen", "difficulty"}
      /\ bonds.chosen = [s \in Situations |-> [d \in Difficulties |-> Undecided]]
      /\ bonds.lv = [g \in Girls |-> [r \in Supports |-> 0]]
      /\ bonds.difficulty = 1
  BY DEF BondInit
<1>2. /\ DOMAIN screen = {"sheet", "worn", "rank", "set", "lv", "scene"}
      /\ screen.lv = bonds.lv /\ screen.scene = NoScene
  BY DEF BondInit, Register
<1>3. /\ sent = <<>> /\ taps = {}
      /\ paid = [s \in Situations |-> [x \in Difficulties \X Answers |-> 0]]
  BY DEF BondInit
<1>4. IsFiniteSet(taps) /\ sent \in Seq(Requests) /\ DOMAIN sent = {}
  BY <1>3, FS_EmptySet
<1>5. bonds.lv \in Levels
  BY <1>1 DEF Levels
<1>6. TapShape
  BY <1>1, <1>2, <1>3, <1>4, <1>5, BondConsts DEF TapShape
<1>7. PaidAsChosen
  BY <1>1, <1>3, UndecidedIsNone DEF PaidAsChosen
<1>8. ChosenApart
  BY <1>1 DEF ChosenApart
<1>9. ScenesAreNow
  BY <1>2, <1>4 DEF ScenesAreNow
<1>10. RisenByTaps
  BY <1>1, <1>4 DEF RisenByTaps
<1> QED BY <1>6, <1>7, <1>8, <1>9, <1>10 DEF TapInv

LEMMA TapStep == TapInv /\ [BondNext]_bondVars => TapInv'
<1> SUFFICES ASSUME TapInv, [BondNext]_bondVars PROVE TapInv'
  OBVIOUS
<1>1. CASE UNCHANGED bondVars
  BY <1>1, AsideKeeps DEF bondVars
<1>2. ASSUME NEW g \in Girls, NEW r \in Supports, TapSupport(g, r) PROVE TapInv'
  BY <1>2, TapSupportKeeps
<1>3. CASE Handle
  BY <1>3, AnswerKeeps, SupportKeeps
<1>4. CASE Reenter
  BY <1>4, ReenterKeeps
<1>5. ASSUME NEW d \in Difficulties, EnterStage(d) PROVE TapInv'
  BY <1>5, EnterStageKeeps
<1>6. ASSUME NEW s \in Situations, AvgSync(s) PROVE TapInv'
  BY <1>6, AvgSyncKeeps
<1>7. ASSUME NEW o \in Answers, TapAnswer(o) PROVE TapInv'
  BY <1>7, TapAnswerKeeps
<1>8. CASE \/ \E g \in Girls : \/ \E basket \in Baskets : Give(g, basket)
                               \/ \E rows \in SUBSET Supports : KizunaSet(g, rows)
           \/ \E u \in Copies :
                \/ LimitUp(u)
                \/ \E out \in Copies : LimitImpart(u, out)
                \/ \E pieces \in SUBSET Pieces : Dress(u, pieces)
                \/ \E e : Grow(u, e)
           \/ BookRankUp \/ SyncIdData
  BY <1>8, AsideActions, Zenon
<1> QED BY <1>1, <1>2, <1>3, <1>4, <1>5, <1>6, <1>7, <1>8 DEF BondNext

(* As many taps as the support has levels.                                 *)
LEMMA TapsCovered ==
  ASSUME TapInv, NEW g \in Girls, NEW r \in Supports
  PROVE  bonds.lv[g][r] <= Cardinality({t \in taps : t[1] = g /\ t[2] = r})
<1> DEFINE T == {t \in taps : t[1] = g /\ t[2] = r}
           n == bonds.lv[g][r]
           f == [k \in 1..n |-> <<g, r, k - 1>>]
<1>1. n \in Nat /\ IsFiniteSet(T)
  BY FS_Subset DEF TapInv, TapShape, Levels
<1>2. \A k \in 1..n : f[k] \in T
  BY <1>1 DEF TapInv, RisenByTaps
<1>3. f \in Injection(1..n, T)
  <2>1. f \in [1..n -> T]
    <3> HIDE DEF T, n
    <3> QED BY <1>2
  <2>2. ASSUME NEW j \in 1..n, NEW k \in 1..n, f[j] = f[k] PROVE j = k
    <3>1. j \in Int /\ k \in Int
      BY <1>1
    <3>2. f[j] = <<g, r, j - 1>> /\ f[k] = <<g, r, k - 1>>
      OBVIOUS
    <3>3. j - 1 = k - 1
      BY <2>2, <3>2
    <3> HIDE DEF f, n
    <3> QED BY <3>1, <3>3
  <2> HIDE DEF f, T, n
  <2>3. DOMAIN f = 1..n
    BY <2>1
  <2>4. IsInjective(f)
    BY <2>2, <2>3 DEF IsInjective
  <2> QED BY <2>1, <2>4 DEF Injection
<1>4. IsFiniteSet(1..n) /\ Cardinality(1..n) = n
  <2> HIDE DEF n
  <2>1. n \in Int /\ 1 \in Int /\ (IF 1 > n THEN 0 ELSE n - 1 + 1) = n
    BY <1>1
  <2>2. IsFiniteSet(1..n) /\ Cardinality(1..n) = IF 1 > n THEN 0 ELSE n - 1 + 1
    BY <2>1, FS_Interval
  <2> QED BY <2>1, <2>2
<1>5. Cardinality(1..n) <= Cardinality(T)
  BY <1>1, <1>3, FS_Injection
<1> QED BY <1>4, <1>5

LEMMA TapSuffices == TapInv => TapsCountOnce
<1> SUFFICES ASSUME TapInv PROVE TapsCountOnce
  OBVIOUS
<1>1. ASSUME NEW s \in Situations, NEW x \in Difficulties \X Answers,
             NEW y \in Difficulties \X Answers
      PROVE  /\ paid[s][x] <= 1
             /\ paid[s][x] > 0 /\ paid[s][y] > 0 /\ (x[1] = y[1] \/ x[2] = y[2]) => x = y
  <2>1. PICK d \in Difficulties, o \in Answers : x = <<d, o>>
    OBVIOUS
  <2>2. PICK e \in Difficulties, a \in Answers : y = <<e, a>>
    OBVIOUS
  <2>3. /\ paid[s][x] = IF bonds.chosen[s][d] = o THEN 1 ELSE 0
        /\ paid[s][y] = IF bonds.chosen[s][e] = a THEN 1 ELSE 0
    BY <2>1, <2>2 DEF TapInv, PaidAsChosen
  <2>4. ~(d # e /\ bonds.chosen[s][d] = o /\ bonds.chosen[s][e] = o)
    BY UndecidedIsNone DEF TapInv, ChosenApart
  <2> QED BY <2>1, <2>2, <2>3, <2>4
<1>2. ASSUME screen.scene # NoScene
      PROVE  /\ Open(screen.scene) \cap Answers # {}
             /\ Replays(screen.scene) <=> ~FirstTime(screen.scene.at)
  <2>1. PICK s \in Situations : screen.scene = SyncTags(s)
    BY <1>2 DEF TapInv, ScenesAreNow
  <2> QED BY <2>1, TagFacts DEF TapInv
<1> QED BY <1>1, <1>2, TapsCovered DEF TapsCountOnce

(* A tap counts once, whatever is sent twice, on however many difficulties *)
(* and however far a connection is lost (stage_avg_choice,                 *)
(* char_kizuna_lvup, avg_sync_tags).                                       *)
THEOREM TapsSafe == BondSpec => []TapsCountOnce
<1>1. TapInv => TapsCountOnce
  BY TapSuffices
<1> QED BY <1>1, TapInit, TapStep, PTL DEF BondSpec

-----------------------------------------------------------------------------
(* Sheets.                                                                 *)

CastFields == {"lv", "star", "ex", "limit", "worn"}

(* The account and the screen as records.                                  *)
SheetShape ==
  /\ DOMAIN bonds = {"karma", "cast", "rank", "bag", "set", "lv", "chosen", "difficulty"}
  /\ DOMAIN bonds.cast = Copies /\ \A u \in Copies : DOMAIN bonds.cast[u] = CastFields
  /\ DOMAIN bonds.karma = Girls
  /\ DOMAIN screen = {"sheet", "worn", "rank", "set", "lv", "scene"}
  /\ DOMAIN screen.sheet = Copies

(* The client has the sheet of every cast whose Karma no present moved     *)
(* since, what every cast wears and the Soul Link rank.                    *)
SheetIsSent ==
  /\ \A u \in Copies \ behind : screen.sheet[u] = Sheet(u)
  /\ \A u \in Copies : screen.worn[u] = bonds.cast[u].worn
  /\ screen.rank = bonds.rank

SheetInv == SheetShape /\ SheetIsSent

(* The sums of a sheet are numbers.                                        *)
SumsAreNumbers(u) ==
  /\ Grown(u) \in Int /\ Consonance(u) \in Int /\ SkillUpBonus(u) \in Int
  /\ LinkBonus(bonds.rank) \in Int /\ GearBonus(bonds.cast[u].worn, Grown(u)) \in Int

LEMMA SheetOf ==
  ASSUME NEW u,
         bonds'.cast[u].lv = bonds.cast[u].lv, bonds'.cast[u].star = bonds.cast[u].star,
         bonds'.cast[u].ex = bonds.cast[u].ex, bonds'.cast[u].limit = bonds.cast[u].limit,
         bonds'.karma[GirlOf[u]].flv = bonds.karma[GirlOf[u]].flv
  PROVE  Sheet(u)' = Sheet(u)
<1>1. Grown(u)' = Grown(u)
  BY DEF Grown, StarOf
<1>2. SheetBonus(u)' = SheetBonus(u) /\ SkillRung(u)' = SkillRung(u)
  BY DEF SheetBonus, Consonance, SkillUpBonus, SkillRung
<1> QED BY <1>1, <1>2 DEF Sheet

(* Nothing of a sheet changes.                                             *)
LEMMA SheetsAside ==
  ASSUME SheetInv, DOMAIN bonds' = DOMAIN bonds, bonds'.cast = bonds.cast,
         bonds'.karma = bonds.karma, bonds'.rank = bonds.rank,
         DOMAIN screen' = DOMAIN screen, screen'.sheet = screen.sheet,
         screen'.worn = screen.worn, screen'.rank = screen.rank, UNCHANGED behind
  PROVE  SheetInv'
<1>1. SheetShape'
  BY DEF SheetInv, SheetShape
<1>2. \A u \in Copies : Sheet(u)' = Sheet(u)
  BY SheetOf
<1>3. SheetIsSent'
  BY <1>2 DEF SheetInv, SheetIsSent
<1> QED BY <1>1, <1>3 DEF SheetInv

(* Every sheet is sent.                                                    *)
LEMMA SheetsRegistered ==
  ASSUME SheetInv, DOMAIN bonds' = DOMAIN bonds, DOMAIN bonds'.cast = Copies,
         \A u \in Copies : DOMAIN bonds'.cast[u] = CastFields,
         DOMAIN bonds'.karma = Girls,
         WholeSheet \/ screen' = Register(NoScene)'
  PROVE  SheetInv'
<1>1. /\ DOMAIN screen' = {"sheet", "worn", "rank", "set", "lv", "scene"}
      /\ screen'.sheet = [u \in Copies |-> Sheet(u)']
      /\ screen'.worn = [u \in Copies |-> bonds'.cast[u].worn]
      /\ screen'.rank = bonds'.rank
  <2> DEFINE sheets == [u \in Copies |-> Sheet(u)']
             pieces == [u \in Copies |-> bonds'.cast[u].worn]
             all == [sheet |-> sheets, worn |-> pieces, rank |-> bonds'.rank,
                     set |-> bonds'.set, lv |-> bonds'.lv, scene |-> NoScene]
  <2>1. Register(NoScene)' = all
    BY DEF Register, NoScene
  <2> HIDE DEF sheets, pieces
  <2>2. screen' = [all EXCEPT !.scene = screen.scene] \/ screen' = all
    BY <2>1 DEF WholeSheet
  <2>3. /\ DOMAIN screen' = {"sheet", "worn", "rank", "set", "lv", "scene"}
        /\ screen'.sheet = sheets /\ screen'.worn = pieces /\ screen'.rank = bonds'.rank
    BY <2>2
  <2> QED BY <2>3 DEF sheets, pieces
<1>2. SheetShape'
  BY <1>1 DEF SheetInv, SheetShape
<1>3. SheetIsSent'
  BY <1>1 DEF SheetIsSent
<1> QED BY <1>2, <1>3 DEF SheetInv

LEMMA GiveSends ==
  ASSUME SheetInv, NEW g \in Girls, NEW basket, Give(g, basket)
  PROVE  SheetInv'
<1>1. /\ DOMAIN bonds' = DOMAIN bonds /\ bonds'.cast = bonds.cast /\ bonds'.rank = bonds.rank
      /\ DOMAIN bonds'.karma = Girls
      /\ \A h \in Girls : h # g => bonds'.karma[h] = bonds.karma[h]
  BY DEF Give, SheetInv, SheetShape
<1>2. CASE WholeSheet
  <2>1. DOMAIN bonds'.cast = Copies /\ \A u \in Copies : DOMAIN bonds'.cast[u] = CastFields
    BY <1>1 DEF SheetInv, SheetShape
  <2> QED BY <1>1, <1>2, <2>1, SheetsRegistered
<1>3. CASE UNCHANGED screen /\ behind' = behind \cup {u \in Copies : GirlOf[u] = g}
  <2>1. SheetShape'
    BY <1>1, <1>3 DEF SheetInv, SheetShape
  <2>2. ASSUME NEW u \in Copies \ behind' PROVE screen'.sheet[u] = Sheet(u)'
    <3>1. u \in Copies \ behind /\ GirlOf[u] \in Girls /\ GirlOf[u] # g
      BY <1>3, <2>2, BondAssumption DEF BondAssumption
    <3>2. Sheet(u)' = Sheet(u)
      BY <1>1, <3>1, SheetOf
    <3> QED BY <1>3, <3>1, <3>2 DEF SheetInv, SheetIsSent
  <2>3. SheetIsSent'
    BY <1>1, <1>3, <2>2 DEF SheetInv, SheetIsSent
  <2> QED BY <2>1, <2>3 DEF SheetInv
<1> QED BY <1>2, <1>3 DEF Give

LEMMA GrowSends ==
  ASSUME SheetInv, NEW u \in Copies, NEW e, DOMAIN e = CastFields,
         e.worn = bonds.cast[u].worn, Grow(u, e)
  PROVE  SheetInv'
<1>1. /\ DOMAIN bonds' = DOMAIN bonds /\ bonds'.karma = bonds.karma /\ bonds'.rank = bonds.rank
      /\ bonds'.cast = [bonds.cast EXCEPT ![u] = e]
  BY DEF Grow, SheetInv, SheetShape
<1>2. /\ DOMAIN screen' = DOMAIN screen /\ screen'.worn = screen.worn
      /\ screen'.rank = screen.rank /\ behind' = behind \ {u}
      /\ screen'.sheet = [screen.sheet EXCEPT ![u] = Sheet(u)']
  BY DEF Grow, OneSheet, SheetInv, SheetShape
<1>3. /\ DOMAIN bonds'.cast = Copies /\ bonds'.cast[u] = e
      /\ \A v \in Copies \ {u} : bonds'.cast[v] = bonds.cast[v]
  BY <1>1 DEF SheetInv, SheetShape
<1>4. SheetShape'
  BY <1>1, <1>2, <1>3 DEF SheetInv, SheetShape
<1>5. ASSUME NEW v \in Copies \ behind' PROVE screen'.sheet[v] = Sheet(v)'
  <2>1. CASE v = u
    BY <1>2, <2>1 DEF SheetInv, SheetShape
  <2>2. CASE v # u
    <3>1. Sheet(v)' = Sheet(v)
      BY <1>1, <1>3, <2>2, SheetOf
    <3> QED BY <1>2, <2>2, <3>1 DEF SheetInv, SheetIsSent
  <2> QED BY <2>1, <2>2
<1>6. SheetIsSent'
  BY <1>1, <1>2, <1>3, <1>5 DEF SheetInv, SheetIsSent
<1> QED BY <1>4, <1>6 DEF SheetInv

LEMMA DressSends ==
  ASSUME SheetInv, NEW u \in Copies, NEW pieces, Dress(u, pieces)
  PROVE  SheetInv'
<1> DEFINE worn(v) == IF v = u THEN pieces ELSE bonds.cast[v].worn \ pieces
<1>1. /\ DOMAIN bonds' = DOMAIN bonds /\ bonds'.karma = bonds.karma /\ bonds'.rank = bonds.rank
      /\ bonds'.cast = [v \in Copies |-> [bonds.cast[v] EXCEPT !.worn = worn(v)]]
      /\ DOMAIN screen' = DOMAIN screen /\ screen'.sheet = screen.sheet
      /\ screen'.rank = screen.rank /\ UNCHANGED behind
      /\ screen'.worn = [v \in Copies |-> bonds'.cast[v].worn]
  BY DEF Dress, SheetInv, SheetShape
<1>2. ASSUME NEW v \in Copies
      PROVE  /\ DOMAIN bonds'.cast[v] = CastFields
             /\ bonds'.cast[v].lv = bonds.cast[v].lv /\ bonds'.cast[v].star = bonds.cast[v].star
             /\ bonds'.cast[v].ex = bonds.cast[v].ex /\ bonds'.cast[v].limit = bonds.cast[v].limit
  <2>1. DOMAIN bonds.cast[v] = CastFields
    BY DEF SheetInv, SheetShape
  <2> HIDE DEF worn
  <2>2. bonds'.cast[v] = [bonds.cast[v] EXCEPT !.worn = worn(v)]
    BY <1>1
  <2> QED BY <2>1, <2>2 DEF CastFields
<1>3. SheetShape'
  BY <1>1, <1>2 DEF SheetInv, SheetShape
<1>4. \A v \in Copies : Sheet(v)' = Sheet(v)
  BY <1>1, <1>2, SheetOf
<1>5. SheetIsSent'
  BY <1>1, <1>4 DEF SheetInv, SheetIsSent
<1> QED BY <1>3, <1>5 DEF SheetInv

LEMMA LimitsSend ==
  ASSUME SheetInv,
         \/ \E u \in Copies : LimitUp(u)
         \/ \E u, out \in Copies : LimitImpart(u, out)
  PROVE  SheetInv'
<1>1. /\ DOMAIN bonds' = DOMAIN bonds /\ DOMAIN bonds'.karma = Girls
      /\ DOMAIN bonds'.cast = Copies /\ WholeSheet
  BY DEF LimitUp, LimitImpart, SheetInv, SheetShape
<1>2. \A u \in Copies : DOMAIN bonds'.cast[u] = CastFields
  <2>1. ASSUME NEW u \in Copies, LimitUp(u), NEW v \in Copies
        PROVE  DOMAIN bonds'.cast[v] = DOMAIN bonds.cast[v]
    BY <2>1 DEF LimitUp, SheetInv, SheetShape
  <2>2. ASSUME NEW u \in Copies, NEW out \in Copies, LimitImpart(u, out), NEW v \in Copies
        PROVE  DOMAIN bonds'.cast[v] = DOMAIN bonds.cast[v]
    BY <2>2 DEF LimitImpart, SheetInv, SheetShape
  <2> QED BY <2>1, <2>2 DEF SheetInv, SheetShape
<1> QED BY <1>1, <1>2, SheetsRegistered

LEMMA SheetInit == BondInit => SheetInv
<1> SUFFICES ASSUME BondInit PROVE SheetInv
  OBVIOUS
<1>1. /\ DOMAIN bonds = {"karma", "cast", "rank", "bag", "set", "lv", "chosen", "difficulty"}
      /\ bonds.cast = StartCast /\ DOMAIN bonds.karma = Girls
  BY DEF BondInit
<1>2. /\ DOMAIN screen = {"sheet", "worn", "rank", "set", "lv", "scene"}
      /\ screen.sheet = [u \in Copies |-> Sheet(u)] /\ screen.rank = bonds.rank
      /\ screen.worn = [u \in Copies |-> bonds.cast[u].worn]
  BY DEF BondInit, Register
<1>3. DOMAIN StartCast = Copies /\ \A u \in Copies : DOMAIN StartCast[u] = CastFields
  BY BondAssumption DEF BondAssumption, CastFields
<1> QED BY <1>1, <1>2, <1>3 DEF SheetInv, SheetShape, SheetIsSent

LEMMA SheetStep == SheetInv /\ [BondNext]_bondVars => SheetInv'
<1> SUFFICES ASSUME SheetInv, [BondNext]_bondVars PROVE SheetInv'
  OBVIOUS
<1>0. CASE UNCHANGED bondVars
  BY <1>0, SheetsAside DEF bondVars
<1>1. ASSUME NEW g \in Girls, NEW basket \in Baskets, Give(g, basket) PROVE SheetInv'
  BY <1>1, GiveSends
<1>2. ASSUME NEW g \in Girls, NEW rows \in SUBSET Supports, KizunaSet(g, rows) PROVE SheetInv'
  BY <1>2, SheetsAside DEF KizunaSet, SheetInv, SheetShape
<1>3. ASSUME NEW g \in Girls, NEW r \in Supports, TapSupport(g, r) PROVE SheetInv'
  BY <1>3, SheetsAside DEF TapSupport
<1>4. ASSUME NEW u \in Copies, NEW pieces \in SUBSET Pieces, Dress(u, pieces) PROVE SheetInv'
  BY <1>4, DressSends
<1>5. ASSUME NEW u \in Copies,
             NEW e \in {[bonds.cast[u] EXCEPT !.lv = @ + 1], [bonds.cast[u] EXCEPT !.ex = @ + 1],
                        [bonds.cast[u] EXCEPT !.star = StarOf(u) + 1]},
             Grow(u, e)
      PROVE  SheetInv'
  <2>1. DOMAIN bonds.cast[u] = CastFields
    BY DEF SheetInv, SheetShape
  <2>2. DOMAIN e = CastFields /\ e.worn = bonds.cast[u].worn
    BY <2>1 DEF CastFields
  <2> QED BY <1>5, <2>2, GrowSends
<1>6. CASE (\E u \in Copies : LimitUp(u)) \/ (\E u, out \in Copies : LimitImpart(u, out))
  BY <1>6, LimitsSend
<1>7. CASE BookRankUp
  <2>1. /\ DOMAIN bonds' = DOMAIN bonds /\ bonds'.cast = bonds.cast
        /\ bonds'.karma = bonds.karma /\ UNCHANGED behind
        /\ DOMAIN screen' = DOMAIN screen /\ screen'.sheet = screen.sheet
        /\ screen'.worn = screen.worn /\ screen'.rank = bonds'.rank
    BY <1>7 DEF BookRankUp, SheetInv, SheetShape
  <2>2. \A u \in Copies : Sheet(u)' = Sheet(u)
    BY <2>1, SheetOf
  <2>3. SheetIsSent'
    BY <2>1, <2>2 DEF SheetInv, SheetIsSent
  <2> QED BY <2>1, <2>3 DEF SheetInv, SheetShape
<1>8. CASE SyncIdData
  BY <1>8, SheetsAside DEF SyncIdData, SheetInv, SheetShape, SheetIsSent
<1>9. CASE Handle
  <2>1. ASSUME NEW s, NEW o, AvgChoice(s, o) PROVE SheetInv'
    <3>1. CASE FirstTime(s)
      <4>1. /\ screen' = Register(NoScene)'
            /\ \E g, k : bonds' = [bonds EXCEPT !.chosen[s][bonds.difficulty] = o, !.karma[g] = k]
        BY <2>1, <3>1, Zenon DEF AvgChoice
      <4>3. /\ DOMAIN bonds' = DOMAIN bonds /\ bonds'.cast = bonds.cast
            /\ DOMAIN bonds'.karma = Girls
        BY <4>1 DEF SheetInv, SheetShape
      <4>2. DOMAIN bonds'.cast = Copies /\ \A u \in Copies : DOMAIN bonds'.cast[u] = CastFields
        BY <4>3 DEF SheetInv, SheetShape
      <4> QED BY <4>1, <4>2, <4>3, SheetsRegistered
    <3>2. CASE ~FirstTime(s)
      BY <2>1, <3>2, SheetsAside DEF AvgChoice, SheetInv, SheetShape
    <3> QED BY <3>1, <3>2
  <2>2. ASSUME NEW g, NEW r, NEW n, KizunaLvUp(g, r, n) PROVE SheetInv'
    BY <2>2, SheetsAside DEF KizunaLvUp, SheetInv, SheetShape
  <2> QED BY <1>9, <2>1, <2>2 DEF Handle
<1>10. CASE Reenter
  <2>1. UNCHANGED bonds /\ screen' = Register(NoScene)
    BY <1>10 DEF Reenter
  <2>2. Register(NoScene)' = Register(NoScene)
    <3>1. \A u : Sheet(u)' = Sheet(u)
      BY <2>1, SheetOf
    <3> QED BY <2>1, <3>1 DEF Register, NoScene
  <2> QED BY <2>1, <2>2, SheetsRegistered DEF SheetInv, SheetShape
<1>11. ASSUME NEW d \in Difficulties, EnterStage(d) PROVE SheetInv'
  BY <1>11, SheetsAside DEF EnterStage, SheetInv, SheetShape
<1>12. ASSUME NEW s \in Situations, AvgSync(s) PROVE SheetInv'
  BY <1>12, SheetsAside DEF AvgSync, SheetInv, SheetShape
<1>13. ASSUME NEW o \in Answers, TapAnswer(o) PROVE SheetInv'
  BY <1>13, SheetsAside DEF TapAnswer, SheetInv, SheetShape
<1> QED
  BY <1>0, <1>1, <1>2, <1>3, <1>4, <1>5, <1>6, <1>7, <1>8, <1>9, <1>10, <1>11, <1>12, <1>13
  DEF BondNext

LEMMA SheetSuffices ==
  ASSUME SheetInv, NEW u \in Copies \ behind, SumsAreNumbers(u)
  PROVE  FoughtAsShown(u)
<1> DEFINE grown == Grown(u)
           karma == Consonance(u)
           skills == SkillUpBonus(u)
           link == LinkBonus(bonds.rank)
           gear == GearBonus(bonds.cast[u].worn, Grown(u))
<1>1. /\ screen.sheet[u] = Sheet(u) /\ screen.worn[u] = bonds.cast[u].worn
      /\ screen.rank = bonds.rank
  BY DEF SheetInv, SheetIsSent
<1>2. /\ Sheet(u).stat = grown + (karma + skills) /\ Sheet(u).grown = grown
      /\ Sheet(u).rung = SkillRung(u)
  BY DEF Sheet, SheetBonus
<1>3. /\ Unit(u).stat = grown + link + (gear + karma + skills)
      /\ Unit(u).skills = Skills(GirlOf[u], SkillRung(u))
  BY DEF Unit, Fielded, GearOf
<1>4. grown \in Int /\ karma \in Int /\ skills \in Int /\ link \in Int /\ gear \in Int
  BY DEF SumsAreNumbers
<1>5. GearBonus(screen.worn[u], screen.sheet[u].grown) = gear /\ LinkBonus(screen.rank) = link
  BY <1>1, <1>2
<1> HIDE DEF grown, karma, skills, link, gear
<1>6. grown + link + (gear + karma + skills) = grown + (karma + skills) + gear + link
  BY <1>4
<1> QED BY <1>1, <1>2, <1>3, <1>5, <1>6 DEF FoughtAsShown

-----------------------------------------------------------------------------
(* The numbers of a sheet.                                                 *)

(* Karma stops at its last rank, and short of it what is left over does    *)
(* not pay another one.                                                    *)
KarmaSound(k) ==
  /\ k \in [flv : 1..KarmaMax, fxp : Nat]
  /\ k.flv < KarmaMax => k.fxp < KarmaNext[k.flv]
  /\ k.flv = KarmaMax => k.fxp = 0

NumbersHold ==
  /\ \A g \in Girls : KarmaSound(bonds.karma[g]) /\ Cardinality(bonds.set[g]) <= SupportMost
  /\ DOMAIN bonds.set = Girls
  /\ \A u \in Copies : bonds.cast[u].lv \in Nat /\ bonds.cast[u].worn \subseteq Pieces
  /\ bonds.rank \in 0..Len(LinkRow) /\ Len(sent) <= Unread

NumbersInv == TapInv /\ SheetInv /\ NumbersHold

LEMMA KarmaConsts ==
  /\ KarmaMax \in Nat \ {0} /\ KarmaNext \in [1..(KarmaMax - 1) -> Nat \ {0}]
  /\ SupportMost \in Nat /\ Unread \in Nat
BY BondAssumption, Zenon DEF BondAssumption

LEMMA PresentConsts ==
  /\ PresentRow \in [Presents -> [base : Nat, taste : Nat, held : Nat]]
  /\ IsFiniteSet(Presents) /\ FirstRate \in Nat /\ SecondRate \in Nat
BY BondAssumption, Zenon DEF BondAssumption

LEMMA SceneConsts ==
  /\ \A g \in DOMAIN Tier : Tier[g] \in Nat \ {0}
  /\ Decision \in [Situations \X Answers -> DOMAIN Tier]
  /\ \A c \in DOMAIN ChapterGirl : ChapterGirl[c] \in Girls
  /\ NoGirl \in Girls
BY BondAssumption, Zenon DEF BondAssumption

LEMMA PieceConsts ==
  /\ PieceRow \in [Pieces -> [init : Nat, up : Nat, lv : Nat, percent : Nat, set : DOMAIN SetRow]]
  /\ SetRow \in [DOMAIN SetRow -> [1..2 -> [number : 0..6, value : Nat]]]
  /\ IsFiniteSet(Pieces) /\ IsFiniteSet(DOMAIN SetRow)
  /\ LinkRow \in Seq([sum : Nat, stat : Nat])
BY BondAssumption, Zenon DEF BondAssumption

LEMMA GirlConsts ==
  /\ GirlRow \in [Girls -> GirlRows] /\ GirlOf \in [Copies -> Girls]
  /\ RungOf \in [Girls -> Seq(Nat)] /\ \A g \in Girls : RungOf[g] # <<>> /\ RungOf[g][1] > 0
  /\ StartCast \in [Copies -> [lv : Nat \ {0}, star : Nat, ex : Nat, limit : Nat,
                               worn : SUBSET Pieces]]
  /\ \A g \in Girls : IsFiniteSet(GirlRow[g].karma) /\ IsFiniteSet(GirlRow[g].limit)
BY BondAssumption, Zenon DEF BondAssumption

(* The rungs of Karma.                                                     *)
LEMMA CostOfNone == ASSUME NEW from \in Nat PROVE Cost(from, from) = 0
<1>1. from..(from - 1) = {}
  OBVIOUS
<1> QED BY <1>1, SumEmpty, Zenon DEF Cost

LEMMA CostOfOneMore ==
  ASSUME NEW from \in 1..KarmaMax, NEW to \in from..(KarmaMax - 1)
  PROVE  /\ Cost(from, to) \in Nat
         /\ Cost(from, to + 1) = Cost(from, to) + KarmaNext[to]
<1> DEFINE below == from..(to - 1)
           upto == from..((to + 1) - 1)
<1>1. IsFiniteSet(below)
  BY KarmaConsts, FS_Interval
<1>2. \A r \in below : KarmaNext[r] \in Nat /\ KarmaNext[r] \in Int
  BY KarmaConsts
<1>3. to \notin below /\ KarmaNext[to] \in Int /\ upto = below \cup {to}
  BY KarmaConsts
<1>4. Cost(from, to) = SumFunctionOnSet(KarmaNext, below)
      /\ Cost(from, to + 1) = SumFunctionOnSet(KarmaNext, upto)
  BY DEF Cost
<1> HIDE DEF below, upto
<1>5. SumFunctionOnSet(KarmaNext, below) \in Nat
  BY <1>1, <1>2, SumNat
<1>6. SumFunctionOnSet(KarmaNext, below \cup {to}) = SumFunctionOnSet(KarmaNext, below) + KarmaNext[to]
  BY <1>1, <1>2, <1>3, SumAdd
<1> QED BY <1>3, <1>4, <1>5, <1>6

LEMMA ClimbedSound ==
  ASSUME NEW k, KarmaSound(k), NEW xp \in Nat
  PROVE  KarmaSound(Climbed(k, xp))
<1> DEFINE low == k.flv
           points == k.fxp + xp
           within == Payable(k, xp)
           top == Max(within)
           rest == IF top = KarmaMax THEN 0 ELSE k.fxp + xp - Cost(k.flv, top)
<1>1. /\ k.flv \in 1..KarmaMax /\ k.fxp \in Nat /\ points \in Nat
      /\ KarmaMax \in Nat \ {0}
  BY KarmaConsts DEF KarmaSound
<1>0. within = {r \in k.flv..KarmaMax : Cost(k.flv, r) <= points}
  BY DEF Payable
<1> HIDE DEF within
<1>2. k.flv \in within
  BY <1>0, <1>1, CostOfNone
<1>3. within \subseteq Nat /\ IsFiniteSet(within)
  <2>1. low \in Int /\ KarmaMax \in Int
    BY <1>1
  <2>3. IsFiniteSet(low..KarmaMax)
    <3> HIDE DEF low
    <3> QED BY <2>1, FS_Interval
  <2>2. within \subseteq k.flv..KarmaMax /\ k.flv..KarmaMax \subseteq Nat
    BY <1>0, <1>1
  <2> QED BY <2>2, <2>3, FS_Subset
<1>4. top \in within /\ \A r \in within : r <= top
  BY <1>2, <1>3, MaxIsGreatest
<1>5. Climbed(k, xp) = [flv |-> top, fxp |-> rest]
  BY DEF Climbed, within
<1> HIDE DEF top
<1>6. top \in k.flv..KarmaMax /\ top \in 1..KarmaMax /\ Cost(k.flv, top) <= points
  BY <1>0, <1>1, <1>4
<1>7. CASE top = KarmaMax
  BY <1>1, <1>5, <1>6, <1>7 DEF KarmaSound
<1>8. CASE top # KarmaMax
  <2>1. top \in k.flv..(KarmaMax - 1) /\ top + 1 \in k.flv..KarmaMax /\ ~(top + 1 <= top)
    BY <1>1, <1>6, <1>8
  <2>2. top + 1 \notin within
    BY <1>4, <2>1
  <2>3. ~(Cost(k.flv, top + 1) <= points)
    BY <1>0, <2>1, <2>2
  <2>4. /\ Cost(k.flv, top) \in Nat /\ Cost(k.flv, top + 1) = Cost(k.flv, top) + KarmaNext[top]
        /\ KarmaNext[top] \in Nat
    BY <1>1, <2>1, CostOfOneMore, KarmaConsts
  <2>5. points - Cost(k.flv, top) \in Nat /\ points - Cost(k.flv, top) < KarmaNext[top]
    BY <1>1, <1>6, <2>3, <2>4
  <2>6. rest = points - Cost(k.flv, top)
    BY <1>1, <1>8, <2>4
  <2> HIDE DEF rest
  <2> QED BY <1>5, <1>6, <1>8, <2>5, <2>6 DEF KarmaSound
<1> QED BY <1>7, <1>8

LEMMA BasketXpIsNumber ==
  ASSUME NEW g \in Girls, NEW basket \in Baskets
  PROVE  BasketXp(g, basket) \in Nat
<1> DEFINE xp == [p \in Kinds(basket) |-> basket[p] * PresentXp(g, p)]
<1>1. Kinds(basket) \subseteq Presents /\ IsFiniteSet(Kinds(basket))
  BY PresentConsts, FS_Subset DEF Kinds
<1>2. ASSUME NEW p \in Kinds(basket) PROVE xp[p] \in Nat
  <2>1. basket[p] \in Nat
    BY <1>1 DEF Baskets
  <2>2. PresentXp(g, p) \in Nat
    <3>1. p \in Presents /\ PresentRow[p].base \in Nat
      BY <1>1, PresentConsts
    <3>2. \E rate \in {FirstRate, SecondRate, 1} : PresentXp(g, p) = PresentRow[p].base * rate
      BY DEF PresentXp
    <3>3. FirstRate \in Nat /\ SecondRate \in Nat
      BY PresentConsts
    <3> QED BY <3>1, <3>2, <3>3
  <2> QED BY <2>1, <2>2
<1>3. DOMAIN xp = Kinds(basket) /\ BasketXp(g, basket) = SumFunctionOnSet(xp, DOMAIN xp)
  BY DEF BasketXp, SumFunction
<1> HIDE DEF xp
<1> QED BY <1>1, <1>2, <1>3, SumNat

LEMMA SceneRewards ==
  ASSUME NEW s \in Situations, NEW o \in Answers
  PROVE  KarmaReward(s, o) \in Nat /\ KarmaGirl(s) \in Girls
<1>1. Grade(s, o) \in DOMAIN Tier
  <2>1. Decision[<<s, o>>] \in DOMAIN Tier
    BY SceneConsts
  <2>2. ASSUME \E g \in DOMAIN Tier : Tier[g] = Seen[<<s, o>>]
        PROVE  (CHOOSE g \in DOMAIN Tier : Tier[g] = Seen[<<s, o>>]) \in DOMAIN Tier
    BY <2>2
  <2> QED BY <2>1, <2>2 DEF Grade
<1>2. KarmaReward(s, o) \in Nat
  BY <1>1, SceneConsts DEF KarmaReward
<1>3. KarmaGirl(s) \in Girls
  BY SceneConsts DEF KarmaGirl
<1> QED BY <1>2, <1>3

LEMMA BookRankInRange ==
  ASSUME NEW sum
  PROVE  BookRankFor(sum) \in 0..Len(LinkRow)
<1> DEFINE reached == {r \in 0..Len(LinkRow) : \A i \in 1..r : LinkRow[i].sum <= sum}
           top == Len(LinkRow)
<1>1. top \in Nat
  BY PieceConsts
<1>2. IsFiniteSet(0..top)
  <2> HIDE DEF top
  <2> QED BY <1>1, FS_Interval
<1>3. 0 \in reached
  BY <1>1
<1>4. reached \subseteq 0..top /\ reached \subseteq Nat
  BY <1>1
<1>5. IsFiniteSet(reached)
  BY <1>2, <1>4, FS_Subset
<1>6. BookRankFor(sum) = Max(reached)
  BY DEF BookRankFor
<1> HIDE DEF reached
<1>7. Max(reached) \in reached
  BY <1>3, <1>4, <1>5, MaxIsGreatest
<1> QED BY <1>4, <1>6, <1>7

(* The sums of a sheet.                                                    *)
LEMMA ReachedIsNumber ==
  ASSUME NEW ladder, IsFiniteSet(ladder), ladder \subseteq Nat \X Nat, NEW level
  PROVE  Reached(ladder, level) \in Int
<1> DEFINE met == {q \in ladder : q[1] <= level}
           pays == [r \in met |-> r[2]]
<1>1. met \subseteq ladder
  OBVIOUS
<1>2. IsFiniteSet(met)
  BY <1>1, FS_Subset
<1>3. \A r \in met : pays[r] \in Int
  OBVIOUS
<1>4. DOMAIN pays = met /\ Reached(ladder, level) = SumFunctionOnSet(pays, DOMAIN pays)
  BY DEF Reached, SumFunction
<1> HIDE DEF met, pays
<1> QED BY <1>2, <1>3, <1>4, SumType

LEMMA SetBonusIsNumber ==
  ASSUME NEW s \in DOMAIN SetRow, NEW n \in Nat
  PROVE  SetBonus(s, n) \in Int
<1>1. ASSUME NEW e \in [number : 0..6, value : Nat], NEW left \in Int PROVE Times(e, left) \in Int
  <2>1. CASE e.number = 0 \/ left < e.number
    BY <2>1 DEF Times
  <2>2. CASE e.number # 0 /\ ~(left < e.number)
    <3> DEFINE a == 6 \div e.number
               b == (left - e.number) \div 2 + 1
    <3>1. e.number \in 1..6
      BY <2>2
    <3>2. a \in Nat
      BY <3>1
    <3>3. b \in Nat
      BY <2>2, <3>1
    <3>4. Times(e, left) = Min({a, b})
      BY <2>2 DEF Times, Least
    <3> HIDE DEF a, b
    <3>5. Min({a, b}) \in {a, b}
      BY <3>2, <3>3 DEF Min
    <3> QED BY <3>2, <3>3, <3>4, <3>5
  <2> QED BY <2>1, <2>2
<1> DEFINE one == SetRow[s][1]
           two == SetRow[s][2]
           first == Times(one, n)
           second == Times(two, n - 2 * first)
<1>2. one \in [number : 0..6, value : Nat] /\ two \in [number : 0..6, value : Nat]
  BY PieceConsts
<1>3. SetBonus(s, n) = one.value * first + two.value * second
  BY DEF SetBonus
<1>4. one.value \in Nat /\ two.value \in Nat
  BY <1>2
<1> HIDE DEF one, two
<1>5. first \in Int
  BY <1>1, <1>2
<1>6. n - 2 * first \in Int
  BY <1>5
<1>7. second \in Int
  BY <1>1, <1>2, <1>6
<1> HIDE DEF first, second
<1> QED BY <1>3, <1>4, <1>5, <1>7

LEMMA GearIsNumber ==
  ASSUME NEW worn, worn \subseteq Pieces, NEW base \in Int
  PROVE  GearBonus(worn, base) \in Int
<1> DEFINE flat == [p \in worn |-> Flat(p)]
           set == [s \in DOMAIN SetRow |-> SetBonus(s, Cardinality(OfSet(worn, s)))]
           percent == [p \in worn |-> PieceRow[p].percent]
<1>1. IsFiniteSet(worn) /\ IsFiniteSet(DOMAIN SetRow)
  BY PieceConsts, FS_Subset
<1>2. \A p \in worn : Flat(p) \in Int /\ PieceRow[p].percent \in Int
  BY PieceConsts DEF Flat
<1>3. ASSUME NEW s \in DOMAIN SetRow PROVE set[s] \in Int
  <2>1. OfSet(worn, s) \subseteq worn
    BY DEF OfSet
  <2>2. Cardinality(OfSet(worn, s)) \in Nat
    BY <1>1, <2>1, FS_Subset, FS_CardinalityType
  <2> QED BY <2>2, SetBonusIsNumber
<1>4. \A p \in worn : flat[p] \in Int /\ percent[p] \in Int
  BY <1>2
<1>5. /\ DOMAIN flat = worn /\ DOMAIN set = DOMAIN SetRow /\ DOMAIN percent = worn
      /\ Totals(worn) = [flat |-> SumFunctionOnSet(flat, DOMAIN flat)
                                  + SumFunctionOnSet(set, DOMAIN set),
                         percent |-> SumFunctionOnSet(percent, DOMAIN percent)]
  BY DEF Totals, SumFunction
<1> HIDE DEF flat, set, percent
<1>6. /\ SumFunctionOnSet(flat, worn) \in Int /\ SumFunctionOnSet(percent, worn) \in Int
      /\ SumFunctionOnSet(set, DOMAIN SetRow) \in Int
  BY <1>1, <1>3, <1>4, SumType
<1>7. Totals(worn).flat \in Int /\ Totals(worn).percent \in Int
  BY <1>5, <1>6
<1>8. base * Totals(worn).percent \in Int
  BY <1>7
<1> QED BY <1>7, <1>8 DEF GearBonus

LEMMA SheetsAreNumbers ==
  ASSUME NumbersInv, NEW u \in Copies
  PROVE  SumsAreNumbers(u)
<1> DEFINE g == GirlOf[u]
<1>1. /\ g \in Girls /\ GirlRow[g] \in GirlRows
      /\ IsFiniteSet(GirlRow[g].karma) /\ IsFiniteSet(GirlRow[g].limit)
  BY GirlConsts
<1>2. /\ GirlRow[g].karma \subseteq Nat \X Nat /\ GirlRow[g].limit \subseteq Nat \X Nat
      /\ GirlRow[g].step \in Nat
  BY <1>1 DEF GirlRows
<1>3. Consonance(u) \in Int /\ SkillUpBonus(u) \in Int
  BY <1>1, <1>2, ReachedIsNumber DEF Consonance, SkillUpBonus
<1>4. bonds.cast[u].lv \in Nat /\ bonds.cast[u].worn \subseteq Pieces
      /\ bonds.rank \in 0..Len(LinkRow)
  BY DEF NumbersInv, NumbersHold
<1>5. Grown(u) \in Int
  <2> DEFINE i == StarOf(u) + bonds.cast[u].ex
  <2>1. RungOf[g] \in Seq(Nat) /\ RungOf[g] # <<>>
    BY <1>1, GirlConsts
  <2>2. \A j \in DOMAIN RungOf[g] : RungOf[g][j] \in Nat
    BY <2>1
  <2>3. 1 \in DOMAIN RungOf[g]
    BY <2>1
  <2> HIDE DEF g, i
  <2>4. Rung(g, i) \in Nat
    BY <2>2, <2>3 DEF Rung
  <2>5. Grown(u) = Rung(g, i) + GirlRow[g].step * (bonds.cast[u].lv - 1)
    BY DEF Grown, g, i
  <2> DEFINE step == GirlRow[g].step
             lv == bonds.cast[u].lv - 1
  <2>6. step \in Int /\ lv \in Int
    BY <1>2, <1>4
  <2> HIDE DEF step, lv
  <2>7. step * lv \in Int
    BY <2>6
  <2>8. Rung(g, i) + step * lv \in Int
    BY <2>4, <2>7
  <2> QED BY <2>5, <2>8 DEF step, lv
<1>6. LinkBonus(bonds.rank) \in Int
  <2>1. LinkRow \in Seq([sum : Nat, stat : Nat])
    BY PieceConsts
  <2>2. bonds.rank # 0 => bonds.rank \in DOMAIN LinkRow
    BY <1>4, <2>1
  <2>3. ASSUME NEW r \in DOMAIN LinkRow PROVE LinkRow[r].stat \in Int
    <3> DEFINE Row == [sum : Nat, stat : Nat]
    <3>1. LinkRow[r] \in Row
      <4>1. LinkRow \in Seq(Row)
        BY <2>1
      <4> HIDE DEF Row
      <4> QED BY <4>1
    <3> QED BY <3>1
  <2> QED BY <2>2, <2>3 DEF LinkBonus
<1>7. GearBonus(bonds.cast[u].worn, Grown(u)) \in Int
  BY <1>4, <1>5, GearIsNumber
<1> QED BY <1>3, <1>5, <1>6, <1>7 DEF SumsAreNumbers

(* Every step keeps the numbers.                                           *)
LEMMA KarmaMoves ==
  ASSUME NumbersInv, NEW g \in Girls, NEW xp \in Nat,
         bonds'.karma = [bonds.karma EXCEPT ![g] = Climbed(bonds.karma[g], xp)]
  PROVE  \A h \in Girls : KarmaSound(bonds'.karma[h])
<1> DEFINE k == Climbed(bonds.karma[g], xp)
<1>1. DOMAIN bonds.karma = Girls /\ \A h \in Girls : KarmaSound(bonds.karma[h])
  BY DEF NumbersInv, NumbersHold, SheetInv, SheetShape
<1>2. KarmaSound(k)
  BY <1>1, ClimbedSound
<1> HIDE DEF k
<1>3. bonds'.karma = [bonds.karma EXCEPT ![g] = k]
  BY DEF k
<1>4. \A h \in Girls : bonds'.karma[h] = IF h = g THEN k ELSE bonds.karma[h]
  BY <1>1, <1>3
<1> QED BY <1>1, <1>2, <1>4

LEMMA NumbersAside ==
  ASSUME NumbersInv, bonds'.karma = bonds.karma, bonds'.set = bonds.set,
         bonds'.cast = bonds.cast, bonds'.rank = bonds.rank, Len(sent') <= Unread
  PROVE  NumbersHold'
BY DEF NumbersInv, NumbersHold, KarmaSound

LEMMA NumbersGive ==
  ASSUME NumbersInv, NEW g \in Girls, NEW basket \in Baskets, Give(g, basket)
  PROVE  NumbersHold'
<1> DEFINE xp == BasketXp(g, basket)
           k == Climbed(bonds.karma[g], xp)
           bag == [p \in Presents |-> bonds.bag[p] - basket[p]]
<1>1. bonds' = [[bonds EXCEPT !.karma[g] = k] EXCEPT !.bag = bag] /\ UNCHANGED sent
  BY DEF Give
<1> HIDE DEF k, bag
<1>2. /\ bonds'.karma = [bonds.karma EXCEPT ![g] = k]
      /\ bonds'.set = bonds.set /\ bonds'.cast = bonds.cast /\ bonds'.rank = bonds.rank
  BY <1>1 DEF NumbersInv, SheetInv, SheetShape
<1>3. xp \in Nat
  BY BasketXpIsNumber
<1>4. \A h \in Girls : KarmaSound(bonds'.karma[h])
  BY <1>2, <1>3, KarmaMoves DEF k
<1> QED BY <1>1, <1>2, <1>4 DEF NumbersInv, NumbersHold, KarmaSound

LEMMA NumbersEquip ==
  ASSUME NumbersInv, NEW g \in Girls, NEW rows, KizunaSet(g, rows)
  PROVE  NumbersHold'
<1>1. /\ bonds'.set = [bonds.set EXCEPT ![g] = Equipped(g, rows)] /\ UNCHANGED sent
      /\ bonds'.karma = bonds.karma /\ bonds'.cast = bonds.cast /\ bonds'.rank = bonds.rank
  BY DEF KizunaSet, NumbersInv, SheetInv, SheetShape
<1>2. DOMAIN bonds.set = Girls /\ \A h \in Girls : Cardinality(bonds.set[h]) <= SupportMost
  BY DEF NumbersInv, NumbersHold
<1>3. Cardinality(Equipped(g, rows)) <= SupportMost
  BY <1>2 DEF Equipped
<1>4. \A h \in Girls : bonds'.set[h] = IF h = g THEN Equipped(g, rows) ELSE bonds.set[h]
  BY <1>1, <1>2
<1>5. DOMAIN bonds'.set = Girls /\ \A h \in Girls : Cardinality(bonds'.set[h]) <= SupportMost
  BY <1>1, <1>2, <1>3, <1>4
<1> QED BY <1>1, <1>5 DEF NumbersInv, NumbersHold, KarmaSound

LEMMA NumbersCast ==
  ASSUME NumbersInv, bonds'.karma = bonds.karma, bonds'.set = bonds.set,
         bonds'.rank = bonds.rank, UNCHANGED sent,
         \A u \in Copies : bonds'.cast[u].lv \in Nat /\ bonds'.cast[u].worn \subseteq Pieces
  PROVE  NumbersHold'
BY DEF NumbersInv, NumbersHold, KarmaSound

LEMMA NumbersGrow ==
  ASSUME NumbersInv, NEW u \in Copies, NEW e, e.lv \in Nat, e.worn = bonds.cast[u].worn, Grow(u, e)
  PROVE  NumbersHold'
<1>1. /\ bonds'.cast = [bonds.cast EXCEPT ![u] = e] /\ UNCHANGED sent
      /\ bonds'.karma = bonds.karma /\ bonds'.set = bonds.set /\ bonds'.rank = bonds.rank
  BY DEF Grow, NumbersInv, SheetInv, SheetShape
<1>2. DOMAIN bonds.cast = Copies
      /\ \A v \in Copies : bonds.cast[v].lv \in Nat /\ bonds.cast[v].worn \subseteq Pieces
  BY DEF NumbersInv, NumbersHold, SheetInv, SheetShape
<1>3. \A v \in Copies : bonds'.cast[v] = IF v = u THEN e ELSE bonds.cast[v]
  BY <1>1, <1>2
<1> QED BY <1>1, <1>2, <1>3, NumbersCast

LEMMA NumbersDress ==
  ASSUME NumbersInv, NEW u \in Copies, NEW pieces \in SUBSET Pieces, Dress(u, pieces)
  PROVE  NumbersHold'
<1> DEFINE worn(v) == IF v = u THEN pieces ELSE bonds.cast[v].worn \ pieces
<1>1. /\ bonds'.cast = [v \in Copies |-> [bonds.cast[v] EXCEPT !.worn = worn(v)]] /\ UNCHANGED sent
      /\ bonds'.karma = bonds.karma /\ bonds'.set = bonds.set /\ bonds'.rank = bonds.rank
  BY DEF Dress, NumbersInv, SheetInv, SheetShape
<1>2. ASSUME NEW v \in Copies
      PROVE  bonds'.cast[v].lv \in Nat /\ bonds'.cast[v].worn \subseteq Pieces
  <2>1. /\ DOMAIN bonds.cast[v] = CastFields /\ bonds.cast[v].lv \in Nat
        /\ bonds.cast[v].worn \subseteq Pieces
    BY DEF NumbersInv, NumbersHold, SheetInv, SheetShape
  <2>2. worn(v) \subseteq Pieces
    BY <2>1
  <2> HIDE DEF worn
  <2>3. bonds'.cast[v] = [bonds.cast[v] EXCEPT !.worn = worn(v)]
    BY <1>1
  <2> QED BY <2>1, <2>2, <2>3 DEF CastFields
<1> QED BY <1>1, <1>2, NumbersCast

LEMMA NumbersLimits ==
  ASSUME NumbersInv,
         \/ \E u \in Copies : LimitUp(u)
         \/ \E u, out \in Copies : LimitImpart(u, out)
  PROVE  NumbersHold'
<1>1. /\ bonds'.karma = bonds.karma /\ bonds'.set = bonds.set /\ bonds'.rank = bonds.rank
      /\ UNCHANGED sent
  BY DEF LimitUp, LimitImpart, NumbersInv, SheetInv, SheetShape
<1>2. ASSUME NEW v \in Copies
      PROVE  bonds'.cast[v].lv = bonds.cast[v].lv /\ bonds'.cast[v].worn = bonds.cast[v].worn
  <2>0. /\ DOMAIN bonds.cast = Copies /\ \A u \in Copies : DOMAIN bonds.cast[u] = CastFields
        /\ "cast" \in DOMAIN bonds
    BY DEF NumbersInv, SheetInv, SheetShape
  <2>1. ASSUME NEW u \in Copies, LimitUp(u)
        PROVE  bonds'.cast[v].lv = bonds.cast[v].lv /\ bonds'.cast[v].worn = bonds.cast[v].worn
    BY <2>0, <2>1 DEF LimitUp, CastFields
  <2>2. ASSUME NEW u \in Copies, NEW out \in Copies, LimitImpart(u, out)
        PROVE  bonds'.cast[v].lv = bonds.cast[v].lv /\ bonds'.cast[v].worn = bonds.cast[v].worn
    <3> DEFINE one == [bonds.cast EXCEPT ![u].limit = @ + 1]
               two == [one EXCEPT ![out].limit = @ - 1]
    <3>1. bonds'.cast = two
      BY <2>0, <2>2 DEF LimitImpart
    <3>2. /\ DOMAIN one = Copies /\ DOMAIN one[v] = CastFields
          /\ one[v].lv = bonds.cast[v].lv /\ one[v].worn = bonds.cast[v].worn
      BY <2>0 DEF CastFields
    <3> HIDE DEF one
    <3>3. two[v].lv = one[v].lv /\ two[v].worn = one[v].worn
      BY <3>2 DEF CastFields
    <3> QED BY <3>1, <3>2, <3>3
  <2> QED BY <2>1, <2>2
<1> QED BY <1>1, <1>2, NumbersCast DEF NumbersInv, NumbersHold

LEMMA NumbersHandled ==
  ASSUME NumbersInv, Handle
  PROVE  NumbersHold'
<1>1. /\ sent # <<>> /\ sent' = Tail(sent) /\ sent \in Seq(Requests)
      /\ Len(sent) <= Unread /\ Unread \in Nat
  BY KarmaConsts DEF Handle, NumbersInv, NumbersHold, TapInv, TapShape
<1>2. Len(sent') <= Unread
  BY <1>1
<1>3. 1 \in DOMAIN sent /\ Head(sent) = sent[1] /\ sent[1] \in Requests
  BY <1>1, TailFacts, RequestFacts
<1>4. CASE sent[1].kind = "answer"
  <2> DEFINE s == sent[1].row
             o == sent[1].n
             g == KarmaGirl(s)
             xp == KarmaReward(s, o)
  <2>1. s \in Situations /\ o \in Answers /\ AvgChoice(s, o)
    BY <1>3, <1>4 DEF Handle, Requests
  <2>2. g \in Girls /\ xp \in Nat
    BY <2>1, SceneRewards
  <2>3. CASE FirstTime(s)
    <3> DEFINE k == Climbed(bonds.karma[g], xp)
               mid == [bonds EXCEPT !.chosen[s][bonds.difficulty] = o]
    <3> HIDE DEF s, o
    <3>1. bonds' = [mid EXCEPT !.karma[g] = Climbed(mid.karma[g], xp)]
      BY <2>1, <2>3 DEF AvgChoice
    <3>2. DOMAIN mid = DOMAIN bonds /\ mid.karma = bonds.karma /\ mid.set = bonds.set
          /\ mid.cast = bonds.cast /\ mid.rank = bonds.rank
      BY DEF NumbersInv, SheetInv, SheetShape
    <3> HIDE DEF mid, g, xp
    <3>3. /\ bonds'.karma = [bonds.karma EXCEPT ![g] = Climbed(bonds.karma[g], xp)]
          /\ bonds'.set = bonds.set /\ bonds'.cast = bonds.cast /\ bonds'.rank = bonds.rank
      BY <3>1, <3>2 DEF NumbersInv, SheetInv, SheetShape
    <3>4. \A h \in Girls : KarmaSound(bonds'.karma[h])
      BY <2>2, <3>3, KarmaMoves
    <3> QED BY <1>2, <3>3, <3>4 DEF NumbersInv, NumbersHold, KarmaSound
  <2>4. CASE ~FirstTime(s)
    BY <1>2, <2>1, <2>4, NumbersAside DEF AvgChoice
  <2> QED BY <2>3, <2>4
<1>5. CASE sent[1].kind # "answer"
  <2>1. \E g, r, n : KizunaLvUp(g, r, n)
    BY <1>3, <1>5 DEF Handle
  <2>2. /\ bonds'.karma = bonds.karma /\ bonds'.set = bonds.set
        /\ bonds'.cast = bonds.cast /\ bonds'.rank = bonds.rank
    BY <2>1 DEF KizunaLvUp, NumbersInv, SheetInv, SheetShape
  <2> QED BY <1>2, <2>2, NumbersAside
<1> QED BY <1>4, <1>5

LEMMA NumbersInit == BondInit => NumbersHold
<1> SUFFICES ASSUME BondInit PROVE NumbersHold
  OBVIOUS
<1>1. /\ bonds.karma = [g \in Girls |-> [flv |-> 1, fxp |-> 0]] /\ bonds.cast = StartCast
      /\ bonds.set = [g \in Girls |-> {}] /\ bonds.rank = 0 /\ sent = <<>>
  BY DEF BondInit
<1>2. KarmaSound([flv |-> 1, fxp |-> 0])
  BY KarmaConsts DEF KarmaSound
<1>3. \A g \in Girls : KarmaSound(bonds.karma[g]) /\ Cardinality(bonds.set[g]) <= SupportMost
  BY <1>1, <1>2, KarmaConsts, FS_EmptySet
<1>4. \A u \in Copies : StartCast[u].lv \in Nat /\ StartCast[u].worn \subseteq Pieces
  BY GirlConsts
<1>5. Len(LinkRow) \in Nat /\ Len(sent) = 0 /\ Unread \in Nat
  BY <1>1, PieceConsts, KarmaConsts
<1> QED BY <1>1, <1>3, <1>4, <1>5 DEF NumbersHold

LEMMA NumbersStep == NumbersInv /\ [BondNext]_bondVars => NumbersHold'
<1> SUFFICES ASSUME NumbersInv, [BondNext]_bondVars PROVE NumbersHold'
  OBVIOUS
<1>a. Len(sent) <= Unread /\ sent \in Seq(Requests) /\ Unread \in Nat
  BY KarmaConsts DEF NumbersInv, NumbersHold, TapInv, TapShape
<1>0. CASE UNCHANGED bondVars
  BY <1>0, <1>a, NumbersAside DEF bondVars
<1>1. ASSUME NEW g \in Girls, NEW basket \in Baskets, Give(g, basket) PROVE NumbersHold'
  BY <1>1, NumbersGive
<1>2. ASSUME NEW g \in Girls, NEW rows \in SUBSET Supports, KizunaSet(g, rows) PROVE NumbersHold'
  BY <1>2, NumbersEquip
<1>3. ASSUME NEW g \in Girls, NEW r \in Supports, TapSupport(g, r) PROVE NumbersHold'
  <2>1. UNCHANGED bonds /\ Len(sent') <= Unread
    BY <1>3, <1>a DEF TapSupport
  <2> QED BY <2>1, NumbersAside
<1>4. ASSUME NEW u \in Copies, NEW pieces \in SUBSET Pieces, Dress(u, pieces) PROVE NumbersHold'
  BY <1>4, NumbersDress
<1>5. ASSUME NEW u \in Copies,
             NEW e \in {[bonds.cast[u] EXCEPT !.lv = @ + 1], [bonds.cast[u] EXCEPT !.ex = @ + 1],
                        [bonds.cast[u] EXCEPT !.star = StarOf(u) + 1]},
             Grow(u, e)
      PROVE  NumbersHold'
  <2>1. DOMAIN bonds.cast[u] = CastFields /\ bonds.cast[u].lv \in Nat
    BY DEF NumbersInv, NumbersHold, SheetInv, SheetShape
  <2>2. e.lv \in Nat /\ e.worn = bonds.cast[u].worn
    BY <2>1 DEF CastFields
  <2> QED BY <1>5, <2>2, NumbersGrow
<1>6. CASE (\E u \in Copies : LimitUp(u)) \/ (\E u, out \in Copies : LimitImpart(u, out))
  BY <1>6, NumbersLimits
<1>7. CASE BookRankUp
  <2>1. /\ bonds'.rank \in 0..Len(LinkRow) /\ UNCHANGED sent
        /\ bonds'.karma = bonds.karma /\ bonds'.set = bonds.set /\ bonds'.cast = bonds.cast
    BY <1>7, BookRankInRange DEF BookRankUp, NumbersInv, SheetInv, SheetShape
  <2> QED BY <2>1 DEF NumbersInv, NumbersHold, KarmaSound
<1>8. CASE SyncIdData
  BY <1>8, <1>a, NumbersAside DEF SyncIdData
<1>9. CASE Handle
  BY <1>9, NumbersHandled
<1>10. CASE Reenter
  <2>1. UNCHANGED bonds /\ Len(sent') = 0
    BY <1>10 DEF Reenter
  <2> QED BY <1>a, <2>1, NumbersAside
<1>11. ASSUME NEW d \in Difficulties, EnterStage(d) PROVE NumbersHold'
  <2>1. /\ bonds'.karma = bonds.karma /\ bonds'.set = bonds.set
        /\ bonds'.cast = bonds.cast /\ bonds'.rank = bonds.rank /\ UNCHANGED sent
    BY <1>11 DEF EnterStage, NumbersInv, SheetInv, SheetShape
  <2> QED BY <1>a, <2>1, NumbersAside
<1>12. ASSUME NEW s \in Situations, AvgSync(s) PROVE NumbersHold'
  BY <1>12, <1>a, NumbersAside DEF AvgSync
<1>13. ASSUME NEW o \in Answers, TapAnswer(o) PROVE NumbersHold'
  <2>1. UNCHANGED bonds /\ Len(sent') <= Unread
    BY <1>13, <1>a DEF TapAnswer
  <2> QED BY <2>1, NumbersAside
<1> QED
  BY <1>0, <1>1, <1>2, <1>3, <1>4, <1>5, <1>6, <1>7, <1>8, <1>9, <1>10, <1>11, <1>12, <1>13
  DEF BondNext

(* Karma, the supports and the Soul Link keep their limits, and the lobby  *)
(* shows what a fight will use: after every step, of any connection, the   *)
(* sheet, the gear deltas and the rank the client holds add up to the unit *)
(* a fight is built from, for any casts, ladders, pieces and presents      *)
(* (_char_data_json, _annotate_gear, grant_karma, give_gifts,              *)
(* char_limit_up, char_book_rank_up, stage_avg_choice).                    *)
THEOREM FightsSafe == BondSpec => []FightsAsShown
<1>1. BondInit => NumbersInv
  BY TapInit, SheetInit, NumbersInit DEF NumbersInv
<1>2. NumbersInv /\ [BondNext]_bondVars => NumbersInv'
  BY TapStep, SheetStep, NumbersStep DEF NumbersInv
<1>3. NumbersInv => FightsAsShown
  <2> SUFFICES ASSUME NumbersInv PROVE FightsAsShown
    OBVIOUS
  <2>1. BondTypeOK
    <3>1. ASSUME NEW g \in Girls
          PROVE  /\ bonds.karma[g].flv \in 1..KarmaMax
                 /\ bonds.karma[g].flv < KarmaMax
                    => bonds.karma[g].fxp \in 0..(KarmaNext[bonds.karma[g].flv] - 1)
                 /\ bonds.karma[g].flv = KarmaMax => bonds.karma[g].fxp = 0
                 /\ Cardinality(bonds.set[g]) <= SupportMost
      <4> DEFINE k == bonds.karma[g]
      <4>1. KarmaSound(k) /\ Cardinality(bonds.set[g]) <= SupportMost
        BY DEF NumbersInv, NumbersHold
      <4> HIDE DEF k
      <4>2. k.flv \in 1..KarmaMax /\ k.fxp \in Nat
        BY <4>1 DEF KarmaSound
      <4>3. k.flv < KarmaMax => k.fxp < KarmaNext[k.flv] /\ KarmaNext[k.flv] \in Nat
        BY <4>1, <4>2, KarmaConsts DEF KarmaSound
      <4>4. k.flv < KarmaMax => k.fxp \in 0..(KarmaNext[k.flv] - 1)
        BY <4>2, <4>3
      <4> QED BY <4>1, <4>2, <4>4 DEF KarmaSound, k
    <3> QED BY <3>1 DEF BondTypeOK, NumbersInv, NumbersHold
  <2>2. \A u \in Copies \ behind : FoughtAsShown(u)
    BY SheetsAreNumbers, SheetSuffices DEF NumbersInv
  <2> QED BY <2>1, <2>2 DEF FightsAsShown
<1> QED BY <1>1, <1>2, <1>3, PTL DEF BondSpec

-----------------------------------------------------------------------------
(* A behaviour of the lobby is at the counters or in a room, and either    *)
(* takes its own steps: what holds of Market and of Bonds holds of the     *)
(* pair that is model-checked.                                             *)
THEOREM EachPlaceAlone == LobbySpec => Spec /\ BondSpec
<1>1. LobbyInit => Init /\ BondInit
  BY DEF LobbyInit
<1>2. [LobbyNext]_lobbyVars => [Next]_vars /\ [BondNext]_bondVars
  BY DEF LobbyNext, lobbyVars
<1> QED BY <1>1, <1>2, PTL DEF LobbySpec, Spec, BondSpec

=============================================================================
