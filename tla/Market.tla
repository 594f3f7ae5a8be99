------------------------------- MODULE Market -------------------------------
(***************************************************************************)
(* The counters where an account spends: the shops, the summoning banners  *)
(* and the wheel (player_state/shop.py, gacha.py, roulette.py and their    *)
(* handlers).  One account, the copy its connection works on, the copy of  *)
(* the last save, and a clock that counts days of the 4AM boundary.        *)
(*                                                                         *)
(* `now` is a number of 4AM days.  A cycle of c days starts at the         *)
(* multiples of c, which is what next_reset_time computes for a day and    *)
(* for a week; a month is a longer cycle.  Money amounts are scaled.       *)
(***************************************************************************)
EXTENDS Purse, Sequences, FiniteSetsExt, Functions

CONSTANTS
  Goods,      \* DEFAULT_SHOP_GOODS, and the goods an account overrides
  GoodsRow,   \* [Goods -> GoodsRows]
  Banners,    \* GACHA_BOX_ID and REGULAR_BOXES
  Debut,      \* the banner of the tutorial, GACHA_BOX_ID
  Mirrors,    \* SOULMIRROR_GACHA_BOXES
  Options,    \* [Banners -> Seq(DrawOptions)]: the cost_tbl of a banner
  Wheels,     \* ROULETTE_BOXES
  WheelCost,  \* [Wheels -> [what, n]]
  Slots,      \* ROULETTE_SLOTS: [item, n]
  Bonus,      \* ROULETTE_BONUS: [item, n]
  DrawMax,    \* ROULETTE_DRAW_MAX
  Start,      \* the balances and bag of the account: [cur, bag, energy]
  Amounts,    \* bound: how many of a good the client asks for at once
  LastDay     \* bound: the clock stops here

VARIABLES
  mem,     \* the account a connection works on
  disk,    \* the account file
  now,     \* the 4AM day
  today    \* what really happened: goods per window, free pulls and spins per
           \* day, the price of the last roll shown, diamonds owed and won
vars == <<mem, disk, now, today>>

GoodsRows == [cycle : Nat, limit : Nat, once : Nat, item : Items, per : Nat \ {0},
              cost : Currencies \cup Items, price : Nat]
DrawOptions == [cost : Currencies \cup Items, price : Nat \ {0}, n : Nat \ {0},
                daily : BOOLEAN]

MarketAssumption ==
  /\ GoodsRow \in [Goods -> GoodsRows]
  /\ Debut \in Banners /\ Mirrors \subseteq Banners \ {Debut}
  /\ Banners \subseteq Nat \ {0} /\ Goods \subseteq Nat
  /\ IsFiniteSet(Goods) /\ IsFiniteSet(Wheels)
  /\ Options \in [Banners -> Seq(DrawOptions)]
  /\ WheelCost \in [Wheels -> [what : Currencies \cup Items, n : Nat]]
  /\ Slots \subseteq [item : Items, n : Nat] /\ Bonus \in [item : Items, n : Nat]
  /\ Start.cur \in [Currencies -> 0..BalanceMax] /\ Start.bag \in [Items -> 0..BalanceMax]
  /\ Start.cur["cash"] + Start.cur["paid"] <= BalanceMax /\ Start.energy \in Nat
  /\ DrawMax \in Nat \ {0} /\ Amounts \subseteq Nat \ {0} /\ LastDay \in Nat
ASSUME MarketAssumption

NoRoll == [box |-> 0, n |-> 0, cost |-> "cash", price |-> 0]

-----------------------------------------------------------------------------
(* The shop.                                                               *)

(* next_reset_time; 0 for a good that is never replenished.                *)
NextReset(c) == IF c = 0 THEN 0 ELSE (now \div c + 1) * c

(* expire_shop_bought: a record whose window is over counts from zero.     *)
Expired(g, rec) ==
  GoodsRow[g].cycle > 0 /\ rec # [n |-> 0, reset |-> 0] /\ rec.reset <= now
Fresh(g, rec) ==
  IF Expired(g, rec) THEN [n |-> 0, reset |-> NextReset(GoodsRow[g].cycle)] ELSE rec
Expire(a) == [a EXCEPT !.shop = [g \in Goods |-> Fresh(g, @[g])]]

Refused(a, g, n) ==
  LET row == GoodsRow[g]
  IN \/ row.once > 0 /\ n > row.once
     \/ row.limit > 0 /\ Fresh(g, a.shop[g]).n + n > row.limit
     \/ ~CanPay(a, row.cost, row.price * n)

(* Variant: the window of a record is never stamped.                       *)
BoughtUnstamped(rec, g, n) == [rec EXCEPT !.n = @ + n]
(* The window of a record is stamped when it opens, and kept from then on. *)
Bought(rec, g, n) ==
  [n |-> rec.n + n,
   reset |-> IF rec.reset = 0 THEN NextReset(GoodsRow[g].cycle) ELSE rec.reset]

(* buy_shop_goods.                                                         *)
Purchase(a, g, n) ==
  LET row == GoodsRow[g]
      paid == Spend(Expire(a), row.cost, row.price * n)
      given == GrantGoods(paid, row.item, row.per * n)
  IN Count([given EXCEPT !.shop[g] = Bought(@, g, n)], "buy", g, n)

Window(g) == IF GoodsRow[g].cycle = 0 THEN 0 ELSE now \div GoodsRow[g].cycle
TakenNow(g) == IF today.goods[g].window = Window(g) THEN today.goods[g].n ELSE 0

Buy(g, n) ==
  /\ IF Refused(mem, g, n)
       THEN /\ mem' = IF GoodsRow[g].once > 0 /\ n > GoodsRow[g].once
                        THEN mem ELSE Expire(mem)
            /\ UNCHANGED <<disk, today>>
       ELSE /\ mem' = Purchase(mem, g, n)
            /\ disk' = mem'
            /\ today' = [today EXCEPT !.goods[g] =
                           [window |-> Window(g), n |-> TakenNow(g) + n]]
  /\ UNCHANGED now

(* shop_sync_goods: a shop that is only looked at.                         *)
Browse ==
  /\ mem' = Expire(mem)
  /\ UNCHANGED <<disk, now, today>>

-----------------------------------------------------------------------------
(* The banners.  A roll is drawn, held, and paid for when it is kept.      *)

FreePull(a) == a.freeDay # now

(* gacha_json: the tutorial banner is published until something is kept.   *)
Published(a) == IF a.kept = 0 THEN Banners ELSE Banners \ {Debut}

(* gacha_cost_row.                                                         *)
PriceOf(a, box, i) ==
  LET o == Options[box][i] IN IF o.daily /\ FreePull(a) THEN 0 ELSE o.price

(* gacha_draw: the first casts of an account are scripted, a 5 and a 4     *)
(* before the fill, so that even a single pull holds both.                 *)
RollSize(a, box, n) ==
  IF box \notin Mirrors /\ a.kept = 0 /\ n < 2 THEN 2 ELSE n

(* gacha_commit: a roll that cannot be paid stays held, at its price.      *)
Commit(a) ==
  LET r == a.roll
      paid == Spend(a, r.cost, r.price)
      given == IF r.box \in Mirrors THEN [paid EXCEPT !.gear = @ + r.n]
                                    ELSE [paid EXCEPT !.casts = @ + r.n]
      counted == Count(Count(given, "gacha", 0, r.n), "gacha", r.box, r.n)
  IN IF r = NoRoll \/ ~CanPay(a, r.cost, r.price) THEN a
     ELSE [counted EXCEPT !.kept = @ + 1, !.roll = NoRoll]

(* A draw replaces the roll that was held, and marks the day's free pull.  *)
Drawn(a, box, i) ==
  [a EXCEPT !.roll = [box |-> box, n |-> RollSize(a, box, Options[box][i].n),
                      cost |-> Options[box][i].cost, price |-> PriceOf(a, box, i)],
            !.freeDay = IF PriceOf(a, box, i) = 0 THEN now ELSE @]

(* The diamonds owed for a roll once it is kept: the price it was shown at.*)
Kept(t) ==
  IF mem'.kept > mem.kept /\ t.shown.cost = "cash"
    THEN [t EXCEPT !.rolls = @ + t.shown.price] ELSE t

Draw(box, i) ==
  /\ box \in Published(mem)
  /\ mem' = IF box = Debut THEN Drawn(mem, box, i) ELSE Commit(Drawn(mem, box, i))
  /\ disk' = mem'
  /\ LET price == PriceOf(mem, box, i)
     IN today' = Kept([today EXCEPT !.free = @ + (IF price = 0 THEN 1 ELSE 0),
                                    !.shown = [cost |-> Options[box][i].cost,
                                               price |-> price]])
  /\ UNCHANGED now

(* gacha_redraw_get: the roll on the screen is kept.                       *)
Collect ==
  /\ mem' = Commit(mem)
  /\ disk' = mem'
  /\ today' = Kept(today)
  /\ UNCHANGED now

-----------------------------------------------------------------------------
(* The wheel.                                                              *)

(* expire_roulette_day: the day's spins come back, the round goes on.      *)
NewWheelDay(a) ==
  IF a.wheelDay = now THEN a
  ELSE [a EXCEPT !.wheelDay = now, !.wheel = [w \in Wheels |-> [@[w] EXCEPT !.day = 0]]]

(* roulette_draw, from the payment on.                                     *)
Spun(a, w, slot) ==
  LET paid == Spend(a, WheelCost[w].what, WheelCost[w].n)
      won == Count(GrantReward(paid, slot.item, slot.n), "roulette", AnyValue, 1)
      full == a.wheel[w].sum + 1 >= DrawMax
      extra == IF full THEN GrantReward(won, Bonus.item, Bonus.n) ELSE won
  IN [extra EXCEPT !.wheel[w] = [day |-> @.day + 1,
                                 sum |-> IF full THEN 0 ELSE @.sum + 1]]

Spin(w, slot) ==
  LET a == NewWheelDay(mem)
  IN /\ IF \/ a.wheel[w].day >= DrawMax
           \/ ~CanPay(a, WheelCost[w].what, WheelCost[w].n)
          THEN mem' = a /\ UNCHANGED <<disk, today>>
          ELSE /\ mem' = Spun(a, w, slot)
               /\ disk' = mem'
               /\ today' = [today EXCEPT !.spins[w] = @ + 1,
                              !.won = @ + slot.n * Worth[slot.item].cur["cash"]]
     /\ UNCHANGED now

-----------------------------------------------------------------------------
(* A new connection works from the file: a restart, or a second login.     *)
Relogin ==
  LET a == NewWheelDay(disk)
  IN /\ mem' = a
     /\ disk' = IF \E w \in Wheels : disk.wheelDay # now /\ disk.wheel[w].day > 0
                  THEN a ELSE disk
     /\ UNCHANGED <<now, today>>

Tick ==
  /\ now < LastDay
  /\ now' = now + 1
  /\ today' = [today EXCEPT !.free = 0, !.spins = [w \in Wheels |-> 0]]
  /\ UNCHANGED <<mem, disk>>

NewAccount ==
  LET p == FreshPurse(Start.cur, Start.bag, Start.energy)
  IN [cur |-> p.cur, bag |-> p.bag, energy |-> p.energy, gear |-> p.gear,
      casts |-> p.casts, quests |-> p.quests, sp |-> p.sp, db |-> p.db,
      shop |-> [g \in Goods |-> [n |-> 0, reset |-> 0]],
      roll |-> NoRoll, kept |-> 0, freeDay |-> -1,
      wheel |-> [w \in Wheels |-> [day |-> 0, sum |-> 0]], wheelDay |-> -1]

Init ==
  /\ mem = NewAccount /\ disk = NewAccount /\ now = 0
  /\ today = [goods |-> [g \in Goods |-> [window |-> 0, n |-> 0]],
              free |-> 0, spins |-> [w \in Wheels |-> 0],
              shown |-> [cost |-> "cash", price |-> 0], rolls |-> 0, won |-> 0]

Next ==
  \/ \E g \in Goods, n \in Amounts : Buy(g, n)
  \/ Browse
  \/ \E box \in Banners : \E i \in DOMAIN Options[box] : Draw(box, i)
  \/ Collect
  \/ \E w \in Wheels, slot \in Slots : Spin(w, slot)
  \/ Relogin
  \/ Tick

Spec == Init /\ [][Next]_vars

-----------------------------------------------------------------------------
(* Types, and the bounds of every balance: no diamond, coin or stack is    *)
(* ever below zero or above BALANCE_MAX, the two kinds of diamond together *)
(* included, which the client adds in 32 bits (core.BALANCE_MAX).          *)
AccountOK(a) ==
  /\ PurseOK(a)
  /\ a.shop \in [Goods -> [n : Nat, reset : Nat]]
  /\ a.roll \in [box : Banners \cup {0}, n : Nat, cost : Currencies \cup Items, price : Nat]
  /\ a.kept \in Nat /\ a.freeDay \in -1..now /\ a.wheelDay \in -1..now
  /\ a.wheel \in [Wheels -> [day : 0..DrawMax, sum : 0..(DrawMax - 1)]]

TypeOK == AccountOK(mem) /\ AccountOK(disk) /\ now \in 0..LastDay

(* What an account may still buy in a window is what it has not bought in  *)
(* it, however often it looks at the shop, logs in again or lets the       *)
(* window pass: buy_shop_goods neither sells past a limit nor keeps a      *)
(* replenished good closed.                                                *)
CapsFollowTheWindow ==
  \A g \in Goods :
    LET sold == Fresh(g, mem.shop[g]).n
    IN sold = TakenNow(g) /\ (GoodsRow[g].limit > 0 => sold <= GoodsRow[g].limit)

(* One free pull a day and DrawMax spins of a wheel, over restarts too.    *)
DailyAllowances == today.free <= 1 /\ \A w \in Wheels : today.spins[w] <= DrawMax

(* What the goods bought and the rolls kept cost in diamonds, a roll at the *)
(* price it was shown at.                                                  *)
DiamondGoods == {g \in Goods : GoodsRow[g].cost = "cash"}
SpentOn(a) ==
  SumFunction([g \in DiamondGoods |-> GoodsRow[g].price * a.db[<<"buy", g>>]])
Owed == SpentOn(mem) + today.rolls

(* Every diamond is accounted for: the mission counts what was owed        *)
(* (spend_diamonds, buy_shop_goods, gacha_commit), and what is left is at  *)
(* most the starting balance and the prizes less that.                     *)
DiamondsBalance ==
  /\ mem.db[<<"diamond", 0>>] = Owed
  /\ Diamonds(mem) + Owed <= Start.cur["cash"] + Start.cur["paid"] + today.won

(* The client's bonus comes with every DrawMax-th spin, counted over the   *)
(* days: bonuses paid and the open rounds account for every spin, as long  *)
(* as the stack is short of BALANCE_MAX (roulette_draw).                   *)
Rounds(a) == SumFunction([w \in Wheels |-> a.wheel[w].sum * Bonus.n])
BonusEveryRound ==
  mem.bag[Bonus.item] < BalanceMax =>
    mem.bag[Bonus.item] * DrawMax + Rounds(mem) = mem.db[<<"roulette", 0>>] * Bonus.n

(* Every diamond and every spin is accounted for, to the paid ones and     *)
(* over restarts.                                                          *)
DiamondsAccountedFor == DiamondsBalance /\ BonusEveryRound

(* When the missions tell it all: one counts diamonds and one each good    *)
(* that is sold for them; no good, bonus or wheel deals in diamonds, and   *)
(* the wheel gives free ones only.                                         *)
Counting(case, value) ==
  \E q \in Quests : ~QuestRow[q].sp /\ QuestRow[q].served /\ CaseKey(q) = <<case, value>>
CountersApart ==
  /\ Counting("diamond", 0) /\ \A g \in DiamondGoods : Counting("buy", g)
  /\ \A i \in {GoodsRow[g].item : g \in Goods} \cup {Bonus.item} :
       Worth[i].cur["cash"] = 0 /\ Worth[i].cur["paid"] = 0
  /\ \A s \in Slots : Worth[s.item].cur["paid"] = 0
  /\ \A w \in Wheels : WheelCost[w].what # "cash"

(* When the bag tells the rounds: spins are counted, and the bonus is a    *)
(* plain item that nothing else brings or takes.                           *)
BonusApart ==
  /\ Counting("roulette", 0)
  /\ Start.bag[Bonus.item] = 0 /\ Worth[Bonus.item].bag[Bonus.item] = 1
  /\ \A i \in {GoodsRow[g].item : g \in Goods} \cup {s.item : s \in Slots} :
       i # Bonus.item /\ Worth[i].bag[Bonus.item] = 0
  /\ \A g \in Goods : GoodsRow[g].cost # Bonus.item
  /\ \A box \in Banners : \A i \in DOMAIN Options[box] : Options[box][i].cost # Bonus.item
  /\ \A w \in Wheels : WheelCost[w].what # Bonus.item

(* No limit is passed and none keeps closed what is due again.             *)
AllowancesHold == TypeOK /\ CapsFollowTheWindow /\ DailyAllowances
=============================================================================
