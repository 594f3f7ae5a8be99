------------------------------- MODULE Purse --------------------------------
(***************************************************************************)
(* What an account holds, and the operations that every payer and payee of *)
(* the server goes through (player_state/core.py, shop.grant_goods):       *)
(* balances, stacks, and the counters of the quests.  Everything here is   *)
(* a function of an account; Market and Missions act on one.               *)
(*                                                                         *)
(* An item is known by what it is worth when it is handed over: balances,  *)
(* stamina, rolled pieces (starshards and Soulmirrors), casts, and stacks  *)
(* of plain items.  Which piece or cast a box rolls is left out, and so    *)
(* are the slots of a bag: grant_item keeps one stack per item.            *)
(***************************************************************************)
EXTENDS Integers, FiniteSets

CONSTANTS
  Items,      \* the items of the design data
  Worth,      \* [Items -> Payouts]: what one of an item hands over
  Boxes,      \* items grant_goods opens and grant_reward does not
  BalanceMax, \* BALANCE_MAX
  Quests,     \* the quests of the design data
  QuestRow,   \* [Quests -> QuestRows]
  NoQuest,    \* the predecessor of a quest that has none
  AnyValue    \* a bump that names no `_case_v1`

Currencies == {"cash", "paid", "coin"}
Cases == {"gacha", "buy", "diamond", "roulette", "login", "claimed", "clear",
          "stage", "days", "karma"}
Values == Nat \cup Items

Payouts == [cur : [Currencies -> Nat], energy : Nat, gear : Nat, casts : Nat,
            bag : [Items -> Nat]]

(* type: "main" quests are completed for good, "sp" ones per record.       *)
QuestRows ==
  [case : Cases, value : Values, sp : BOOLEAN, pre : Quests \cup {NoQuest},
   served : BOOLEAN, need : Nat \ {0}, item : Items, count : Nat,
   group : {"none", "daily", "weekly"}]

PurseAssumption ==
  /\ IsFiniteSet(Items) /\ Boxes \subseteq Items
  /\ Worth \in [Items -> Payouts]
  /\ BalanceMax \in Nat
  /\ IsFiniteSet(Quests) /\ NoQuest \notin Quests
  /\ QuestRow \in [Quests -> QuestRows]
  /\ AnyValue \notin Values
ASSUME PurseAssumption

AtLeastOne(n) == IF n < 1 THEN 1 ELSE n

-----------------------------------------------------------------------------
(* Balances.                                                               *)

(* capped_balance: SATURATE, never wrap.                                   *)
Capped(v, headroom) ==
  IF v < 0 \/ BalanceMax < headroom THEN 0
  ELSE IF v > BalanceMax - headroom THEN BalanceMax - headroom ELSE v

(* The other diamonds of the account: the client adds both as one int32.   *)
Headroom(a, k) ==
  CASE k = "cash" -> a.cur["paid"]
    [] k = "paid" -> a.cur["cash"]
    [] OTHER -> 0

AddCurrency(a, k, n) == [a EXCEPT !.cur[k] = Capped(@ + n, Headroom(a, k))]

Diamonds(a) == a.cur["cash"] + a.cur["paid"]

-----------------------------------------------------------------------------
(* Counters of the quests.  "main" quests of one condition share the       *)
(* counter db[case, value]; every "sp" quest counts in its own record.     *)

Completed(a, q) == q = NoQuest \/ q \in a.quests \/ (q \in Quests /\ a.sp[q].done)

Moved(case, value) ==
  {q \in Quests : /\ QuestRow[q].case = case
                  /\ value = AnyValue \/ QuestRow[q].value = value
                  /\ QuestRow[q].served}

CaseKey(q) == <<QuestRow[q].case, QuestRow[q].value>>

(* A counter after a bump: `cnt + amount` or, for a state rather than an   *)
(* event (`to`), the larger of the two.                                    *)
Bumped(c, n, to) == IF ~to THEN c + n ELSE IF c < n THEN n ELSE c

Shared(a, hit, n, to) ==
  [k \in DOMAIN a.db |->
     IF \E q \in hit : ~QuestRow[q].sp /\ CaseKey(q) = k
       THEN Bumped(a.db[k], n, to) ELSE a.db[k]]

(* bump_quest_counter.                                                     *)
Bump(a, case, value, n, to) ==
  LET hit == Moved(case, value)
  IN [a EXCEPT !.db = Shared(a, hit, n, to),
               !.sp = [q \in Quests |->
                         IF /\ q \in hit /\ QuestRow[q].sp /\ ~@[q].done
                            /\ Completed(a, QuestRow[q].pre)
                           THEN [a.sp[q] EXCEPT !.cnt = Bumped(@, n, to)] ELSE @[q]]]

Count(a, case, value, n) == Bump(a, case, value, n, FALSE)
Reach(a, case, value, n) == Bump(a, case, value, n, TRUE)

-----------------------------------------------------------------------------
(* Handing over.                                                           *)

GrantItem(a, i, n) == [a EXCEPT !.bag[i] = Capped(@ + n, 0)]

(* n times a payout; an instance is rolled for every one of them.          *)
HandOver(a, w, n) ==
  [AddCurrency(AddCurrency(AddCurrency(a, "cash", n * w.cur["cash"]),
                           "paid", n * w.cur["paid"]),
               "coin", n * w.cur["coin"])
     EXCEPT !.energy = IF w.energy = 0 THEN @ ELSE Capped(@ + n * w.energy, 0),
            !.gear = @ + AtLeastOne(n) * w.gear,
            !.casts = @ + AtLeastOne(n) * w.casts,
            !.bag = [i \in Items |->
                       IF w.bag[i] = 0 THEN @[i] ELSE Capped(@[i] + n * w.bag[i], 0)]]

(* grant_goods opens every box; grant_reward files those it cannot route.  *)
GrantGoods(a, i, n) == HandOver(a, Worth[i], n)
GrantReward(a, i, n) ==
  IF i \in Boxes THEN GrantItem(a, i, n) ELSE HandOver(a, Worth[i], n)

(* _rescue_bagged_rewards: a box filed in the bag is opened at the load.   *)
Stuck(a) == {i \in Boxes : a.bag[i] > 0}
OpenOne(a, i) == GrantGoods([a EXCEPT !.bag[i] = 0], i, AtLeastOne(a.bag[i]))

-----------------------------------------------------------------------------
(* Paying.  A price names a balance or an item; it is taken whole or not.  *)

Holds(a, what) ==
  CASE what = "cash" -> Diamonds(a)
    [] what \in {"paid", "coin"} -> a.cur[what]
    [] OTHER -> a.bag[what]

CanPay(a, what, n) == n <= 0 \/ Holds(a, what) >= n

(* Variant: the paid diamonds are not touched.                             *)
SpendDiamondsFree(a, n) ==
  Count([a EXCEPT !.cur["cash"] = IF @ < n THEN 0 ELSE @ - n],
        "diamond", AnyValue, n)

(* Free diamonds first, then the paid ones; the mission counts both.       *)
SpendDiamonds(a, n) ==
  LET free == IF a.cur["cash"] < n THEN a.cur["cash"] ELSE n
  IN IF n <= 0 THEN a
     ELSE Count([a EXCEPT !.cur["cash"] = @ - free,
                          !.cur["paid"] = @ - (n - free)],
                "diamond", AnyValue, n)

(* spend_cost; only to be asked when CanPay.                               *)
Spend(a, what, n) ==
  CASE what = "cash" -> SpendDiamonds(a, n)
    [] what \in {"paid", "coin"} -> [a EXCEPT !.cur[what] = @ - n]
    [] OTHER -> [a EXCEPT !.bag[what] = IF n <= 0 THEN @ ELSE @ - n]

-----------------------------------------------------------------------------
(* The fields of a fresh account that belong to the purse (_default).      *)

NothingDone == [cnt |-> 0, done |-> FALSE]
FreshPurse(cur, bag, energy) ==
  [cur |-> cur, bag |-> bag, energy |-> energy, gear |-> 0, casts |-> 0,
   quests |-> {}, sp |-> [q \in Quests |-> NothingDone],
   db |-> [k \in {CaseKey(q) : q \in {r \in Quests : ~QuestRow[r].sp}} |-> 0]]

PurseOK(a) ==
  /\ a.cur \in [Currencies -> 0..BalanceMax]
  /\ Diamonds(a) <= BalanceMax
  /\ a.bag \in [Items -> 0..BalanceMax]
  /\ a.energy \in Nat /\ a.gear \in Nat /\ a.casts \in Nat
  /\ a.quests \subseteq Quests
  /\ a.sp \in [Quests -> [cnt : Nat, done : BOOLEAN]]
  /\ \A k \in DOMAIN a.db : a.db[k] \in Nat
=============================================================================
