------------------------------ MODULE MCMarket ------------------------------
(* An afternoon in the lobby, at the counter, in the room of a cast or in   *)
(* its story: a behaviour is one of the three.                             *)
(*                                                                         *)
(* At the counter: one shop with a daily good sold for diamonds and a      *)
(* weekly one, a scroll that pays for the tutorial banner; a tutorial      *)
(* banner, a cast banner with the day's free pull and a Soulmirror banner; *)
(* the wheel that takes tickets.                                           *)
(*                                                                         *)
(* In the room: two copies of one cast, a favourite present that crosses   *)
(* two ranks, a set of two pieces and two supports of which one can be     *)
(* worn.  In the story: the presents and the taps of the room, and a scene *)
(* with two answers on two difficulties.                                   *)
EXTENDS Market, Bonds

CONSTANTS scroll, ticket, gem, chest, prize, AnyV

MCItems == {scroll, ticket, gem, chest, prize}
NoBag == [i \in MCItems |-> 0]
NoCur == [k \in Currencies |-> 0]
Nothing == [cur |-> NoCur, energy |-> 0, gear |-> 0, casts |-> 0, bag |-> NoBag]
MCWorth ==
  [i \in MCItems |->
     CASE i = gem -> [Nothing EXCEPT !.cur["cash"] = 1]
       [] i = chest -> [Nothing EXCEPT !.gear = 1]
       [] OTHER -> [Nothing EXCEPT !.bag[i] = 1]]

Counter(c, v) == [case |-> c, value |-> v, sp |-> FALSE, pre |-> "none", served |-> TRUE,
                  need |-> 1, item |-> prize, count |-> 0, group |-> "none"]
MCQuests == {"buy0", "buy1", "diamond", "gacha", "wheel"}
MCQuestRow ==
  [q \in MCQuests |->
     CASE q = "buy0" -> Counter("buy", 0)
       [] q = "buy1" -> Counter("buy", 1)
       [] q = "diamond" -> Counter("diamond", 0)
       [] q = "gacha" -> Counter("gacha", 0)
       [] q = "wheel" -> Counter("roulette", 0)]

MCGoodsRow ==
  [g \in {0, 1} |->
     IF g = 0 THEN [cycle |-> 1, limit |-> 2, once |-> 1, item |-> chest, per |-> 1,
                    cost |-> "cash", price |-> 1]
              ELSE [cycle |-> 2, limit |-> 1, once |-> 0, item |-> scroll, per |-> 1,
                    cost |-> "cash", price |-> 1]]

Roll(c, p, n, d) == [cost |-> c, price |-> p, n |-> n, daily |-> d]
MCOptions ==
  [b \in {1, 2, 3} |->
     CASE b = 1 -> <<Roll(scroll, 1, 3, FALSE)>>
       [] b = 2 -> <<Roll("cash", 2, 1, TRUE)>>
       [] b = 3 -> <<Roll("cash", 3, 3, FALSE)>>]

MCWheelCost == [w \in {102} |-> [what |-> ticket, n |-> 1]]
MCSlots == {[item |-> gem, n |-> 1]}
MCBonus == [item |-> prize, n |-> 1]
MCStart == [cur |-> [k \in Currencies |-> IF k = "paid" THEN 1 ELSE 0],
            bag |-> [i \in MCItems |-> IF i = ticket THEN 2 ELSE 0], energy |-> 0]

(* The missions of the afternoon tell its diamonds and its rounds.          *)
ASSUME AfternoonTells == CountersApart /\ BonusApart

VARIABLE place
lobbyVars == <<place, vars, bondVars>>
LobbyInit ==
  /\ place \in {"counter", "room", "story"} /\ Init /\ BondInit
  /\ wishes = IF place = "room" THEN 0 ELSE WishMost
LobbyNext ==
  /\ UNCHANGED place
  /\ \/ place = "counter" /\ Next /\ UNCHANGED bondVars
     \/ /\ place # "counter" /\ BondNext /\ UNCHANGED vars
        /\ place = "room" => screen'.scene = NoScene /\ bonds'.difficulty = bonds.difficulty
LobbySpec == LobbyInit /\ [][LobbyNext]_lobbyVars

MCGirlRow ==
  [g \in {"levi"} |->
     [rarity |-> 5, favourite |-> "rose", taste |-> 1, step |-> 10,
      karma |-> {<<2, 3>>, <<3, 5>>}, limit |-> {<<1, 7>>, <<2, 2>>}, bonus |-> {4},
      skillUp |-> <<2, 1>>, ranks |-> {1, 2}, passives |-> {[own |-> FALSE, levels |-> 6]},
      score |-> [base |-> 1, lv |-> 1, star |-> 0, ex |-> 1, skill |-> 1, karma |-> 1]]]
MCGirlOf == [u \in {1, 2} |-> "levi"]
MCStartCast == [u \in {1, 2} |-> [lv |-> 1, star |-> 0, ex |-> 0, limit |-> u - 1,
                                  worn |-> IF u = 1 THEN {"ring"} ELSE {}]]
MCRungOf == [g \in {"levi"} |-> <<100, 0, 150, 200>>]
MCKarmaNext == <<1, 2, 2>>
MCPresentRow == [p \in {"rose", "tea"} |-> [base |-> 1, taste |-> IF p = "tea" THEN 1 ELSE 0, held |-> IF p = "rose" THEN 1 ELSE 0]]
MCTier == <<1, 2>>
MCDecision == [x \in {5} \X {0, 1} |-> 1]
MCSeen == [x \in {<<5, 1>>} |-> 2]
MCChapterOf == [a \in {4, 7} |-> a]
MCChapterGirl == [c \in {4} |-> "levi"]
MCPieceRow == [p \in {"ring", "crown"} |-> [init |-> 1, up |-> 2, lv |-> 1, percent |-> IF p = "ring" THEN 10 ELSE 0, set |-> 1]]
MCSetRow == <<<<[number |-> 2, value |-> 4], [number |-> 0, value |-> 0]>>>>
MCLinkRow == <<[sum |-> 4, stat |-> 11], [sum |-> 6, stat |-> 13]>>
=============================================================================
