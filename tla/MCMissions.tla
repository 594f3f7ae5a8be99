----------------------------- MODULE MCMissions -----------------------------
(* A daily mission for logging in and a weekly one that counts the claims  *)
(* of daily ones, a chain of two achievements, and a main quest on days    *)
(* attended; a ladder of two rungs, the first one a box; a story choice    *)
(* that gives Karma, across two ranks at once.                             *)
EXTENDS Missions

CONSTANTS pass, coupon, drop, gift, chest, fate, token, AnyV

MCItems == {pass, coupon, drop, gift, chest, fate, token}
NoBag == [i \in MCItems |-> 0]
NoCur == [k \in Currencies |-> 0]
Nothing == [cur |-> NoCur, energy |-> 0, gear |-> 0, casts |-> 0, bag |-> NoBag]
MCWorth == [i \in MCItems |-> IF i = chest THEN [Nothing EXCEPT !.gear = 1]
                              ELSE [Nothing EXCEPT !.bag[i] = 1]]

Row(c, v, sp, pre, need, pay, group) ==
  [case |-> c, value |-> v, sp |-> sp, pre |-> pre, served |-> TRUE, need |-> need,
   item |-> token, count |-> pay, group |-> group]
MCQuests == {"login", "meta", "clear1", "clear2", "days"}
MCQuestRow ==
  [q \in MCQuests |->
     CASE q = "login" -> Row("login", 0, TRUE, "none", 1, 0, "daily")
       [] q = "meta" -> Row("claimed", 4, TRUE, "none", 2, 0, "weekly")
       [] q = "clear1" -> Row("clear", 0, TRUE, "none", 1, 0, "none")
       [] q = "clear2" -> Row("clear", 0, TRUE, "clear1", 1, 3, "none")
       [] q = "days" -> Row("days", 0, FALSE, "none", 2, 0, "none")]

MCRungItem == <<[item |-> chest, n |-> 1], [item |-> gift, n |-> 1]>>
MCSceneRow == [c \in {"first"} |-> [cur |-> "coin", n |-> 1, fexp |-> 3]]
MCKarmaNeed == <<1, 2, 1>>
MCRankItem == <<[item |-> fate, n |-> 1], [item |-> fate, n |-> 1],
                [item |-> fate, n |-> 1], [item |-> fate, n |-> 0]>>
MCStart == [cur |-> NoCur, bag |-> [NoBag EXCEPT ![coupon] = 2], energy |-> 0]

(* In the run only mail brings what it brings, and the same holds of the   *)
(* diamonds and of what the sweep drops.                                   *)
ASSUME OwedApart == RewardsApart
=============================================================================
