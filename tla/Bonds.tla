------------------------------- MODULE Bonds -------------------------------
(***************************************************************************)
(* What binds the casts to the player, and the numbers it gives them:      *)
(* presents and story choices raise Karma, Karma and Skill Up pay stats,   *)
(* the Soul Link rank pays more, gear the rest (karma.py, soulbook.py,     *)
(* charprogress.py, roster.py, gear.py and the Unit of battle.py), and     *)
(* the lobby sheet that has to show what a fight will use.                 *)
(*                                                                         *)
(* "bonds" is the account, "screen" the client's copy, "sent" the taps on  *)
(* their way.  "behind", "paid" and "taps" are history: the copies whose   *)
(* Karma moved after their sheet was sent, what each answer of a scene has *)
(* paid, and the steps the player asked a support for.                     *)
(*                                                                         *)
(* One stat stands for the four a sheet carries; the criticals, which it   *)
(* never carried, are left out, and so are coins and the mail of a rank    *)
(* (Missions has it).                                                      *)
(***************************************************************************)
EXTENDS Integers, FiniteSetsExt, SequencesExt

CONSTANTS
  Girls, GirlRow,         \* rows of char
  Copies, GirlOf,         \* the casts owned; two copies share one Karma
  StartCast,              \* as they were drawn, fed and dressed before
  KarmaMax, KarmaNext,    \* MAX_FLV, char_flv_need_xp
  MasterLadder,           \* MASTER_MIN_LADDER
  RungOf,                 \* grow rungs, holes are 0
  Presents, PresentRow, FirstRate, SecondRate, PresentKinds, PresentMost,
  Situations,             \* numbers of the scenes that ask for a choice
  Tier, Decision, Seen,   \* KARMA_TIERS, KARMA_DECISION_TIER, KARMA_REWARDS
  ChapterOf,              \* _avg_stage_index, by chapter
  ChapterGirl, NoGirl,    \* KARMA_CHAPTER_CHAR, KARMA_TUTORIAL_CHAR
  Answers, Difficulties,
  Supports, SupportMost,  \* Kizuna rows, MAX_KIZUNA_EQUIP
  Pieces, PieceRow, SetRow,
  LinkRow, LinkStar,      \* soulbook_reward; SOULBOOK_MIN_STAR
  LvTop, ExTop, LimitTop, \* growth of a copy, and of a support
  Unread,                 \* bound: taps on their way
  WishMost                \* bound: what the player grows, dresses and equips

VARIABLES bonds, screen, sent, behind, paid, taps, wishes
bondVars == <<bonds, screen, sent, behind, paid, taps, wishes>>

GirlRows ==
  [rarity : 1..5, favourite : Presents, taste : Nat, step : Nat \ {0},
   karma : SUBSET (Nat \X Nat), limit : SUBSET (Nat \X Nat), bonus : SUBSET (1..KarmaMax),
   skillUp : Seq(Nat), ranks : SUBSET Nat,
   passives : SUBSET [own : BOOLEAN, levels : Nat],
   score : [base : Nat, lv : Nat, star : Nat, ex : Nat, skill : Nat, karma : Nat]]

BondAssumption ==
  /\ GirlRow \in [Girls -> GirlRows] /\ GirlOf \in [Copies -> Girls]
  /\ RungOf \in [Girls -> Seq(Nat)] /\ \A g \in Girls : RungOf[g] # <<>> /\ RungOf[g][1] > 0
  /\ StartCast \in [Copies -> [lv : Nat \ {0}, star : Nat, ex : Nat, limit : Nat,
                               worn : SUBSET Pieces]]
  /\ KarmaMax \in Nat \ {0} /\ KarmaNext \in [1..(KarmaMax - 1) -> Nat \ {0}]
  /\ \A g \in Girls : IsFiniteSet(GirlRow[g].karma) /\ IsFiniteSet(GirlRow[g].limit)
  /\ PresentRow \in [Presents -> [base : Nat, taste : Nat, held : Nat]]
  /\ IsFiniteSet(Presents) /\ FirstRate \in Nat /\ SecondRate \in Nat
  /\ Situations \subseteq Nat /\ DOMAIN ChapterOf \subseteq Nat /\ NoGirl \in Girls
  /\ \A g \in DOMAIN Tier : Tier[g] \in Nat \ {0}
  /\ Decision \in [Situations \X Answers -> DOMAIN Tier]
  /\ \A c \in DOMAIN ChapterGirl : ChapterGirl[c] \in Girls
  /\ IsFiniteSet(Answers) /\ Answers = 0..(Cardinality(Answers) - 1)
  /\ Cardinality(Answers) <= 4
  /\ 1 \in Difficulties /\ IsFiniteSet(Difficulties)
  /\ Cardinality(Answers) >= Cardinality(Difficulties)
  /\ PieceRow \in [Pieces -> [init : Nat, up : Nat, lv : Nat, percent : Nat, set : DOMAIN SetRow]]
  /\ SetRow \in [DOMAIN SetRow -> [1..2 -> [number : 0..6, value : Nat]]]
  /\ IsFiniteSet(Pieces) /\ IsFiniteSet(DOMAIN SetRow)
  /\ SupportMost \in Nat /\ Unread \in Nat
  /\ LinkRow \in Seq([sum : Nat, stat : Nat])
ASSUME BondAssumption

Wish == wishes < WishMost /\ wishes' = wishes + 1
Least(a, b) == Min({a, b})

-----------------------------------------------------------------------------
(* The stats of a cast.                                                    *)

(* RARITY_MIN_STAR                                                         *)
FirstStar(rarity) == <<1, 3, 4, 5, 5>>[rarity]
(* _default_star: the highest rung the rarity starts with.                 *)
DefaultStar(g) ==
  LET filled == {i \in DOMAIN RungOf[g] : RungOf[g][i] > 0}
      allowed == {i \in filled : i <= FirstStar(GirlRow[g].rarity)}
  IN IF allowed # {} THEN Max(allowed) ELSE Min(filled)
StarOf(u) == IF bonds.cast[u].star = 0 THEN DefaultStar(GirlOf[u]) ELSE bonds.cast[u].star

(* grow_rung and _grow: a hole in the ladder is the first rung.            *)
Rung(g, i) == IF i \in DOMAIN RungOf[g] /\ RungOf[g][i] > 0 THEN RungOf[g][i] ELSE RungOf[g][1]
Grown(u) ==
  Rung(GirlOf[u], StarOf(u) + bonds.cast[u].ex) + GirlRow[GirlOf[u]].step * (bonds.cast[u].lv - 1)

(* consonance_bonus and skillup_bonus: the rungs reached add up.           *)
Reached(ladder, level) == SumFunction([r \in {q \in ladder : q[1] <= level} |-> r[2]])
Consonance(u) == Reached(GirlRow[GirlOf[u]].karma, bonds.karma[GirlOf[u]].flv)
SkillRung(u) == bonds.cast[u].limit + bonds.cast[u].ex
SkillUpBonus(u) == Reached(GirlRow[GirlOf[u]].limit, SkillRung(u))

(* Variant: the ladder of Skill Up is not read.                            *)
SheetKarmaOnly(u) == Consonance(u)

(* sheet_bonus: what the client cannot add itself.                         *)
SheetBonus(u) == Consonance(u) + SkillUpBonus(u)

(* _suit_bonus: each of the 6 / number copies of a bonus needs its number  *)
(* of pieces among those that are left, and takes two of them away; a row  *)
(* has two bonuses, a number of 0 is none.                                 *)
Times(e, left) ==
  IF e.number = 0 \/ left < e.number THEN 0
  ELSE Least(6 \div e.number, (left - e.number) \div 2 + 1)
SetBonus(s, n) ==
  LET first == Times(SetRow[s][1], n)
  IN SetRow[s][1].value * first + SetRow[s][2].value * Times(SetRow[s][2], n - 2 * first)
(* _piece_attrs and equipped_attr_totals: what the pieces worn add up to.   *)
Flat(p) == PieceRow[p].init + PieceRow[p].up * PieceRow[p].lv
OfSet(worn, s) == {p \in worn : PieceRow[p].set = s}
Totals(worn) ==
  [flat |-> SumFunction([p \in worn |-> Flat(p)])
            + SumFunction([s \in DOMAIN SetRow |-> SetBonus(s, Cardinality(OfSet(worn, s)))]),
   percent |-> SumFunction([p \in worn |-> PieceRow[p].percent])]
(* equipped_stat_bonus: a percentage is of what the cast has grown to.     *)
GearBonus(worn, base) == Totals(worn).flat + (base * Totals(worn).percent) \div 100

(* _annotate_gear: the two ladders are folded in after the gear.           *)
GearOf(u) == GearBonus(bonds.cast[u].worn, Grown(u)) + Consonance(u) + SkillUpBonus(u)
(* soulbook_bonus                                                          *)
LinkBonus(rank) == IF rank = 0 THEN 0 ELSE LinkRow[rank].stat

(* skill_ranks: every rung of the cast's sequence ranks one skill up.      *)
SkillRanks(g, rung) ==
  [slot \in 1..4 |-> 1 + Cardinality({i \in 1..Least(rung, Len(GirlRow[g].skillUp)) :
                                        GirlRow[g].skillUp[i] = slot})]
(* skill_at_rank: the rank next to it that there is a skill for.           *)
Off(a, b) == IF a < b THEN b - a ELSE a - b
AtRank(g, rank) ==
  Min({r \in GirlRow[g].ranks : \A q \in GirlRow[g].ranks : Off(r, rank) <= Off(q, rank)})
Skills(g, rung) == [slot \in 1..4 |-> AtRank(g, SkillRanks(g, rung)[slot])]

(* _master_table: a ladder of passives that is none of the cast's own.     *)
MasterDepth(g) ==
  Max({0} \cup {p.levels : p \in {q \in GirlRow[g].passives : ~q.own /\ q.levels >= MasterLadder}})
(* _annotate_master: the passive is taken to the Karma rank.               *)
MasterLv(u) == bonds.karma[GirlOf[u]].flv

(* battle_team: what a cast brings to a fight started now.                 *)
Fielded(u) == [gear |-> GearOf(u), master |-> MasterLv(u), rung |-> SkillRung(u)]

(* Unit.__init__                                                           *)
Unit(u) == [stat |-> Grown(u) + LinkBonus(bonds.rank) + Fielded(u).gear,
            skills |-> Skills(GirlOf[u], Fielded(u).rung),
            master |-> Least(Fielded(u).master, MasterDepth(GirlOf[u]))]

-----------------------------------------------------------------------------
(* The Soul Link: the best copy of every character scores, from four stars *)
(* on.                                                                     *)
Score(u) ==
  LET w == GirlRow[GirlOf[u]].score
      e == bonds.cast[u]
  IN w.base + w.lv * e.lv + w.star * StarOf(u) + w.ex * e.ex + w.skill * e.limit
     + w.karma * bonds.karma[GirlOf[u]].flv
(* char_id_table: of two copies the one that scores more.                  *)
Best(g) == Max({Score(u) : u \in {v \in Copies : GirlOf[v] = g}})
Eligible(g) == FirstStar(GirlRow[g].rarity) >= LinkStar
BookSum ==
  SumFunction([g \in {h \in Girls : Eligible(h) /\ \E u \in Copies : GirlOf[u] = h} |-> Best(g)])
(* book_rank_for: the rows are read until one is not reached.              *)
BookRankFor(sum) ==
  Max({r \in 0..Len(LinkRow) : \A i \in 1..r : LinkRow[i].sum <= sum})

-----------------------------------------------------------------------------
(* What the client is sent.                                                *)

NoScene == [at |-> "nowhere"]

(* _char_data_json, and the counters from which it ranks the skills.       *)
Sheet(u) == [stat |-> Grown(u) + SheetBonus(u), grown |-> Grown(u), rung |-> SkillRung(u)]
(* 528: every sheet, what every cast wears, the table of the characters    *)
(* and the Soul Link rank that goes with it.                               *)
Register(scene) ==
  [sheet |-> [u \in Copies |-> Sheet(u)], worn |-> [u \in Copies |-> bonds.cast[u].worn],
   rank |-> bonds.rank, set |-> bonds.set, lv |-> bonds.lv, scene |-> scene]
WholeSheet == screen' = [Register(NoScene)' EXCEPT !.scene = screen.scene] /\ behind' = {}
OneSheet(u) == screen' = [screen EXCEPT !.sheet[u] = Sheet(u)'] /\ behind' = behind \ {u}

-----------------------------------------------------------------------------
(* Karma.                                                                  *)

(* grant_karma: as many ranks as the points pay for, and none are kept at  *)
(* the last one.                                                           *)
Cost(from, to) == SumFunctionOnSet(KarmaNext, from..(to - 1))
Payable(k, xp) == {r \in k.flv..KarmaMax : Cost(k.flv, r) <= k.fxp + xp}
Climbed(k, xp) ==
  LET to == Max(Payable(k, xp))
  IN [flv |-> to, fxp |-> IF to = KarmaMax THEN 0 ELSE k.fxp + xp - Cost(k.flv, to)]

(* gift_karma_xp                                                           *)
PresentXp(g, p) ==
  PresentRow[p].base * (CASE p = GirlRow[g].favourite -> FirstRate
                          [] p # GirlRow[g].favourite /\ PresentRow[p].taste # 0
                             /\ PresentRow[p].taste = GirlRow[g].taste -> SecondRate
                          [] OTHER -> 1)

(* give_gifts: all or nothing, of a few kinds and not too many.            *)
Kinds(basket) == {p \in Presents : basket[p] > 0}
BasketXp(g, basket) == SumFunction([p \in Kinds(basket) |-> basket[p] * PresentXp(g, p)])
Accepted(g, basket) ==
  /\ Cardinality(Kinds(basket)) \in 1..PresentKinds
  /\ SumFunction(basket) <= PresentMost
  /\ \A p \in Presents : basket[p] <= bonds.bag[p]
  /\ BasketXp(g, basket) > 0

(* karma_rank_rewards, and karma_reward_msgs: only a rank that pays a cast *)
(* brings the sheets with it.                                              *)
PaysCast(g, from, to) == GirlRow[g].bonus \cap ((from + 1)..to) # {}

(* char_gift: the answer carries the new rank, not what it pays.           *)
Give(g, basket) ==
  /\ Accepted(g, basket)
  /\ bonds' = [bonds EXCEPT !.karma[g] = Climbed(@, BasketXp(g, basket)),
                            !.bag = [p \in Presents |-> @[p] - basket[p]]]
  /\ IF PaysCast(g, bonds.karma[g].flv, bonds'.karma[g].flv) THEN WholeSheet
     ELSE UNCHANGED screen /\ behind' = behind \cup {u \in Copies : GirlOf[u] = g}
  /\ UNCHANGED <<sent, paid, taps, wishes>>

-----------------------------------------------------------------------------
(* The handlers that change a number of a sheet; what they cost and whom   *)
(* they eat is in Roster.                                                  *)

(* char_level_up, char_rank_up, char_super_rank_up: one sheet is answered. *)
Grow(u, e) ==
  /\ Wish
  /\ e.lv <= LvTop /\ e.ex <= ExTop /\ e.star <= Len(RungOf[GirlOf[u]])
  /\ bonds' = [bonds EXCEPT !.cast[u] = e]
  /\ OneSheet(u)
  /\ UNCHANGED <<sent, paid, taps>>

(* char_limit_up                                                           *)
LimitUp(u) ==
  /\ Wish
  /\ bonds.cast[u].limit < LimitTop
  /\ bonds' = [bonds EXCEPT !.cast[u].limit = @ + 1]
  /\ WholeSheet
  /\ UNCHANGED <<sent, paid, taps>>

(* char_limit_impart: a skill level changes hands.                         *)
LimitImpart(in, out) ==
  /\ Wish
  /\ in # out /\ bonds.cast[out].limit > 0 /\ bonds.cast[in].limit < LimitTop
  /\ bonds' = [bonds EXCEPT !.cast[in].limit = @ + 1, !.cast[out].limit = @ - 1]
  /\ WholeSheet
  /\ UNCHANGED <<sent, paid, taps>>

(* The wear handlers: who wore a piece before gives it up.                 *)
Dress(u, pieces) ==
  /\ Wish
  /\ pieces # bonds.cast[u].worn
  /\ bonds' = [bonds EXCEPT !.cast = [v \in Copies |->
                 [bonds.cast[v] EXCEPT !.worn = IF v = u THEN pieces ELSE @ \ pieces]]]
  /\ screen' = [screen EXCEPT !.worn = [v \in Copies |-> bonds'.cast[v].worn]]
  /\ UNCHANGED <<sent, behind, paid, taps>>

(* char_book_rank_up: every rank the score has earned, and not one more.   *)
BookRankUp ==
  /\ bonds' = [bonds EXCEPT !.rank = BookRankFor(BookSum)]
  /\ screen' = [screen EXCEPT !.rank = bonds'.rank]
  /\ UNCHANGED <<sent, behind, paid, taps, wishes>>

(* char_sync_id_data: the table alone.                                     *)
SyncIdData ==
  /\ screen' = [screen EXCEPT !.rank = bonds.rank, !.set = bonds.set, !.lv = bonds.lv]
  /\ UNCHANGED <<bonds, sent, behind, paid, taps, wishes>>

-----------------------------------------------------------------------------
(* Story choices.                                                          *)

(* avg_chapter: that of the nearest scene below which a stage names.       *)
AvgChapter(s) ==
  LET below == {a \in DOMAIN ChapterOf : a <= s}
  IN IF below = {} THEN 0 ELSE ChapterOf[Max(below)]
(* karma_char_for                                                          *)
KarmaGirl(s) == IF AvgChapter(s) \in DOMAIN ChapterGirl THEN ChapterGirl[AvgChapter(s)] ELSE NoGirl
(* karma_reward: what was seen names the grade, if there is one.           *)
Grade(s, o) ==
  IF <<s, o>> \in DOMAIN Seen /\ \E g \in DOMAIN Tier : Tier[g] = Seen[<<s, o>>]
    THEN CHOOSE g \in DOMAIN Tier : Tier[g] = Seen[<<s, o>>] ELSE Decision[<<s, o>>]
KarmaReward(s, o) == Tier[Grade(s, o)]

Undecided == -1
Digits == 0..3

(* avg_options_taken                                                       *)
Taken(s) == {bonds.chosen[s][d] : d \in Difficulties \ {bonds.difficulty}}

(* avg_sync_tags: a position, and a digit for every position.  Decided:    *)
(* the position of the choice under the identity.  Undecided: the digits   *)
(* of the answers given on other difficulties, and a position that is 0.   *)
SyncTags(s) ==
  LET chosen == bonds.chosen[s][bonds.difficulty]
      mask == [p \in Digits |-> IF p \in Taken(s) THEN p + 1 ELSE 0]
  IN IF chosen # Undecided THEN [at |-> s, pos |-> chosen, mask |-> [p \in Digits |-> p + 1]]
     ELSE [at |-> s, pos |-> Min({p \in Digits : mask[p] = 0}), mask |-> mask]

(* UpdateAVGOptionLockState of the client: a digit at the position opens   *)
(* that one answer and sends no request; otherwise the digits are locked.  *)
Replays(t) == t.mask[t.pos] >= 1
Open(t) == IF Replays(t) THEN {t.mask[t.pos] - 1}
           ELSE Answers \ {t.mask[p] - 1 : p \in Digits}

(* stage_execute: the scene does not say which difficulty it is played on. *)
EnterStage(d) ==
  /\ screen.scene = NoScene /\ sent = <<>> /\ d # bonds.difficulty
  /\ bonds' = [bonds EXCEPT !.difficulty = d]
  /\ UNCHANGED <<screen, sent, behind, paid, taps, wishes>>

(* stage_avg_sync                                                          *)
AvgSync(s) ==
  /\ screen.scene = NoScene /\ sent = <<>>
  /\ screen' = [screen EXCEPT !.scene = SyncTags(s)]
  /\ UNCHANGED <<bonds, sent, behind, paid, taps, wishes>>

(* A tap on an answer: a replay goes on without a request.                 *)
TapAnswer(o) ==
  /\ screen.scene # NoScene /\ o \in Open(screen.scene)
  /\ IF Replays(screen.scene)
     THEN sent = <<>> /\ screen' = [screen EXCEPT !.scene = NoScene] /\ UNCHANGED sent
     ELSE /\ Len(sent) < Unread
          /\ sent' = Append(sent, [kind |-> "answer", row |-> screen.scene.at, n |-> o])
          /\ UNCHANGED screen
  /\ UNCHANGED <<bonds, behind, paid, taps, wishes>>

(* set_avg_choice: a scene is decided once on every difficulty.            *)
FirstTime(s) == bonds.chosen[s][bonds.difficulty] = Undecided

(* stage_avg_choice                                                        *)
AvgChoice(s, o) ==
  LET g == KarmaGirl(s)
  IN /\ IF FirstTime(s)
        THEN /\ bonds' = [bonds EXCEPT !.chosen[s][bonds.difficulty] = o,
                                       !.karma[g] = Climbed(@, KarmaReward(s, o))]
             /\ paid' = [paid EXCEPT ![s][<<bonds.difficulty, o>>] = @ + 1]
             /\ screen' = Register(NoScene)'
             /\ behind' = {}
        ELSE /\ UNCHANGED <<bonds, paid, behind>>
             /\ screen' = [screen EXCEPT !.scene = NoScene]
     /\ UNCHANGED <<taps, wishes>>

-----------------------------------------------------------------------------
(* Kizuna supports.                                                        *)

(* set_kizuna: kept as it is if there are too many.                        *)
Equipped(g, rows) == IF Cardinality(rows) <= SupportMost THEN rows ELSE bonds.set[g]
(* char_kizuna_set: the answer is what is stored.                          *)
KizunaSet(g, rows) ==
  /\ Wish
  /\ bonds' = [bonds EXCEPT !.set[g] = Equipped(g, rows)]
  /\ screen' = [screen EXCEPT !.set[g] = bonds'.set[g]]
  /\ UNCHANGED <<sent, behind, paid, taps>>

(* A tap on a support says which level it starts from.                     *)
TapSupport(g, r) ==
  /\ screen.lv[g][r] < LvTop /\ Len(sent) < Unread
  /\ sent' = Append(sent, [kind |-> "support", row |-> <<g, r>>, n |-> screen.lv[g][r]])
  /\ taps' = taps \cup {<<g, r, screen.lv[g][r]>>}
  /\ UNCHANGED <<bonds, screen, behind, paid, wishes>>

(* Variant: a tap from an older level rises too.                           *)
FromBelow(g, r, n) == n <= bonds.lv[g][r]

(* kizuna_level_up: only from the level the account is at.                 *)
FromHere(g, r, n) == bonds.lv[g][r] = n

(* char_kizuna_lvup: a refusal is answered with the level that is true.    *)
KizunaLvUp(g, r, n) ==
  /\ bonds' = IF FromHere(g, r, n) THEN [bonds EXCEPT !.lv[g][r] = @ + 1] ELSE bonds
  /\ screen' = [screen EXCEPT !.lv[g][r] = bonds'.lv[g][r]]
  /\ UNCHANGED <<behind, paid, taps, wishes>>

(* A connection's thread handles its requests one after the other.         *)
Handle ==
  /\ sent # <<>> /\ sent' = Tail(sent)
  /\ LET m == Head(sent)
     IN IF m.kind = "answer" THEN AvgChoice(m.row, m.n) ELSE KizunaLvUp(m.row[1], m.row[2], m.n)

(* The connection is lost with what was on its way.  The login that        *)
(* follows sends everything.                                               *)
Reenter ==
  /\ sent # <<>> \/ screen.scene # NoScene \/ behind # {}
  /\ sent' = <<>> /\ screen' = Register(NoScene) /\ behind' = {}
  /\ UNCHANGED <<bonds, paid, taps, wishes>>

-----------------------------------------------------------------------------
BondInit ==
  /\ bonds = [karma |-> [g \in Girls |-> [flv |-> 1, fxp |-> 0]],
              cast |-> StartCast,
              rank |-> 0, bag |-> [p \in Presents |-> PresentRow[p].held],
              set |-> [g \in Girls |-> {}], lv |-> [g \in Girls |-> [r \in Supports |-> 0]],
              chosen |-> [s \in Situations |-> [d \in Difficulties |-> Undecided]],
              difficulty |-> 1]
  /\ screen = Register(NoScene)
  /\ sent = <<>> /\ behind = {} /\ taps = {} /\ wishes \in {0, WishMost}
  /\ paid = [s \in Situations |-> [x \in Difficulties \X Answers |-> 0]]

Baskets == [Presents -> 0..1]

BondNext ==
  \/ \E g \in Girls : \/ \E basket \in Baskets : Give(g, basket)
                      \/ \E rows \in SUBSET Supports : KizunaSet(g, rows)
                      \/ \E r \in Supports : TapSupport(g, r)
  \/ \E u \in Copies :
       \/ LimitUp(u)
       \/ \E out \in Copies : LimitImpart(u, out)
       \/ \E pieces \in SUBSET Pieces : Dress(u, pieces)
       \/ \E e \in {[bonds.cast[u] EXCEPT !.lv = @ + 1], [bonds.cast[u] EXCEPT !.ex = @ + 1],
                    [bonds.cast[u] EXCEPT !.star = StarOf(u) + 1]} : Grow(u, e)
  \/ BookRankUp \/ SyncIdData \/ Handle \/ Reenter
  \/ \E d \in Difficulties : EnterStage(d)
  \/ \E s \in Situations : AvgSync(s)
  \/ \E o \in Answers : TapAnswer(o)

BondSpec == BondInit /\ [][BondNext]_bondVars

-----------------------------------------------------------------------------
(* Karma stops at its last rank with nothing left over, and a set of       *)
(* supports at its size.                                                   *)
BondTypeOK ==
  /\ \A g \in Girls : /\ bonds.karma[g].flv \in 1..KarmaMax
                      /\ bonds.karma[g].flv < KarmaMax
                         => bonds.karma[g].fxp \in 0..(KarmaNext[bonds.karma[g].flv] - 1)
                      /\ bonds.karma[g].flv = KarmaMax => bonds.karma[g].fxp = 0
                      /\ Cardinality(bonds.set[g]) <= SupportMost
  /\ bonds.rank \in 0..Len(LinkRow) /\ Len(sent) <= Unread

(* "The lobby Cast sheet must show the same stats the cast fights with"    *)
(* (test_lobby_sheet.py): the sheet as it was last sent, the gear deltas   *)
(* the client adds and the Soul Link rank it shows are the unit of a fight *)
(* started now, unless presents have moved the Karma since.                *)
FoughtAsShown(u) ==
  LET s == screen.sheet[u]
  IN /\ Unit(u).stat = s.stat + GearBonus(screen.worn[u], s.grown) + LinkBonus(screen.rank)
     /\ Unit(u).skills = Skills(GirlOf[u], s.rung)
FightsAsShown == BondTypeOK /\ \A u \in Copies \ behind : FoughtAsShown(u)

(* A tap that is sent twice, or again after a lost answer, counts once: a  *)
(* scene pays once on a difficulty and an answer once on all of them, a    *)
(* support rises once from a level.  And a scene always has an answer to   *)
(* tap, which pays while the scene is undecided (avg_sync_tags).           *)
TapsCountOnce ==
  /\ \A s \in Situations : \A x, y \in Difficulties \X Answers :
       /\ paid[s][x] <= 1
       /\ paid[s][x] > 0 /\ paid[s][y] > 0 /\ (x[1] = y[1] \/ x[2] = y[2]) => x = y
  /\ \A g \in Girls, r \in Supports :
       bonds.lv[g][r] <= Cardinality({t \in taps : t[1] = g /\ t[2] = r})
  /\ screen.scene # NoScene /\ sent = <<>> =>
       /\ Open(screen.scene) \cap Answers # {}
       /\ Replays(screen.scene) <=> ~FirstTime(screen.scene.at)
=============================================================================
