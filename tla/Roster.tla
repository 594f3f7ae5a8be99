------------------------------- MODULE Roster -------------------------------
(***************************************************************************)
(* The casts of an account, how they grow and who stands in a formation    *)
(* (player_state/roster.py, charprogress.py, soulbook.py, core.py and the  *)
(* Char handlers of titan_server.py), with the copy the client keeps.      *)
(*                                                                         *)
(* A cast is found under a uid that add_char takes from the size of the    *)
(* roster, so the uid of a cast that is gone is used again; a formation    *)
(* names casts by uid.  Casts are eaten, sold and taken apart.  "serial",  *)
(* "chosen", "fed" and "free" are history: the cast itself, the cast the   *)
(* player put in a slot, the skill levels ever handed to the roster, and   *)
(* that a request was served after the tutorial's last quest was claimed.  *)
(*                                                                         *)
(* Prices are one coin or one gem each, and what a sale pays is left out.  *)
(***************************************************************************)
EXTENDS Integers, Sequences, FiniteSetsExt, SequencesExt, Functions

CONSTANTS
  Chars,       \* character ids of the design data
  CharRow,     \* [Chars -> CharRows]
  StarterTeam, \* sequence of ids: state["team"]
  TutorialCasts, TutorialLv, TutorialLimit,   \* the boosted starters
  Forms, FormSlots,          \* formations and the size of one
  LvPerStar, LvPerEx,        \* 10 and 5 in char_max_lv
  MaxStar, MaxEx, MaxPlus, MaxUltra, UltraStep,
  MaxBook, MaxTotal,         \* MAX_LIMIT_BOOK, MAX_TOTAL_LIMIT
  MinInherit,                \* MIN_INHERIT_RARITY
  Groups, ImpartLimit,       \* alignment groups, DEFAULT_IMPART_LIMIT
  Skins,                     \* CHAR_SOUL_TYPES
  Coins, Gems,               \* what the account starts with
  CastsMax,    \* bound: casts ever made
  EditsMax     \* bound: locks, unlocked skins and won fights

VARIABLES roster, forms, skins, coins, gems, impart, tutorial, shown,
          serving, made, edits, chosen, fed, free
acct == <<roster, forms, skins, coins, gems, impart, tutorial>>
ghost == <<made, edits, chosen, fed>>
vars == <<acct, shown, serving, ghost, free>>

CharRows == [rarity : Nat, star : Nat, bookside : BOOLEAN, group : Groups \cup {0},
             job : Nat]
Empty == 0
NormalSkin == 0
Places == Forms \X (1..FormSlots)

RosterAssumption ==
  /\ CharRow \in [Chars -> CharRows]
  /\ StarterTeam \in Seq(Chars) /\ TutorialCasts \subseteq Chars
  /\ 0 \notin Groups /\ NormalSkin \notin Skins
  /\ {TutorialLv, TutorialLimit, FormSlots, LvPerStar, LvPerEx, MaxStar, MaxEx, MaxPlus,
      MaxUltra, UltraStep, MaxBook, MaxTotal, MinInherit, ImpartLimit, Coins, Gems,
      CastsMax, EditsMax} \subseteq Nat
  /\ MaxBook <= MaxTotal /\ TutorialLimit <= MaxTotal /\ LvPerStar > 0 /\ TutorialLv > 0
  /\ \A c \in Chars : CharRow[c].star \in 1..MaxStar
  /\ \A c \in TutorialCasts : TutorialLv <= LvPerStar * CharRow[c].star
ASSUME RosterAssumption

Lesser(a, b) == IF a <= b THEN a ELSE b
Greater(a, b) == IF a >= b THEN a ELSE b
(* The sum of a function into the naturals, counted out.                   *)
Total(f) == Cardinality(UNION {{x} \X (1..f[x]) : x \in DOMAIN f})

-----------------------------------------------------------------------------
(* Casts.                                                                  *)

(* char_max_lv                                                             *)
MaxLv(e) == e.plus + LvPerStar * e.star + LvPerEx * e.ex

NewCast(c, star, serial) ==
  [id |-> c, serial |-> serial, lv |-> 1, star |-> star, ex |-> 0, plus |-> 0, ultra |-> 0,
   book |-> 0, char |-> 0, skin |-> NormalSkin, lock |-> FALSE]

(* The first number from the size of the roster on that is free.           *)
NextUid == Min({u \in (Cardinality(DOMAIN roster) + 1)..(CastsMax + 1) : u \notin DOMAIN roster})

InParty == {forms[p] : p \in Places} \ {Empty}
(* What the player meant with a slot ends when the slot is emptied.       *)
Forget == chosen' = [p \in Places |-> IF forms'[p] = Empty THEN 0 ELSE chosen[p]]
Without(f, uids) == [p \in Places |-> IF f[p] \in uids THEN Empty ELSE f[p]]
Food(uid, mats) == (mats \ {uid}) \cap DOMAIN roster

-----------------------------------------------------------------------------
(* What the client does with an answer.                                    *)
All == [roster |-> roster, forms |-> forms, skins |-> skins]
(* 528: every cast, every formation and the table of the characters.       *)
Whole == shown' = All'
(* receivedOneCharAndRemove: one cast, and the casts that were eaten.      *)
OneAndRemove(v, uid, gone) ==
  [v EXCEPT !.roster = [u \in (DOMAIN @ \cup {uid}) \ gone |->
                          IF u = uid THEN roster'[uid] ELSE @[u]]]
One(uid) == shown' = OneAndRemove(shown, uid, {})

Edit == edits < EditsMax /\ edits' = edits + 1
Pay(c, g) == coins >= c /\ gems >= g /\ coins' = coins - c /\ gems' = gems - g
Grows(uid, e) == roster' = [roster EXCEPT ![uid] = e]
Eats(uid, e, gone) == roster' = [u \in DOMAIN roster \ gone |-> IF u = uid THEN e ELSE roster[u]]

-----------------------------------------------------------------------------
(* A draw, a purchase, a quest or a fight adds a cast.                     *)
AddChar(c) ==
  /\ made < CastsMax /\ made' = made + 1
  /\ roster' = [u \in DOMAIN roster \cup {NextUid} |->
                  IF u = NextUid THEN NewCast(c, CharRow[c].star, made') ELSE roster[u]]
  /\ UNCHANGED <<forms, skins, coins, gems, impart, tutorial, edits, chosen, fed>>
  /\ Whole

(* Variant: the slots of the formations are left as they are.              *)
SellLeaving(uids) ==
  /\ uids \subseteq DOMAIN roster /\ uids # {}
  /\ roster' = Restrict(roster, DOMAIN roster \ uids)
  /\ UNCHANGED forms
  /\ UNCHANGED <<skins, coins, gems, impart, tutorial, made, edits, fed>>
  /\ Forget /\ Whole

(* sell_chars: neither a lock nor a formation keeps a cast.                *)
Sell(uids) ==
  /\ uids \subseteq DOMAIN roster /\ uids # {}
  /\ roster' = Restrict(roster, DOMAIN roster \ uids)
  /\ forms' = Without(forms, uids)
  /\ UNCHANGED <<skins, coins, gems, impart, tutorial, made, edits, fed>>
  /\ Forget /\ Whole

(* decompose_chars: what is locked or stands in a formation is passed over.*)
Unbound(uids) == {u \in uids \cap DOMAIN roster : u \notin InParty /\ ~roster[u].lock}
Decompose(uids) ==
  LET done == Unbound(uids)
  IN /\ done # {}
     /\ roster' = Restrict(roster, DOMAIN roster \ done)
     /\ UNCHANGED <<forms, skins, coins, gems, impart, tutorial, ghost>>
     /\ Whole

(* toggle_char_lock: the server owns the decision.                         *)
Toggled(e) == [e EXCEPT !.lock = ~@]
Lock(uid) ==
  /\ Edit
  /\ uid \in DOMAIN roster
  /\ Grows(uid, Toggled(roster[uid]))
  /\ shown' = [shown EXCEPT !.roster[uid].lock = roster'[uid].lock]
  /\ UNCHANGED <<forms, skins, coins, gems, impart, tutorial, made, chosen, fed>>

(* set_formation: the slots the client sends, and nobody in the others.    *)
SetFormation(f, sent) ==
  LET slot == [i \in 1..FormSlots |->
                 IF i <= Len(sent) /\ sent[i] \in DOMAIN roster THEN sent[i] ELSE Empty]
  IN /\ forms' = [p \in Places |-> IF p[1] = f THEN slot[p[2]] ELSE forms[p]]
     /\ chosen' = [p \in Places |-> IF p[1] # f THEN chosen[p]
                                    ELSE IF slot[p[2]] = Empty THEN 0
                                    ELSE shown.roster[slot[p[2]]].serial]
     /\ shown' = [shown EXCEPT !.forms = [p \in Places |-> IF p[1] = f THEN forms'[p] ELSE @[p]]]
     /\ UNCHANGED <<roster, skins, coins, gems, impart, tutorial, made, edits, fed>>

(* remove_from_all_formations                                              *)
RemoveFromAll(uid) ==
  /\ forms' = Without(forms, {uid})
  /\ Forget
  /\ shown' = [shown EXCEPT !.forms = forms']
  /\ UNCHANGED <<roster, skins, coins, gems, impart, tutorial, made, edits, fed>>

-----------------------------------------------------------------------------
(* Growing.                                                                *)

(* level_up_char: books are spent even if the bar is full.                 *)
LevelUp(uid, n) ==
  LET e == roster[uid]
  IN /\ Pay(1, 0)
     /\ Grows(uid, [e EXCEPT !.lv = IF @ < MaxLv(e) THEN Lesser(@ + n, MaxLv(e)) ELSE @])
     /\ One(uid)
     /\ UNCHANGED <<forms, skins, impart, tutorial, ghost>>

(* grant_battle_xp: everyone in the formation that fought.                 *)
BattleXp(f) ==
  LET up(u) == \E i \in 1..FormSlots : forms[<<f, i>>] = u
  IN /\ Edit
     /\ roster' = [u \in DOMAIN roster |->
                     IF up(u) /\ roster[u].lv < MaxLv(roster[u])
                       THEN [roster[u] EXCEPT !.lv = @ + 1] ELSE roster[u]]
     /\ shown' = [shown EXCEPT !.roster = [u \in DOMAIN @ |->
                     IF u \in DOMAIN roster /\ up(u) THEN roster'[u] ELSE @[u]]]
     /\ UNCHANGED <<forms, skins, coins, gems, impart, tutorial, made, chosen, fed>>

(* rank_up_char, and super_rank_up_char once the stars are full.           *)
RankUp(uid) ==
  /\ roster[uid].star < MaxStar /\ Pay(1, 1)
  /\ Grows(uid, [roster[uid] EXCEPT !.star = @ + 1]) /\ One(uid)
  /\ UNCHANGED <<forms, skins, impart, tutorial, ghost>>
SuperStarred(e) == [e EXCEPT !.star = MaxStar, !.ex = @ + 1]
SuperRankUp(uid) ==
  /\ roster[uid].star >= MaxStar /\ roster[uid].ex < MaxEx /\ Pay(1, 0)
  /\ Grows(uid, SuperStarred(roster[uid])) /\ One(uid)
  /\ UNCHANGED <<forms, skins, impart, tutorial, ghost>>

(* transcend_char: the same job counts for more.                           *)
Transcend(uid, mats) ==
  LET food == Food(uid, mats)
      alike == {m \in food : CharRow[roster[m].id].job = CharRow[roster[uid].id].job}
      points == Cardinality(food) + Cardinality(alike)
  IN /\ food # {} /\ food \cap InParty = {} /\ Pay(1, 0)
     /\ Eats(uid, [roster[uid] EXCEPT !.plus = Lesser(@ + points, MaxPlus)], food)
     /\ UNCHANGED <<forms, skins, impart, tutorial, ghost>>
     /\ Whole

(* The answer of the agent: the cast, and the uids it has eaten.           *)
Served(uid, gone) == shown' = OneAndRemove(shown, uid, gone)

(* ultra_transcend: eats what is the same character and not in a party,    *)
(* and answers with the one cast only.                                     *)
Duplicates(uid, mats) ==
  {m \in Food(uid, mats) : roster[m].id = roster[uid].id /\ m \notin InParty}
UltraTranscend(uid, mats) ==
  LET food == Duplicates(uid, mats)
  IN /\ CharRow[roster[uid].id].rarity = 5 /\ roster[uid].ultra < MaxUltra
     /\ food # {} /\ Pay(1, 0)
     /\ Eats(uid, [roster[uid] EXCEPT
                     !.ultra = Lesser(@ + UltraStep * Cardinality(food), MaxUltra)], food)
     /\ Served(uid, food)
     /\ UNCHANGED <<forms, skins, impart, tutorial, ghost>>

(* What the book side leaves of the total.                                 *)
CharRoom(book) == MaxTotal - book

(* skill_up: a material gives its own levels and one more on the side its  *)
(* type feeds; the book side is clamped first, the cast side to the rest.  *)
SkillUp(uid, mats) ==
  LET food == Food(uid, mats)
      e == roster[uid]
      side(b) == {m \in food : CharRow[roster[m].id].bookside = b}
      books == Total([m \in food |-> roster[m].book])
      chars == Total([m \in food |-> roster[m].char])
      book == Lesser(e.book + books + Cardinality(side(TRUE)), MaxBook)
      char == Lesser(e.char + chars + Cardinality(side(FALSE)), CharRoom(book))
  IN /\ food # {} /\ food \cap InParty = {} /\ e.book + e.char < MaxTotal /\ Pay(1, 0)
     /\ Eats(uid, [e EXCEPT !.book = book, !.char = Greater(char, 0)], food)
     /\ fed' = fed + Cardinality(food)
     /\ UNCHANGED <<forms, skins, impart, tutorial, made, edits, chosen>>
     /\ Whole

(* Variant: the mentor keeps its books.                                    *)
GivenCharOnly(e) == [e EXCEPT !.char = Greater(@ - 1, 0)]

(* What one level costs the mentor: the cast side goes first.              *)
Given(e) == IF e.char > 0 THEN [e EXCEPT !.char = @ - 1] ELSE [e EXCEPT !.book = @ - 1]

(* inherit_char: a level of the mentor becomes a book of the apprentice.   *)
Inherit(in, out) ==
  LET a == roster[in]
      m == roster[out]
      g == CharRow[a.id].group
  IN /\ in # out /\ out \notin InParty
     /\ CharRow[a.id].rarity = CharRow[m.id].rarity /\ CharRow[a.id].rarity >= MinInherit
     /\ g \in Groups /\ impart[g] > 0
     /\ m.book + m.char > 0 /\ a.book < MaxBook /\ a.book + a.char < MaxTotal
     /\ Pay(0, 1)
     /\ impart' = [impart EXCEPT ![g] = @ - 1]
     /\ roster' = [roster EXCEPT ![in].book = @ + 1, ![out] = Given(m)]
     /\ UNCHANGED <<forms, skins, tutorial, ghost>>
     /\ Whole

-----------------------------------------------------------------------------
(* Skins belong to the character, the choice to the cast.                  *)
UnlockSkin(uid, s) ==
  /\ Edit
  /\ skins' = [skins EXCEPT ![roster[uid].id] = @ \cup {s}]
  /\ shown' = [shown EXCEPT !.skins = skins']
  /\ UNCHANGED <<roster, forms, coins, gems, impart, tutorial, made, chosen, fed>>
SetSkin(uid, s) ==
  /\ s = NormalSkin \/ s \in skins[roster[uid].id]
  /\ Grows(uid, [roster[uid] EXCEPT !.skin = s])
  /\ shown' = [shown EXCEPT !.roster[uid].skin = s]
  /\ UNCHANGED <<forms, skins, coins, gems, impart, tutorial, ghost>>

-----------------------------------------------------------------------------
(* maybe_reset_tutorial_casts: held at the boost while the tutorial runs,  *)
(* made ordinary when it is over, and never touched again after that.      *)
Boost(e) == [e EXCEPT !.lv = TutorialLv, !.char = TutorialLimit, !.book = 0]
Plain(e) == [e EXCEPT !.lv = 1, !.plus = 0, !.char = 0, !.book = 0, !.ex = 0]
Settled(r, t) ==
  [u \in DOMAIN r |->
     IF r[u].id \notin TutorialCasts \/ t = "stamped" THEN r[u]
     ELSE IF t = "over" /\ r[u].char >= TutorialLimit THEN Plain(r[u])
     ELSE IF t = "runs" /\ r[u].char < TutorialLimit THEN Boost(r[u])
     ELSE r[u]]

(* Variant: the stamp is forgotten.                                        *)
StampForgotten(t) == t

Stamp(t) == IF t = "over" THEN "stamped" ELSE t

Levels(r) == Total([u \in DOMAIN r |-> r[u].book + r[u].char])

(* _seed_roster: an account without a cast gets its starter team.          *)
Starter(i, serial) ==
  LET e == NewCast(StarterTeam[i], CharRow[StarterTeam[i]].star, serial)
  IN IF e.id \in TutorialCasts THEN Boost(e) ELSE e
Seeded(r) == IF DOMAIN r # {} THEN r
             ELSE [i \in DOMAIN StarterTeam |-> Starter(i, made + i)]

(* A login, also after a connection lost in the middle of a claim: what is *)
(* on disk is what the last save left.                                     *)
Login ==
  LET r == Seeded(roster)
  IN /\ DOMAIN roster = {} => made + Len(StarterTeam) <= CastsMax
     /\ made' = IF DOMAIN roster = {} THEN made + Len(StarterTeam) ELSE made
     /\ roster' = Settled(r, tutorial) /\ tutorial' = Stamp(tutorial)
     /\ fed' = fed + Greater(Levels(r) - Levels(roster), 0) + Greater(Levels(roster') - Levels(r), 0)
     /\ serving' = "lobby"
     /\ UNCHANGED <<forms, skins, coins, gems, impart, edits, chosen, free>>
     /\ Whole

(* The last tutorial quest is claimed and saved; the starters come after.  *)
Claim ==
  /\ serving = "lobby" /\ tutorial = "runs"
  /\ tutorial' = "over" /\ serving' = "claim"
  /\ UNCHANGED <<roster, forms, skins, coins, gems, impart, shown, ghost, free>>

(* The rest of that handler, or the claim of any other quest.              *)
Reset ==
  /\ roster' = Settled(roster, tutorial) /\ tutorial' = Stamp(tutorial)
  /\ fed' = fed + Greater(Levels(roster') - Levels(roster), 0)
  /\ serving' = "lobby"
  /\ UNCHANGED <<forms, skins, coins, gems, impart, made, edits, chosen, free>>
  /\ Whole

Init ==
  /\ made = Len(StarterTeam) /\ edits = 0
  /\ roster = [i \in DOMAIN StarterTeam |-> Starter(i, i)]
  /\ forms = [p \in Places |-> IF p[2] \in DOMAIN StarterTeam THEN p[2] ELSE Empty]
  /\ chosen = forms
  /\ skins = [c \in Chars |-> {}] /\ coins = Coins /\ gems = Gems
  /\ impart = [g \in Groups |-> ImpartLimit] /\ tutorial = "runs"
  /\ shown = All /\ fed = Levels(roster) /\ serving = "lobby" /\ free = FALSE

Teams == {s \in SeqOf(DOMAIN shown.roster, FormSlots) : IsInjective(s)}

Request ==
  \/ \E c \in Chars : AddChar(c)
  \/ \E uids \in SUBSET DOMAIN shown.roster : Sell(uids) \/ Decompose(uids)
  \/ \E f \in Forms : BattleXp(f) \/ \E sent \in Teams : SetFormation(f, sent)
  \/ \E u \in DOMAIN shown.roster :
       \/ Lock(u) \/ RemoveFromAll(u) \/ LevelUp(u, 1) \/ RankUp(u) \/ SuperRankUp(u)
       \/ \E mats \in SUBSET DOMAIN shown.roster :
            Transcend(u, mats) \/ UltraTranscend(u, mats) \/ SkillUp(u, mats)
       \/ \E out \in DOMAIN shown.roster : Inherit(u, out)
       \/ \E s \in Skins : UnlockSkin(u, s)
       \/ \E s \in Skins \cup {NormalSkin} : SetSkin(u, s)

(* The thread that answers a claim reads no other request meanwhile.       *)
Serve ==
  /\ serving = "lobby" /\ Request
  /\ free' = (free \/ tutorial # "runs") /\ UNCHANGED serving

Next == Serve \/ Claim \/ Reset \/ Login

Spec == Init /\ [][Next]_vars

-----------------------------------------------------------------------------
(* Nothing grows past its cap, whatever a cast was fed, taught or given,   *)
(* and every slot names a cast that is there.                              *)
CastOK(e) ==
  /\ e.star \in 1..MaxStar /\ e.ex \in 0..MaxEx /\ e.plus \in 0..MaxPlus
  /\ e.ultra \in 0..MaxUltra /\ e.lv \in 1..MaxLv(e)
  /\ e.book \in 0..MaxBook /\ e.char >= 0 /\ e.book + e.char <= MaxTotal
  /\ e.skin = NormalSkin \/ e.skin \in skins[e.id]
TypeOK ==
  /\ \A u \in DOMAIN roster : CastOK(roster[u])
  /\ \A p \in Places : forms[p] \in DOMAIN roster \cup {Empty}
  /\ coins \in Nat /\ gems \in Nat /\ impart \in [Groups -> 0..ImpartLimit]

(* In a formation stands the cast the player put there, though uids are    *)
(* used again: who leaves the roster leaves every formation, or is not     *)
(* allowed to leave (sell_chars, transcend_char, skill_up and the rest).   *)
PartyIsChosen ==
  \A p \in Places : forms[p] \in DOMAIN roster => roster[forms[p]].serial = chosen[p]

(* Skill levels are neither made nor doubled: all that the casts have was  *)
(* fed to one of them or came with a starter (inherit_char, skill_up).     *)
LevelsAreFed == Levels(roster) <= fed

(* The starters' reset takes nothing the player has made since the claim:  *)
(* once a request was served after it, whatever claims, crashes and logins *)
(* follow, no cast that stays loses a level, a star or a rank, and skill   *)
(* levels only by teaching (maybe_reset_tutorial_casts and its stamp,      *)
(* skill_up's clamps, inherit_char).                                       *)
NoWorse(e, f) ==
  /\ f.lv >= e.lv /\ f.star >= e.star /\ f.ex >= e.ex /\ f.plus >= e.plus
  /\ f.ultra >= e.ultra
GrownIsKept ==
  [][free => \A u \in DOMAIN roster \cap DOMAIN roster' :
               /\ NoWorse(roster[u], roster'[u])
               /\ impart' = impart =>
                    roster'[u].book + roster'[u].char >= roster[u].book + roster[u].char]_vars

(* After every answer the client shows the casts and formations that the   *)
(* server keeps, though most answers carry one cast only.                  *)
ListAgrees == shown = All

(* Nobody is named who is gone or another: not in a party, not on the      *)
(* client's screen.                                                        *)
NamesAreLive == TypeOK /\ PartyIsChosen /\ ListAgrees
=============================================================================
