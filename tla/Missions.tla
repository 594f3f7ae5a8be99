------------------------------ MODULE Missions ------------------------------
(***************************************************************************)
(* What an account is owed for coming back and for what it does: the       *)
(* quests and missions, the login ladder, mail, Karma ranks and the Auto   *)
(* Play sweep (player_state/quests.py, loginbonus.py, mail.py, core.py,    *)
(* roster.py, karma.py; the login sequence and the handlers of             *)
(* titan_server.py).  One account, its file, and a process that may die    *)
(* between any two steps of a login.                                       *)
(*                                                                         *)
(* Time goes by half days: the 4AM boundary of the missions and passes and *)
(* the UTC midnight of the login ladder alternate, as they do in a zone    *)
(* where they differ.                                                      *)
(***************************************************************************)
EXTENDS Purse, Sequences, FiniteSetsExt, Functions

CONSTANTS
  Week,        \* days of a week
  Rungs,       \* the days of the login ladder
  RungItem,    \* [1..Rungs -> [item, n]]; n = 0 when the rung has no mail
  Scenes,     \* the Karma choices of the story
  SceneRow,   \* [Scenes -> [cur, n, fexp]]
  KarmaNeed,   \* [1..(MaxFlv - 1) -> Nat \ {0}]: char_flv_need_xp
  MaxFlv,      \* MAX_FLV
  RankItem,    \* [1..MaxFlv -> [item, n]]: the rewards of _unlock_type 5
  Pass, PassFloor,   \* a daily pass, DAILY_PASS_FLOOR
  Coupon,      \* AUTORUN_COUPON_ITEM
  Drop,        \* what a run of the swept stage drops
  RunTime,     \* half days a swept run takes
  Debt,        \* STARTER_DIAMONDS - STARTER_DIAMONDS_REV1
  Start,       \* the account's purse: [cur, bag, energy]
  LastTime, BootsMax, ClearsMax, SweepMax, SweepCounts   \* bounds

VARIABLES mem, disk, phase, now, boots, earned
vars == <<mem, disk, phase, now, boots, earned>>

(* One line of a reward; a line of none is no line.                        *)
Rewards == [item : Items, n : Nat]
Lines(f, i) == [d \in DOMAIN f |-> IF f[d].item = i THEN f[d].n ELSE 0]

MissionsAssumption ==
  /\ Week \in Nat \ {0} /\ Rungs \in Nat \ {0} /\ MaxFlv \in Nat \ {0} /\ KarmaNeed \in [1..(MaxFlv - 1) -> Nat \ {0}]
  /\ Pass \in Items /\ Coupon \in Items /\ Drop \in Items
  /\ RunTime \in Nat \ {0} /\ PassFloor \in Nat /\ Debt \in Nat
  /\ RungItem \in [1..Rungs -> Rewards] /\ RankItem \in [1..MaxFlv -> Rewards]
  /\ SceneRow \in [Scenes -> [cur : Currencies, n : Nat, fexp : Nat]]
  /\ Start.cur \in [Currencies -> 0..BalanceMax] /\ Start.bag \in [Items -> 0..BalanceMax]
  /\ Start.energy \in Nat /\ Pass # Coupon /\ SweepCounts \subseteq Nat \ {0}
  /\ {LastTime, BootsMax, SweepMax, ClearsMax} \subseteq Nat
ASSUME MissionsAssumption

Groups == {"daily", "weekly"}
GroupId(g) == IF g = "daily" THEN 4 ELSE 5
Missions(g) == {q \in Quests : QuestRow[q].sp /\ QuestRow[q].group = g}

(* The design rows: a mission is one of the records, and a record that     *)
(* follows a mission is of its group, and re-armed with it.                *)
DesignAssumption ==
  /\ \A q \in Quests : QuestRow[q].group # "none" => QuestRow[q].sp
  /\ \A g \in Groups : \A q \in Quests :
       QuestRow[q].sp /\ QuestRow[q].pre \in Missions(g) => q \in Missions(g)
ASSUME DesignAssumption

Day == (now + 1) \div 2         \* _daily_period
UtcDay == now \div 2
Period(g) == IF g = "daily" THEN Day ELSE Day \div Week

NoJob == [count |-> 0, start |-> 0, due |-> 0]
NewAccount ==
  LET p == FreshPurse(Start.cur, Start.bag, Start.energy)
  IN [cur |-> p.cur, bag |-> p.bag, energy |-> p.energy, gear |-> p.gear,
      casts |-> p.casts, quests |-> p.quests, sp |-> p.sp, db |-> p.db,
      rev |-> 1, passDay |-> -1, stamps |-> [g \in Groups |-> -1],
      rung |-> 0, book |-> 1, total |-> 0, lastDay |-> -1, checkin |-> 0,
      mail |-> <<>>, karma |-> [flv |-> 1, fxp |-> 0], decided |-> {}, job |-> NoJob,
      claims |-> {}]

-----------------------------------------------------------------------------
(* Mail.                                                                   *)

AddMail(a, kind, items) ==
  [a EXCEPT !.mail = Append(@, [kind |-> kind, items |-> items, read |-> FALSE])]

NoItems == [i \in Items |-> 0]

\* What is granted changes the purse of an account.
WithPurse(a, b) ==
  [a EXCEPT !.cur = b.cur, !.energy = b.energy, !.gear = b.gear, !.casts = b.casts,
            !.bag = b.bag]

Attached(a, it) ==
  WithPurse(a, FoldSet(LAMBDA i, c : IF it[i] = 0 THEN c ELSE GrantReward(c, i, it[i]),
                       a, Items))

(* claim_mail: the attachments of an unread mail, through grant_reward.    *)
ClaimMail(a, n) ==
  IF a.mail[n].read THEN a
  ELSE [Attached(a, a.mail[n].items) EXCEPT !.mail[n].read = TRUE]

-----------------------------------------------------------------------------
(* The steps of a login, in the order of the connection loop.              *)

(* _refill_passes: a top-up to the floor once a period, never a reduction. *)
RefillPasses(a) ==
  IF a.passDay = Day THEN a
  ELSE [a EXCEPT !.passDay = Day,
                 !.bag[Pass] = IF @ < PassFloor THEN PassFloor ELSE @]

(* Every box of the bag, listed before the first is opened.                *)
RescueAll(a) == WithPurse(a, FoldSet(LAMBDA i, c : OpenOne(c, i), a, Stuck(a)))

(* Variant: what the first revision took is paid back at every login.      *)
MigrateAgain(a) == AddCurrency([a EXCEPT !.rev = 2], "cash", Debt)

(* migrate_starting_balances, for an account of the first revision.        *)
MigrateBalances(a) ==
  IF a.rev >= 2 THEN a
  ELSE [a EXCEPT !.rev = 2, !.cur["cash"] = @ + Debt]

(* reset_periodic_missions: a group is re-armed as a whole, at a login.    *)
Due(a) == {g \in Groups : a.stamps[g] # Period(g)}
Rearm(a) ==
  [a EXCEPT !.stamps = [g \in Groups |-> Period(g)],
            !.sp = [q \in Quests |->
                      IF \E g \in Due(a) : q \in Missions(g) THEN NothingDone ELSE @[q]]]

(* advance_login_bonus: one rung per UTC day, its reward by mail.          *)
Climb(a) ==
  LET wrap == a.rung + 1 > Rungs
      day == IF wrap THEN 1 ELSE a.rung + 1
      climbed == [a EXCEPT !.rung = day, !.book = IF wrap THEN @ + 1 ELSE @,
                           !.checkin = day, !.total = @ + 1, !.lastDay = UtcDay]
      r == RungItem[day]
  IN IF a.lastDay = UtcDay THEN a
     ELSE Reach(IF r.n = 0 THEN climbed
                ELSE AddMail(climbed, "ladder", [NoItems EXCEPT ![r.item] = r.n]),
                "days", AnyValue, a.total + 1)

(* Every step of the login saves what it changed; only the ladder's save   *)
(* depends on a mail having been written.                                  *)
Step(from, to, a, saved) ==
  /\ phase = from /\ phase' = to
  /\ mem' = a
  /\ disk' = IF saved THEN a ELSE disk
  /\ UNCHANGED <<now, boots, earned>>

Load ==
  /\ phase = "off" /\ boots < BootsMax
  /\ boots' = boots + 1
  /\ phase' = "loaded"
  /\ mem' = RescueAll(RefillPasses(disk))
  /\ disk' = mem'
  /\ UNCHANGED <<now, earned>>

Migrate == Step("loaded", "migrated", MigrateBalances(mem), mem.rev < 2)
RearmMissions == Step("migrated", "armed", Rearm(mem), Rearm(mem).sp # mem.sp)
CreditLogin == Step("armed", "credited", Count(mem, "login", AnyValue, 1),
                    Moved("login", AnyValue) # {})
AdvanceLogin == Step("credited", "on", Climb(mem), Len(Climb(mem).mail) > Len(mem.mail))

(* The process dies, or the connection is lost.                            *)
Crash ==
  /\ phase # "off" /\ phase' = "off"
  /\ mem' = disk
  /\ UNCHANGED <<disk, now, boots, earned>>

-----------------------------------------------------------------------------
(* A handler that saves before it answers.                                 *)
Handler(a) ==
  /\ phase = "on" /\ mem' = a /\ disk' = a
  /\ UNCHANGED <<phase, now, boots>>

Claimable(a, q) ==
  /\ QuestRow[q].served /\ Completed(a, QuestRow[q].pre)
  /\ IF QuestRow[q].sp THEN a.sp[q].cnt >= QuestRow[q].need
                       ELSE a.db[CaseKey(q)] >= QuestRow[q].need

Paid(a, q) == IF QuestRow[q].count = 0 THEN a
              ELSE GrantGoods(a, QuestRow[q].item, QuestRow[q].count)

(* bump_mission_claimed, which credits the missions that name the group.   *)
(* "claims" is history: a mission, and the windows it was claimed in.      *)
Credit(a, q) ==
  IF QuestRow[q].group = "none" THEN a
  ELSE Count([a EXCEPT !.claims = @ \cup {[quest |-> q, at |-> a.stamps]}],
             "claimed", GroupId(QuestRow[q].group), 1)

(* Variant: every press of the button credits the mission of its group.    *)
CompleteCredited(a, q) ==
  Paid(IF QuestRow[q].sp
         THEN Credit([a EXCEPT !.sp[q].done = TRUE], q)
         ELSE [a EXCEPT !.quests = @ \cup {q}], q)

(* complete_quests: the claim is taken at its word and paid each time it   *)
(* arrives; the mission of the group is credited for the first one.        *)
Complete(a, q) ==
  LET done == [a EXCEPT !.sp[q] = [cnt |-> IF @.cnt < QuestRow[q].need
                                             THEN QuestRow[q].need ELSE @.cnt,
                                   done |-> TRUE]]
  IN Paid(CASE ~QuestRow[q].sp -> [a EXCEPT !.quests = @ \cup {q}]
            [] QuestRow[q].sp /\ a.sp[q].done -> done
            [] OTHER -> Credit(done, q), q)

(* A claim the client shows, or one that is sent a second time.            *)
Claim(q) ==
  Claimable(mem, q) /\ Handler(Complete(mem, q)) /\ UNCHANGED earned
ReceiveMail(n) == Handler(ClaimMail(mem, n)) /\ UNCHANGED earned

(* The ladder's panel shows the check-in once.                             *)
SyncLadder ==
  /\ mem.checkin # 0
  /\ Handler([mem EXCEPT !.checkin = 0]) /\ UNCHANGED earned

(* A stage cleared, as settled by BattleSettlement.                        *)
ClearStage ==
  /\ \E q \in Quests : /\ QuestRow[q].case = "clear" /\ Completed(mem, QuestRow[q].pre)
                        /\ ~mem.sp[q].done /\ mem.sp[q].cnt < ClearsMax
  /\ Handler(Count(mem, "clear", AnyValue, 1)) /\ UNCHANGED earned

-----------------------------------------------------------------------------
(* Karma.                                                                  *)

(* karma_rank_rewards: the items of the ranks above `from` up to `to`.     *)
RankRewards(from, to) ==
  [i \in Items |-> SumFunctionOnSet(Lines(RankItem, i), (from + 1)..to)]

(* grant_karma: one mail holds the rewards of every rank that was crossed. *)
GrantKarma(a, fexp) ==
  LET have == a.karma.fxp + fexp
      Need(to) == SumFunctionOnSet(KarmaNeed, a.karma.flv..(to - 1))
      lv == Max({l \in a.karma.flv..MaxFlv : Need(l) <= have})
      fxp == IF lv = MaxFlv THEN 0 ELSE have - Need(lv)
      owed == RankRewards(a.karma.flv, lv)
      b == [a EXCEPT !.karma = [flv |-> lv, fxp |-> fxp]]
      c == IF owed = NoItems THEN b ELSE AddMail(b, "karma", owed)
  IN IF lv = a.karma.flv THEN b ELSE Count(c, "karma", AnyValue, lv - a.karma.flv)

(* stage_avg_choice: only the first decision of a story scene pays.        *)
Choose(c) ==
  LET first == [mem EXCEPT !.decided = @ \cup {c}]
      paid == AddCurrency(first, SceneRow[c].cur, SceneRow[c].n)
  IN /\ Handler(IF c \in mem.decided THEN mem
                ELSE IF SceneRow[c].fexp > 0 THEN GrantKarma(paid, SceneRow[c].fexp)
                ELSE paid)
     /\ UNCHANGED earned

-----------------------------------------------------------------------------
(* The sweep.                                                              *)

Elapsed(job, t) ==
  IF job.due = job.start THEN job.count
  ELSE LET done == (job.count * (t - job.start)) \div (job.due - job.start)
       IN IF done > job.count THEN job.count ELSE done

(* autorun_start: passes are taken for the runs they cover, a coupon per   *)
(* run makes the sweep due at once.                                        *)
StartedSweep(a, n, express) ==
  LET onPasses == IF a.bag[Pass] < n THEN a.bag[Pass] ELSE n
      b == IF express THEN [a EXCEPT !.bag[Coupon] = @ - n] ELSE a
  IN [b EXCEPT !.bag[Pass] = @ - onPasses,
               !.job = [count |-> n, start |-> now,
                        due |-> IF express THEN now ELSE now + RunTime * n]]

(* autorun_cancel and autorun_payout of the runs that elapsed.             *)
Stopped(a) ==
  [a EXCEPT !.bag[Drop] = Capped(@ + Elapsed(a.job, now), 0), !.job = NoJob]

(* autorun_settle.                                                         *)
Settled(a) == IF a.job # NoJob /\ now >= a.job.due THEN Stopped(a) ELSE a

StartSweep(n, express) ==
  /\ mem.job = NoJob /\ (express => mem.bag[Coupon] >= n)
  /\ earned + n <= SweepMax
  /\ Handler(Settled(StartedSweep(mem, n, express)))
  /\ earned' = IF express THEN earned + n ELSE earned
StopSweep ==
  mem.job # NoJob /\ Handler(Stopped(mem)) /\ UNCHANGED earned
SyncSweep ==
  /\ phase = "on"
  /\ mem' = Settled(mem)
  /\ disk' = IF mem' # mem THEN mem' ELSE disk
  /\ UNCHANGED <<phase, now, boots, earned>>

(* Half a day goes by, and with it the runs of a sweep that is under way.  *)
Tick ==
  /\ now < LastTime
  /\ now' = now + 1
  /\ earned' = IF disk.job = NoJob THEN earned
               ELSE earned + Elapsed(disk.job, now + 1) - Elapsed(disk.job, now)
  /\ UNCHANGED <<mem, disk, phase, boots>>

Init ==
  /\ mem = NewAccount /\ disk = NewAccount /\ phase = "off"
  /\ now = 0 /\ boots = 0 /\ earned = 0

Next ==
  \/ Load \/ Migrate \/ RearmMissions \/ CreditLogin \/ AdvanceLogin \/ Crash
  \/ \E q \in Quests : Claim(q)
  \/ \E n \in DOMAIN mem.mail : ReceiveMail(n)
  \/ SyncLadder \/ ClearStage
  \/ \E c \in Scenes : Choose(c)
  \/ \E n \in SweepCounts, express \in BOOLEAN : StartSweep(n, express)
  \/ StopSweep \/ SyncSweep \/ Tick

Spec == Init /\ [][Next]_vars

-----------------------------------------------------------------------------
(* The balances of an account, its counters and its mailbox, in memory and *)
(* in the file, are what grant_reward, bump_quest_counter and add_mail     *)
(* leave there.                                                            *)
AccountOK(a) ==
  /\ PurseOK(a)
  /\ a.rev \in 0..2 /\ a.karma \in [flv : 1..MaxFlv, fxp : Nat]
  /\ a.rung \in 0..Rungs /\ a.book \in Nat \ {0} /\ a.total \in Nat
  /\ a.decided \subseteq Scenes /\ a.job.due >= a.job.start
Both(P(_)) == \A a \in {mem, disk} : P(a)
TypeOK ==
  /\ Both(AccountOK)
  /\ phase \in {"off", "loaded", "migrated", "armed", "credited", "on"}
  /\ now \in 0..LastTime /\ boots \in 0..BootsMax /\ earned \in Nat

(* A mission "complete n daily missions", of the week or of any group,     *)
(* counts the missions of the group it names that were claimed in its own  *)
(* window: each once in each window of theirs, however often its claim     *)
(* arrives (complete_quests, bump_mission_claimed,                         *)
(* reset_periodic_missions).                                               *)
Counted(a, m, g) ==
  {c \in a.claims : /\ GroupId(QuestRow[c.quest].group) = QuestRow[m].value
                    /\ c.at[g] = a.stamps[g]}
MetaCounts(a) ==
  \A g \in Groups : \A m \in Missions(g) :
    /\ QuestRow[m].case = "claimed" /\ QuestRow[m].served /\ QuestRow[m].pre = NoQuest
    /\ ~a.sp[m].done
    => a.sp[m].cnt = Cardinality(Counted(a, m, g))
MetaCountsClaims == Both(MetaCounts)

(* A record of a chain has progress only when its predecessor was claimed  *)
(* (bump_quest_counter): the client is never shown a step it cannot take.  *)
ChainOrder ==
  Both(LAMBDA a :
    \A q \in Quests : QuestRow[q].sp /\ (a.sp[q].cnt > 0 \/ a.sp[q].done) =>
                        Completed(a, QuestRow[q].pre))

(* One rung per UTC day, in order, over crashes in the middle of a login:  *)
(* the rung and the book say how many days the account came, never more    *)
(* than there were (advance_login_bonus).                                  *)
LadderInOrder ==
  Both(LAMBDA a : a.total = (a.book - 1) * Rungs + a.rung /\ a.total <= UtcDay + 1)

(* Every rung climbed and every Karma rank reached was mailed, once: the   *)
(* rewards in the mailbox are those of the rungs and of the ranks.         *)
OfKind(mail, kind, i) ==
  [n \in DOMAIN mail |-> IF mail[n].kind = kind THEN mail[n].items[i] ELSE 0]
Mailed(a, kind, i) == SumFunctionOnSet(OfKind(a.mail, kind, i), DOMAIN a.mail)
RungOn(d) == RungItem[((d - 1) % Rungs) + 1]
OnDay(i, days) == [d \in days |-> IF RungOn(d).item = i THEN RungOn(d).n ELSE 0]
RungsOwed(a, i) == SumFunctionOnSet(OnDay(i, 1..a.total), 1..a.total)
RanksOwed(a, i) == SumFunctionOnSet(Lines(RankItem, i), 2..a.karma.flv)
MailedOnce ==
  Both(LAMBDA a : \A i \in Items :
         /\ Mailed(a, "ladder", i) = RungsOwed(a, i)
         /\ Mailed(a, "karma", i) = RanksOwed(a, i))

(* The rewards of mail, which come from nowhere else.                      *)
MailOnly == {RungItem[d].item : d \in 1..Rungs} \cup {RankItem[l].item : l \in 2..MaxFlv}
OfRead(mail, i) == [n \in DOMAIN mail |-> IF mail[n].read THEN mail[n].items[i] ELSE 0]
Received(a, i) == SumFunctionOnSet(OfRead(a.mail, i), DOMAIN a.mail)

(* A mail pays once: what an account holds of what only mail brings is in  *)
(* the mails it has read (claim_mail).  A box among them was filed in the  *)
(* bag and is opened, once, by the next load (_rescue_bagged_rewards): the *)
(* pieces rolled and the boxes yet to be opened are the boxes received.    *)
Boxed(f) == SumFunctionOnSet(f, Boxes)
MailPaidOnce ==
  Both(LAMBDA a :
    /\ \A i \in MailOnly \ Boxes : a.bag[i] = Received(a, i)
    /\ a.gear + Boxed(a.bag) = Boxed([i \in Boxes |-> Received(a, i)]))

(* A sweep pays the runs that really went by: none it did not make, and    *)
(* all of them once it is over (autorun_settle, autorun_runs_elapsed).     *)
SweepPaidOnce ==
  /\ mem.bag[Drop] <= earned
  /\ mem.job = NoJob => mem.bag[Drop] = earned

(* What the first revision of the balances took is paid back once, though  *)
(* the login that pays it may be cut short anywhere.                       *)
DebtPaidOnce ==
  Both(LAMBDA a : a.cur["cash"] = Start.cur["cash"] + (IF a.rev = 2 THEN Debt ELSE 0))

(* Where an account can be read for what it was paid: what mail brings,    *)
(* what a sweep drops and the diamonds come from nowhere else, a box holds *)
(* one piece, and no balance is near BALANCE_MAX.                          *)
RewardsApart ==
  LET owned == MailOnly \cup Boxes \cup {Drop}
      days == 0..((LastTime \div 2) + 1)
  IN /\ Drop \notin MailOnly \cup Boxes /\ owned \cap {Pass, Coupon} = {}
     /\ \A i \in owned : Start.bag[i] = 0
     /\ \A i \in Items :
          /\ Worth[i].cur["cash"] = 0 /\ Worth[i].cur["paid"] = 0
          /\ Worth[i].gear = IF i \in Boxes THEN 1 ELSE 0
          /\ \A j \in owned : Worth[i].bag[j] = IF i = j /\ i \notin Boxes THEN 1 ELSE 0
     /\ \A q \in Quests : QuestRow[q].count > 0 => QuestRow[q].item \notin owned
     /\ \A c \in Scenes : SceneRow[c].cur = "coin"
     /\ Start.cur["cash"] + Start.cur["paid"] + Debt <= BalanceMax
     /\ SweepMax <= BalanceMax /\ PassFloor <= BalanceMax
     /\ \A i \in Items : \A d \in days :
          SumFunctionOnSet(OnDay(i, 1..d), 1..d)
            + SumFunctionOnSet(Lines(RankItem, i), 2..MaxFlv) <= BalanceMax

(* Missions, their chains, the login ladder and what is mailed for it go   *)
(* on step by step ...                                                     *)
StepByStep == MetaCountsClaims /\ ChainOrder /\ LadderInOrder /\ MailedOnce

(* ... and what the mail, a sweep or a repair owes is paid once.           *)
PaidOnce == TypeOK /\ MailPaidOnce /\ SweepPaidOnce /\ DebtPaidOnce
=============================================================================
