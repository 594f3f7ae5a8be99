---------------------------- MODULE GuildWeekly ----------------------------
(***************************************************************************)
(* The Guild Weekly (player_state/challenge.py and its handlers in         *)
(* titan_server.py): a raid of three tries a day, whose best score is paid *)
(* once the day is over, by whichever request first notices that it is.    *)
(*                                                                         *)
(* Two clocks decide that: the WEEK and the boss of the day change at      *)
(* midnight (challenge_key, challenge_weekday), the DAY of the scores and  *)
(* of the passes at 4AM (_daily_period).  Time is a count of half days:    *)
(* 2d is the part of day d before 4AM and 2d + 1 the rest of it; day 0 is  *)
(* a Monday.                                                               *)
(*                                                                         *)
(* Left out: the ladders' items (a payment is the score it pays, if that   *)
(* reaches the lowest rung), and the guild's contribution and top scores.  *)
(***************************************************************************)
EXTENDS Integers, Sequences

CONSTANTS
  DaysAWeek,     \* days from one Monday to the next
  MaxTimes,      \* CHALLENGE_MAX_TIMES
  Damages,       \* what a fight may deal
  Difficulties,  \* difficulties of the bosses
  LowestRung,    \* a lower score is paid nothing
  Latest,        \* bound on the clock
  MaxLosses      \* bound on lost connections

WeeklyAssumption ==
  /\ DaysAWeek \in Nat \ {0} /\ MaxTimes \in Nat
  /\ Damages \subseteq Nat /\ Difficulties \subseteq Nat \ {0}
  /\ LowestRung \in Nat \ {0} /\ Latest \in Nat \ {0} /\ MaxLosses \in Nat
ASSUME WeeklyAssumption

VARIABLES
  now,     \* the clock
  disk,    \* the account file
  mem,     \* the account dict of the connection
  at,      \* where the connection's thread is
  told,    \* how often the client was told of the payment of a day
  losses   \* lost connections so far

vars == <<now, disk, mem, at, told, losses>>

Week(t) == (t \div 2) \div DaysAWeek
Weekday(t) == ((t \div 2) % DaysAWeek) + 1
Period(t) == (t - 1) \div 2

Periods == 0..Period(Latest)
Weeks == 0..Week(Latest)
Never == -1

(* The score of a try: the damage and the bonus of its difficulty.         *)
Total(damage, difficulty) == damage + (damage * (difficulty - 1)) \div 4

(* The part of an account the raid touches: the "challenge" record, the    *)
(* announcements queued for the client (by their day), the passes, the     *)
(* login's marker of its own top-up (pass_refill_day) and the snapshot of  *)
(* a raid in progress.  The rest is a ledger the code does not keep, by    *)
(* day and week: tries started, best score, what was paid, and the days    *)
(* the login topped the passes up.                                         *)
Fresh ==
  [key |-> Never, day |-> Never, refilled |-> Never, best |-> 0,
   group |-> 0, pending |-> 0, queue |-> <<>>, passes |-> 0, battle |-> 0,
   passDay |-> Never, topped |-> {},
   started |-> [s \in Periods \X Weeks |-> 0],
   banked |-> [s \in Periods \X Weeks |-> 0],
   paid |-> [p \in Periods |-> 0]]

-----------------------------------------------------------------------------
(* The roll of the record, which every request of the raid begins with.    *)

(* settle_day: the best score of the record's day is paid and announced.   *)
Settled(a) ==
  IF a.day = Never \/ a.best < LowestRung THEN a
  ELSE [a EXCEPT !.paid[a.day] = @ + a.best, !.queue = Append(@, a.day)]

(* A new week forgets the record.                                          *)
WeekRolled(a, t) ==
  IF a.key = Week(t) THEN a
  ELSE [a EXCEPT !.key = Week(t), !.day = Never, !.refilled = Never,
                 !.best = 0, !.group = 0, !.pending = 0]

(* Variant: the scores are wiped before they are settled.                  *)
DayRolledWiped(a, t) ==
  IF a.day = Period(t) THEN a
  ELSE [Settled([a EXCEPT !.best = 0]) EXCEPT
          !.day = Period(t), !.best = 0, !.refilled = Never,
          !.group = Weekday(t)]

(* Variant: the best score survives the day it was made on.                *)
DayRolledBest(a, t) ==
  IF a.day = Period(t) THEN a
  ELSE [Settled(a) EXCEPT !.day = Period(t), !.refilled = Never,
                          !.group = Weekday(t)]

(* A new day settles the old one, then wipes it.                           *)
DayRolled(a, t) ==
  IF a.day = Period(t) THEN a
  ELSE [Settled(a) EXCEPT !.day = Period(t), !.best = 0, !.refilled = Never,
                          !.group = Weekday(t)]

Full(passes) == IF passes < MaxTimes THEN MaxTimes ELSE passes

(* challenge._refill_passes, once for every value of the record's marker.  *)
Refilled(a, t) ==
  IF a.refilled = Period(t) THEN a
  ELSE [a EXCEPT !.refilled = Period(t), !.passes = Full(@)]

(* core._refill_passes tops the same item up to the same floor, once for   *)
(* every value of a marker of its own, when the account is loaded.         *)
LoginRefilled(a, t) ==
  IF a.passDay = Period(t) THEN a
  ELSE [a EXCEPT !.passDay = Period(t), !.passes = Full(@),
                 !.topped = @ \cup {Period(t)}]

(* _challenge: the record, rolled to the current week and day.             *)
Rolled(a, t) == Refilled(DayRolled(WeekRolled(a, t), t), t)

-----------------------------------------------------------------------------
(* Requests.                                                               *)

Save(account) == mem' = account /\ disk' = account
Slot(t) == <<Period(t), Week(t)>>

(* challenge_sync: the record is rolled and saved before anything is sent. *)
Sync ==
  /\ at = "lobby"
  /\ Save(Rolled(mem, now))
  /\ at' = "syncing"
  /\ UNCHANGED <<now, told, losses>>

(* Variant: the announcement is sent with its removal still unsaved.       *)
AnnouncePeeked ==
  LET a == Rolled(mem, now)
  IN /\ at = "syncing"
     /\ a.queue # <<>>
     /\ mem' = [a EXCEPT !.queue = Tail(@)]
     /\ told' = [told EXCEPT ![Head(a.queue)] = @ + 1]
     /\ at' = "lobby"
     /\ UNCHANGED <<now, disk, losses>>

(* The panel is sent - challenge_stages_json rolls the record again - and  *)
(* one announcement is taken off the queue, saved, and about to be sent.   *)
Announce ==
  LET a == Rolled(mem, now)
  IN /\ at = "syncing"
     /\ a.queue # <<>>
     /\ Save([a EXCEPT !.queue = Tail(@)])
     /\ \/ /\ told' = [told EXCEPT ![Head(a.queue)] = @ + 1]
           /\ at' = "lobby" /\ UNCHANGED losses
        \/ /\ losses < MaxLosses /\ losses' = losses + 1
           /\ at' = "off" /\ UNCHANGED told
     /\ UNCHANGED now

(* The same with nothing to announce: the second roll stays unsaved.       *)
Quiet ==
  LET a == Rolled(mem, now)
  IN /\ at = "syncing"
     /\ a.queue = <<>>
     /\ mem' = a
     /\ at' = "lobby"
     /\ UNCHANGED <<now, disk, told, losses>>

(* Requests that only look: the rankings and a refused fight roll the      *)
(* record in memory and save nothing.                                      *)
Look ==
  /\ at = "lobby"
  /\ mem' = Rolled(mem, now)
  /\ UNCHANGED <<now, disk, at, told, losses>>

(* Any other request of the lobby that saves, saves what was rolled too.   *)
Keep ==
  /\ at = "lobby"
  /\ disk' = mem
  /\ UNCHANGED <<now, mem, at, told, losses>>

Charged(a, t, difficulty) ==
  [a EXCEPT !.passes = @ - 1, !.pending = difficulty,
            !.started[Slot(t)] = @ + 1]

(* Variant: the pass is charged to the day before, then the day rolls.     *)
StartUnrolled(difficulty) ==
  /\ at = "lobby"
  /\ mem.passes > 0
  /\ Save(Rolled(Charged(mem, now, difficulty), now))
  /\ at' = "starting"
  /\ UNCHANGED <<now, told, losses>>

(* challenge_fight: the day is rolled, a pass of the new day is charged,   *)
(* and the account saved; the Battle does not exist yet.                   *)
Start(difficulty) ==
  LET a == Rolled(mem, now)
  IN /\ at = "lobby"
     /\ a.passes > 0
     /\ Save(Charged(a, now, difficulty))
     /\ at' = "starting"
     /\ UNCHANGED <<now, told, losses>>

(* The Battle is built and its snapshot saved.                             *)
Begin ==
  /\ at = "starting"
  /\ Save([mem EXCEPT !.battle = 1])
  /\ at' = "fight"
  /\ UNCHANGED <<now, told, losses>>

Retreat ==
  /\ at = "fight"
  /\ Save([mem EXCEPT !.battle = 0])
  /\ at' = "lobby"
  /\ UNCHANGED <<now, told, losses>>

(* finish_challenge: the try counts for the day it ENDS on, at the         *)
(* difficulty left by the last start in this record, or the easiest.       *)
Finished(a, t, damage) ==
  LET score == Total(damage, IF a.pending = 0 THEN 1 ELSE a.pending)
      Better(old) == IF score > old THEN score ELSE old
  IN [a EXCEPT !.pending = 0, !.best = Better(@),
               !.banked[Slot(t)] = Better(@)]

(* BattleEnd, won or lost: the score is banked and saved with the snapshot *)
(* of the fight still in the account.                                      *)
Finish(damage) ==
  /\ at = "fight"
  /\ Save(Finished(Rolled(mem, now), now, damage))
  /\ at' = "ending"
  /\ UNCHANGED <<now, told, losses>>

(* Back in handle(), the snapshot is dropped.                              *)
FinishDone ==
  /\ at = "ending"
  /\ Save([mem EXCEPT !.battle = 0])
  /\ at' = "lobby"
  /\ UNCHANGED <<now, told, losses>>

(* A lost connection or a killed server.                                   *)
Lose ==
  /\ at # "off" /\ losses < MaxLosses
  /\ losses' = losses + 1
  /\ at' = "off"
  /\ UNCHANGED <<now, disk, mem, told>>

(* The LOGIN after it: load tops the passes up and saves if the day is new *)
(* to its marker, and a fight that is on disk is offered again, or dropped *)
(* when it cannot be rebuilt.                                              *)
Login ==
  LET a == LoginRefilled(disk, now)
  IN /\ at = "off"
     /\ \/ Save(a) /\ at' = IF a.battle = 1 THEN "fight" ELSE "lobby"
        \/ a.battle = 1 /\ Save([a EXCEPT !.battle = 0]) /\ at' = "lobby"
     /\ UNCHANGED <<now, told, losses>>

Tick ==
  /\ now < Latest
  /\ now' = now + 1
  /\ UNCHANGED <<disk, mem, at, told, losses>>

-----------------------------------------------------------------------------
(* A new account: the connection that made it has not been through the     *)
(* top-up of load, which is for accounts that have a file already.         *)
Init ==
  /\ now = 1
  /\ disk = Fresh /\ mem = Fresh
  /\ at \in {"off", "lobby"}
  /\ told = [p \in Periods |-> 0]
  /\ losses = 0

Next ==
  \/ Sync \/ Announce \/ Quiet \/ Look \/ Keep
  \/ \E d \in Difficulties : Start(d)
  \/ Begin \/ Retreat
  \/ \E h \in Damages : Finish(h)
  \/ FinishDone \/ Lose \/ Login \/ Tick

Spec == Init /\ [][Next]_vars

-----------------------------------------------------------------------------
(* Properties.                                                             *)

Account ==
  [key : Weeks \cup {Never}, day : Periods \cup {Never},
   refilled : Periods \cup {Never}, best : Nat,
   group : 0..DaysAWeek, pending : Difficulties \cup {0},
   queue : Seq(Periods), passes : 0..MaxTimes, battle : {0, 1},
   passDay : Periods \cup {Never}, topped : SUBSET Periods,
   started : [Periods \X Weeks -> Nat],
   banked : [Periods \X Weeks -> Nat],
   paid : [Periods -> Nat]]

(* Every variable stays in its range; there are never more passes than the *)
(* day's allowance, and none is overdrawn.                                 *)
TypeOK ==
  /\ now \in 1..Latest
  /\ disk \in Account /\ mem \in Account
  /\ at \in {"off", "lobby", "syncing", "starting", "fight", "ending"}
  /\ told \in [Periods -> Nat]
  /\ losses \in 0..MaxLosses

(* A day is paid at most once, and exactly a best score made on that day:  *)
(* nothing of an earlier day and nothing a second time, whenever the roll  *)
(* is noticed and however often a connection is lost.                      *)
PaidOnceAsEarned ==
  \A p \in Periods :
    disk.paid[p] # 0 => \E w \in Weeks : disk.paid[p] = disk.banked[<<p, w>>]

(* The two top-ups are no infinite supply: however the roll is noticed and *)
(* however often the player logs in, one week starts on one day at most    *)
(* the allowance, and one allowance more if a login of that day topped the *)
(* passes up.                                                              *)
TriesWithinTopUps ==
  \A s \in Periods \X Weeks :
    disk.started[s] <= IF s[1] \in disk.topped THEN 2 * MaxTimes ELSE MaxTimes

(* challenge.py: "the top-up happens once per period whenever it is first  *)
(* noticed", so one week starts on one day at most the allowance.          *)
TriesBounded ==
  \A s \in Periods \X Weeks : disk.started[s] <= MaxTimes

(* Within one week no day goes unpaid: a score banked since Monday is paid *)
(* as soon as the record has moved past its day.                           *)
SettledWithinWeek ==
  \A p \in Periods :
    LET best == mem.banked[<<p, mem.key>>]
    IN (/\ mem.key # Never /\ p < mem.day /\ best >= LowestRung)
         => mem.paid[p] = best

(* The popup is a one-time announcement of what is in the bag already:     *)
(* never shown twice, never shown for a day whose payment can still be     *)
(* lost.                                                                   *)
ToldOnce ==
  \A p \in Periods : told[p] <= 1 /\ (told[p] = 1 => disk.paid[p] # 0)

(* challenge_sync: "A day that ended while the account was away has        *)
(* already been PAID by the rollover".                                     *)
EveryDaySettled ==
  \A s \in Periods \X Weeks :
    (s[1] < mem.day /\ mem.banked[s] >= LowestRung) => mem.paid[s[1]] # 0

=============================================================================
